------------------------------ MODULE ThumbPool ------------------------------
(***************************************************************************)
(* The thumbnail half of one philemon backend process: the read loop's map *)
(* of asked rows (thumbreq.rs), the bounded job queue and its workers      *)
(* (thumbs.rs), the channel the results come back on (events.rs) and the   *)
(* bounded drain that ends the process (run.rs).                           *)
(*                                                                         *)
(* Three parties run concurrently: the client, which may send any request  *)
(* at any time; the workers, which pop and finish jobs; and the loop, the  *)
(* only thread that touches listing, asked and outstanding. Each handler   *)
(* takes the queue's lock once, so a handler is one action.                *)
(*                                                                         *)
(* A job is its path. The generation of the listing it was submitted for   *)
(* is kept beside it for the properties only: no guard reads it except the *)
(* bound MaxListings. Rows are numbered from 1; NoRow marks a path that is *)
(* not in the map.                                                         *)
(***************************************************************************)
EXTENDS Integers, Sequences, FiniteSets

CONSTANTS
  Media,        (* paths a thumbnailer declares                            *)
  Plain,        (* every other path: directories, undeclared types         *)
  Workers,      (* THUMB_WORKERS threads                                   *)
  NoJob,        (* what an idle worker holds                               *)
  MaxQueue,     (* MAX_QUEUE                                               *)
  Listings,     (* the row orders list, listpaths, search and sort produce *)
  MaxListings   (* bound: how many times the listing may be superseded     *)

Job == [path : Media, gen : Nat]

ASSUME PoolAssumption ==
  /\ Media \cap Plain = {}
  /\ IsFiniteSet(Workers)
  /\ NoJob \notin Job
  /\ MaxQueue \in Nat \ {0}
  /\ Listings \subseteq Seq(Media \cup Plain)
  /\ <<>> \in Listings
  /\ MaxListings \in Nat

VARIABLES
  listing,      (* st.listing: the path each row names                     *)
  asked,        (* st.asked: the row each mapped path will be answered for *)
  outstanding,  (* st.outstanding                                          *)
  queue,        (* the pool's VecDeque                                     *)
  running,      (* the job inside each worker                              *)
  done,         (* results sent and not yet handled by the loop            *)
  phase,        (* serving, draining, closed                               *)
  gen,          (* how many listings have been superseded                  *)
  waiting,      (* the client: rows it asked for and still waits on        *)
  out           (* the thumbed lines the last step wrote                   *)

vars == <<listing, asked, outstanding, queue, running, done, phase, gen,
          waiting, out>>

NoRow == 0

\* Rust's saturating_sub on usize.
SatSub(a, b) == IF a >= b THEN a - b ELSE 0

JobPaths(q) == {q[i].path : i \in DOMAIN q}

Unmapped(m, paths) == [p \in Media |-> IF p \in paths THEN NoRow ELSE m[p]]

\* One thumbed line: the row it names, and the path and listing of its job.
Line(row, path, g) == [row |-> row, path |-> path, gen |-> g]

\* Slip: the rows given up are never told.
LinesForNone(m, paths, g) == {}

\* Slip: a row is named by its neighbour's index.
LinesForNext(m, paths, g) ==
  {Line(m[p] + 1, p, g) : p \in {q \in paths : m[q] # NoRow}}

\* A line for every mapped path of a set.
LinesFor(m, paths, g) == {Line(m[p], p, g) : p \in {q \in paths : m[q] # NoRow}}

RowsOf(lines) == {a.row : a \in lines}

Init ==
  /\ listing = <<>>
  /\ asked = [p \in Media |-> NoRow]
  /\ outstanding = 0
  /\ queue = <<>>
  /\ running = [w \in Workers |-> NoJob]
  /\ done = <<>>
  /\ phase = "serving"
  /\ gen = 0
  /\ waiting = {}
  /\ out = {}

-----------------------------------------------------------------------------
(* The read loop, serving.                                                 *)

\* Slip: the queue goes and the count does not.
ForgetRowsUncounted ==
  /\ queue' = <<>>
  /\ asked' = [p \in Media |-> NoRow]
  /\ UNCHANGED outstanding

\* A new row order invalidates every index, so the queue and the map go.
ForgetRows ==
  /\ outstanding' = SatSub(outstanding, Len(queue))
  /\ queue' = <<>>
  /\ asked' = [p \in Media |-> NoRow]

\* list, listpaths, search, sort, and a walk whose rank reordered its rows.
\* Opening a listing clears the client's map with it.
Relist(l) ==
  /\ phase = "serving"
  /\ gen < MaxListings
  /\ listing' = l
  /\ gen' = gen + 1
  /\ ForgetRows
  /\ waiting' = {}
  /\ out' = {}
  /\ UNCHANGED <<running, done, phase>>

\* A walk in progress appends a match; the rows above it keep their index.
SearchMatch(e) ==
  /\ phase = "serving"
  /\ Append(listing, e) \in Listings
  /\ listing' = Append(listing, e)
  /\ out' = {}
  /\ UNCHANGED <<asked, outstanding, queue, running, done, phase, gen, waiting>>

\* thumb, for a row answered on the spot: undeclared, or found in the cache,
\* whose content is the environment's. A mapped path stays mapped.
AnswerNow(row) ==
  /\ phase = "serving"
  /\ out' = {Line(row, listing[row], gen)}
  /\ waiting' = waiting \ {row}
  /\ UNCHANGED <<listing, asked, outstanding, queue, running, done, phase, gen>>

\* How many of the oldest jobs submit drops to make room for one more.
Overflow == IF Len(queue) < MaxQueue THEN 0 ELSE Len(queue) - MaxQueue + 1

\* thumb, for a cache miss whose path is not mapped: map it, submit it, and
\* answer the rows of the jobs the pool dropped to make room.
QueueRow(row) ==
  LET path    == listing[row]
      mapped  == [asked EXCEPT ![path] = row]
      dropped == JobPaths(SubSeq(queue, 1, Overflow))
      lines   == LinesFor(mapped, dropped, gen)
  IN  /\ phase = "serving"
      /\ path \in Media
      /\ asked[path] = NoRow
      /\ queue' = Append(SubSeq(queue, Overflow + 1, Len(queue)),
                         [path |-> path, gen |-> gen])
      /\ outstanding' = SatSub(outstanding + 1, Overflow)
      /\ asked' = Unmapped(mapped, dropped)
      /\ out' = lines
      /\ waiting' = (waiting \cup {row}) \ RowsOf(lines)
      /\ UNCHANGED <<listing, running, done, phase, gen>>

\* thumb, for a path that already has a job: nothing is queued and nothing
\* is said, whatever row the request named.
AlreadyAsked(row) ==
  /\ phase = "serving"
  /\ listing[row] \in Media
  /\ asked[listing[row]] # NoRow
  /\ waiting' = waiting \cup {row}
  /\ out' = {}
  /\ UNCHANGED <<listing, asked, outstanding, queue, running, done, phase, gen>>

Thumb(row) == AnswerNow(row) \/ QueueRow(row) \/ AlreadyAsked(row)

\* The increasing enumerations of a finite set of indices (there is one).
Ordered(S) ==
  {at \in [1..Cardinality(S) -> S] :
     /\ \A i, j \in 1..Cardinality(S) : i < j => at[i] < at[j]
     /\ \A k \in S : \E i \in 1..Cardinality(S) : at[i] = k}

OthersIn(q, path) == {i \in DOMAIN q : q[i].path # path}

Picked(q, at) == [i \in DOMAIN at |-> q[at[i]]]

\* Pool::cancel: the queued jobs of one path go, the others keep their order.
CancelPath(path) ==
  \E at \in Ordered(OthersIn(queue, path)) :
    /\ queue' = Picked(queue, at)
    /\ outstanding' = SatSub(outstanding, Len(queue) - Len(queue'))

\* thumbcancel naming a row. The client stops waiting whatever the backend
\* does; the backend forgets the row only if it dropped a queued job of it.
CancelRow(row) ==
  /\ phase = "serving"
  /\ waiting' = waiting \ {row}
  /\ out' = {}
  /\ \/ \E path \in Media :
          /\ asked[path] = row
          /\ path \in JobPaths(queue)
          /\ CancelPath(path)
          /\ asked' = Unmapped(asked, {path})
     \/ /\ \A path \in Media : asked[path] = row => path \notin JobPaths(queue)
        /\ UNCHANGED <<queue, outstanding, asked>>
  /\ UNCHANGED <<listing, running, done, phase, gen>>

\* Slip: the jobs go, their map entries stay.
CancelAllMapped ==
  /\ phase = "serving"
  /\ outstanding' = SatSub(outstanding, Len(queue))
  /\ queue' = <<>>
  /\ waiting' = {}
  /\ out' = {}
  /\ UNCHANGED <<listing, asked, running, done, phase, gen>>

\* thumbcancel with no rows: everything queued goes, and its map entries too.
CancelAll ==
  /\ phase = "serving"
  /\ outstanding' = SatSub(outstanding, Len(queue))
  /\ asked' = Unmapped(asked, JobPaths(queue))
  /\ queue' = <<>>
  /\ waiting' = {}
  /\ out' = {}
  /\ UNCHANGED <<listing, running, done, phase, gen>>

\* A result reached the head of the loop's channel. It counts as reported
\* whether or not its path is still mapped.
ReportDone ==
  /\ \/ phase = "serving"
     \/ phase = "draining" /\ outstanding > 0
  /\ done # <<>>
  /\ LET d == Head(done)
         lines == IF asked[d.path] = NoRow
                    THEN {} ELSE {Line(asked[d.path], d.path, d.gen)}
     IN  /\ done' = Tail(done)
         /\ outstanding' = SatSub(outstanding, 1)
         /\ asked' = Unmapped(asked, {d.path})
         /\ out' = lines
         /\ waiting' = waiting \ RowsOf(lines)
  /\ UNCHANGED <<listing, queue, running, phase, gen>>

-----------------------------------------------------------------------------
(* The workers, and the forwarder that moves their results to the loop.    *)

WorkerTake(w) ==
  /\ phase # "closed"
  /\ running[w] = NoJob
  /\ queue # <<>>
  /\ running' = [running EXCEPT ![w] = Head(queue)]
  /\ queue' = Tail(queue)
  /\ out' = {}
  /\ UNCHANGED <<listing, asked, outstanding, done, phase, gen, waiting>>

\* run_one returned, by success, failure or its own 20 s deadline.
WorkerFinish(w) ==
  /\ phase # "closed"
  /\ running[w] # NoJob
  /\ done' = Append(done, running[w])
  /\ running' = [running EXCEPT ![w] = NoJob]
  /\ out' = {}
  /\ UNCHANGED <<listing, asked, outstanding, queue, phase, gen, waiting>>

-----------------------------------------------------------------------------
(* Shutdown: quit, a closed stdin or an undecodable one.                   *)

Quit ==
  /\ phase = "serving"
  /\ phase' = "draining"
  /\ out' = {}
  /\ UNCHANGED <<listing, asked, outstanding, queue, running, done, gen, waiting>>

\* The loop's exit: the queue goes, and every row still mapped is answered.
Close ==
  /\ phase' = "closed"
  /\ queue' = <<>>
  /\ out' = LinesFor(asked, Media, gen)
  /\ asked' = [p \in Media |-> NoRow]
  /\ waiting' = waiting \ RowsOf(out')
  /\ UNCHANGED <<listing, outstanding, running, done, gen>>

DrainDone == phase = "draining" /\ outstanding = 0 /\ Close

\* DRAIN_LIMIT ran out with work still counted.
DrainDeadline == phase = "draining" /\ outstanding > 0 /\ Close

-----------------------------------------------------------------------------
Client ==
  \/ \E l \in Listings : Relist(l)
  \/ \E e \in Media \cup Plain : SearchMatch(e)
  \/ \E row \in DOMAIN listing : Thumb(row)
  \/ \E row \in waiting : CancelRow(row)
  \/ CancelAll
  \/ Quit

Worker(w) == WorkerTake(w) \/ WorkerFinish(w)

Drain == DrainDone \/ DrainDeadline

Next ==
  \/ Client
  \/ ReportDone
  \/ \E w \in Workers : Worker(w)
  \/ Drain

Spec == Init /\ [][Next]_vars

\* Every worker and the loop keep running; a job ends by its own deadline.
\* The client owes nothing, and DRAIN_LIMIT is not relied on.
Fairness ==
  /\ \A w \in Workers : WF_vars(Worker(w))
  /\ WF_vars(ReportDone)
  /\ WF_vars(DrainDone)

FairSpec == Spec /\ Fairness

-----------------------------------------------------------------------------
\* The type invariant: the queue never passes MAX_QUEUE, and every variable
\* stays in its range.
TypeOK ==
  /\ listing \in Listings
  /\ asked \in [Media -> Nat]
  /\ outstanding \in Nat
  /\ queue \in Seq(Job) /\ Len(queue) <= MaxQueue
  /\ running \in [Workers -> Job \cup {NoJob}]
  /\ done \in Seq(Job)
  /\ phase \in {"serving", "draining", "closed"}
  /\ gen \in Nat
  /\ waiting \subseteq Nat
  /\ \A a \in out : a.row \in Nat

Busy == {w \in Workers : running[w] # NoJob}

\* outstanding is exactly the jobs queued, running or on their way back. The
\* loop keeps it by adding and subtracting at six places across five
\* handlers, never by counting; a drain that trusts a count one too low exits
\* under a running worker, and one too high waits out the whole deadline.
OutstandingExact ==
  phase # "closed" => outstanding = Len(queue) + Cardinality(Busy) + Len(done)

\* Every mapped path has a job somewhere that will still report, so no row
\* the map holds can be left unanswered (thumbreq.rs queue_row, cancel_row).
AskedHasJob ==
  \A p \in Media : asked[p] # NoRow =>
    \/ p \in JobPaths(queue)
    \/ \E w \in Busy : running[w].path = p
    \/ p \in JobPaths(done)

\* The row a path is mapped to still names that path: no handler changes the
\* row order and leaves an index of the old one in the map (forget_rows).
AskedNamesListing ==
  \A p \in Media : asked[p] # NoRow =>
    asked[p] \in DOMAIN listing /\ listing[asked[p]] = p

\* Whatever thread a result came from and however late, the line the loop
\* writes names a row that shows the job's own path.
AnswersNameTheirRow ==
  \A a \in out : a.row \in DOMAIN listing /\ listing[a.row] = a.path

\* A row the client waits on is a row the loop will answer (protocol.md
\* "thumbed": exactly one line unless cancelled or superseded). Needs rows of
\* distinct paths (Distinct).
WaitingIsAsked == \A r \in waiting : asked[listing[r]] = r

\* No listing names a path twice: true of list and search, and of listpaths
\* when the client names each path once.
Distinct ==
  \A l \in Listings : \A i, j \in DOMAIN l : l[i] = l[j] => i = j

\* A drain that stops because nothing is outstanding leaves no queued job, no
\* worker inside a child and no row to answer empty (run.rs drain).
DrainComplete ==
  phase = "draining" /\ outstanding = 0 =>
    /\ queue = <<>> /\ Busy = {} /\ done = <<>>
    /\ \A p \in Media : asked[p] = NoRow

\* The client's view of the whole pool: the mapped rows are the open ones.
Promise ==
  INSTANCE RowPromise WITH
    Rows <- UNION {DOMAIN l : l \in Listings},
    open <- {asked[p] : p \in {q \in Media : asked[q] # NoRow}},
    told <- RowsOf(out),
    live <- phase # "closed"

\* The pool, with its queue, workers and late results, keeps the promise
\* protocol.md makes a client of thumb: no row is answered twice for one
\* taking-on, none after a cancel or a new listing, none after the close.
KeepsPromise == Promise!Spec

\* A mapped row is eventually answered, cancelled or superseded.
RowSettles == \A p \in Media : (asked[p] # NoRow) ~> (asked[p] = NoRow)

\* Asked to stop, the process stops because its count runs down, without
\* waiting out DRAIN_LIMIT: a count left too high would never reach zero.
Shutdown == (phase = "draining") ~> (phase = "closed")
=============================================================================
