-------------------------------- MODULE Jobs --------------------------------
(***************************************************************************)
(* The work threads do beside the read loop with boxed tools: compress,    *)
(* extract and convert (archiveops.rs, archivework.rs), and the meta line  *)
(* of a row, which lists an archive, probes a media file or counts lines   *)
(* (metareq.rs, mediaprobe.rs, linecount.rs). A tool may do anything,      *)
(* stall included; a watchdog thread bounds some of them.                  *)
(***************************************************************************)
EXTENDS ArchiveIndex

CONSTANTS
  Threads,     (* the threads, which are also the ids of their requests    *)
  Scenarios,   (* what each thread is asked, of which archive and text     *)
               (* file (TRUE for a newline), on a box with which tools     *)
  Leftovers,   (* work directories a killed run left, by name              *)
  MaxAttempts, (* WORK_ATTEMPTS                                            *)
  LineBudget,  (* LINE_BUDGET                                              *)
  Chunk,       (* what one read gives at most                              *)
  ClosesEarly, (* tools that may close their output and then stay          *)
  MaxMeddles   (* bound: what other programs do to the destination         *)

ASSUME JobsAssumption ==
  /\ MaxAttempts \in Nat \ {0} /\ LineBudget \in Nat \ {0} /\ Chunk \in Nat \ {0}
  /\ ClosesEarly \subseteq {"list", "media"} /\ MaxMeddles \in Nat
  /\ Leftovers \subseteq {"compress", "extract", "convert"} \X Nat /\ "old" \notin Threads
  /\ \A s \in Scenarios : s.index \in Seq(Line) /\ s.text \in Seq(BOOLEAN)

VARIABLES
  tools, index, text, (* the box, the archive and the text file            *)
  dest,          (* what stands at the destination: <<>> or <<who>>        *)
  node,          (* what the text row's path names: "file" or "fifo"       *)
  work,          (* work directories on disk: tag, number and owner        *)
  seq,           (* WORK_SEQ                                               *)
  job,           (* each thread                                            *)
  child,         (* the tool each thread runs                              *)
  watch,         (* the watchdog of each                                   *)
  late,          (* whether the limit of that tool has passed              *)
  said,          (* the answer of each thread: <<>> or <<line>>            *)
  published,     (* threads whose result was renamed into place            *)
  hits,          (* what the signals met, for the properties               *)
  meddles        (* what other programs did so far                         *)

vars == <<tools, index, text, dest, node, work, seq, job, child, watch, late, said, published,
          hits, meddles>>
fixed == <<tools, index, text, meddles>>

-----------------------------------------------------------------------------
NoChild == [st |-> "none", open |-> FALSE, sent |-> 0, ok |-> FALSE]
Started == [st |-> "runs", open |-> TRUE, sent |-> 0, ok |-> FALSE]

Init ==
  /\ \E s \in Scenarios :
       /\ tools = s.tools /\ index = s.index /\ text = s.text
       /\ job = [j \in Threads |->
                [req |-> s.asked[j], pc |-> "asked", tries |-> 0, dir |-> <<>>, staged |-> {},
                 got |-> 0, done |-> FALSE, failed |-> FALSE, verified |-> TRUE,
                 listed |-> NoContents, wide |-> FALSE, cut |-> FALSE]]
  /\ dest = <<>> /\ node = "file" /\ seq = 0
  /\ work = {[tag |-> n[1], n |-> n[2], owner |-> "old"] : n \in Leftovers}
  /\ child = [j \in Threads |-> NoChild]
  /\ watch = [j \in Threads |-> "off"]
  /\ late = [j \in Threads |-> FALSE]
  /\ said = [j \in Threads |-> <<>>]
  /\ published = {} /\ hits = {} /\ meddles = 0

At(j, pc) == job[j].pc = pc
Goes(j, pc) == job' = [job EXCEPT ![j].pc = pc]
Kind(j) == job[j].req.kind
Wants(j, what) == what \in job[j].req.wants
FileKinds == {"compress", "extract", "convert"}
Answers(j, line) == said' = [said EXCEPT ![j] = <<line>>]

-----------------------------------------------------------------------------
(* Compress, extract and convert.                                          *)

\* archivedone and convertdone.
Fails(j) == Answers(j, [ok |-> FALSE, verified |-> TRUE]) /\ Goes(j, "ended")

Refuse(j) == Fails(j) /\ UNCHANGED <<dest, node, work, seq, child, watch, late, published, hits>>

Files(j) == UNCHANGED <<dest, node, watch, late, published, hits>>

\* A selection across directories, an input that cannot be resolved, and a
\* destination that stands are refused before anything is written.
BeginFile(j) ==
  /\ At(j, "asked") /\ Kind(j) \in FileKinds
  /\ LET refused == \/ dest # <<>>
                    \/ Kind(j) = "compress" /\ SplitPaths(job[j].req.paths) = <<>>
     IN \/ refused /\ Refuse(j)
        \/ ~refused /\ Kind(j) = "convert" /\ Refuse(j)
        \/ /\ ~refused /\ Goes(j, "work") /\ Files(j) /\ UNCHANGED <<work, seq, child, said>>
  /\ UNCHANGED fixed

Under(name) == {d \in work : d.tag = name[1] /\ d.n = name[2]}

\* Slip: create_dir_all, which takes a standing directory for a made one.
TakenNever(name) == FALSE

\* create_dir refuses a name that stands.
Taken(name) == Under(name) # {}

\* Work::new, one name of the process's counter at a time. A name that is
\* taken is stepped past, a bounded number of times; any other refusal ends it.
NewWork(j) ==
  /\ At(j, "work") /\ seq' = seq + 1
  /\ LET name == <<Kind(j), seq>>
     IN \/ /\ ~Taken(name)
           /\ work' = work \cup {[tag |-> name[1], n |-> name[2], owner |-> j]}
           /\ job' = [job EXCEPT ![j].pc = "tool", ![j].dir = name]
           /\ UNCHANGED said
        \/ /\ Taken(name) /\ job[j].tries + 1 < MaxAttempts
           /\ job' = [job EXCEPT ![j].tries = @ + 1]
           /\ UNCHANGED <<work, said>>
        \/ /\ ~Taken(name) \/ job[j].tries + 1 = MaxAttempts
           /\ Fails(j) /\ UNCHANGED work
  /\ Files(j) /\ UNCHANGED child /\ UNCHANGED fixed

\* The tool of the format, in the box, or the job fails with its directory.
HasTool(j) ==
  CASE Kind(j) = "compress" -> Offers(tools, job[j].req.format)
    [] Kind(j) = "extract" -> Reads(tools, job[j].req.format)
    [] Kind(j) = "convert" -> TRUE

Fallen(j) == job' = [job EXCEPT ![j].pc = "drop", ![j].failed = TRUE]

RunBoxed(j) ==
  /\ At(j, "tool")
  /\ \/ HasTool(j) /\ child' = [child EXCEPT ![j] = Started] /\ Goes(j, "boxed")
     \/ Fallen(j) /\ UNCHANGED child
  /\ Files(j) /\ UNCHANGED <<work, seq, said>> /\ UNCHANGED fixed

\* Slip: an empty tree is as good as any.
NothingArrivedNever(j) == FALSE

\* An extract that left its directory empty is judged by the index.
NothingArrived(j) == Kind(j) = "extract" /\ job[j].staged = {}

\* output() returns with the tool's status; success is read off the disk too.
Boxed(j) ==
  /\ At(j, "boxed") /\ child[j].st = "exited"
  /\ child' = [child EXCEPT ![j].st = "reaped"]
  /\ IF ~child[j].ok \/ (Kind(j) # "extract" /\ job[j].staged = {}) THEN Fallen(j)
     ELSE IF NothingArrived(j) THEN Goes(j, "verify") ELSE Goes(j, "publish")
  /\ Files(j) /\ UNCHANGED <<work, seq, said>> /\ UNCHANGED fixed

\* archive_produced_count starts the listing, with no watchdog.
Verify(j) ==
  /\ At(j, "verify")
  /\ \/ child' = [child EXCEPT ![j] = Started] /\ Goes(j, "vread")
        /\ late' = [late EXCEPT ![j] = FALSE]
     \/ /\ job' = [job EXCEPT ![j].pc = "publish", ![j].verified = FALSE]
        /\ UNCHANGED <<child, late>>
  /\ UNCHANGED <<dest, node, work, seq, watch, said, published, hits>> /\ UNCHANGED fixed

Verified(j) ==
  /\ At(j, "vwait") /\ child[j].st = "exited"
  /\ child' = [child EXCEPT ![j].st = "reaped"]
  /\ LET c == Contents(SubSeq(index, 1, job[j].got))
     IN IF job[j].failed \/ ~child[j].ok
          THEN job' = [job EXCEPT ![j].pc = "publish", ![j].verified = FALSE,
                                  ![j].failed = FALSE]
        ELSE IF c.produced > 0 THEN Fallen(j) ELSE Goes(j, "publish")
  /\ Files(j) /\ UNCHANGED <<work, seq, said>> /\ UNCHANGED fixed

\* Slip: a plain rename, which replaces what stands there.
MayPublishOver == TRUE

MayPublish == dest = <<>>

\* rename_noreplace. A work directory on another file system is refused too.
Publish(j) ==
  /\ At(j, "publish")
  /\ \/ /\ MayPublish /\ dest' = <<j>> /\ published' = published \cup {j} /\ Goes(j, "drop")
     \/ Fallen(j) /\ UNCHANGED <<dest, published>>
  /\ UNCHANGED <<node, work, seq, child, watch, late, said, hits>> /\ UNCHANGED fixed

\* Work's drop, and the answer: a directory that will not go stays.
Drop(j) ==
  /\ At(j, "drop") /\ Goes(j, "ended")
  /\ work' \in {work, work \ Under(job[j].dir)}
  /\ Answers(j, [ok |-> ~job[j].failed, verified |-> job[j].failed \/ job[j].verified])
  /\ Files(j) /\ UNCHANGED <<seq, child>> /\ UNCHANGED fixed

-----------------------------------------------------------------------------
(* The meta line of a row.                                                 *)

Metas(j) == UNCHANGED <<dest, node, work, seq, published>>

\* A signal to the group ends the whole tree of the tool.
Killed(c) == IF c.st = "runs" THEN [c EXCEPT !.st = "exited", !.open = FALSE] ELSE c

Kill(j) ==
  /\ child' = [child EXCEPT ![j] = Killed(@)]
  /\ hits' = hits \cup {child[j].st}

\* read takes the extras in turn, each from the one before it.
AfterList(j) == IF Wants(j, "media") THEN "media" ELSE "stat"
BeginMeta(j) ==
  /\ At(j, "asked") /\ Kind(j) = "meta"
  /\ Goes(j, IF Wants(j, "list") THEN "list" ELSE AfterList(j))
  /\ Metas(j) /\ UNCHANGED <<child, watch, late, said, hits>> /\ UNCHANGED fixed

\* The listing and its watchdog start, or the archive is unread.
StartList(j) ==
  /\ At(j, "list")
  /\ \/ /\ Reads(tools, job[j].req.format) /\ Goes(j, "read")
        /\ child' = [child EXCEPT ![j] = Started]
        /\ watch' = [watch EXCEPT ![j] = "sleeps"]
     \/ /\ job' = [job EXCEPT ![j].pc = AfterList(j), ![j].listed = Cleared]
        /\ UNCHANGED <<child, watch>>
  /\ Metas(j) /\ UNCHANGED <<late, said, hits>> /\ UNCHANGED fixed

\* parse_until: a line at a time, and the time is looked at after each.
ReadLine(j) ==
  /\ job[j].pc \in {"read", "vread"}
  /\ LET after == IF job[j].pc = "read" THEN "stop" ELSE "vwait"
     IN \/ /\ job[j].got < child[j].sent
           /\ job' = IF late[j] THEN [job EXCEPT ![j].pc = after, ![j].failed = TRUE]
                     ELSE [job EXCEPT ![j].got = @ + 1]
        \/ /\ job[j].got = child[j].sent /\ ~child[j].open
           /\ Goes(j, after)
  /\ Metas(j) /\ UNCHANGED <<child, watch, late, said, hits>> /\ UNCHANGED fixed

\* A read cut short ends the tool itself, before the watchdog is stood down.
StopList(j) ==
  /\ At(j, "stop")
  /\ job' = [job EXCEPT ![j].pc = "wait", ![j].done = TRUE]
  /\ IF job[j].failed THEN Kill(j) ELSE UNCHANGED <<child, hits>>
  /\ Metas(j) /\ UNCHANGED <<watch, late, said>> /\ UNCHANGED fixed

\* Slip: the child is reaped while the watchdog may still aim at it.
StoodDownOrNot(j) == TRUE

\* The watchdog's thread is joined before the child is waited for.
StoodDown(j) == watch[j] = "ended"

\* A count the tool's own verdict takes back.
Judged(c, failed) == IF failed THEN Cleared ELSE c

WaitList(j) ==
  /\ At(j, "wait") /\ StoodDown(j) /\ child[j].st = "exited"
  /\ child' = [child EXCEPT ![j].st = "reaped"]
  /\ LET failed == job[j].failed \/ ~child[j].ok
     IN job' = [job EXCEPT ![j].pc = AfterList(j), ![j].failed = FALSE, ![j].done = FALSE,
                  ![j].listed = Judged(Contents(SubSeq(index, 1, job[j].got)), failed)]
  /\ Metas(j) /\ UNCHANGED <<watch, late, said, hits>> /\ UNCHANGED fixed

\* The sleeping watchdog looks at done, and once more before it signals.
WatchList(j) ==
  /\ job[j].req.kind = "meta"
  /\ \/ watch[j] = "sleeps" /\ job[j].done
        /\ watch' = [watch EXCEPT ![j] = "ended"] /\ UNCHANGED <<child, hits>>
     \/ watch[j] = "sleeps" /\ late[j] /\ ~job[j].done
        /\ watch' = [watch EXCEPT ![j] = "aims"] /\ UNCHANGED <<child, hits>>
     \/ watch[j] = "aims" /\ Kill(j) /\ watch' = [watch EXCEPT ![j] = "ended"]
  /\ UNCHANGED <<job, late, said>> /\ Metas(j) /\ UNCHANGED fixed

StartProbe(j) ==
  /\ At(j, "media")
  /\ \/ Goes(j, "drain") /\ child' = [child EXCEPT ![j] = Started]
        /\ watch' = [watch EXCEPT ![j] = "waits"] /\ late' = [late EXCEPT ![j] = FALSE]
     \/ Goes(j, "stat") /\ UNCHANGED <<child, watch, late>>
  /\ Metas(j) /\ UNCHANGED <<said, hits>> /\ UNCHANGED fixed

\* read_to_end: end of stdout says every writer closed it.
Drain(j) ==
  /\ At(j, "drain") /\ ~child[j].open /\ Goes(j, "reap")
  /\ Metas(j) /\ UNCHANGED <<child, watch, late, said, hits>> /\ UNCHANGED fixed

\* Slip: only the tool that was started is signalled, not its group.
WithinReachOne(c) == [Killed(c) EXCEPT !.open = c.open]

WithinReach(c) == Killed(c)

\* The probe's watchdog signals under the lock the reap takes.
WatchProbe(j) ==
  /\ watch[j] = "waits"
  /\ \/ child[j].st = "reaped" /\ UNCHANGED <<child, hits>>
     \/ /\ child[j].st # "reaped" /\ late[j]
        /\ child' = [child EXCEPT ![j] = WithinReach(@)]
        /\ hits' = hits \cup {child[j].st}
  /\ watch' = [watch EXCEPT ![j] = "ended"]
  /\ UNCHANGED <<job, late, said>> /\ Metas(j) /\ UNCHANGED fixed

\* try_wait under the lock, again and again until the tool is gone.
Reap(j) ==
  /\ At(j, "reap") /\ child[j].st = "exited"
  /\ child' = [child EXCEPT ![j].st = "reaped"] /\ Goes(j, "probed")
  /\ Metas(j) /\ UNCHANGED <<watch, late, said, hits>> /\ UNCHANGED fixed

\* A probe that did not exit zero measured nothing; a picture is no text.
Probed(j) ==
  /\ At(j, "probed") /\ watch[j] = "ended"
  /\ \E wide \in IF child[j].ok THEN BOOLEAN ELSE {FALSE} :
       job' = [job EXCEPT ![j].pc = "stat", ![j].wide = wide]
  /\ Metas(j) /\ UNCHANGED <<child, watch, late, said, hits>> /\ UNCHANGED fixed

NewlinesIn(n) == Cardinality({i \in 1..n : text[i]})

MetaLine(j, counted) == [listed |-> job[j].listed, text |-> counted]
NoText == [lines |-> 0, partial |-> FALSE, failed |-> FALSE]
Tells(j, counted) == Answers(j, MetaLine(j, counted)) /\ Goes(j, "ended")

\* What is not a regular file is refused before any open.
StatText(j) ==
  /\ At(j, "stat")
  /\ IF ~Wants(j, "text") \/ job[j].wide THEN Tells(j, NoText)
     ELSE IF node # "file" THEN Tells(j, [NoText EXCEPT !.failed = TRUE])
     ELSE job' = [job EXCEPT ![j].pc = "open", ![j].got = 0] /\ UNCHANGED said
  /\ Metas(j) /\ UNCHANGED <<child, watch, late, hits>> /\ UNCHANGED fixed

\* O_NONBLOCK: the open returns whatever the path names by now.
Opens == TRUE

OpenText(j) ==
  /\ At(j, "open") /\ Opens
  /\ IF node = "file" THEN Goes(j, "count") /\ UNCHANGED said
     ELSE Tells(j, [NoText EXCEPT !.failed = TRUE])
  /\ Metas(j) /\ UNCHANGED <<child, watch, late, hits>> /\ UNCHANGED fixed

\* The newlines of the first n bytes, and the line after the last of them.
LinesIn(n) == NewlinesIn(n) + IF n > 0 /\ ~text[n] THEN 1 ELSE 0

\* One more read, or the answer: at the end, at a read that fails, which is
\* taken for the end, or at the budget.
CountText(j) ==
  /\ At(j, "count")
  /\ LET got == job[j].got
         whole == [NoText EXCEPT !.lines = LinesIn(got)]
     IN \/ got = Len(text) /\ Tells(j, whole)
        \/ /\ Answers(j, MetaLine(j, whole))
           /\ job' = [job EXCEPT ![j].pc = "ended", ![j].cut = TRUE]
        \/ \E n \in 1..Chunk :
             /\ got + n <= Len(text)
             /\ IF got + n >= LineBudget
                  THEN Tells(j, [NoText EXCEPT !.lines = NewlinesIn(got + n), !.partial = TRUE])
                  ELSE job' = [job EXCEPT ![j].got = got + n] /\ UNCHANGED said
  /\ Metas(j) /\ UNCHANGED <<child, watch, late, hits>> /\ UNCHANGED fixed

-----------------------------------------------------------------------------
(* The tools, which promise nothing.                                       *)

Lists(j) == job[j].pc \in {"read", "vread", "stop", "wait", "vwait"}
Probes(j) == job[j].pc \in {"drain", "reap", "probed"}

ToolWrites(j) ==
  /\ child[j].st = "runs" /\ child[j].open /\ Lists(j) /\ child[j].sent < Len(index)
  /\ child' = [child EXCEPT ![j].sent = @ + 1] /\ UNCHANGED job

ToolCloses(j) ==
  /\ child[j].st = "runs" /\ child[j].open
  /\ \/ "list" \in ClosesEarly /\ Lists(j)
     \/ "media" \in ClosesEarly /\ Probes(j)
  /\ child' = [child EXCEPT ![j].open = FALSE] /\ UNCHANGED job

\* A listing that ends well has listed everything; an extraction that ends
\* well may have written less than it said, and a failed one anything.
ToolExits(j) ==
  /\ child[j].st = "runs"
  /\ \E ok \in BOOLEAN :
       /\ ok /\ Lists(j) => child[j].sent = Len(index)
       /\ child' = [child EXCEPT ![j].st = "exited", ![j].open = FALSE, ![j].ok = ok]
       /\ IF job[j].pc # "boxed" THEN UNCHANGED job
          ELSE \E left \in SUBSET DOMAIN index : job' = [job EXCEPT ![j].staged = left]

Tool(j) ==
  /\ ToolWrites(j) \/ ToolCloses(j) \/ ToolExits(j)
  /\ UNCHANGED <<watch, late, said, hits>> /\ Metas(j) /\ UNCHANGED fixed

Elapse(j) ==
  /\ child[j].st = "runs" /\ (Lists(j) \/ Probes(j))
  /\ ~late[j] /\ late' = [late EXCEPT ![j] = TRUE]
  /\ UNCHANGED <<job, child, watch, said, hits>> /\ Metas(j) /\ UNCHANGED fixed

-----------------------------------------------------------------------------
(* Other programs.                                                         *)

Meddle ==
  /\ meddles < MaxMeddles /\ meddles' = meddles + 1
  /\ \/ dest' = (IF dest = <<>> THEN <<"user">> ELSE <<>>) /\ UNCHANGED node
     \/ node' = "fifo" /\ UNCHANGED dest
  /\ UNCHANGED <<tools, index, text, work, seq, job, child, watch, late, said, published, hits>>

FileJob(j) ==
  \/ BeginFile(j) \/ NewWork(j) \/ RunBoxed(j) \/ Boxed(j) \/ Verify(j) \/ Verified(j)
  \/ Publish(j) \/ Drop(j)
MetaJob(j) ==
  \/ BeginMeta(j) \/ StartList(j) \/ ReadLine(j) \/ StopList(j) \/ WaitList(j)
  \/ StartProbe(j) \/ Drain(j) \/ Reap(j) \/ Probed(j)
  \/ StatText(j) \/ OpenText(j) \/ CountText(j)
Thread(j) == FileJob(j) \/ MetaJob(j)
Watchdog(j) == WatchList(j) \/ WatchProbe(j)

Next ==
  \/ \E j \in Threads : Thread(j) \/ Watchdog(j) \/ Tool(j) \/ Elapse(j)
  \/ Meddle

Spec == Init /\ [][Next]_vars

\* Threads run and time passes. A tool owes nothing.
Fairness ==
  \A j \in Threads : WF_vars(Thread(j)) /\ WF_vars(Watchdog(j)) /\ WF_vars(Elapse(j))
FairSpec == Spec /\ Fairness

-----------------------------------------------------------------------------
\* A work directory belongs to one job while it works in it, whatever other
\* jobs and killed runs left beside the destination, and no job's drop takes
\* one it did not make (archivework.rs Work::new, Drop).
WorkIsPrivate ==
  /\ \A j \in Threads : job[j].pc \in {"tool", "boxed", "verify", "vread", "vwait", "publish"} =>
       {d.owner : d \in Under(job[j].dir)} = {j}
  /\ {<<d.tag, d.n>> : d \in {w \in work : w.owner = "old"}} = Leftovers

\* What stands at the destination is replaced by no job, however long ago the
\* job looked (archiveops.rs: the check is at the start, the rename last).
NothingIsReplaced == [][dest # <<>> => dest' \in {dest, <<>>}]_vars

\* What a thread answers is what happened: ok is a publication of a finished
\* result and never of an empty tree the index contradicts, a failure published
\* nothing, a list that did not end well carries no count, and a text has at
\* least the lines it is said to have, and no more unless the count is called
\* partial or a read failed on the way (linecount.rs:36 calls that the end).
AnswerIsTrue ==
  \A j \in Threads : said[j] # <<>> =>
    LET line == said[j][1] IN
    IF Kind(j) \in FileKinds
      THEN /\ line.ok <=> j \in published
           /\ line.ok /\ Kind(j) # "extract" => job[j].staged # {}
           /\ line.ok /\ line.verified /\ Kind(j) = "extract" /\ job[j].staged = {} =>
                \A i \in DOMAIN index : ~ProducesEntry(index[i])
      ELSE /\ line.listed \in {NoContents, Cleared, Contents(index)}
           /\ Wants(j, "list") /\ line.listed = NoContents => index = <<>>
           /\ LET all == Cardinality({i \in DOMAIN text : text[i]})
                         + IF text # <<>> /\ ~Last(text) THEN 1 ELSE 0
              IN /\ line.text.lines <= all
                 /\ Wants(j, "text") /\ ~line.text.failed /\ ~line.text.partial
                    /\ ~job[j].wide /\ ~job[j].cut => line.text.lines = all

\* No signal reaches a process group whose leader was reaped: its number may
\* be another program's by then (metareq.rs:148, mediaprobe.rs:110).
KillsItsOwn == "reaped" \notin hits

\* A listing tool that closed its output, was waited for, and stays.
Stays(j) ==
  At(j, "wait") /\ StoodDown(j) /\ child[j].st = "runs" /\ ~child[j].open

\* A row asked about is answered although its tools stall for ever, with their
\* output open or, the probe's, closed (metareq.rs:121, mediaprobe.rs:81). One
\* tool holds its row for ever, and that is the only way a row stays without an
\* answer: the listing tool that closes its output and does not exit, whose
\* watchdog is stood down before child.wait() (metareq.rs:165-169).
MetaIsAnswered ==
  \A j \in Threads :
    Kind(j) = "meta" => <>(said[j] # <<>>) \/ <>[]Stays(j)
=============================================================================
