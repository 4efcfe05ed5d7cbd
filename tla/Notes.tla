-------------------------------- MODULE Notes --------------------------------
(***************************************************************************)
(* The note workspace: its tabs (NoteWorkspace.qml), the one request it    *)
(* has in flight (NoteBackend.qml), and the philemon --notes child that    *)
(* reads and saves (notes/mod.rs, store.rs, links.rs). The user types at   *)
(* any time, other programs write the notes at any time, the child may be  *)
(* killed at any time. A text is what the editor shows, a content the      *)
(* bytes of the file: the text and how its lines end.                      *)
(***************************************************************************)
EXTENDS Naturals, SequencesExt

CONSTANTS
  Files,       (* the notes of the vault, by their real paths              *)
  Aliases,     (* links to them: a function to the real paths              *)
  LinkOf,      (* the note a link inside a note resolves to                *)
  Initial,     (* the content of each at first                             *)
  Texts,       (* what the user may type, and other programs write         *)
  Limit,       (* the nine tabs                                            *)
  Careless,    (* what the user may do behind a request in flight: type    *)
               (* into a note being "reload"ed, "close" the window         *)
  MaxSends,    (* bound: requests                                          *)
  MaxDeaths,   (* bound: children killed                                   *)
  MaxOutside   (* bound: writes of other programs                          *)

ASSUME NotesAssumption ==
  /\ Limit \in Nat \ {0} /\ Careless \subseteq {"reload", "close"}
  /\ MaxSends \in Nat /\ MaxDeaths \in Nat /\ MaxOutside \in Nat
  /\ Aliases \in [DOMAIN Aliases -> Files] /\ LinkOf \in [Files -> Files]
  /\ Initial \in [Files -> [text : {Initial[f].text : f \in Files}, ends : {"lf", "crlf", "mixed"}]]

VARIABLES
  items, current, closePending, saved,   (* the workspace; 0 is no tab     *)
  pending, serial,                       (* the request in flight          *)
  child, job, out,                       (* the child and its output       *)
  disk, backups, temps,                  (* the vault and its backups      *)
  held,                                  (* history: contents of the files *)
  raced,                                 (* history: written after recheck *)
  deaths, outside                        (* what the bounds count          *)

tabs == <<items, current, closePending, saved>>
link == <<pending, serial>>
files == <<disk, backups, temps, held, raced>>
vars == <<tabs, link, child, job, out, files, deaths, outside>>

-----------------------------------------------------------------------------
Content(text, ends) == [text |-> text, ends |-> ends]
Source(content) == content.text

\* A file whose lines all end one way keeps that way; mixed ends become one.
Encoded(original, text) ==
  Content(text, IF original.ends = "mixed" THEN "lf" ELSE original.ends)

Dirty(note) == note.text # Source(note.original)
HasUnsaved == \E i \in DOMAIN items : Dirty(items[i])
FirstUnsaved(i) == Dirty(items[i]) /\ \A k \in 1..(i - 1) : ~Dirty(items[k])
Active == current # 0
TabsOf(list, path) == {i \in DOMAIN list : list[i].path = path}
Busy == pending # <<>>
Idle == [pc |-> "none"]

Init ==
  /\ items = <<>> /\ current = 0 /\ closePending = 0 /\ saved = FALSE
  /\ pending = <<>> /\ serial = 0
  /\ child = "off" /\ job = Idle /\ out = <<>>
  /\ disk = Initial /\ backups = {} /\ temps = {}
  /\ held = {<<f, Initial[f]>> : f \in Files} /\ raced = FALSE
  /\ deaths = 0 /\ outside = 0

\* NoteBackend.send: one request at a time; a child that runs is written to.
Send(request) ==
  LET r == [request EXCEPT !.id = serial + 1]
  IN /\ serial < MaxSends /\ serial' = serial + 1 /\ pending' = <<r>>
     /\ IF child = "runs" THEN job' = [pc |-> "got", req |-> r] /\ UNCHANGED child
        ELSE child' = "starts" /\ UNCHANGED job

Request(c, path) ==
  [id |-> 0, c |-> c, path |-> path, text |-> "", original |-> Content("", "lf")]

Note == items[current]
Away == UNCHANGED <<out, files, deaths, outside>>
Here == UNCHANGED <<link, child, job>> /\ Away

Selects(i) == current' = i /\ closePending' = 0 /\ saved' = FALSE

-----------------------------------------------------------------------------
(* The user.                                                               *)

ShowFiles == current' = 0 /\ closePending' = 0 /\ UNCHANGED <<items, saved>> /\ Here

Select(i) == Selects(i) /\ UNCHANGED items /\ Here

KeepEditing == closePending # 0 /\ closePending' = 0 /\ saved' = FALSE
               /\ UNCHANGED <<items, current>> /\ Here

Changed(text) ==
  /\ Active /\ (Busy /\ pending[1].c = "reload" => "reload" \in Careless)
  /\ items' = [items EXCEPT ![current].text = text]
  /\ UNCHANGED <<current, closePending, saved>> /\ Here

Open(path) ==
  /\ \/ \E i \in TabsOf(items, path) : Select(i)
     \/ /\ TabsOf(items, path) = {} /\ Len(items) < Limit /\ ~Busy
        /\ Send(Request("load", path)) /\ UNCHANGED tabs /\ Away

Save ==
  /\ Active /\ ~Busy /\ saved' = FALSE
  /\ Send([Request("save", Note.path) EXCEPT !.text = Note.text, !.original = Note.original])
  /\ UNCHANGED <<items, current, closePending>> /\ Away

Follow ==
  /\ Active /\ ~Busy /\ saved' = FALSE
  /\ Send(Request("resolve", Note.path))
  /\ UNCHANGED <<items, current, closePending>> /\ Away

\* A note with typed text is never read again over it.
Reload ==
  /\ Active /\ ~Busy /\ ~Dirty(Note) /\ Send(Request("reload", Note.path))
  /\ UNCHANGED tabs /\ Away

\* discard takes the current tab, whichever that is.
Discarded(list, i) ==
  LET rest == RemoveAt(list, i)
  IN /\ items' = rest /\ closePending' = 0
     /\ current' = IF i > Len(rest) THEN Len(rest) ELSE i

Discard == Active /\ ~Busy /\ closePending # 0 /\ Discarded(items, current) /\ saved' = FALSE /\ Here

Close(i) ==
  /\ ~Busy
  /\ IF Dirty(items[i]) THEN current' = i /\ closePending' = i /\ UNCHANGED items
     ELSE Discarded(items, i)
  /\ saved' = FALSE /\ Here

\* guardClose refuses while a note is unsaved or a request in flight, and
\* shows the first unsaved note.
GuardClose ==
  /\ HasUnsaved \/ Busy
  /\ Busy => "close" \in Careless
  /\ IF HasUnsaved THEN \E i \in DOMAIN items : FirstUnsaved(i) /\ current' = i
     ELSE UNCHANGED current
  /\ saved' = FALSE /\ UNCHANGED <<items, closePending>> /\ Here

-----------------------------------------------------------------------------
(* The answer.                                                             *)

\* Slip: the tab the user was asked about goes with the save, typed text or not.
GoesWithSaveAnyway(list, i) == closePending = i

\* A save of the tab whose close waits for it closes it, unless more was typed.
GoesWithSave(list, i) == closePending = i /\ ~Dirty(list[i])

TakeSave(reply) ==
  /\ saved' = TRUE
  /\ LET at == TabsOf(items, reply.path)
         list == [i \in DOMAIN items |->
                   IF i \in at THEN [items[i] EXCEPT !.original = reply.content] ELSE items[i]]
     IN IF (\E i \in at : GoesWithSave(list, i)) /\ Active THEN Discarded(list, current)
        ELSE items' = list /\ UNCHANGED <<current, closePending>>

TakeNote(request, reply) ==
  LET at == TabsOf(items, reply.path)
      note == [path |-> reply.path, text |-> Source(reply.content), original |-> reply.content]
  IN \/ \E i \in at :
          /\ items' = IF request.c = "reload" THEN [items EXCEPT ![i] = note] ELSE items
          /\ Selects(i)
     \/ /\ at = {} /\ Len(items) < Limit
        /\ items' = Append(items, note) /\ Selects(Len(items) + 1)
     \/ /\ at = {} /\ Len(items) >= Limit
        /\ saved' = FALSE /\ UNCHANGED <<items, current, closePending>>

Fails == saved' = FALSE /\ UNCHANGED <<items, current, closePending>>

Answered(request, reply) ==
  IF ~reply.ok THEN Fails
  ELSE IF request.c = "save" THEN TakeSave(reply) ELSE TakeNote(request, reply)

\* Slip: any line the child wrote answers the request in flight.
AnswersAny(reply) == Busy

Answers(reply) == Busy /\ reply.id = pending[1].id

\* A line that answers another request, of a child since killed, is passed over.
OnRead ==
  /\ out # <<>> /\ out' = Tail(out)
  /\ IF Answers(Head(out)) THEN Answered(pending[1], Head(out)) /\ pending' = <<>>
     ELSE UNCHANGED <<tabs, pending>>
  /\ UNCHANGED <<serial, child, job, files, deaths, outside>>

\* onStarted, or a child that does not start.
ChildStarts ==
  /\ child = "starts"
  /\ \/ child' = "runs" /\ UNCHANGED <<tabs, pending>>
        /\ job' = IF Busy THEN [pc |-> "got", req |-> pending[1]] ELSE Idle
     \/ child' = "off" /\ Fails /\ pending' = <<>> /\ UNCHANGED job
  /\ UNCHANGED <<serial, out, files, deaths, outside>>

\* onRunningChanged and onExited: what was in flight failed.
ChildDies ==
  /\ child = "runs" /\ deaths < MaxDeaths /\ deaths' = deaths + 1
  /\ child' = "off" /\ job' = Idle /\ pending' = <<>>
  /\ IF Busy THEN Fails ELSE UNCHANGED tabs
  /\ UNCHANGED <<serial, out, files, outside>>

-----------------------------------------------------------------------------
(* The child.                                                              *)

Job(pc) == job.pc = pc
Goes(pc) == job' = [job EXCEPT !.pc = pc] /\ UNCHANGED out

\* store::target and links::resolve: the real path of what is asked.
Real(path) == IF path \in Files THEN path ELSE Aliases[path]
Target == IF job.req.c = "resolve" THEN LinkOf[Real(job.req.path)] ELSE Real(job.req.path)

Says(ok, content) ==
  /\ job' = Idle
  /\ out' = Append(out, [id |-> job.req.id, ok |-> ok, path |-> Target, content |-> content])

Quiet == UNCHANGED <<tabs, link, child, deaths, outside>>

\* Slip: a refused request is dropped without its line.
RefusesSilently == job' = Idle /\ UNCHANGED out

Refuses == Says(FALSE, Content("", "lf"))
New == Encoded(job.req.original, job.req.text)

\* request: load, reload and resolve answer with the file as it is.
Load ==
  /\ Job("got") /\ UNCHANGED files
  /\ Refuses \/ (job.req.c # "save" /\ Says(TRUE, disk[Target]))
  /\ Quiet

\* save: over the content the tab was opened on alone, and only if it changes.
CheckOriginal ==
  /\ Job("got") /\ job.req.c = "save" /\ disk[Target] = job.req.original
  /\ IF New = job.req.original THEN Says(TRUE, New) ELSE Goes("backup")
  /\ UNCHANGED files /\ Quiet

\* Slip: the copy is made of what is to be written.
BackedNew == New

Backed == job.req.original

\* backup: written, named and synced before anything is replaced.
Backup ==
  /\ Job("backup")
  /\ \/ backups' = backups \cup {<<Target, Backed>>} /\ Goes("write")
     \/ Refuses /\ UNCHANGED backups
  /\ UNCHANGED <<disk, temps, held, raced>> /\ Quiet

WriteTemp ==
  /\ Job("write")
  /\ \/ temps' = temps \cup {job.req.id} /\ Goes("recheck")
     \/ Refuses /\ UNCHANGED temps
  /\ UNCHANGED <<disk, backups, held, raced>> /\ Quiet

Unwritten == temps' = temps \ {job.req.id} /\ Refuses

Recheck ==
  /\ Job("recheck") /\ raced' = FALSE
  /\ \/ disk[Target] = job.req.original /\ Goes("rename") /\ UNCHANGED temps
     \/ Unwritten
  /\ UNCHANGED <<disk, backups, held>> /\ Quiet

Rename ==
  /\ Job("rename")
  /\ \/ /\ disk' = [disk EXCEPT ![Target] = New] /\ temps' = temps \ {job.req.id}
        /\ held' = held \cup {<<Target, New>>} /\ Goes("sync")
     \/ Unwritten /\ UNCHANGED <<disk, held>>
  /\ UNCHANGED <<backups, raced>> /\ Quiet

\* A directory that cannot be synced answers a failure over a note written.
SyncParent ==
  /\ Job("sync") /\ (Says(TRUE, New) \/ Refuses) /\ UNCHANGED files /\ Quiet

Outside(f, text) ==
  /\ outside < MaxOutside /\ outside' = outside + 1
  /\ disk' = [disk EXCEPT ![f] = Content(text, "lf")]
  /\ held' = held \cup {<<f, Content(text, "lf")>>}
  /\ raced' = (raced \/ (Job("rename") /\ Target = f))
  /\ UNCHANGED <<tabs, link, child, job, out, backups, temps, deaths>>

User ==
  \/ ShowFiles \/ KeepEditing \/ Save \/ Follow \/ Reload \/ Discard \/ GuardClose
  \/ \E i \in DOMAIN items : Select(i) \/ Close(i)
  \/ \E text \in Texts : Changed(text)
  \/ \E path \in Files \cup DOMAIN Aliases : Open(path)

System ==
  \/ OnRead \/ ChildStarts
  \/ Load \/ CheckOriginal \/ Backup \/ WriteTemp \/ Recheck \/ Rename \/ SyncParent

Next == User \/ System \/ ChildDies \/ \E f \in Files, text \in Texts : Outside(f, text)

Spec == Init /\ [][Next]_vars

\* The event loop reads the child and the child runs.
FairSpec == Spec /\ WF_vars(System)

-----------------------------------------------------------------------------
Ends == Busy /\ pending' = <<>>

(* NoteWorkspace.qml: no answer takes typed text out of the tabs unless it *)
(* is the answer of the save that wrote it. Typed text leaves a tab by the *)
(* user's own key or Discard.                                              *)
EditsStand ==
  [][Ends => \A i \in DOMAIN items : Dirty(items[i]) =>
       \/ \E j \in TabsOf(items', items[i].path) : items'[j].text = items[i].text
       \/ /\ pending[1].c = "save" /\ pending[1].path = items[i].path
          /\ pending[1].text = items[i].text
          /\ <<items[i].path, Encoded(pending[1].original, items[i].text)>> \in held]_vars

(* "Saved." is said of a text that is in the file, or was until another    *)
(* program wrote: never for an answer to another request.                  *)
SavedIsWritten ==
  [][Ends /\ saved' => <<Real(pending[1].path), Encoded(pending[1].original, pending[1].text)>>
                         \in held]_vars

(* store.rs backup: what a save replaces has its copy, but for a write     *)
(* that came after the last look at the file.                              *)
ReplacedIsBacked ==
  [][\A f \in Files : Job("rename") /\ disk'[f] # disk[f] /\ outside' = outside /\ ~raced
                        => <<f, disk[f]>> \in backups]_vars

(* Whatever the child answers, refuses or dies of, the workspace does not   *)
(* stay busy. A child that hangs in a system call is not among it: its     *)
(* fairness rules it out, and NoteBackend.qml has no limit of time.        *)
BusyEnds == Busy ~> ~Busy
=============================================================================
