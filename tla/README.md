# Philemon in TLA+

Philemon is a keyboard file manager: a Rust program (`src/src`) that runs as a
backend process for a Quickshell window (`src/ui`), and answers a line protocol
(`src/docs/protocol.md`) over two pipes. The same binary also keeps the
settings file and the notes, and claims the desktop's file-manager roles. This
directory models the parts of it where order, failure and concurrency decide
whether the user's files, settings and rows come out right, and the algorithms
a user would notice getting wrong. Paths below are relative to the repository;
`backend/` stands for `src/src/backend/`.

Contents: 1 the system, 2 the modules and how they match the code, 3 the runs,
4 fairness, 5 the proofs, 6 where code and documentation disagree, 7 what is
not modelled, 8 what could come next.

## 1. The system

One window is one Quickshell process and one `philemon --backend` child. The
backend's loop reads requests from stdin, and is the only writer of stdout. It
owns the listing (the rows on screen are indices into it) and hands work to
threads, which answer through one event channel: a pool of thumbnail workers,
one thread for a running file operation, one for each archive, conversion and
meta request, a thread that reads inotify. Two walkers, a search and directory
sizes, have no thread: the loop advances them between lines.

| component | state | operations | what is hard | what makes it right |
|---|---|---|---|---|
| Thumbnail pool (`thumbs.rs`, `thumbreq.rs`) | bounded queue, workers, `asked` map, `outstanding`, result channel | thumb, thumbcancel, a result, a drain | results of a superseded listing, a full queue, cancels racing workers, shutdown with children running | exact count, no row stranded, no answer for the wrong row |
| Thumbnail cache (`thumbcache.rs`, `thumbwrite.rs`, `thumbspec.rs`) | shared cache files, temporaries, the thumbnailer table | look up, draw, stamp, publish, mark, sweep | other processes, files rewritten while they are drawn, killed workers | an entry shows the file it is stamped for; a mark is of bytes that were tried |
| Read loop (`run.rs`) | listing, requests in hand, the drain | every request | every handler that reorders rows invalidates every index | indices forgotten with their order; a quit ends |
| Listing, sort (`scan.rs`, `sort.rs`, `metasort.rs`) | rows and their order | list, sort, window | natural order of names, ties | one order per folder and key |
| Search and size walkers (`search.rs`, `searchreq.rs`, `dirsize.rs`) | a frontier, scores, a row queue, a cache | one slice per loop turn | ranking renames every row; the tree changes under the walk | every match once, ranked; sizes of the right rows; no row waits for ever |
| Directory watch (`watch.rs`) | the descriptor, the one coming, the kernel's queue | begin, commit, abandon, stop, pump | stale events, a descriptor moved in two calls | one watch; a notice about the right folder; no lost change |
| File operations (`opsreq.rs`, `copyfile.rs`, `renamecompat.rs`) | one slot, a cancel flag, the files | transfer, trash, duplicate on a thread; rename, mkdir, newfile, undo on the loop | failure, cancel or death between any two system calls; mounts that cannot rename | no content lost; an operation ends |
| Undo journal, trash (`undo.rs`, `trash.rs`) | a ring of entries of steps; the trash | push, undo, restore | names reused between an operation and its undo | the journal says what is on disk; an undo puts it back |
| Archives, conversion (`archive*.rs`, `convert.rs`) | a work directory per job | stage, verify, publish | jobs racing for a name, tools that lie, killed runs | destination complete or absent; the answer is true |
| Metadata (`metareq.rs`, `mediaprobe.rs`, `linecount.rs`) | a child, its watchdog | list, probe, count | tools that stall or close early; a kill that races the reap | a row is answered, but for the listing's unbounded wait; only our own child is killed |
| Settings store (`uistore.rs`, `ViewState.qml`, `UiState.js`) | ui.json, its lock; per window what it shows, owes, has in flight | settle, change, write, acknowledge | several windows and a command line on one file; a writer denied or killed after its rename | no update lost, none repeated, none forgotten |
| Note store (`notes/*.rs`, `Note*.qml`) | tabs, one request in flight, a child, backups | open, follow, save, reload, close | an outside editor; answers that cross typing | no text lost; what is replaced has its copy |
| Desktop claims (`defaults.rs`, `chooser.rs`, `hyprkeys.rs`, `userfile.rs`) | four of the user's own files | `--default` and `--picker`, on and off | other programs' content, reloads that fail, deaths, upgrades | what is not Philemon's stands; a release leaves nothing |
| Line protocol, JSON (`proto.rs`, `json.rs`, `jsondoc.rs`) | text | write, scan, parse, render | names that look like syntax; rewriting a file a user wrote | heard as said; a rewrite keeps what the file meant |
| Pane client (`PaneWire.qml`, `Backend.qml`, `Search.js`, `Sort.js`) | path, rows, `listInFlight`, the owed re-read, search mode, sizes by row | every line from the backend, every user action | lines that cross requests | rows drawn are rows of the folder named |
| Selection, tabs, mounts, views, type tables | pure, declarative, or another program's | | | |

Interactions. The client sends request lines and reads answer lines, so each
side acts on a state of the other that is as old as the pipe. Worker threads
and the loop share the queue (a mutex) and the event channel. An operation's
thread and the loop share only the file system and the cancel flag. Archive
jobs share the directory they publish in. Windows and the command line share
only ui.json and its lock; the desktop commands share files no lock guards.

PROJECT.json lists every component with the files it stands for, and under
`hazards` what in this code a test would hardly reach, each at its line, with
the properties that would catch it going wrong or the reason none does.

## 2. Modules

| module | models | uses |
|---|---|---|
| `ThumbPool` | thumbnail pool, the loop's handlers as far as rows go, the drain | refines `RowPromise` |
| `RowPromise` | what the protocol promises a client of `thumb`, without pool | |
| `ThumbFiles` | what a thumbnail job does to the shared cache, several processes | |
| `Names` | the natural order of names and the fuzzy score, as pure operators | |
| `Listings` | the listing, both walkers, the pane and the two pipes between | extends `Names` |
| `FileTree` | the file system as pure operators over a map from paths to nodes | |
| `FileOps` | the operation thread, the loop's own operations, journal, trash, drain | extends `FileTree` |
| `PaneWatch` | inotify, the watch, its thread, the loop, two pipes, the client | |
| `ArchiveIndex` | an archive's listing line by line, and which tools read what | |
| `Jobs` | archive, conversion and metadata threads, their tools and watchdogs | extends `ArchiveIndex` |
| `UiStore` | ui.json, writers, windows, the command line | |
| `Notes` | the note workspace, its child, the vault, other programs | |
| `KeyFiles` | the desktop's files as lines, and every edit Philemon makes of them | |
| `Desktop` | the four commands as processes over those files | extends `KeyFiles` |
| `Json`, `JsonDoc` | the line reader, the document reader, the writer | `JsonDoc` extends `Json` |
| `JsonText` | what a JSON text means to a reader of RFC 8259, apart from the code's readers | extends `Json` |
| `Wire` | every request and answer through a pipe, the notes' too, and the settings file's text | extends `JsonDoc`, `JsonText` |
| `ThumbPool_proofs`, `UiStore_proofs`, `PaneWatch_proofs`, `ThumbFiles_proofs`, `FileOps_proofs`, `Jobs_proofs`, `Notes_proofs`, `Desktop_proofs` | theorems | extend their module |
| `MC*` | small instances for TLC | extend their module |

Operators whose comment begins with "Slip" are plausible bugs of the operator
that follows them. No specification uses one; PROJECT.json pairs each with the
property it would break, which is how each property is known to say something.

The modules meet where the code does. `Listings` and `ThumbPool` are two views
of one listing (sizes and searches; thumbnails), because `forget_rows` treats
both alike; what a job of `ThumbPool` does inside its worker is `ThumbFiles`.
The text a writer of `UiStore` reads and renders is `JsonDoc`. All of them in
one module would be the product of state spaces that share only a row order.

### ThumbPool

`queue`, `running` and `done` are the queue of `thumbs.rs`, the job inside each
worker and the results in the channel; `asked` and `outstanding` are
`State.asked` and `State.outstanding`. `Thumb(row)` is a whole `thumb` request
for one row: the answers given at once (no thumbnailer, already mapped, nothing
to draw), the entry in the map, the submit, and the answers to the rows that a
full queue pushes out. `Relist` stands for list, listpaths, sort and a finished
search; each ends in `forget_rows`. `WorkerTake` and `WorkerFinish` are the
pool's threads. `ReportDone` is `report_done`. `Quit`, `DrainDone` and
`DrainDeadline` are `drain`. `waiting`, `out` and `gen` are the client's view,
the lines of the last step, and the age of a job; the properties read them.

`RowPromise` is the abstract specification: a row is open from the request that
takes it on to its one answer, a cancel or a new listing closes rows silently,
and the process answers what is open on its way out. `KeepsPromise` is the
refinement: open rows are the mapped rows.

### ThumbFiles

A path is a sequence of bytes, so that the key (`uri_for`) can be wrong in the
way it could be: two paths with one URI. A picture is the number of the file
version it shows, a PNG the sequence of its chunks, because the stamp removes
and inserts chunks and the lookup reads only those ahead of the pixels.
`Prepare`, `RunChild`, `GiveUp`, `Stamp`, `Publish`, `MarkTemp` and `Mark` are
`run_one`; `Exit` is the drain's end and `Sweep`. A child may not start or fail
whatever the file is, because a sandbox's wrapper exits non-zero too, and the
sweep may take its temporary (`WroteSomething`); `judged`, in the property, is
the files a child ran on and gave nothing for. `Write` and `Delete` are other
programs, at any time. Every write has a later whole second: two writes in one
second have one time stamp, and no reader of a time stamp can tell them apart.
Which file serves a type is the code's own computation: `Fields` reads a file's
lines, `SortedByPath` orders a directory, `Entries` puts the directories one
after the other and `ByMime` fills the table. A path is compared as lossy text,
so two files of a directory may tie and then stand in either order (`IsInstall`
asks for no more than finite directories). It is checked over sets of
thumbnailer files chosen to be ambiguous.

### Names, Listings

Names are sequences of ASCII codes, compared by `FinderCmp` and scored by
`Scores` as the code does it, position by position. `FinderBefore`, in the
properties, is the order a user would describe, as a key per name. Characters
outside ASCII, whose case only the search folds, are left out.

`Listings` holds `State`'s `base`, `listing`, `dirsizes`, `dirsize_queue` and
`search`, the two pipes as sequences, and the pane as one record. Each request
is an action; `WalkSize` and `StepSearch` are the turns `tick_walkers` gives.
A slice reads a fixed number of folders where the code reads until a deadline.
`Change` adds or deletes an entry at any time, so that a walk can meet it, miss
it, or meet a folder that went. A size may be any floor its deadline leaves.

### FileTree, FileOps

A path is a volume and one or two names; two volumes are two file systems, and
`CannotRename` says which kinds of node a volume's mount cannot rename.
A node is a file with its content's origin, a directory or a fifo, which stands
for what a copy makes again instead of reading (sockets, devices). `maker` and
`data` record which request made a name and what was written, so that "nothing
lost" and "only its own" can be said.

A thread's action is what happens between two points where another party can
act: a rename of one item (`RenameItem`), one name created (`OpenItem`,
`OpenChild`), one file finished, the removal of the source (`EndMove`), and the
failure of each. `Report` is the terminal line: it pushes the journal entry and
frees the slot. Loop requests (`Rename`, `MkDir*`, `NewFile`, `Undo`) are one
action each, because the loop runs them to their end. Where the mount refuses
the rename, `RenamePath` is the copy and removal of `renamecompat.rs`, and
`Kept` what is left when the removal stops partway: the copy, unless nothing of
the source is gone. `gio trash` is external: it may take any part of a batch,
and list an entry for it or not.

### PaneWatch

A folder is an inode with a version; a path names a folder, and two paths may
name one. A watch descriptor is a pair of folder and serial, because the kernel
gives the same descriptor for the same inode and never uses one again.
`ListBegin`, `ListDone` and `ListFails` are `Watch::begin`, the scan with
`commit`, and `abandon`; `Search` stops the watch. `Pump` is one read of the
thread, `Notice` the loop's test `is_current`. `OnListed`, `OnRows`,
`OnChanged`, `OnFailed` and `Reread` are the handlers of `PaneWire.qml`.
The 100 ms pause and the 400 ms settle carry no time: they may end whenever.

### ArchiveIndex, Jobs

A line of a listing is a name in its parts and a size or none; `Contents` folds
`Counted` over the lines as `parse_until` does. In `Jobs` a thread has the
program counter of its function and its tool is a process that writes, closes
its output, exits or does none of it. For a file job: `BeginFile` (the test of
the destination), `NewWork`, `RunBoxed`, `Verify`, `Publish`, `Drop`. For a
meta request: `StartList`, `ReadLine`, `StopList`, `WaitList` with `WatchList`,
its watchdog; `StartProbe`, `Drain`, `Reap`, `Probed` with `WatchProbe`;
`OpenText`, `CountText`. `Elapse` is the passing of a limit, and `Meddle` other
programs at the destination or under the row. `hits` records what a signal met:
the child, nothing, or a number the kernel may have given away.

### UiStore

A document maps settings to values; a setting is a leaf, in a group or alone,
because `uistate.rs` merges leaf by leaf. `Filled` and `Patched` are `merge`
and `patched`. A writer goes waiting - locked - merged - landed - done:
`TakeLock`, `Merge` (re-read, check, merge, temporary), `Rename`, `Unlock`,
which are `Store::update` and `Store::write`; `Fault` refuses or kills it at
any of these points, also after the rename. `Launch` is main's settle, whose
test is made without the lock, and `Open` the window's read. `Change` is
`owe` and `save`; `Wrote` is `wrote` with `acknowledged` and `exited`; `book` is
`UiState.js`'s book, patches for bytes. Whether two patches that say the same
are the same bytes depends on the order their keys were owed in; `SameBytes`
leaves it open where there are two keys. `landed` and `writer` are history.

### Notes

A content is a text and how its lines end, because a save puts the endings of
the original back (`Encoded`). `items`, `current`, `closePending` are
`NoteWorkspace.qml`'s, `pending` and `serial` `NoteBackend.qml`'s. The child
takes one request through the steps of `store.rs`: `Load`, or `CheckOriginal`,
`Backup`, `WriteTemp`, `Recheck`, `Rename`, `SyncParent`, each of which may
refuse. `ChildDies` at any of them, `Outside` writes at any of them, and the
user types and switches tabs at any of them. `Careless` switches on what the
workspace does not guard against (section 6). `held` and `raced` are history.

### KeyFiles, Desktop

A file is a sequence of lines, and a line is what the edits distinguish: group
headings, keys, comments, block markers. `SetPreferred`, `DropPreferred`,
`DropDefault`, `Cut` and the rest are the edits; `Desktop` runs them as the
halves of each command, with the temporary and rename of `userfile.rs` between
reading and replacing, and Hyprland's reload and its errors for the bindings.
`XdgDefault` is `xdg-mime`, external. `Dies`, `WriteFails`, `UserEdits` (between
commands), `Upgrade` (the packaged registration changes) and `Reachable`
(Hyprland comes and goes) are the environment. `user` is history: `wrote` is
what is not Philemon's in the four files, `left` what of `mimeapps.list` no
`xdg-mime` has taken out since, whose `default` makes Philemon the only handler
of its type.

### Json, JsonDoc, JsonText, Wire

A text is a sequence of characters; runs no reader looks into are one element.
`FieldStr`, `FieldNum` and their kin scan a line as `json.rs` does, with
`Outside` for its position in or out of a string; `Parse` and `Render` are
`jsondoc.rs`. `JsonText` is the reference: it cuts a text into tokens, keeping
half a surrogate pair as a unit of its own, and gathers them into values.
`Agreed` is the reading every reader of JSON has of a text, or none where
readers part (a control character in a string, a name twice, half a pair), and
stands for the window's `JSON.parse`; `Lenient` reads those too.

In `Wire` one of five links is used in a behaviour: requests as the client's
`JSON.stringify` writes them and `parse_request` reads them; answers as each
`*_line` function writes them and `receive` takes them; the notes' requests and
replies; and a settings file typed lexeme by lexeme and rewritten. A line is a
sequence of fields with their kinds, in tables that follow the Rust and QML
functions (`Sent`, `Shapes`, `ProtoLines`, `OpsLines`, ...); one of each kind
of line is written for each way its flags can stand, and every field has a
number or a text no other field of the line has. What a writer leaves out is
said by default (`LeftOut`), and what a reader takes for it is the reader's
(`Default`, `IfMissing`). These modules use RECURSIVE operators, so nothing is
proved about them.

## 3. Runs

| run | shows | bounds |
|---|---|---|
| `thumb_pool` | count, map, answers and the client's waiting agree; a row settles; a quit ends; the pool implements `RowPromise` | 2 workers, 2 media files and a directory, queue of 1, 4 row orders, 2 new listings |
| `thumb_files` | a lookup answers with the picture of the file that is there, a failure mark is of bytes a child ran on and gave nothing for, temporaries have an owner, the table serves a type as the files say | 2 processes of one worker, 2 paths (`a b` and `a%20b`), 3 file versions, 2 asks; the two processes with their workers are symmetric |
| `listings` | every match once and ranked, sizes of their own rows, one order, no folder waits for ever | 8 entries, 1 readdir order, 3 sorts, a query of one letter, 1 folder per slice, 2 starts, 2 asks, 1 change |
| `file_ops` | nothing lost, cancels reach their target, operations end | 2 file systems, 3 names, a file, a folder with a file, a fifo; 2 requests of 1 item; 1 fault of copy, unlink or chmod |
| `file_ops_undo` | the journal is exact and a chain of undos goes back state by state | 1 file system, 2 names, 3 requests of 2 items, ring of 2, 1 failed copy |
| `pane_watch` | one watch, notices about the right folder, the pane catches up and rests | 2 folders under 3 paths, 1 outside change, 3 requests, 1 fault |
| `jobs` | a work directory has one owner, "done" is true, nothing at a destination is replaced, a kill meets its own child, a row's extras are answered or its listing waits for a tool that stays | 2 threads, 9 scenarios, 2 names per work directory, 4 lines, chunks of 3 bytes, 2 outside acts |
| `ui_store` | no writer undoes another, nothing sent twice or forgotten, what is owed is stored or reported | 2 windows and the command line, 2 settings of 2 values and one of a newer release, 2 changes, 2 commands, 1 fault |
| `notes` | typed text stands, "saved" is true, what a save replaces has its copy, the workspace does not stay busy | 3 notes and an alias, 2 tabs, 3 requests, 2 texts, 1 death, 1 outside write |
| `notes_close` | section 6: a close loses another note's text | as `notes`, with the close it does not guard |
| `desktop` | the user's lines stand, a claim takes and leaves a config that loads, a release leaves nothing | 2 commands, 2 runs, 7 boxes, one of: an edit, a death, an upgrade, a compositor that comes or goes |
| `wire` | each line is heard as it was said, and a rewrite means what the file meant, half a surrogate pair apart | every kind of line with each setting of its flags, 2 texts, 2 lines in the pipe, files of 4 out of 17 lexemes, nesting of 5 |

Why the bounds are enough to mean something:

- `thumb_pool`: the row orders give every transition (longer, shorter,
  permuted, with a row that takes no thumbnail); two new listings make a job two
  generations old; with a queue of one, a submit drops jobs while older jobs of
  the same path wait or run.
- `thumb_files`: the two paths collide under an escape that leaves `%` alone.
  The second and third version of a file come while the first is drawn, stamped
  or published, and with two processes also between another's look-up and its
  publication. `Drawn` lets a thumbnailer write a stamp of its own or bytes
  that are no PNG. The sets of thumbnailer files hold what could be read two
  ways: an alias beside its canonical type, a program that is gone, keys outside
  the group, two files for one type.
- `listings`: the names put numbers (`a10`, `a2`), case (`A2`, `a2`), a hidden
  entry, a folder in a folder, an unreadable one and one entry that comes and
  goes against each other. readdir gives them in the reverse of every order
  wanted. Ties under each key exist. `kind` is a sort the client may send and
  the code refuses. With one folder per slice a walk is interrupted at each.
- `file_ops`: two requests are what it takes to have a loop request or a cancel
  act inside a thread's operation; volume `v2` stands for a mount that cannot
  rename, `v1` for an ordinary one, so each kind of move appears.
- `file_ops_undo`: three requests fill a ring of two and push one out.
  `JournalExact` is checked with failing copies only: a fifo whose mode is
  refused leaves a node that no entry names (section 6), so that fault is left
  out of this run on purpose. `DEPTH` is 2 for the code's value.
- `pane_watch`: QueueLimit 8 never fills, because an overflow is a known loss
  (section 6). `CatchesUp` speaks of a pane that is not held by an editor or a
  menu, shows a folder, and whose watch the kernel accepted.
- `jobs`: the scenarios are pairs of requests that meet: over one destination,
  over one work directory's name, and each kind of meta request beside a
  publisher. Archives hold roots only, nothing, or names in every spelling that
  means a root; a tool is missing in some; work directories of a killed run are
  there at the start. `ClosesEarly` names the tools that may close their output
  and run on, both the lister and the probe: the second's watchdog is for that,
  the first's has stood down by then (section 6). A text's read may fail after
  any chunk.
- `ui_store`: two changes are needed for a patch to wait behind a writer or for
  a value to be changed back; two windows and a command meet on one leaf. The
  file starts absent (view.json is carried over), malformed, unreadable, or
  with a refused value beside a newer release's leaf. A hand edit can only
  precede the first launch, and windows do not close.
- `notes`: with three notes and two tabs, following a link replaces a tab, and
  the link ring and the alias bring a note back under another name. Three
  requests let a save wait behind a load and a close behind the save.
- `desktop`: each box reaches a refusal or a case of its own: with and without
  Omarchy, the package's entries, a portal, Hyprland that rejects the bindings,
  a stranger's registration, a block begun and not ended, a list with another
  handler before Philemon's, which one command claims while the other releases.
  No comment in `portals.conf` quotes the group's heading (section 6). 2.1
  million states.
- `wire`: each field's first characters tell which field it is, and numbers run
  from 9 over the change of width. The texts hold quotes, brackets, a whole request, a trailing
  backslash, control characters and a character outside the basic plane; two
  lines in the pipe show that a line ends where it should. Four lexemes suffice
  for an object with a member, a duplicate member, a repeated comma, a bare value
  with junk after it; the numbers are ones JSON has and has not.

Deadlock checking is off in every run: a process that has closed, or a user who
has spent the bounds, rightly stops. That nothing stops early is what the
liveness properties say, in the modules that have one.

No run checks a type invariant of its own: those of `ThumbPool` and `UiStore` are
proved, the proofs of `PaneWatch`, `Notes`, `Jobs`, `ThumbFiles` and `FileOps`
carry what they need of one, and elsewhere a value outside its type would be an
error of evaluation or a violation of what is checked.

## 4. Fairness

Weak fairness, of steps that a running thread or event loop takes without
anyone's help:

- `ThumbPool`: workers and loop. A job ends by its own deadline (`child.rs`).
- `FileOps`: the operation's thread and the loop. No system call of a copy
  blocks for good: a fifo is not opened.
- `PaneWatch`: the inotify thread, the loop, the client and its timer.
- `UiStore`: each started writer and the delivery of its exit. Weak is enough
  although the lock is contended: every holder leaves, and the changes and
  commands that bring writers are bounded.
- `Listings`: the loop reads its requests, the client the answers, and each
  turn of the loop gives both walkers a slice (`tick_walkers`), so the size
  queue and the search each progress.
- `Jobs`: each thread, its watchdog, and the passing of a limit. The tools owe
  nothing: they may stall for ever, and `MetaIsAnswered` holds because the
  limit passes. Its exception is the code's: a lister that closed its output
  and stays is waited for without a limit (`Stays`). An extraction has no limit
  (`run_boxed`), so nothing is claimed of its end.
- `Notes`: the child and the workspace's handlers. A child that dies or refuses
  is within `BusyEnds`; one that hangs in a system call is not, since
  `NoteBackend.qml` has no limit of time.

Users, other programs and faults owe nothing, and neither does a drain's
deadline: `Shutdown` holds without it. `ThumbFiles`, `Desktop`, `Wire` and the
undo run are checked for safety only.

## 5. Proofs

All for arbitrary constants under the named assumption of each module
(`PoolAssumption`, `StoreAssumption`, `WatchAssumption`, `ThumbFilesAssumption`,
`OpsAssumption`, `JobsAssumption`, `NotesAssumption`, `DesktopAssumption`): any
number of windows, workers, threads, commands, files, settings and tabs, any
queue limit, any bound. TLC evaluates each assumption in the module's run.

`ThumbPool_proofs`. `TypeCorrect` is inductive as it is. `CountIsExact`
follows with it: each handler changes the count by exactly the jobs it queued,
took back or received; the argument is about cardinality of the busy workers.
`NoRowIsStranded`: a mapped path has a job queued, running or reported; it needs
that a submit which drops jobs unmaps the dropped paths that have no other job.
`DrainLeavesNothing` joins the two: with nothing outstanding there is no job,
so no mapped row. `MapNamesListing` and `AnswersAreForTheirRow` rest on every
change of order clearing the map. `NoRowIsForgotten` assumes `Distinct`: no
listing names a path twice. `PoolKeepsPromise` maps each step to a step of
`RowPromise` or a stutter.

`UiStore_proofs`. The inductive invariant is
`IInv == Types /\ Lifecycle /\ ReadIsFresh /\ Owing /\ Stored`, model-checked on
the small instance before it was proved. None of the properties is inductive
alone. `NothingSentTwice` needs `Owing`: what a writer carries is still owed,
and what is known stored is not. `NotOwedIsStored` needs `Stored` for the time
between the rename and the exit, when the file has the patch and the window does
not know; that in turn needs `Lifecycle`, that a window's one writer carries
what its book says, and `ReadIsFresh`, that another writer's rename puts back
the value it found. `NoLostUpdate` is the action property `OthersStand`: what a
rename installs is the merge onto the file as it is at the rename, not as it was
at the read. The proof states for each action what it changes (the lemmas ending
in `Is`), so that each invariant step needs only those.

`PaneWatch_proofs`. `IInv == Types /\ Armed /\ About`. `Armed`: the kernel's
watches are among the two that watch.rs holds, and a held one is in the kernel
while its folder exists; without the second half an abandoned scan could leave a
handle of a watch that is no more. `About`: the held watch is of the folder
listed, the incoming one of the folder scanned. `OneWatch` follows; so does
`ChangedIsAboutItsPath`, whose pipe is typed so that a changed line is about its
path from the moment it is written.

`ThumbFiles_proofs`. `TempsAreHeld` is inductive with the shape of the state: a
temporary is made by a worker entering the part of the job that knows of it, and
each way out removes or publishes it. The proof is one step per action, each
shown to touch its own worker's temporaries only. `HitsAreCurrent` and
`MarksAreOfTheirBytes` rest on `CInv`: what a worker holds, and what the cache
holds, is of the file its stamp dates or of one that is gone (`Gone`), and a
time that is gone never comes back. Under it lie two lemmas about the code's
algorithms for every input: `UriTellsApart`, that no two paths have one URI
(the escapes are cut off the front one by one, and none is a prefix of
another), and `StampedIs`, that `thumbwrite.rs`'s removal and insertion of
chunks leaves one URI and one mtime, its own, and every pixel.

`FirstOnesServe` proves `FirstServes` for whatever is installed. The table is
read at the start and never changes, so the theorem is about four pieces of
sequential code, each with its own induction. `FieldsFit`: after n lines, what
has been read is what the property asks of those n (`Fit`: the last heading
decides, the last `Exec` and `TryExec` under it, every `MimeType`).
`ScannedInOrder`: a sorted directory leaves no file out and repeats none (a
sequence of as many different files as there are meets all of them).
`ScannedPlaced`: an entry's place says its directory and its rank in it.
`TableFirst`: after n entries the table holds the types one of them serves, with
the program of the first that does. The folds of the library are recursive
functions of sets of indexes; `FoldsTo` turns one into a sequence of states.

`FileOps_proofs`. There is one cancel flag for all operations. What keeps it
from hitting the next one is `FlagNamesRunning`: while the loop serves, a raised
flag means that a `transfercancel` named the operation that runs. It holds
because a claim lowers the flag, and no cancel raises it for an id that is not
in the slot. `ContentIsKept` rests on `FInv`. What an operation may yet remove
is the partial target, on a cancel, and the source of a move, at its end; so
`TargetKept` says that what the target holds is held outside it too, and
`SourceKept` that what the source holds and is not still to be copied is held
outside it, or in either case that a request touched it while the operation ran
(`late`). The two feed each other: a child opened at the target leaves `todo`.
Between them come `OpensRight` (one file at most is being written, and by the
operation) and that a tree has no orphans, which makes an erased subtree erase
no more than it names. The lemmas before it say what each operator of
`FileTree` does to a tree of any shape: `PutIs`, `ErasedIs`, `RenamedIs`,
`CopiedOverIs`, `CutShortIs`, and `UndoneKeeps` for an undo's chain of steps.

`OnlyItsOwnIsTaken` and `JournalIsExact` rest on `FInv` and `JInv`. Every name
knows the request that made it, and no request is older than what it made
(`Ages`): when an operation takes the slot, nothing yet is its own. While no
other request disturbs it, below its target is only what it made (`ItemWhole`:
creates are exclusive, and a name that is free has nothing below it), below its
created steps too (`CreatedIsOwn`), and whatever it made is below a step or
below the target (`OwnIsRecorded`). What could break this is a rename that moves
a copy it made itself, or a foreign name under such a copy; `MovesApart` rules
it out: the rows of one selection are in one volume, so a move either renames
all its items or copies all of them. `ItemWhole` also makes the removal of a
cancelled partial the right one of the two (`op.tree`). A refused unlink or
chmod leaves a copy that the code reports to nobody, so `JournalIsExact` is for
`Faults \subseteq {"copy"}`, as its run is; `OnlyItsOwnIsTaken` is for every
fault.

`UndoIsExact` adds `UInv`. A world is the files and the trash. `CanGoBack` says
of a list of steps that there is a chain of worlds, one before each step, in
which reversing the step in the world after it gives the world before it, unless
a step crosses file systems or is a trashed item the trash did not list.
`EntriesGoBack` says it of every entry nobody disturbed, from the world its
operation started in to the one it left. `CopyGoesBack` says it of the running
operation, without the item it is in, which no step names yet (`FilesSoFar`).
`TrashGoesBack` says it of a batch for the trash item by item: `gio` has taken
all of them while the loop still pairs them with what the trash lists, so the
chain stops at the world in which those checked so far, and only those, are
gone (`LeftBy`). That the entry paired is the right one rests on `UrisAged`: the
trash's names of this batch are newer than any listed before it (`TrashFits`).
Each kind of step has its lemma, on trees of any shape: a rename back
(`RenamedBack`), a restore (`PutBack`), the removal of a created node below
which there was nothing (`ClosedBelow`). A chain grows at its end
(`OneMoreGoesBack`), and undoing it from the newest step retraces it
(`UndoneRetraces`, by the least step at which the two would part). The
hypotheses are those of its run, for any number of volumes: no unlink and no
chmod fails, since each leaves something that no entry names, and every mount
can rename, since a rename that copies cuts short a file a transfer is writing
(`renamecompat.rs:104`, section 6).

`Jobs_proofs`. `KillsItsOwn` needs `WatchedLives`: while the listing's watchdog
sleeps or aims, its thread is still before the reap. `WorkIsPrivate` needs
`EachOwnsItsWork`, which reaches to the drop, and `LeftoversStay`: a name is
taken only when nothing stands under it, so two threads that count from the same
number part at the creation. `AnswersAreTrue` needs, thread by thread
(`Honest`), that a listing which did not fail was read to its last line before
it was believed, that a job is published exactly when it did not fail
(`Publishes`), that a text's count is at most the lines of the file and less
only where it says partial or failed, or a read failed (`CountIsFloor`), and what was counted (`ContentsCount`: the fold over the lines
has counted each of them). `NothingReplaced` is the publication's own step.

`Notes_proofs`. `IInv` says that a request in flight is known by its number
(`Numbered`), that what is on the disk was put there (`DiskHeld`), and, step by
step of a save, what it has behind it (`Saving`, `CopyFirst`); `SaidTrue` then
carries "it was written" through the pipe to the answer. `SavedIsWritten` and
`ReplacedIsBacked` are action properties and follow from the state before the
step.

`EditsStand`, in the same module, is on the hypothesis `Careless = {}`: the user
neither types into a note being reloaded nor closes the window behind a request.
The invariant is that no two tabs are of one note (`Unique`), that the only tab
that can go with the save in flight is the one saved (`SavesShown`; between a
refused window close and the next click the tab asked about and the tab shown
differ, and the proof needs that no save is in flight then), that a note being
reloaded is not dirty (`ReloadsClean`), and that an answer is of what was asked
(`RepliesMatch`). The run `notes_close` shows that the hypothesis is needed.

`Desktop_proofs`. `ConfigLoads` needs to know at each stage which text Hyprland
loads (`Fine`): before a block is written the one in force, while it is tried
the one read before it, and after the way back the one on the disk. That holds
for a command while it runs alone, and `Alone` says what that word gives: nobody
else is busy, so nobody else writes. A cut takes lines out and adds none
(`CutIs`), so what loaded before a release loads after it. `ClaimTook` is about
`set_preferred`: wherever the group stands, the line ends up in it (`SetTakes`,
by the last heading before a line, `HeadAt`). It assumes `Unquoted`, that no
comment quotes `[preferred]`, since `chooser.rs:154` takes such a comment for
the group (section 6). What `drop_preferred` leaves is made of lines that were
there, through the library's `FlattenSeq`, a recursive function whose existence
is shown first (`Flattens`).

`OthersKept` proves `OthersStand`. A command carries a text between its read and
its rename, so the invariant (`Stands`) speaks of the files and of every text
that is yet to be written: each `Fits` what the history says. It rests on one
lemma for each edit: an append and a cut keep the user's lines (`AppendedUsers`,
`CutUsers`), and what adds, replaces or drops a key of ours keeps every other
value in the group it stands in (`Match`: the lines kept, in their order, with
all their headings). `user.left` is what makes it inductive beside a claim: a
release that read `mimeapps.list` before `xdg-mime` wrote it puts the old
handlers back (section 6), so the list is between `left` and `wrote` and not
equal to either. Its hypotheses are `Unquoted` and `Framed`: no line of the
user's stands inside a block, which a cut takes out whole, and nobody else
writes an end marker. `Stands` itself has no hypothesis (`TheirsStand`).

`ReleasedAll` proves `ReleasesAll`. While a release runs alone and has not
failed, what it has behind it is gone (`Clean`), and the text it is about to
write, put in its place, leaves the next half's gone too (`At`); a half clears
its own file and no other (`Clears`, `NextClean`). It assumes `Once`: no block
begins twice by a hand other than Philemon's, since `hyprkeys.rs:157` cuts the
first. Philemon never appends a block that is there, from which the same
follows for every text it makes (`AppendedSingle`, `CutSingle`).

Where a proof goes along a sequence (the escapes of a path, the lines of an
archive, the steps of an undo), the induction is made by hand: the least number
at which the claim fails (`Least`) has a predecessor at which it holds.

Only model-checked: liveness (fairness is beyond the proof system), and all of
`Listings`: `AnswersInOrder` is about what sorts leave, and `AnswersAreTheirRows`
compares a fold over a recursive walk with a sum over a set.
`Json`, `JsonDoc`, `JsonText` and `Wire` are recursive over data and stay with TLC.

## 6. Where code and documentation disagree

With a run, `notes_close`: `NoteWorkspace.qml:81` tells the user to save or
discard unsaved notes before closing, and a close asked for while the save of
the tab that is to close is in flight shows another unsaved note, which the
save's answer at line 99 then discards without being told to.

Read in the code while modelling, without a run of its own.

Rows and watches:

- `thumbreq.rs:107`: a result is matched by path alone, so a job of a superseded
  listing answers the same path asked again; protocol.md:729 says it is dropped.
- `PaneWire.qml:211` and `:217`: a thumbed or dirsized line already in the pipe
  when the pane sorts names a row of the old order and is remembered under the
  new one; only a list sets `listInFlight`. `PaneWire.qml:129` takes a sort's
  listed line for a list's, and `:328` lets any error line but a sort's release
  the flag. The meta reply carries a row and nothing else (`run.rs:291`).
- `Search.js:100`: leaving a search while a list is in flight never re-lists;
  Search.js:87 says it does.
- `watch.rs:118`: an overflow of the kernel's queue is thrown away because it
  carries no descriptor; protocol.md:935 says what is dropped costs nothing.
- A `listpaths` that names a path twice leaves one of its rows unanswered
  (protocol.md:737).

Files:

- `undo.rs:79`: a move between file systems cannot be undone, and the attempt
  spends its entry; protocol.md:511 says a move renames back.
- `undo.rs:86`: undoing the copy of a folder deletes what another request put
  into it while it was copied; protocol.md:519 says an undo never does.
- `copyfile.rs:107`: a cancelled folder copy removes its destination with what
  another request put there (protocol.md:351).
- `copynode.rs:42`: a fifo whose mode is refused stays and no entry names it
  (protocol.md:520).
- `renamecompat.rs:104` with `copyfile.rs:136`: a rename of the copy, during a
  move to a mount that cannot rename, can leave half a copy after the source is
  gone; `copyfile.rs:129` says the source goes once the copy is complete.
- `trash.rs:64`: a trashed name taken again at once counts as failed, and
  `trash.rs:22` splits the trash's list at newlines and tabs of names.
- `ops.rs:79`: a duplicate cannot be cancelled, so a quit waits for it until the
  drain's limit.
- A good file gets a lasting failure mark in three ways. It is moved away and
  back while it is drawn (`thumbs.rs:212`, comment at 188). The exit's sweep
  (`run.rs:353`) takes its temporary while its worker still runs, and
  `wrote_something` then finds none; its comment (`thumbs.rs:223`) says that an
  empty output is a decoder's that "ran to completion". And `bwrap` or `prlimit`
  exits non-zero for a reason of its own; `child.rs:89` calls every non-zero exit
  "the decoder's own verdict". `ThumbFiles` does the last two (a file
  that went does not come back with its old time in it), so `MarkIsOfItsBytes` says only that a child ran on those very bytes and gave
  nothing.
- Temporaries in `fail/` are never swept (`thumbwrite.rs:49`). `thumbspec.rs:35` sorts paths as lossy text: of two files
  whose names differ only in bytes that are no UTF-8, readdir decides which
  serves a type (comment at 75).
- `metareq.rs:165`: the listing's watchdog stands down and then `child.wait()`
  has no limit, so a lister that closes its output and stays leaves its row
  unanswered; `mediaprobe.rs:88` names that very case for its own child.
  `MetaIsAnswered` excepts it (`Stays`).
- `linecount.rs:36`: a read that fails ends the count, which is answered as
  complete (`partial` and `failed` both false), against the comment at line 13.
  `AnswerIsTrue` asks there only that the count is no more than the lines there.
- `archivereq.rs:22`: only an empty tree is refused; an extraction that stopped
  part way and exits well counts as verified. An archive job is not waited for
  by a quit, and its work directory stays.

Settings, notes, desktop, text:

- `UiState.js:56`: a change is not sent when its bytes equal the last landed
  patch, although the file has moved on. A window that closes while a patch
  is pending loses it; a killed writer leaves its temporary.
- `NoteWorkspace.qml:104`: a reload in flight overwrites what is typed until it
  answers. `store.rs:87`: a failed sync of the directory after the rename
  answers an error although the note is written.
- `main.rs:32` says a refused handler claim has claimed nothing; when one half
  fails, the other stands. `chooser.rs:154` takes a comment quoting
  `[preferred]` for the group. The desktop commands overwrite an edit made
  between their read and their rename, also where `hyprkeys.rs:43` puts back.
  They do so to one another: `defaults.rs:109` writes back a list it read before
  another `--default`'s `xdg-mime` wrote it, and that claim, which said it took,
  is gone while the handlers it displaced are back.
- `json.rs`'s `field_str` refuses a surrogate pair that `jsondoc.rs` accepts:
  the field reads as if it were absent.
- `jsonstring.rs:62`: half a surrogate pair, which a browser keeps, is U+FFFD
  after a rewrite, in a name too, where two names may become one.

## 7. Not modelled

Views, themes, menus and dialogs, which are declarative; tabs, selection and
filter, which keep no state another process changes; type tables; mounts,
devices and the network; the client's operations panel; previews (image
headers, hex, owners, mount tables); launching and the environment; argument
vectors and sandboxes of child processes; `listpaths` and packed spans; wording.
These have little state of their own, or are lookups, or are another program's.

Abstracted in what is modelled: characters outside ASCII, whose case only the
search folds; symbolic links, which walk as data; time, so that a deadline may
pass at any moment it is set; contents, which are an origin, a version or one of
two texts. PROJECT.json gives the reason component by component.

## 8. What could come next

1. Proofs: for `Listings`, `AnswersAreTheirRows`.
2. Runs for the items of section 6 that have none.
3. `FileOps` with other programs acting inside an operation, and inside `gio`.
4. Mounts and ejection as a state machine with the client's operations panel.
