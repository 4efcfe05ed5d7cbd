----------------------------- MODULE ThumbFiles -----------------------------
(***************************************************************************)
(* What a thumbnail job does to the shared cache (thumbs.rs run_one,       *)
(* thumbcache.rs, thumbwrite.rs): which thumbnailer serves a type          *)
(* (thumbspec.rs), the temporary a boxed child writes, the stamp, the      *)
(* rename that publishes it, the fail marker, and the sweep at exit.       *)
(* Several processes share the cache; files change under all of them.      *)
(*                                                                         *)
(* A path is a sequence of bytes of valid UTF-8. A picture is the number   *)
(* of the file it shows. A PNG is the sequence of its chunks.              *)
(***************************************************************************)
EXTENDS Integers, Sequences, SequencesExt, FiniteSets

CONSTANTS
  Paths,     (* the media files rows name                                  *)
  MimeOf,    (* the type of each                                           *)
  Canonical, (* what each type's alias stands for                          *)
  Installs,  (* the thumbnailer files there may be, by search directory    *)
  Runnable,  (* programs that can be run                                   *)
  Procs,     (* philemon processes                                         *)
  WorkersOf, (* the pool of each                                           *)
  Drawn,     (* what a thumbnailer that succeeds may write for a picture   *)
  MaxAsks,   (* bound: rows asked for                                      *)
  MaxFiles   (* bound: files made                                          *)

Workers == UNION {WorkersOf[p] : p \in Procs}
ProcOf(w) == CHOOSE p \in Procs : w \in WorkersOf[p]

\* The pictures a PNG shows.
Shows(png) == {png[i].of : i \in {j \in DOMAIN png : png[j].t = "IDAT"}}

IsPng(png) == png # <<>> /\ Head(png).t = "IHDR"

\* The lines of a thumbnailer file, and the files of a search path. Two files
\* of a directory may have one name: a path is read as text, and what is not
\* UTF-8 in it reads alike.
IsEntry(lines) ==
  /\ lines \in Seq(ToSet(lines))
  /\ \A l \in ToSet(lines) :
       l \in [k : {"group"}, v : BOOLEAN] \cup [k : {"Exec", "TryExec"}, v : {l.v}]
             \cup [k : {"MimeType"}, v : Seq(DOMAIN Canonical)]
IsInstall(dirs) ==
  /\ dirs \in Seq(ToSet(dirs))
  /\ \A d \in DOMAIN dirs :
       /\ IsFiniteSet(dirs[d])
       /\ \A e \in dirs[d] : e.name \in Int /\ IsEntry(e.lines)

\* A thumbnailer that succeeds writes bytes of any kind; a PNG it writes is a
\* picture of the file it read.
ASSUME ThumbFilesAssumption ==
  /\ Paths \subseteq Seq(0..255)
  /\ \A dirs \in Installs : IsInstall(dirs)
  /\ \A p, q \in Procs : p # q => WorkersOf[p] \cap WorkersOf[q] = {}
  /\ MaxAsks \in Nat /\ MaxFiles \in Nat \ {0}
  /\ \A of \in 1..MaxFiles : \A d \in Drawn[of] :
       d \in Seq(ToSet(d)) /\ (IsPng(d) => Shows(d) = {of})

VARIABLES
  installed,  (* the thumbnailer files, read once at start                 *)
  file,       (* the file at each path, <<>> or <<one>>                    *)
  large,      (* the published entries, by URI                             *)
  fail,       (* the fail markers, by URI                                  *)
  temps,      (* the temporaries on disk: whose, and in which directory    *)
  job,        (* what each worker does                                     *)
  phase,      (* of each process                                           *)
  made,       (* files made so far                                         *)
  asks,       (* rows asked so far                                         *)
  judged      (* files a child was run on and gave nothing for, for the    *)
              (* properties                                                *)

vars == <<installed, file, large, fail, temps, job, phase, made, asks, judged>>

-----------------------------------------------------------------------------
(* The cache key.                                                          *)

\* URI_LITERAL_BYTES: !$&'()*+,-./:=@_~
Literal == {33, 36} \cup 38..46 \cup {47, 58, 61, 64, 95, 126}

IsAlphanumeric(b) == b \in 48..57 \cup 65..90 \cup 97..122

Hex(d) == IF d < 10 THEN 48 + d ELSE 55 + d

\* The path, every byte GLib does not leave literal as %XX.
Escaped(b) ==
  IF IsAlphanumeric(b) \/ b \in Literal THEN <<b>> ELSE <<37, Hex(b \div 16), Hex(b % 16)>>

UriFor(path) == FlattenSeq([i \in DOMAIN path |-> Escaped(path[i])])

Uris == {UriFor(p) : p \in Paths}

-----------------------------------------------------------------------------
(* Which thumbnailer serves a type. A line is a heading, whose value says  *)
(* if it opens the [Thumbnailer Entry] group, or a key with its value.     *)

\* Slip: a key counts in whatever group it stands.
FieldsAnywhere(lines) ==
  FoldLeft(LAMBDA f, l :
             IF l.k = "Exec" THEN [f EXCEPT !.exec = <<l.v>>]
             ELSE IF l.k = "TryExec" THEN [f EXCEPT !.tried = <<l.v>>]
             ELSE IF l.k = "MimeType" THEN [f EXCEPT !.mimes = @ \o l.v]
             ELSE f,
           [in |-> TRUE, exec |-> <<>>, tried |-> <<>>, mimes |-> <<>>], lines)

\* The keys of the one group that counts, the last Exec and TryExec of it.
Fields(lines) ==
  FoldLeft(LAMBDA f, l :
             IF l.k = "group" THEN [f EXCEPT !.in = l.v]
             ELSE IF ~f.in THEN f
             ELSE IF l.k = "Exec" THEN [f EXCEPT !.exec = <<l.v>>]
             ELSE IF l.k = "TryExec" THEN [f EXCEPT !.tried = <<l.v>>]
             ELSE [f EXCEPT !.mimes = @ \o l.v],
           [in |-> FALSE, exec |-> <<>>, tried |-> <<>>, mimes |-> <<>>], lines)

\* A directory's files in path order, whatever order readdir gives. Files of
\* one name stand as they came.
SortedByPath(dir) ==
  CHOOSE s \in [1..Cardinality(dir) -> dir] :
    \A i, j \in DOMAIN s : i < j => s[i].name <= s[j].name /\ s[i] # s[j]

Entries == FlattenSeq([i \in DOMAIN installed |-> SortedByPath(installed[i])])

IsRunnable(program) == program \in Runnable

\* What the tables hold: the first file to declare a type keeps it.
ByMime ==
  FoldLeft(LAMBDA table, e :
             LET f == Fields(e.lines)
                 runs == f.exec # <<>> /\ \A x \in ToSet(f.exec \o f.tried) : IsRunnable(x)
                 types == IF runs THEN {Canonical[m] : m \in ToSet(f.mimes)} ELSE {}
             IN [t \in DOMAIN table \cup types |->
                   IF t \in DOMAIN table THEN table[t] ELSE f.exec[1]],
           [t \in {} |-> {}], Entries)

Declared(path) == Canonical[MimeOf[path]] \in DOMAIN ByMime

-----------------------------------------------------------------------------
(* PNG chunks.                                                             *)

Text(key, value) == [t |-> "tEXt", key |-> key, v |-> value]
StampedKeys == {"Thumb::URI", "Thumb::MTime", "Software"}

IsStamp(c) == c.t = "tEXt" /\ c.key \in StampedKeys

WithoutTextKeys(png) ==
  FlattenSeq([i \in DOMAIN png |-> IF IsStamp(png[i]) THEN <<>> ELSE <<png[i]>>])

InsertAfterIhdr(png, chunks) == <<Head(png)>> \o chunks \o Tail(png)

Stamped(png, uri, mtime) ==
  InsertAfterIhdr(WithoutTextKeys(png),
    <<Text("Thumb::URI", uri), Text("Thumb::MTime", mtime), Text("Software", "philemon")>>)

Texts(png, key) == {i \in DOMAIN png : png[i].t = "tEXt" /\ png[i].key = key}

\* The first text of that key ahead of the pixels, <<>> or <<value>>.
PngText(png, key) ==
  LET pixels == {i \in DOMAIN png : png[i].t = "IDAT"}
      at == {i \in Texts(png, key) : \A j \in pixels : i < j}
  IN IF ~IsPng(png) \/ at = {} THEN <<>>
     ELSE <<png[CHOOSE i \in at : \A j \in at : i <= j].v>>

Pixels(picture) == [t |-> "IDAT", of |-> picture]
OnePixel == <<[t |-> "IHDR"], Pixels(0)>>

StampedFor(png, mtime) == PngText(png, "Thumb::MTime") = <<mtime>>

-----------------------------------------------------------------------------
Idle == [pc |-> "idle", path |-> <<>>, mtime |-> 0, png |-> <<>>]

Init ==
  /\ installed \in Installs
  /\ \E good \in BOOLEAN :
       file = [p \in Paths |-> <<[of |-> 1, mtime |-> 1, good |-> good]>>]
  /\ large = [u \in Uris |-> <<>>]
  /\ fail = [u \in Uris |-> <<>>]
  /\ temps = {}
  /\ job = [w \in Workers |-> Idle]
  /\ phase = [p \in Procs |-> "up"]
  /\ made = 1 /\ asks = 0 /\ judged = {}

Lives(w) == phase[ProcOf(w)] # "down"
At(w, pc) == Lives(w) /\ job[w].pc = pc
Uri(w) == UriFor(job[w].path)
Goes(w, pc) == job' = [job EXCEPT ![w].pc = pc]
Ends(w) == job' = [job EXCEPT ![w] = Idle]

\* What the cache says of a path: a recorded failure wins over a stale entry.
Lookup(path, mtime) ==
  IF StampedFor(fail[UriFor(path)], mtime) THEN "failed"
  ELSE IF StampedFor(large[UriFor(path)], mtime) THEN "ready" ELSE "miss"

\* The loop looks a row up; a miss becomes a job with the file's mtime. What
\* waits in the queue between is a worker that has not yet begun.
Ask(w, path) ==
  /\ asks < MaxAsks /\ asks' = asks + 1
  /\ phase[ProcOf(w)] = "up" /\ job[w] = Idle
  /\ file[path] # <<>> /\ Declared(path)
  /\ LET mtime == file[path][1].mtime
     IN /\ Lookup(path, mtime) = "miss"
        /\ job' = [job EXCEPT ![w] = [pc |-> "temp", path |-> path, mtime |-> mtime,
                                      png |-> <<>>]]
  /\ UNCHANGED <<installed, file, large, fail, temps, phase, made, judged>>

\* Slip: the temporary stays.
DiscardNothing(w) == UNCHANGED temps

Discard(w) == temps' = temps \ {<<w, "large">>}

\* Only an input that can be resolved is given to a child.
Resolves(path) == file[path] # <<>>

\* The exclusive temporary beside the entry, then the input resolved and the
\* sandbox found: a refused create ends the job with nothing to remove, the
\* rest with the temporary gone and nothing recorded.
Prepare(w) ==
  /\ At(w, "temp")
  /\ \/ /\ Resolves(job[w].path) /\ Goes(w, "child")
        /\ temps' = temps \cup {<<w, "large">>}
     \/ Discard(w) /\ Ends(w)
  /\ UNCHANGED <<installed, file, large, fail, phase, made, asks, judged>>

\* What a boxed child on the path may come to. One that cannot be spawned,
\* watched or waited for is not started. One that exits non-zero failed, be it
\* the decoder that refuses the bytes or prlimit and bwrap for a reason of the
\* machine, and so did one still running at the deadline. A decoder may also
\* exit 0 and leave nothing.
Outcomes(path) ==
  {[ran |-> r, png |-> <<>>] : r \in {"not started", "failed"}}
  \cup IF file[path] = <<>> THEN {}
       ELSE {[ran |-> "succeeded", png |-> d] :
               d \in IF file[path][1].good THEN Drawn[file[path][1].of] ELSE {<<>>}}

\* The sweep of an exit may have taken the temporary from under the child.
WroteSomething(w, o) == o.ran = "succeeded" /\ <<w, "large">> \in temps /\ o.png # <<>>

\* Slip: a child that never started is the file's fault.
VerdictOfMachine(w, o) == IF WroteSomething(w, o) THEN "stamp" ELSE "mark"

\* A child that never started judges nothing; a failure does, and so does one
\* that succeeded and whose temporary is empty or gone.
Verdict(w, o) ==
  IF WroteSomething(w, o) THEN "stamp"
  ELSE IF o.ran = "not started" THEN "discard" ELSE "mark"

\* The child runs on what the path names by then.
RunChild(w) ==
  /\ At(w, "child")
  /\ \E o \in Outcomes(job[w].path) :
       /\ job' = [job EXCEPT ![w].pc = Verdict(w, o), ![w].png = o.png]
       /\ judged' = IF o.ran # "not started" /\ ~WroteSomething(w, o) /\ file[job[w].path] # <<>>
                      THEN judged \cup {file[job[w].path][1].of} ELSE judged
  /\ UNCHANGED <<installed, file, large, fail, temps, phase, made, asks>>

GiveUp(w) ==
  /\ At(w, "discard") /\ Discard(w) /\ Ends(w)
  /\ UNCHANGED <<installed, file, large, fail, phase, made, asks, judged>>

\* Slip: stamped with what the file is by now.
StampTimeNow(w) == IF file[job[w].path] = <<>> THEN job[w].mtime ELSE file[job[w].path][1].mtime

StampTime(w) == job[w].mtime

\* The bare PNG is read back and stamped; bytes that are no PNG, and any
\* refused read or write, end the job.
Stamp(w) ==
  /\ At(w, "stamp")
  /\ \/ /\ <<w, "large">> \in temps /\ IsPng(job[w].png)
        /\ job' = [job EXCEPT ![w].pc = "publish",
                              ![w].png = Stamped(@, Uri(w), StampTime(w))]
        /\ UNCHANGED temps
     \/ Discard(w) /\ Ends(w)
  /\ UNCHANGED <<installed, file, large, fail, phase, made, asks, judged>>

Publish(w) ==
  /\ At(w, "publish")
  /\ IF <<w, "large">> \in temps
       THEN large' = [large EXCEPT ![Uri(w)] = job[w].png]
       ELSE UNCHANGED large
  /\ Discard(w) /\ Ends(w)
  /\ UNCHANGED <<installed, file, fail, phase, made, asks, judged>>

\* record_failure: a marker is made beside the markers and renamed in; when it
\* cannot be, only the marker is lost.
MarkTemp(w) ==
  /\ At(w, "mark")
  /\ \/ temps' = temps \cup {<<w, "fail">>} /\ Goes(w, "marking")
     \/ UNCHANGED temps /\ Goes(w, "discard")
  /\ UNCHANGED <<installed, file, large, fail, phase, made, asks, judged>>

Mark(w) ==
  /\ At(w, "marking") /\ Goes(w, "discard")
  /\ \/ fail' = [fail EXCEPT ![Uri(w)] = Stamped(OnePixel, Uri(w), job[w].mtime)]
     \/ UNCHANGED fail
  /\ temps' = temps \ {<<w, "fail">>}
  /\ UNCHANGED <<installed, file, large, phase, made, asks, judged>>

Work(w) ==
  \/ Prepare(w) \/ RunChild(w) \/ GiveUp(w) \/ Stamp(w) \/ Publish(w)
  \/ MarkTemp(w) \/ Mark(w)

-----------------------------------------------------------------------------
(* Processes end.                                                          *)

Ours(p) == {t \in temps : t[1] \in WorkersOf[p]}
Resting(p) == \A w \in WorkersOf[p] : job[w] = Idle

\* The drain ends with every worker back.
Drained(p) ==
  /\ phase[p] = "up" /\ Resting(p)
  /\ phase' = [phase EXCEPT ![p] = "down"]
  /\ UNCHANGED <<installed, file, large, fail, temps, job, made, asks, judged>>

\* Or with its limit: what this process has beside the entries is swept while
\* the workers still run, and then the process ends.
Sweep(p) ==
  /\ phase[p] = "up" /\ ~Resting(p)
  /\ phase' = [phase EXCEPT ![p] = "swept"]
  /\ temps' = temps \ {t \in Ours(p) : t[2] = "large"}
  /\ UNCHANGED <<installed, file, large, fail, job, made, asks, judged>>

\* Or it is killed.
Exit(p) ==
  /\ phase[p] # "down" /\ ~Resting(p)
  /\ phase' = [phase EXCEPT ![p] = "down"]
  /\ UNCHANGED <<installed, file, large, fail, temps, job, made, asks, judged>>

-----------------------------------------------------------------------------
(* Other programs. A rewrite has a later mtime, in whole seconds, than     *)
(* what it replaces.                                                       *)

Others == UNCHANGED <<installed, large, fail, temps, job, phase, asks, judged>>

Write(path) ==
  /\ made < MaxFiles /\ made' = made + 1
  /\ \E good \in BOOLEAN :
       file' = [file EXCEPT ![path] = <<[of |-> made', mtime |-> made', good |-> good]>>]
  /\ Others

Delete(path) ==
  /\ file[path] # <<>>
  /\ file' = [file EXCEPT ![path] = <<>>]
  /\ UNCHANGED made /\ Others

Change(path) == Write(path) \/ Delete(path)

-----------------------------------------------------------------------------
Next ==
  \/ \E w \in Workers : (\E path \in Paths : Ask(w, path)) \/ Work(w)
  \/ \E p \in Procs : Drained(p) \/ Sweep(p) \/ Exit(p)
  \/ \E path \in Paths : Change(path)

Spec == Init /\ [][Next]_vars

-----------------------------------------------------------------------------
\* The entry a lookup answers with shows the file that is there now: no
\* rewrite between the stat, the decode, the stamp and the rename, and no
\* other worker or process racing for the same entry, leaves a picture of one
\* file stamped for another (thumbs.rs run_one, thumbcache.rs lookup). And
\* whatever is published, in either directory, is a whole picture that names
\* the one path its file name stands for, and no other.
IsEntryOf(png, u) ==
  /\ IsPng(png)
  /\ \A key \in StampedKeys : \E i \in DOMAIN png : Texts(png, key) = {i}
  /\ PngText(png, "Thumb::URI") = <<u>>
HitIsCurrent ==
  /\ \A p \in Paths :
       file[p] # <<>> /\ Lookup(p, file[p][1].mtime) = "ready" =>
         Shows(large[UriFor(p)]) = {file[p][1].of}
  /\ \A u \in Uris : \A png \in {large[u], fail[u]} : png # <<>> => IsEntryOf(png, u)

\* A file whose thumbnail is refused for good is one a child was run on, these
\* very bytes and no earlier or later ones at that path, and got nothing for:
\* a child that never started, an input that could not be resolved and the run
\* on another version of the file record nothing against it (thumbs.rs
\* run_one, child.rs verdict). Why the run got nothing is not told apart: the
\* wrapper's own failure, the deadline and a temporary swept at exit count as
\* a refusal does.
MarkIsOfItsBytes ==
  \A p \in Paths :
    file[p] # <<>> /\ Lookup(p, file[p][1].mtime) = "failed" => file[p][1].of \in judged

\* Every temporary in the shared cache has a worker that will still publish or
\* remove it, or its process was ended with that worker inside a child: no
\* path through run_one and record_failure leaves one (thumbs.rs discard).
TempsAreHeld ==
  \A t \in temps :
    /\ t[2] = "large" => job[t[1]].pc \in {"child", "discard", "stamp", "publish",
                                           "mark", "marking"}
    /\ t[2] = "fail" => job[t[1]].pc = "marking"

\* A type is served by the first file of the search path that declares it and
\* can be run, the user's own directory first, and no program is run that the
\* [Thumbnailer Entry] group of an installed file does not name (thumbspec.rs).
Offers(d, e, type) ==
  LET In(i) == \E g \in 1..i : e.lines[g] = [k |-> "group", v |-> TRUE]
                 /\ \A j \in g + 1..i : e.lines[j].k # "group"
      Named(k) == {i \in DOMAIN e.lines : In(i) /\ e.lines[i].k = k}
      Final(k) == {e.lines[i].v : i \in {j \in Named(k) : \A n \in Named(k) : n <= j}}
  IN /\ e \in installed[d]
     /\ Final("Exec") # {} /\ Final("Exec") \cup Final("TryExec") \subseteq Runnable
     /\ \E i \in Named("MimeType") : \E m \in ToSet(e.lines[i].v) : Canonical[m] = type
FirstServes ==
  \A type \in {Canonical[m] : m \in DOMAIN Canonical} :
    LET all == {c \in (DOMAIN installed) \X (UNION ToSet(installed)) : Offers(c[1], c[2], type)}
        Ahead(a, b) == a[1] < b[1] \/ (a[1] = b[1] /\ a[2].name <= b[2].name)
    IN IF all = {} THEN type \notin DOMAIN ByMime
       ELSE \E a \in all : /\ type \in DOMAIN ByMime
                           /\ \A b \in all : Ahead(a, b)
                           /\ \E i \in DOMAIN a[2].lines :
                                a[2].lines[i] = [k |-> "Exec", v |-> ByMime[type]]
=============================================================================
