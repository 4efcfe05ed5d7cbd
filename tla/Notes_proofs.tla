----------------------------- MODULE Notes_proofs -----------------------------
(***************************************************************************)
(* Three results about notes, for any vault, any links, any number of tabs *)
(* and whatever other programs, kills and failures do: "Saved." is said of *)
(* what was written, what a save replaces has its copy, and what the user  *)
(* typed stays.                                                            *)
(***************************************************************************)
EXTENDS Notes, TLAPS, SequenceTheorems

-----------------------------------------------------------------------------
(* Types.                                                                  *)

AllTexts == Texts \cup {""} \cup {Initial[f].text : f \in Files}
Contents == [text : AllTexts, ends : {"lf", "crlf", "mixed"}]
Asked == Files \cup DOMAIN Aliases
Tab == [path : Files, text : AllTexts, original : Contents]
Req == [id : Nat, c : {"load", "reload", "save", "resolve"}, path : Asked, text : AllTexts,
        original : Contents]
Reply == [id : Nat, ok : BOOLEAN, path : Files, content : Contents]
Working == [pc : {"got", "backup", "write", "recheck", "rename", "sync"}, req : Req]

TabsTyped == items \in Seq(Tab) /\ current \in 0..Len(items)

Types ==
  /\ serial \in Nat /\ pending \in {<<>>} \cup {<<r>> : r \in Req}
  /\ job \in {Idle} \cup Working
  /\ out \in Seq(Reply)
  /\ disk \in [Files -> Contents]
  /\ outside \in Nat /\ raced \in BOOLEAN

-----------------------------------------------------------------------------
(* The inductive invariant.                                                *)

\* A request's number is its own: what runs or was answered under the number
\* in flight is the request in flight.
Numbered ==
  /\ Busy => pending[1].id <= serial
  /\ job \in Working => job.req.id <= serial
  /\ \A i \in 1..Len(out) : out[i].id <= serial
  /\ Busy /\ job \in Working /\ job.req.id = pending[1].id => job.req = pending[1]

\* What a note holds was put there.
DiskHeld == \A f \in Files : <<f, disk[f]>> \in held

\* Only a save goes past its check, and only a written one past its rename.
Saving ==
  job \in Working =>
    /\ job.pc # "got" => job.req.c = "save"
    /\ job.pc = "sync" => <<Target, New>> \in held

\* A save answered well was written.
Wrote(r) == <<Real(r.path), Encoded(r.original, r.text)>> \in held
SaidTrue ==
  Busy /\ pending[1].c = "save" =>
    \A i \in 1..Len(out) : out[i].id = pending[1].id /\ out[i].ok => Wrote(pending[1])

\* The copy is made before the write, and the look is after it.
CopyFirst ==
  job \in Working =>
    /\ job.pc \in {"write", "recheck", "rename"} => <<Target, job.req.original>> \in backups
    /\ job.pc = "rename" /\ ~raced => disk[Target] = job.req.original

Rest == Types /\ Numbered /\ DiskHeld /\ Saving /\ SaidTrue /\ CopyFirst

IInv == TabsTyped /\ Rest

RestVars == <<pending, serial, job, out, disk, backups, held, raced, outside>>

-----------------------------------------------------------------------------
LEMMA RestDependsOn ==
  ASSUME Rest, UNCHANGED RestVars
  PROVE  Rest'
  BY DEF Rest, RestVars, Types, Numbered, Busy, DiskHeld, Saving, Target, New, SaidTrue, Wrote,
         CopyFirst

LEMMA RealIsFile ==
  ASSUME NEW path \in Asked
  PROVE  Real(path) \in Files
  BY NotesAssumption DEF Asked, Real

LEMMA TargetIsFile ==
  ASSUME job \in Working
  PROVE  Target \in Files
  BY RealIsFile, NotesAssumption DEF Working, Req, Target

LEMMA EncodedIs ==
  ASSUME NEW original \in Contents, NEW text \in AllTexts
  PROVE  Encoded(original, text) \in Contents
  BY DEF Encoded, Content, Contents

LEMMA NewIs ==
  ASSUME job \in Working
  PROVE  New \in Contents
  BY EncodedIs DEF Working, Req, New

\* A tab taken out, and the tab shown then.
LEMMA RemovedIs ==
  ASSUME NEW list \in Seq(Tab), NEW i \in 1..Len(list)
  PROVE  RemoveAt(list, i) \in Seq(Tab) /\ Len(RemoveAt(list, i)) = Len(list) - 1
<1> DEFINE a == SubSeq(list, 1, i - 1)
           b == SubSeq(list, i + 1, Len(list))
<1>1. Len(list) \in Nat /\ \A k \in 1..Len(list) : list[k] \in Tab
  BY ElementOfSeq, LenProperties
<1>2. a \in Seq(Tab) /\ Len(a) = i - 1  BY <1>1, SubSeqProperties
<1>3. b \in Seq(Tab) /\ Len(b) = Len(list) - i  BY <1>1, SubSeqProperties
<1> HIDE DEF a, b
<1>4. a \o b \in Seq(Tab) /\ Len(a \o b) = Len(a) + Len(b)
  BY <1>2, <1>3, ConcatProperties
<1>5. Len(a \o b) = Len(list) - 1  BY <1>1, <1>2, <1>3, <1>4
<1>6. QED  BY <1>4, <1>5 DEF RemoveAt, a, b

LEMMA DiscardedIs ==
  ASSUME NEW list \in Seq(Tab), NEW i \in 1..Len(list), Discarded(list, i)
  PROVE  items' \in Seq(Tab) /\ current' \in 0..Len(items')
<1>1. items' = RemoveAt(list, i)
      /\ current' = IF i > Len(RemoveAt(list, i)) THEN Len(RemoveAt(list, i)) ELSE i
  BY DEF Discarded
<1>2. RemoveAt(list, i) \in Seq(Tab) /\ Len(RemoveAt(list, i)) = Len(list) - 1
  BY RemovedIs
<1>3. Len(list) \in Nat  BY LenProperties
<1>4. QED  BY <1>1, <1>2, <1>3

LEMMA InitHolds == Init => IInv
<1> SUFFICES ASSUME Init PROVE IInv  OBVIOUS
<1>1. TabsTyped
  <2>1. <<>> \in Seq(Tab) /\ Len(<<>>) = 0  BY EmptySeq
  <2>2. items = <<>> /\ current = 0  BY DEF Init
  <2>3. current \in 0..Len(items)  BY <2>1, <2>2
  <2>4. QED  BY <2>1, <2>2, <2>3 DEF TabsTyped
<1>2. job \notin Working /\ ~Busy /\ out = <<>>  BY DEF Init, Idle, Working, Busy
<1>3. disk \in [Files -> Contents]
  <2> DEFINE F == {Initial[f].text : f \in Files}
  <2>1. Initial \in [Files -> [text : F, ends : {"lf", "crlf", "mixed"}]]
    BY NotesAssumption
  <2>2. [text : F, ends : {"lf", "crlf", "mixed"}] \subseteq Contents  BY DEF Contents, AllTexts
  <2> HIDE DEF F
  <2>3. QED  BY <2>1, <2>2 DEF Init
<1>4. Types  BY <1>3, EmptySeq DEF Init, Types
<1>5. DiskHeld  BY DEF Init, DiskHeld
<1>6. QED
  BY <1>1, <1>2, <1>4, <1>5 DEF IInv, Rest, Numbered, Saving, SaidTrue, CopyFirst, Init

-----------------------------------------------------------------------------
(* The user.                                                               *)

LEMMA HereKeeps ==
  ASSUME IInv, Here, TabsTyped'
  PROVE  IInv'
<1>1. UNCHANGED RestVars  BY DEF Here, Away, link, files, RestVars
<1>2. QED  BY <1>1, RestDependsOn DEF IInv

\* A request that is sent has a number nothing else has.
LEMMA SendKeeps ==
  ASSUME IInv, NEW r0 \in Req, Send(r0), Away, TabsTyped'
  PROVE  IInv'
<1> DEFINE r == [r0 EXCEPT !.id = serial + 1]
<1>1. serial \in Nat /\ r \in Req /\ r.id = serial + 1  BY DEF IInv, Rest, Types, Req
<1>2. serial' = serial + 1 /\ pending' = <<r>>
      /\ (job' = [pc |-> "got", req |-> r] \/ job' = job)
  BY DEF Send
<1> HIDE DEF r
<1>3. UNCHANGED <<out, disk, backups, held, raced, outside>>  BY DEF Away, files
<1>4. [pc |-> "got", req |-> r] \in Working  BY <1>1 DEF Working
<1>5. Types'  BY <1>1, <1>2, <1>3, <1>4 DEF IInv, Rest, Types
<1>6. Busy' /\ pending'[1] = r  BY <1>2 DEF Busy
<1>7. \A i \in 1..Len(out) : out[i] \in Reply /\ out[i].id \in Nat /\ out[i].id <= serial
  <2>1. \A i \in 1..Len(out) : out[i] \in Reply  BY ElementOfSeq DEF IInv, Rest, Types
  <2>2. QED  BY <2>1 DEF Reply, IInv, Rest, Numbered
<1>8. job \in Working => job.req.id \in Nat /\ job.req.id <= serial
  BY DEF IInv, Rest, Numbered, Working, Req
<1>9. Numbered'
  <2>1. CASE job' = job  BY <1>1, <1>2, <1>3, <1>6, <1>7, <1>8, <2>1 DEF Numbered
  <2>2. CASE job' = [pc |-> "got", req |-> r]
    BY <1>1, <1>2, <1>3, <1>6, <1>7, <2>2 DEF Numbered
  <2>3. QED  BY <1>2, <2>1, <2>2
<1>10. DiskHeld'  BY <1>3 DEF IInv, Rest, DiskHeld
<1>11. Saving' /\ CopyFirst'
  <2>1. CASE job' = job
    BY <1>3, <2>1 DEF IInv, Rest, Saving, CopyFirst, Target, New
  <2>2. CASE job' = [pc |-> "got", req |-> r]  BY <2>2 DEF Saving, CopyFirst
  <2>3. QED  BY <1>2, <2>1, <2>2
<1>12. SaidTrue'  BY <1>1, <1>3, <1>6, <1>7 DEF SaidTrue
<1>13. QED  BY <1>5, <1>9, <1>10, <1>11, <1>12 DEF IInv, Rest

LEMMA NoteIs ==
  ASSUME IInv, Active
  PROVE  /\ current \in 1..Len(items) /\ Len(items) \in Nat
         /\ Note \in Tab
<1>1. current \in 1..Len(items) /\ Len(items) \in Nat
  BY LenProperties DEF IInv, TabsTyped, Active
<1>2. QED  BY <1>1, ElementOfSeq DEF IInv, TabsTyped, Note

\* The tabs as they were, another of them or none shown.
ShownAnother == items' = items /\ current' \in 0..Len(items)

LEMMA ShowsKeeps ==
  ASSUME IInv, Here, ShownAnother
  PROVE  IInv'
<1>1. items' = items /\ current' \in 0..Len(items)  BY DEF ShownAnother
<1>2. current' \in 0..Len(items')  BY <1>1
<1>3. TabsTyped'  BY <1>1, <1>2 DEF IInv, TabsTyped
<1>4. QED  BY <1>3, HereKeeps

LEMMA UserKeeps ==
  ASSUME IInv, User
  PROVE  IInv'
<1> USE DEF IInv
<1>1. Len(items) \in Nat /\ DOMAIN items = 1..Len(items)
  BY LenProperties DEF TabsTyped
<1>2. CASE \E i \in DOMAIN items : Select(i)
  <2>1. PICK i \in 1..Len(items) : Select(i)  BY <1>1, <1>2
  <2>2. ShownAnother  BY <1>1, <2>1 DEF Select, Selects, ShownAnother
  <2>3. QED  BY <2>1, <2>2, ShowsKeeps DEF Select
<1>3. CASE ShowFiles \/ KeepEditing
  <2>1. ShownAnother
    BY <1>1, <1>3 DEF ShowFiles, KeepEditing, ShownAnother, TabsTyped
  <2>2. QED  BY <1>3, <2>1, ShowsKeeps DEF ShowFiles, KeepEditing
<1>4. CASE \E i \in DOMAIN items : Close(i)
  <2>1. PICK i \in 1..Len(items) : Close(i)  BY <1>1, <1>4
  <2>2. CASE Dirty(items[i])
    <3>1. ShownAnother  BY <1>1, <2>1, <2>2 DEF Close, ShownAnother
    <3>2. QED  BY <2>1, <3>1, ShowsKeeps DEF Close
  <2>3. CASE ~Dirty(items[i])
    BY <2>1, <2>3, DiscardedIs, HereKeeps DEF Close, TabsTyped
  <2>4. QED  BY <2>2, <2>3
<1>5. CASE \E text \in Texts : Changed(text)
  <2>1. PICK text \in Texts : Changed(text)  BY <1>5
  <2>2. Note \in Tab /\ current \in 1..Len(items)  BY <2>1, NoteIs DEF Changed
  <2>3. [Note EXCEPT !.text = text] \in Tab  BY <2>2 DEF Tab, AllTexts
  <2>4. items' = [items EXCEPT ![current] = [Note EXCEPT !.text = text]]
    BY <2>1 DEF Changed, Note
  <2>5. items' \in Seq(Tab) /\ Len(items') = Len(items)
    BY <2>2, <2>3, <2>4, ExceptSeq DEF TabsTyped
  <2>6. QED  BY <2>1, <2>5, HereKeeps DEF Changed, TabsTyped
<1>6. CASE \E path \in Asked : Open(path)
  <2>1. PICK path \in Asked : Open(path)  BY <1>6
  <2>2. CASE \E i \in TabsOf(items, path) : Select(i)
    BY <1>1, <1>2, <2>2 DEF TabsOf
  <2>3. CASE Send(Request("load", path)) /\ UNCHANGED tabs /\ Away
    <3>1. Request("load", path) \in Req
      BY DEF Request, Req, Content, Contents, AllTexts
    <3>2. QED  BY <2>3, <3>1, SendKeeps DEF tabs, TabsTyped
  <2>4. QED  BY <2>1, <2>2, <2>3 DEF Open
<1>7. CASE Save
  <2>1. Note \in Tab  BY <1>7, NoteIs DEF Save
  <2>2. [Request("save", Note.path) EXCEPT !.text = Note.text, !.original = Note.original] \in Req
    BY <2>1 DEF Tab, Request, Req, Content, Contents, AllTexts, Asked
  <2>3. QED  BY <1>7, <2>2, SendKeeps DEF Save, TabsTyped
<1>8. CASE Follow \/ Reload
  <2>1. Note \in Tab  BY <1>8, NoteIs DEF Follow, Reload
  <2>2. \A c \in {"resolve", "reload"} : Request(c, Note.path) \in Req
    BY <2>1 DEF Tab, Request, Req, Content, Contents, AllTexts, Asked
  <2>3. CASE Follow  BY <2>2, <2>3, SendKeeps DEF Follow, TabsTyped
  <2>4. CASE Reload  BY <2>2, <2>4, SendKeeps DEF Reload, TabsTyped, tabs
  <2>5. QED  BY <1>8, <2>3, <2>4
<1>9. CASE Discard
  BY <1>9, NoteIs, DiscardedIs, HereKeeps DEF Discard, TabsTyped
<1>10. CASE GuardClose
  <2>1. ShownAnother  BY <1>1, <1>10 DEF GuardClose, ShownAnother, TabsTyped
  <2>2. QED  BY <1>10, <2>1, ShowsKeeps DEF GuardClose
<1>11. QED
  BY <1>2, <1>3, <1>4, <1>5, <1>6, <1>7, <1>8, <1>9, <1>10 DEF User, Asked

-----------------------------------------------------------------------------
(* The child.                                                              *)

LEMMA IdleIs == Idle \notin Working
  BY DEF Idle, Working

LEMMA QuietIs ==
  ASSUME IInv, Quiet
  PROVE  TabsTyped' /\ UNCHANGED <<pending, serial, outside>>
  BY DEF Quiet, tabs, link, IInv, TabsTyped

\* A line said ends the job; what was in flight under its number was it.
LEMMA SaysIs ==
  ASSUME IInv, job \in Working, NEW ok \in BOOLEAN, NEW content \in Contents,
         Says(ok, content), UNCHANGED <<pending, serial>>, held \subseteq held',
         ok /\ job.req.c = "save" => <<Target, New>> \in held'
  PROVE  job' = Idle /\ out' \in Seq(Reply) /\ Numbered' /\ SaidTrue' /\ Saving' /\ CopyFirst'
<1> DEFINE reply == [id |-> job.req.id, ok |-> ok, path |-> Target, content |-> content]
<1>1. job' = Idle /\ out' = Append(out, reply)  BY DEF Says
<1>2. reply \in Reply
  BY TargetIsFile DEF Reply, Working, Req
<1>3. reply.id = job.req.id /\ reply.ok = ok  OBVIOUS
<1> HIDE DEF reply
<1>4. out \in Seq(Reply) /\ Len(out) \in Nat  BY LenProperties DEF IInv, Rest, Types
<1>5. /\ out' \in Seq(Reply) /\ Len(out') = Len(out) + 1
      /\ \A i \in 1..Len(out) : out'[i] = out[i]
      /\ out'[Len(out) + 1] = reply
  BY <1>1, <1>2, <1>4, AppendProperties
<1>6. \A i \in 1..Len(out') : i \in 1..Len(out) \/ i = Len(out) + 1  BY <1>4, <1>5
<1>7. Numbered'
  <2>1. \A i \in 1..Len(out') : out'[i].id <= serial
    BY <1>3, <1>5, <1>6 DEF IInv, Rest, Numbered
  <2>2. QED  BY <1>1, <2>1, IdleIs DEF IInv, Rest, Numbered, Busy
<1>8. SaidTrue'
  <2> SUFFICES ASSUME Busy, pending[1].c = "save", NEW i \in 1..Len(out'),
                      out'[i].id = pending[1].id, out'[i].ok
               PROVE  Wrote(pending[1])'
    BY DEF SaidTrue, Busy
  <2>1. CASE i \in 1..Len(out)
    <3>1. Wrote(pending[1])  BY <1>5, <2>1 DEF IInv, Rest, SaidTrue
    <3>2. QED  BY <3>1 DEF Wrote
  <2>2. CASE i = Len(out) + 1
    <3>1. job.req.id = pending[1].id /\ ok  BY <1>3, <1>5, <2>2
    <3>2. job.req = pending[1]  BY <3>1 DEF IInv, Rest, Numbered
    <3>3. <<Target, New>> \in held'  BY <3>1, <3>2
    <3>4. Target = Real(pending[1].path)  BY <3>2 DEF Target
    <3>5. New = Encoded(pending[1].original, pending[1].text)  BY <3>2 DEF New
    <3>6. QED  BY <3>3, <3>4, <3>5 DEF Wrote
  <2>3. QED  BY <1>6, <2>1, <2>2
<1>9. Saving' /\ CopyFirst'  BY <1>1, IdleIs DEF Saving, CopyFirst
<1>10. QED  BY <1>1, <1>5, <1>7, <1>8, <1>9

\* A job that moves on to a later step of the same request.
LEMMA GoesIs ==
  ASSUME IInv, job \in Working,
         NEW pc \in {"got", "backup", "write", "recheck", "rename", "sync"}, Goes(pc),
         UNCHANGED <<pending, serial>>, held \subseteq held'
  PROVE  /\ job' \in Working /\ job'.pc = pc /\ job'.req = job.req
         /\ Target' = Target /\ New' = New
         /\ out' \in Seq(Reply) /\ Numbered' /\ SaidTrue'
<1>1. job' \in Working /\ job'.pc = pc /\ job'.req = job.req /\ out' = out
  BY DEF Goes, Working
<1>2. Target' = Target /\ New' = New  BY <1>1 DEF Target, New
<1>3. out' \in Seq(Reply)  BY <1>1 DEF IInv, Rest, Types
<1>4. Numbered'  BY <1>1 DEF IInv, Rest, Numbered, Busy
<1>5. SaidTrue'  BY <1>1 DEF IInv, Rest, SaidTrue, Wrote, Busy
<1>6. QED  BY <1>1, <1>2, <1>3, <1>4, <1>5

LEMMA RefusesIs ==
  ASSUME IInv, job \in Working, Refuses, UNCHANGED <<pending, serial>>, held \subseteq held'
  PROVE  job' = Idle /\ out' \in Seq(Reply) /\ Numbered' /\ SaidTrue' /\ Saving' /\ CopyFirst'
<1>1. Content("", "lf") \in Contents  BY DEF Content, Contents, AllTexts
<1>2. QED  BY <1>1, SaysIs DEF Refuses

\* What is at work is a request, whatever step of it.
LEMMA JobIs ==
  ASSUME IInv, NEW pc \in {"got", "backup", "write", "recheck", "rename", "sync"}, Job(pc)
  PROVE  job \in Working /\ job.pc = pc /\ Target \in Files /\ New \in Contents
<1>1. job \in Working  BY DEF IInv, Rest, Types, Job, Idle
<1>2. QED  BY <1>1, TargetIsFile, NewIs DEF Job

LEMMA LoadKeeps ==
  ASSUME IInv, Load
  PROVE  IInv'
<1>1. job \in Working /\ Target \in Files  BY JobIs DEF Load
<1>2. TabsTyped' /\ UNCHANGED <<pending, serial, outside, disk, held, raced, backups>>
  BY QuietIs DEF Load, files
<1>3. disk[Target] \in Contents  BY <1>1 DEF IInv, Rest, Types
<1>4. job' = Idle /\ out' \in Seq(Reply) /\ Numbered' /\ SaidTrue' /\ Saving' /\ CopyFirst'
  <2>1. CASE Refuses  BY <1>1, <1>2, <2>1, RefusesIs
  <2>2. CASE job.req.c # "save" /\ Says(TRUE, disk[Target])
    BY <1>1, <1>2, <1>3, <2>2, SaysIs
  <2>3. QED  BY <2>1, <2>2 DEF Load
<1>5. Types' /\ DiskHeld'  BY <1>2, <1>4 DEF IInv, Rest, Types, DiskHeld
<1>6. QED  BY <1>2, <1>4, <1>5 DEF IInv, Rest

\* An answer that nothing changed is of a content the note holds.
LEMMA CheckOriginalKeeps ==
  ASSUME IInv, CheckOriginal
  PROVE  IInv'
<1>1. job \in Working /\ Target \in Files /\ New \in Contents  BY JobIs DEF CheckOriginal
<1>2. TabsTyped' /\ UNCHANGED <<pending, serial, outside, disk, held, raced, backups>>
  BY QuietIs DEF CheckOriginal, files
<1>3. /\ job' \in {Idle} \cup Working /\ out' \in Seq(Reply)
      /\ Numbered' /\ SaidTrue' /\ Saving' /\ CopyFirst'
  <2>1. CASE New = job.req.original /\ Says(TRUE, New)
    <3>1. <<Target, New>> \in held
      BY <1>1, <2>1 DEF CheckOriginal, IInv, Rest, DiskHeld
    <3>2. QED  BY <1>1, <1>2, <2>1, <3>1, SaysIs
  <2>2. CASE Goes("backup")
    <3>1. job' \in Working /\ job'.pc = "backup" /\ job'.req = job.req
          /\ out' \in Seq(Reply) /\ Numbered' /\ SaidTrue'
      BY <1>1, <1>2, <2>2, GoesIs
    <3>2. QED  BY <3>1 DEF CheckOriginal, Saving, CopyFirst
  <2>3. QED  BY <2>1, <2>2 DEF CheckOriginal
<1>4. Types' /\ DiskHeld'  BY <1>2, <1>3 DEF IInv, Rest, Types, DiskHeld
<1>5. QED  BY <1>2, <1>3, <1>4 DEF IInv, Rest

LEMMA BackupKeeps ==
  ASSUME IInv, Backup
  PROVE  IInv'
<1>1. job \in Working /\ job.pc = "backup"  BY JobIs DEF Backup
<1>2. TabsTyped' /\ UNCHANGED <<pending, serial, outside, disk, held, raced>>
  BY QuietIs DEF Backup
<1>3. /\ job' \in {Idle} \cup Working /\ out' \in Seq(Reply)
      /\ Numbered' /\ SaidTrue' /\ Saving' /\ CopyFirst'
  <2>1. CASE backups' = backups \cup {<<Target, Backed>>} /\ Goes("write")
    <3>1. job' \in Working /\ job'.pc = "write" /\ job'.req = job.req /\ Target' = Target
          /\ out' \in Seq(Reply) /\ Numbered' /\ SaidTrue'
      BY <1>1, <1>2, <2>1, GoesIs
    <3>2. Saving'  BY <1>1, <3>1 DEF IInv, Rest, Saving
    <3>3. CopyFirst'  BY <2>1, <3>1 DEF CopyFirst, Backed
    <3>4. QED  BY <3>1, <3>2, <3>3
  <2>2. CASE Refuses  BY <1>1, <1>2, <2>2, RefusesIs
  <2>3. QED  BY <2>1, <2>2 DEF Backup
<1>4. Types' /\ DiskHeld'  BY <1>2, <1>3 DEF IInv, Rest, Types, DiskHeld
<1>5. QED  BY <1>2, <1>3, <1>4 DEF IInv, Rest

LEMMA WriteTempKeeps ==
  ASSUME IInv, WriteTemp
  PROVE  IInv'
<1>1. job \in Working /\ job.pc = "write"  BY JobIs DEF WriteTemp
<1>2. TabsTyped' /\ UNCHANGED <<pending, serial, outside, disk, held, raced, backups>>
  BY QuietIs DEF WriteTemp
<1>3. /\ job' \in {Idle} \cup Working /\ out' \in Seq(Reply)
      /\ Numbered' /\ SaidTrue' /\ Saving' /\ CopyFirst'
  <2>1. CASE Goes("recheck")
    <3>1. job' \in Working /\ job'.pc = "recheck" /\ job'.req = job.req /\ Target' = Target
          /\ out' \in Seq(Reply) /\ Numbered' /\ SaidTrue'
      BY <1>1, <1>2, <2>1, GoesIs
    <3>2. QED  BY <1>1, <1>2, <3>1 DEF IInv, Rest, Saving, CopyFirst
  <2>2. CASE Refuses  BY <1>1, <1>2, <2>2, RefusesIs
  <2>3. QED  BY <2>1, <2>2 DEF WriteTemp
<1>4. Types' /\ DiskHeld'  BY <1>2, <1>3 DEF IInv, Rest, Types, DiskHeld
<1>5. QED  BY <1>2, <1>3, <1>4 DEF IInv, Rest

LEMMA RecheckKeeps ==
  ASSUME IInv, Recheck
  PROVE  IInv'
<1>1. job \in Working /\ job.pc = "recheck"  BY JobIs DEF Recheck
<1>2. TabsTyped' /\ UNCHANGED <<pending, serial, outside, disk, held, backups>> /\ raced' = FALSE
  BY QuietIs DEF Recheck
<1>3. /\ job' \in {Idle} \cup Working /\ out' \in Seq(Reply)
      /\ Numbered' /\ SaidTrue' /\ Saving' /\ CopyFirst'
  <2>1. CASE disk[Target] = job.req.original /\ Goes("rename")
    <3>1. job' \in Working /\ job'.pc = "rename" /\ job'.req = job.req /\ Target' = Target
          /\ out' \in Seq(Reply) /\ Numbered' /\ SaidTrue'
      BY <1>1, <1>2, <2>1, GoesIs
    <3>2. QED  BY <1>1, <1>2, <2>1, <3>1 DEF IInv, Rest, Saving, CopyFirst
  <2>2. CASE Refuses  BY <1>1, <1>2, <2>2, RefusesIs
  <2>3. QED  BY <2>1, <2>2 DEF Recheck, Unwritten
<1>4. Types' /\ DiskHeld'  BY <1>2, <1>3 DEF IInv, Rest, Types, DiskHeld
<1>5. QED  BY <1>2, <1>3, <1>4 DEF IInv, Rest

LEMMA RenameKeeps ==
  ASSUME IInv, Rename
  PROVE  IInv'
<1>1. job \in Working /\ job.pc = "rename" /\ Target \in Files /\ New \in Contents
  BY JobIs DEF Rename
<1>2. TabsTyped' /\ UNCHANGED <<pending, serial, outside, backups, raced>>
  BY QuietIs DEF Rename
<1>3. CASE /\ disk' = [disk EXCEPT ![Target] = New]
           /\ held' = held \cup {<<Target, New>>} /\ Goes("sync")
  <2>1. job' \in Working /\ job'.pc = "sync" /\ job'.req = job.req /\ Target' = Target
        /\ New' = New /\ out' \in Seq(Reply) /\ Numbered' /\ SaidTrue'
    BY <1>1, <1>2, <1>3, GoesIs
  <2>2. Types'  BY <1>1, <1>2, <1>3, <2>1 DEF IInv, Rest, Types
  <2>3. DiskHeld'  BY <1>1, <1>3 DEF IInv, Rest, Types, DiskHeld
  <2>4. Saving' /\ CopyFirst'  BY <1>1, <1>3, <2>1 DEF IInv, Rest, Saving, CopyFirst
  <2>5. QED  BY <1>2, <2>1, <2>2, <2>3, <2>4 DEF IInv, Rest
<1>4. CASE Unwritten /\ UNCHANGED <<disk, held>>
  <2>1. job' = Idle /\ out' \in Seq(Reply) /\ Numbered' /\ SaidTrue' /\ Saving' /\ CopyFirst'
    BY <1>1, <1>2, <1>4, RefusesIs DEF Unwritten
  <2>2. Types' /\ DiskHeld'  BY <1>2, <1>4, <2>1 DEF IInv, Rest, Types, DiskHeld
  <2>3. QED  BY <1>2, <2>1, <2>2 DEF IInv, Rest
<1>5. QED  BY <1>3, <1>4 DEF Rename

LEMMA SyncParentKeeps ==
  ASSUME IInv, SyncParent
  PROVE  IInv'
<1>1. job \in Working /\ job.pc = "sync" /\ New \in Contents  BY JobIs DEF SyncParent
<1>2. TabsTyped' /\ UNCHANGED <<pending, serial, outside, disk, held, raced, backups>>
  BY QuietIs DEF SyncParent, files
<1>3. job' = Idle /\ out' \in Seq(Reply) /\ Numbered' /\ SaidTrue' /\ Saving' /\ CopyFirst'
  <2>1. CASE Refuses  BY <1>1, <1>2, <2>1, RefusesIs
  <2>2. CASE Says(TRUE, New)
    <3>1. <<Target, New>> \in held  BY <1>1 DEF IInv, Rest, Saving
    <3>2. QED  BY <1>1, <1>2, <2>2, <3>1, SaysIs
  <2>3. QED  BY <2>1, <2>2 DEF SyncParent
<1>4. Types' /\ DiskHeld'  BY <1>2, <1>3 DEF IInv, Rest, Types, DiskHeld
<1>5. QED  BY <1>2, <1>3, <1>4 DEF IInv, Rest

-----------------------------------------------------------------------------
(* The answer, and what ends a request without one.                        *)

LEMMA TakeSaveTyped ==
  ASSUME IInv, NEW reply \in Reply, TakeSave(reply)
  PROVE  TabsTyped'
<1> DEFINE at == TabsOf(items, reply.path)
           list == [i \in DOMAIN items |->
                     IF i \in at THEN [items[i] EXCEPT !.original = reply.content] ELSE items[i]]
<1>1. items \in Seq(Tab) /\ Len(items) \in Nat /\ DOMAIN items = 1..Len(items)
  BY LenProperties DEF IInv, TabsTyped
<1>2. \A i \in 1..Len(items) : items[i] \in Tab  BY <1>1, ElementOfSeq
<1>3. \A i \in 1..Len(items) :
        [items[i] EXCEPT !.original = reply.content] \in Tab
  BY <1>2 DEF Tab, Reply
<1>4. list \in Seq(Tab) /\ Len(list) = Len(items)
  <2>1. list \in [1..Len(items) -> Tab]  BY <1>1, <1>2, <1>3
  <2> HIDE DEF list
  <2>2. list \in Seq(Tab)  BY <1>1, <2>1, SeqDef
  <2>3. DOMAIN list = 1..Len(items)  BY <2>1
  <2>4. QED  BY <1>1, <2>2, <2>3, LenProperties
<1>5. CASE Active /\ Discarded(list, current)
  <2>1. current \in 1..Len(list)  BY <1>4, <1>5, NoteIs
  <2> HIDE DEF list
  <2>2. QED  BY <1>4, <1>5, <2>1, DiscardedIs DEF TabsTyped
<1>6. CASE items' = list /\ UNCHANGED <<current, closePending>>
  <2> HIDE DEF list
  <2>1. QED  BY <1>4, <1>6 DEF IInv, TabsTyped
<1>7. QED  BY <1>5, <1>6 DEF TakeSave

LEMMA TakeNoteTyped ==
  ASSUME IInv, NEW request, NEW reply \in Reply, TakeNote(request, reply)
  PROVE  TabsTyped'
<1> DEFINE note == [path |-> reply.path, text |-> Source(reply.content), original |-> reply.content]
           at == TabsOf(items, reply.path)
<1>1. note \in Tab  BY DEF Tab, Reply, Contents, Source
<1>2. items \in Seq(Tab) /\ Len(items) \in Nat /\ DOMAIN items = 1..Len(items)
  BY LenProperties DEF IInv, TabsTyped
<1> HIDE DEF note
<1>3. CASE \E i \in at :
             /\ items' = IF request.c = "reload" THEN [items EXCEPT ![i] = note] ELSE items
             /\ Selects(i)
  <2>1. PICK i \in 1..Len(items) :
             /\ items' = IF request.c = "reload" THEN [items EXCEPT ![i] = note] ELSE items
             /\ current' = i
    BY <1>2, <1>3 DEF TabsOf, Selects
  <2>2. items' \in Seq(Tab) /\ Len(items') = Len(items)
    <3>1. /\ [items EXCEPT ![i] = note] \in Seq(Tab)
          /\ Len([items EXCEPT ![i] = note]) = Len(items)
      BY <1>1, <1>2, ExceptSeq
    <3>2. QED  BY <1>2, <2>1, <3>1
  <2>3. QED  BY <1>2, <2>1, <2>2 DEF TabsTyped
<1>4. CASE items' = Append(items, note) /\ Selects(Len(items) + 1)
  <2>1. Append(items, note) \in Seq(Tab) /\ Len(Append(items, note)) = Len(items) + 1
    BY <1>1, <1>2, AppendProperties
  <2>2. current' = Len(items) + 1  BY <1>4 DEF Selects
  <2>3. QED  BY <1>2, <1>4, <2>1, <2>2 DEF TabsTyped
<1>5. CASE UNCHANGED <<items, current, closePending>>
  BY <1>5 DEF IInv, TabsTyped
<1>6. QED  BY <1>3, <1>4, <1>5 DEF TakeNote, note

LEMMA OnReadKeeps ==
  ASSUME IInv, OnRead
  PROVE  IInv'
<1>1. /\ out \in Seq(Reply) /\ out # <<>> /\ Len(out) \in Nat
      /\ UNCHANGED <<serial, job, disk, backups, held, raced, outside>>
  BY LenProperties DEF OnRead, IInv, Rest, Types, files
<1>2. /\ Head(out) \in Reply /\ out' \in Seq(Reply) /\ Len(out') = Len(out) - 1
      /\ \A i \in 1..Len(out') : out'[i] = out[i + 1]
  BY <1>1, HeadTailProperties DEF OnRead
<1>3. \A i \in 1..Len(out') : i + 1 \in 1..Len(out)  BY <1>1, <1>2
<1>4. pending' = <<>> \/ pending' = pending  BY DEF OnRead
<1>5. TabsTyped'
  <2>1. CASE Answered(pending[1], Head(out))
    BY <1>2, <2>1, TakeSaveTyped, TakeNoteTyped DEF Answered, Fails, IInv, TabsTyped
  <2>2. CASE UNCHANGED <<tabs, pending>>  BY <2>2 DEF tabs, IInv, TabsTyped
  <2>3. QED  BY <2>1, <2>2 DEF OnRead
<1>6. Types'  BY <1>1, <1>2, <1>4 DEF IInv, Rest, Types
<1>7. Numbered'
  <2>1. \A i \in 1..Len(out') : out'[i].id <= serial
    BY <1>2, <1>3 DEF IInv, Rest, Numbered
  <2>2. QED  BY <1>1, <1>4, <2>1 DEF IInv, Rest, Numbered, Busy
<1>8. SaidTrue'
  <2>1. CASE pending' = <<>>  BY <2>1 DEF SaidTrue, Busy
  <2>2. CASE pending' = pending
    <3> SUFFICES ASSUME Busy, pending[1].c = "save", NEW i \in 1..Len(out'),
                        out'[i].id = pending[1].id, out'[i].ok
                 PROVE  Wrote(pending[1])
      BY <1>1, <2>2 DEF SaidTrue, Busy, Wrote
    <3>1. QED  BY <1>2, <1>3 DEF IInv, Rest, SaidTrue
  <2>3. QED  BY <1>4, <2>1, <2>2
<1>9. DiskHeld' /\ Saving' /\ CopyFirst'
  BY <1>1 DEF IInv, Rest, DiskHeld, Saving, CopyFirst, Target, New
<1>10. QED  BY <1>5, <1>6, <1>7, <1>8, <1>9 DEF IInv, Rest

\* The request is handed to the child, or dropped with it.
LEMMA ChildKeeps ==
  ASSUME IInv, ChildStarts \/ ChildDies
  PROVE  IInv'
<1>1. UNCHANGED <<serial, out, disk, backups, held, raced, outside>>
  BY DEF ChildStarts, ChildDies, files
<1>2. TabsTyped'  BY DEF ChildStarts, ChildDies, Fails, tabs, IInv, TabsTyped
<1>3. pending' = <<>> \/ pending' = pending  BY DEF ChildStarts, ChildDies
<1>4. \/ job' = Idle
      \/ job' = job
      \/ Busy /\ pending' = pending /\ job' = [pc |-> "got", req |-> pending[1]]
  BY DEF ChildStarts, ChildDies
<1>5. Busy => pending[1] \in Req  BY DEF IInv, Rest, Types, Busy
<1>6. Types'  BY <1>1, <1>3, <1>4, <1>5 DEF IInv, Rest, Types, Working
<1>7. Numbered'
  BY <1>1, <1>3, <1>4, IdleIs DEF IInv, Rest, Numbered, Busy
<1>8. SaidTrue'  BY <1>1, <1>3 DEF IInv, Rest, SaidTrue, Busy, Wrote
<1>9. Saving' /\ CopyFirst'
  <2>1. CASE job' = Idle  BY <2>1, IdleIs DEF Saving, CopyFirst
  <2>2. CASE job' = job  BY <1>1, <2>2 DEF IInv, Rest, Saving, CopyFirst, Target, New
  <2>3. CASE job' = [pc |-> "got", req |-> pending[1]]
    BY <2>3 DEF Saving, CopyFirst
  <2>4. QED  BY <1>4, <2>1, <2>2, <2>3
<1>10. DiskHeld'  BY <1>1 DEF IInv, Rest, DiskHeld
<1>11. QED  BY <1>2, <1>6, <1>7, <1>8, <1>9, <1>10 DEF IInv, Rest

\* Another program's write before the rename is remembered as one.
LEMMA OutsideKeeps ==
  ASSUME IInv, NEW f \in Files, NEW text \in Texts, Outside(f, text)
  PROVE  IInv'
<1> DEFINE new == Content(text, "lf")
<1>1. new \in Contents  BY DEF Content, Contents, AllTexts
<1>2. /\ UNCHANGED <<pending, serial, job, out, backups>>
      /\ TabsTyped'
      /\ disk' = [disk EXCEPT ![f] = new] /\ held' = held \cup {<<f, new>>}
      /\ outside' = outside + 1
  BY DEF Outside, tabs, link, IInv, TabsTyped
<1> HIDE DEF new
<1>3. Types'
  <2>1. raced' \in BOOLEAN  BY DEF Outside, IInv, Rest, Types
  <2>2. QED  BY <1>1, <1>2, <2>1 DEF IInv, Rest, Types
<1>4. Numbered'  BY <1>2 DEF IInv, Rest, Numbered, Busy
<1>5. DiskHeld'  BY <1>2 DEF IInv, Rest, Types, DiskHeld
<1>6. Saving' /\ SaidTrue'
  BY <1>2 DEF IInv, Rest, Saving, SaidTrue, Wrote, Busy, Target, New
<1>7. CopyFirst'
  <2> SUFFICES ASSUME job \in Working
               PROVE  /\ job.pc \in {"write", "recheck", "rename"} =>
                           <<Target, job.req.original>> \in backups
                      /\ job.pc = "rename" /\ ~raced' => disk'[Target] = job.req.original
    BY <1>2 DEF CopyFirst, Target
  <2>1. job.pc = "rename" /\ ~raced' => ~raced /\ Target # f
    BY DEF Outside, Job
  <2>2. Target \in Files  BY TargetIsFile
  <2>3. QED  BY <1>2, <2>1, <2>2 DEF IInv, Rest, Types, CopyFirst
<1>8. QED  BY <1>2, <1>3, <1>4, <1>5, <1>6, <1>7 DEF IInv, Rest

LEMMA StepKeeps == IInv /\ [Next]_vars => IInv'
<1> SUFFICES ASSUME IInv, [Next]_vars PROVE IInv'  OBVIOUS
<1>1. CASE User  BY <1>1, UserKeeps
<1>2. CASE System
  BY <1>2, OnReadKeeps, ChildKeeps, LoadKeeps, CheckOriginalKeeps, BackupKeeps,
     WriteTempKeeps, RecheckKeeps, RenameKeeps, SyncParentKeeps DEF System
<1>3. CASE ChildDies  BY <1>3, ChildKeeps
<1>4. CASE \E f \in Files, text \in Texts : Outside(f, text)  BY <1>4, OutsideKeeps
<1>5. CASE UNCHANGED vars
  <2>1. UNCHANGED RestVars /\ TabsTyped'
    BY <1>5 DEF vars, tabs, link, files, RestVars, IInv, TabsTyped
  <2>2. QED  BY <2>1, RestDependsOn DEF IInv
<1>6. QED  BY <1>1, <1>2, <1>3, <1>4, <1>5 DEF Next

\* Every reachable state satisfies the inductive invariant.
THEOREM Invariance == Spec => []IInv
  BY InitHolds, StepKeeps, PTL DEF Spec

-----------------------------------------------------------------------------
(* The two results.                                                        *)

\* What ends the request in flight: its answer, or the loss of the child.
LEMMA WhatEnds ==
  ASSUME [Next]_vars, Ends
  PROVE  \/ OnRead /\ Answers(Head(out)) /\ Answered(pending[1], Head(out))
         \/ Fails
<1>1. pending # <<>> /\ pending' = <<>>  BY DEF Ends, Busy
<1>2. CASE OnRead  BY <1>1, <1>2 DEF OnRead
<1>3. CASE ChildStarts  BY <1>1, <1>3 DEF ChildStarts
<1>4. CASE ChildDies  BY <1>1, <1>4 DEF ChildDies, Busy
<1>5. \A r : Send(r) => pending' # <<>>  BY DEF Send
<1>6. Here \/ Quiet \/ UNCHANGED vars => pending' = pending
  BY DEF Here, Quiet, vars, link
<1>7. ~User
  BY <1>1, <1>5, <1>6 DEF User, ShowFiles, KeepEditing, Save, Follow, Reload, Discard, GuardClose,
     Select, Close, Changed, Open
<1>8. CASE Load \/ CheckOriginal \/ Backup \/ WriteTemp \/ Recheck \/ Rename \/ SyncParent
  BY <1>1, <1>6, <1>8 DEF Load, CheckOriginal, Backup, WriteTemp, Recheck, Rename, SyncParent
<1>9. CASE \E f \in Files, text \in Texts : Outside(f, text)
  BY <1>1, <1>9 DEF Outside, link
<1>10. CASE UNCHANGED vars  BY <1>1, <1>6, <1>10
<1>11. QED  BY <1>2, <1>3, <1>4, <1>7, <1>8, <1>9, <1>10 DEF Next, System

\* A tab says "Saved." only when what its save asked for stood in the note it
\* asked for: an answer of a child since killed, an answer to another request
\* and a note changed by others are never taken for it (NoteBackend.qml onRead,
\* NoteWorkspace.qml, notes/store.rs save).
THEOREM SavedWasWritten == Spec => SavedIsWritten
<1> DEFINE Written ==
      Ends /\ saved' => <<Real(pending[1].path), Encoded(pending[1].original, pending[1].text)>>
                          \in held
<1>1. IInv /\ [Next]_vars => Written
  <2> SUFFICES ASSUME IInv, [Next]_vars, Ends, saved' = TRUE PROVE Wrote(pending[1])
    <3>1. QED  BY DEF Wrote
  <2>1. ~Fails  BY DEF Fails
  <2>2. OnRead /\ Answers(Head(out)) /\ Answered(pending[1], Head(out))  BY <2>1, WhatEnds
  <2>3. Head(out).ok /\ pending[1].c = "save"
    BY <2>1, <2>2 DEF Answered, TakeNote, Selects
  <2>4. Busy /\ Head(out).id = pending[1].id  BY <2>2 DEF Answers
  <2>5. 1 \in 1..Len(out) /\ Head(out) = out[1]
    BY <2>2, LenProperties, EmptySeq DEF OnRead, IInv, Rest, Types
  <2>6. QED  BY <2>3, <2>4, <2>5 DEF IInv, Rest, SaidTrue
<1>2. QED  BY <1>1, Invariance, PTL DEF Spec, SavedIsWritten

\* Whatever fails, is killed or is written by others between, the rename of a
\* save replaces a content whose copy is in the backups, unless another program
\* wrote after the last look (notes/store.rs save, backup).
THEOREM ReplacedWasBacked == Spec => ReplacedIsBacked
<1> DEFINE Copied == \A f \in Files : Job("rename") /\ disk'[f] # disk[f] /\ outside' = outside
                                        /\ ~raced => <<f, disk[f]>> \in backups
<1>1. IInv /\ [Next]_vars => Copied
  <2> SUFFICES ASSUME IInv, [Next]_vars, NEW f \in Files, Job("rename"), disk'[f] # disk[f],
                      outside' = outside, ~raced
               PROVE  <<f, disk[f]>> \in backups
    OBVIOUS
  <2>1. Rename
    <3>1. ~\E g \in Files, text \in Texts : Outside(g, text)
      BY DEF Outside, IInv, Rest, Types
    <3>2. \/ Here \/ Away \/ OnRead \/ ChildStarts \/ ChildDies \/ Load \/ CheckOriginal
          \/ Backup \/ WriteTemp \/ Recheck \/ SyncParent \/ UNCHANGED vars \/ Rename
      BY <3>1 DEF Next, User, System, ShowFiles, KeepEditing, Save, Follow, Reload, Discard,
         GuardClose, Select, Close, Changed, Open
    <3>3. \/ disk' = disk \/ Rename
      BY <3>2 DEF Here, Away, OnRead, ChildStarts, ChildDies, Load, CheckOriginal, Backup,
         WriteTemp, Recheck, SyncParent, vars, files
    <3>4. QED  BY <3>3
  <2>2. job \in Working /\ job.pc = "rename"  BY JobIs
  <2>3. f = Target
    BY <2>1 DEF Rename, IInv, Rest, Types
  <2>4. QED  BY <2>2, <2>3 DEF IInv, Rest, CopyFirst
<1>2. QED  BY <1>1, Invariance, PTL DEF Spec, ReplacedIsBacked

-----------------------------------------------------------------------------
(* What the user typed stays, if the user neither types into a note being  *)
(* reloaded nor closes the window behind a request (Careless = {}): behind *)
(* a save, closing can lose it (run notes_close). The inductive invariant, *)
(* beside IInv.                                                            *)

\* No two tabs are of one note.
Unique == \A i, k \in 1..Len(items) : items[i].path = items[k].path => i = k

\* Only one tab can go with the save in flight, the one it saves.
SavesShown ==
  Busy /\ pending[1].c = "save" =>
    /\ pending[1].path \in Files
    /\ closePending # 0 => current # 0 /\ items[current].path = pending[1].path

\* What is being read again is not typed into.
ReloadsClean ==
  Busy /\ pending[1].c = "reload" =>
    /\ pending[1].path \in Files
    /\ \A i \in 1..Len(items) : items[i].path = pending[1].path => ~Dirty(items[i])

\* An answer is of the note asked for, and that of a save of what was asked.
Matches(reply, r) ==
  /\ r.c # "resolve" => reply.path = Real(r.path)
  /\ r.c = "save" => reply.content = Encoded(r.original, r.text)
RepliesMatch ==
  Busy => \A i \in 1..Len(out) : out[i].id = pending[1].id /\ out[i].ok => Matches(out[i], pending[1])

TabSide == Unique /\ SavesShown /\ ReloadsClean

EInv == TabSide /\ RepliesMatch

-----------------------------------------------------------------------------
LEMMA ItemsAre ==
  ASSUME TabsTyped
  PROVE  /\ Len(items) \in Nat /\ DOMAIN items = 1..Len(items)
         /\ \A i \in 1..Len(items) : items[i] \in Tab
  BY LenProperties, ElementOfSeq DEF TabsTyped

\* What a tab taken out leaves: every other, in its order.
LEMMA RemovedHas ==
  ASSUME NEW list \in Seq(Tab), NEW i \in 1..Len(list)
  PROVE  \A k \in 1..(Len(list) - 1) :
           RemoveAt(list, i)[k] = IF k < i THEN list[k] ELSE list[k + 1]
<1> DEFINE a == SubSeq(list, 1, i - 1)
           b == SubSeq(list, i + 1, Len(list))
<1>1. Len(list) \in Nat /\ \A k \in 1..Len(list) : list[k] \in Tab
  BY ElementOfSeq, LenProperties
<1>2. a \in Seq(Tab) /\ Len(a) = i - 1 /\ \A k \in 1..(i - 1) : a[k] = list[k]
  BY <1>1, SubSeqProperties
<1>3. b \in Seq(Tab) /\ Len(b) = Len(list) - i
      /\ \A k \in 1..(Len(list) - i) : b[k] = list[i + k]
  <2>1. \A k \in (i + 1)..Len(list) : list[k] \in Tab  BY <1>1
  <2>2. QED  BY <1>1, <2>1, SubSeqProperties
<1> HIDE DEF a, b
<1>4. \A k \in 1..(Len(a) + Len(b)) :
        (a \o b)[k] = IF k <= Len(a) THEN a[k] ELSE b[k - Len(a)]
  BY <1>2, <1>3, ConcatProperties
<1>5. ASSUME NEW k \in 1..(Len(list) - 1)
      PROVE  (a \o b)[k] = IF k < i THEN list[k] ELSE list[k + 1]
  <2>1. k \in 1..(Len(a) + Len(b))  BY <1>1, <1>2, <1>3
  <2>2. CASE k < i  BY <1>1, <1>2, <1>4, <2>1, <2>2
  <2>3. CASE ~(k < i)
    <3>1. (a \o b)[k] = b[k - (i - 1)]  BY <1>1, <1>2, <1>4, <2>1, <2>3
    <3>2. k - (i - 1) \in 1..(Len(list) - i) /\ i + (k - (i - 1)) = k + 1  BY <1>1, <2>3
    <3>3. QED  BY <1>3, <2>3, <3>1, <3>2
  <2>4. QED  BY <2>2, <2>3
<1>6. QED  BY <1>5 DEF RemoveAt, a, b

\* A list of tabs that differ in path still does with one taken out, and every
\* other tab is still there.
LEMMA DiscardedHas ==
  ASSUME NEW list \in Seq(Tab), NEW i \in 1..Len(list), Discarded(list, i),
         \A j, k \in 1..Len(list) : list[j].path = list[k].path => j = k
  PROVE  /\ Unique'
         /\ \A j \in 1..Len(list) : j # i => \E k \in DOMAIN items' : items'[k] = list[j]
<1>1. items' = RemoveAt(list, i) /\ items' \in Seq(Tab) /\ Len(items') = Len(list) - 1
  BY RemovedIs DEF Discarded
<1>2. Len(list) \in Nat /\ DOMAIN items' = 1..(Len(list) - 1)  BY <1>1, LenProperties
<1>3. \A k \in 1..(Len(list) - 1) : items'[k] = IF k < i THEN list[k] ELSE list[k + 1]
  BY <1>1, RemovedHas
<1>4. Unique'
  <2> DEFINE at(k) == IF k < i THEN k ELSE k + 1
  <2> SUFFICES ASSUME NEW j \in 1..(Len(list) - 1), NEW k \in 1..(Len(list) - 1),
                      items'[j].path = items'[k].path
               PROVE  j = k
    BY <1>1 DEF Unique
  <2>1. at(j) \in 1..Len(list) /\ at(k) \in 1..Len(list)  BY <1>2
  <2>2. items'[j] = list[at(j)] /\ items'[k] = list[at(k)]  BY <1>3
  <2>3. at(j) = at(k)  BY <2>1, <2>2
  <2>4. QED  BY <1>2, <2>3
<1>5. ASSUME NEW j \in 1..Len(list), j # i
      PROVE  \E k \in DOMAIN items' : items'[k] = list[j]
  <2>1. CASE j < i
    <3>1. j \in 1..(Len(list) - 1)  BY <1>2, <2>1
    <3>2. QED  BY <1>2, <1>3, <2>1, <3>1
  <2>2. CASE ~(j < i)
    <3>1. j - 1 \in 1..(Len(list) - 1) /\ ~(j - 1 < i) /\ (j - 1) + 1 = j  BY <1>2, <1>5, <2>2
    <3>2. QED  BY <1>2, <1>3, <3>1
  <2>3. QED  BY <2>1, <2>2
<1>6. QED  BY <1>4, <1>5

LEMMA InitEdits == Init => EInv
<1> SUFFICES ASSUME Init PROVE EInv  OBVIOUS
<1>1. ~Busy /\ Len(items) = 0  BY EmptySeq DEF Init, Busy
<1>2. QED  BY <1>1 DEF EInv, TabSide, Unique, SavesShown, ReloadsClean, RepliesMatch

\* The invariant reads the tabs, what is in flight and what was answered.
TabSideVars == <<items, current, closePending, pending>>

LEMMA TabSideDependsOn ==
  ASSUME TabSide, UNCHANGED TabSideVars
  PROVE  TabSide'
  BY DEF TabSideVars, TabSide, Unique, SavesShown, ReloadsClean, Busy, Dirty, Source

-----------------------------------------------------------------------------
(* The user.                                                               *)

\* A request is sent under a number no answer has.
Sent(c, path) == Busy' /\ pending'[1].id = serial + 1 /\ pending'[1].c = c /\ pending'[1].path = path

LEMMA SendIs ==
  ASSUME NEW r \in Req, Send(r)
  PROVE  Sent(r.c, r.path)
<1>1. pending' = <<[r EXCEPT !.id = serial + 1]>>  BY DEF Send
<1>2. QED  BY <1>1 DEF Sent, Busy, Req

\* What the user does sends a request or leaves the one in flight.
LEMMA UserSends ==
  ASSUME IInv, User
  PROVE  /\ out' = out
         /\ \/ pending' = pending
            \/ ~Busy /\ \E path \in Asked : Sent("load", path) /\ UNCHANGED tabs
            \/ ~Busy /\ Active /\ UNCHANGED <<items, current, closePending>>
               /\ \/ Save /\ Sent("save", Note.path)
                  \/ Follow /\ Sent("resolve", Note.path)
                  \/ Reload /\ Sent("reload", Note.path)
<1>1. Here => out' = out /\ pending' = pending  BY DEF Here, Away, link
<1>2. CASE ShowFiles \/ KeepEditing \/ Discard \/ GuardClose
  BY <1>1, <1>2 DEF ShowFiles, KeepEditing, Discard, GuardClose
<1>3. CASE \E i \in DOMAIN items : Select(i) \/ Close(i)  BY <1>1, <1>3 DEF Select, Close
<1>4. CASE \E text \in Texts : Changed(text)  BY <1>1, <1>4 DEF Changed
<1>5. CASE \E path \in Asked : Open(path)
  <2>1. PICK path \in Asked : Open(path)  BY <1>5
  <2>2. CASE \E i \in TabsOf(items, path) : Select(i)  BY <1>1, <2>2 DEF Select
  <2>3. CASE ~Busy /\ Send(Request("load", path)) /\ UNCHANGED tabs /\ Away
    <3>1. Sent("load", path)
      <4>1. /\ Request("load", path) \in Req
            /\ Request("load", path).c = "load" /\ Request("load", path).path = path
        BY DEF Request, Req, Content, Contents, AllTexts
      <4>2. QED  BY <2>3, <4>1, SendIs
    <3>2. QED  BY <2>3, <3>1 DEF Away
  <2>4. QED  BY <2>1, <2>2, <2>3 DEF Open
<1>6. CASE Save \/ Follow \/ Reload
  <2>1. Note \in Tab /\ ~Busy /\ Active  BY <1>6, NoteIs DEF Save, Follow, Reload
  <2>2. Away /\ UNCHANGED <<items, current, closePending>>
    BY <1>6 DEF Save, Follow, Reload, tabs
  <2>3. CASE Save
    <3> DEFINE r == [Request("save", Note.path) EXCEPT !.text = Note.text, !.original = Note.original]
    <3>1. /\ r \in Req
          /\ r.c = "save" /\ r.path = Note.path
      BY <2>1 DEF Request, Req, Content, Contents, AllTexts, Tab, Asked
    <3>2. Send(r)  BY <2>3 DEF Save
    <3> HIDE DEF r
    <3>3. Sent("save", Note.path)  BY <3>1, <3>2, SendIs
    <3>4. QED  BY <2>1, <2>2, <2>3, <3>3 DEF Away
  <2>4. ASSUME NEW c \in {"resolve", "reload"}, Send(Request(c, Note.path)) PROVE Sent(c, Note.path)
    <3>1. /\ Request(c, Note.path) \in Req
          /\ Request(c, Note.path).c = c /\ Request(c, Note.path).path = Note.path
      BY <2>1 DEF Request, Req, Content, Contents, AllTexts, Tab, Asked
    <3>2. QED  BY <2>4, <3>1, SendIs
  <2>5. CASE Follow  BY <2>1, <2>2, <2>4, <2>5 DEF Follow, Away
  <2>6. CASE Reload  BY <2>1, <2>2, <2>4, <2>6 DEF Reload, Away
  <2>7. QED  BY <1>6, <2>3, <2>5, <2>6
<1>7. QED  BY <1>2, <1>3, <1>4, <1>5, <1>6 DEF User, Asked

\* Answers stay of what was asked, and no answer is yet of what is asked now.
LEMMA UserMatches ==
  ASSUME IInv, EInv, User
  PROVE  RepliesMatch'
<1>1. out' = out  BY UserSends
<1>2. CASE pending' = pending  BY <1>1, <1>2 DEF EInv, RepliesMatch, Busy
<1>3. CASE \E c, path : Sent(c, path)
  <2>1. \A i \in 1..Len(out) : out[i] \in Reply  BY ElementOfSeq DEF IInv, Rest, Types
  <2>2. \A i \in 1..Len(out) : out[i].id \in Nat /\ out[i].id <= serial /\ serial \in Nat
    BY <2>1 DEF IInv, Rest, Types, Numbered, Reply
  <2>3. pending'[1].id = serial + 1  BY <1>3 DEF Sent
  <2>4. QED  BY <1>1, <2>2, <2>3 DEF RepliesMatch
<1>4. QED  BY <1>2, <1>3, UserSends

LEMMA UserKeepsTabs ==
  ASSUME Careless = {}, IInv, EInv, User
  PROVE  TabSide'
<1>1. Len(items) \in Nat /\ DOMAIN items = 1..Len(items)
      /\ \A i \in 1..Len(items) : items[i] \in Tab
  BY ItemsAre DEF IInv
<1>2. Here => pending' = pending  BY DEF Here, link
<1>3. ASSUME Here, items' = items, ~Busy \/ closePending' = 0 PROVE TabSide'
  BY <1>2, <1>3 DEF EInv, TabSide, Unique, SavesShown, ReloadsClean, Busy, Dirty, Source
<1>4. ASSUME Here, Unique', ~Busy PROVE TabSide'
  BY <1>2, <1>4 DEF TabSide, SavesShown, ReloadsClean, Busy
<1>5. ASSUME NEW i \in 1..Len(items), Discarded(items, i) PROVE Unique'
  BY <1>5, DiscardedHas DEF IInv, TabsTyped, EInv, TabSide, Unique
<1>6. CASE ShowFiles \/ KeepEditing  BY <1>3, <1>6 DEF ShowFiles, KeepEditing
<1>7. CASE GuardClose  BY <1>3, <1>7 DEF GuardClose
<1>8. CASE Discard
  <2>1. current \in 1..Len(items)  BY <1>8, NoteIs DEF Discard
  <2>2. QED  BY <1>4, <1>5, <1>8, <2>1 DEF Discard
<1>9. CASE \E i \in DOMAIN items : Select(i)  BY <1>3, <1>9 DEF Select, Selects
<1>10. CASE \E i \in DOMAIN items : Close(i)
  <2>1. PICK i \in 1..Len(items) : Close(i)  BY <1>1, <1>10
  <2>2. CASE Dirty(items[i])  BY <1>3, <2>1, <2>2 DEF Close
  <2>3. CASE ~Dirty(items[i])  BY <1>4, <1>5, <2>1, <2>3 DEF Close
  <2>4. QED  BY <2>2, <2>3
<1>11. CASE \E text \in Texts : Changed(text)
  <2>1. PICK text \in Texts : Changed(text)  BY <1>11
  <2>2. current \in 1..Len(items)  BY <2>1, NoteIs DEF Changed
  <2>3. /\ items' = [items EXCEPT ![current].text = text] /\ Here
        /\ UNCHANGED <<current, closePending>> /\ ~(Busy /\ pending[1].c = "reload")
    BY <2>1 DEF Changed
  <2>4. /\ DOMAIN items' = DOMAIN items
        /\ \A k \in 1..Len(items) : items'[k].path = items[k].path
    BY <1>1, <2>2, <2>3 DEF Tab
  <2>5. Len(items') = Len(items)
    <3>1. IInv'  BY UserKeeps
    <3>2. Len(items') \in Nat /\ DOMAIN items' = 1..Len(items')
      BY <3>1, LenProperties DEF IInv, TabsTyped
    <3>3. QED  BY <1>1, <2>4, <3>2
  <2>6. Unique'  BY <2>4, <2>5 DEF EInv, TabSide, Unique
  <2>7. SavesShown'
    BY <1>2, <2>2, <2>3, <2>4 DEF EInv, TabSide, SavesShown, Busy
  <2>8. ReloadsClean'  BY <1>2, <2>3 DEF ReloadsClean, Busy
  <2>9. QED  BY <2>6, <2>7, <2>8 DEF TabSide
<1>12. CASE ~Busy /\ \E path \in Asked : Sent("load", path) /\ UNCHANGED tabs
  BY <1>12 DEF tabs, Sent, EInv, TabSide, Unique, SavesShown, ReloadsClean
<1>13. CASE ~Busy /\ Active /\ UNCHANGED <<items, current, closePending>>
            /\ \/ Save /\ Sent("save", Note.path)
               \/ Follow /\ Sent("resolve", Note.path)
               \/ Reload /\ Sent("reload", Note.path)
  <2>1. current \in 1..Len(items) /\ Note.path \in Files /\ Note = items[current]
    BY <1>13, NoteIs DEF Tab, Note
  <2>2. Unique'  BY <1>13 DEF EInv, TabSide, Unique
  <2>3. SavesShown'  BY <1>13, <2>1 DEF Sent, SavesShown
  <2>4. ReloadsClean'
    <3> SUFFICES ASSUME Reload, pending'[1].path = Note.path
                 PROVE  /\ pending'[1].path \in Files
                        /\ \A i \in 1..Len(items) :
                             items[i].path = pending'[1].path => ~Dirty(items[i])
      BY <1>13 DEF Sent, ReloadsClean, Dirty, Source
    <3>1. ~Dirty(items[current])  BY <2>1 DEF Reload
    <3>2. QED  BY <2>1, <3>1 DEF EInv, TabSide, Unique
  <2>5. QED  BY <2>2, <2>3, <2>4 DEF TabSide
<1>14. CASE pending' = pending /\ \E path \in Asked : Open(path)
  <2>1. PICK path \in Asked : Open(path)  BY <1>14
  <2>2. ~\E r : Send(r) /\ ~Busy  BY <1>14 DEF Send, Busy
  <2>3. \E i \in TabsOf(items, path) : Select(i)  BY <2>1, <2>2 DEF Open
  <2>4. QED  BY <1>9, <2>3 DEF TabsOf
<1>15. CASE pending' = pending /\ (Save \/ Follow \/ Reload)
  BY <1>15 DEF Save, Follow, Reload, Send, Busy
<1>16. QED
  BY <1>6, <1>7, <1>8, <1>9, <1>10, <1>11, <1>12, <1>13, <1>14, <1>15, UserSends DEF User, Asked

-----------------------------------------------------------------------------
(* The child: what it says of the request in flight is of what was asked.  *)

LEMMA SaysMatches ==
  ASSUME IInv, EInv, job \in Working, NEW ok \in BOOLEAN, NEW content \in Contents,
         Says(ok, content), UNCHANGED pending, ok /\ job.req.c = "save" => content = New
  PROVE  RepliesMatch'
<1> DEFINE reply == [id |-> job.req.id, ok |-> ok, path |-> Target, content |-> content]
<1>1. out \in Seq(Reply) /\ Len(out) \in Nat  BY LenProperties DEF IInv, Rest, Types
<1>2. reply \in Reply  BY TargetIsFile DEF Reply, Working, Req
<1>3. out' = Append(out, reply)  BY DEF Says
<1>4. reply.id = job.req.id /\ reply.ok = ok /\ reply.path = Target /\ reply.content = content
  OBVIOUS
<1> HIDE DEF reply
<1>5. /\ Len(out') = Len(out) + 1 /\ out'[Len(out) + 1] = reply
      /\ \A i \in 1..Len(out) : out'[i] = out[i]
  BY <1>1, <1>2, <1>3, AppendProperties
<1>6. Busy /\ reply.id = pending[1].id /\ reply.ok => Matches(reply, pending[1])
  <2> SUFFICES ASSUME Busy, job.req.id = pending[1].id, ok PROVE Matches(reply, pending[1])
    BY <1>4
  <2>1. job.req = pending[1]  BY DEF IInv, Rest, Numbered
  <2>2. pending[1].c # "resolve" => Target = Real(pending[1].path)  BY <2>1 DEF Target
  <2>3. pending[1].c = "save" => content = Encoded(pending[1].original, pending[1].text)
    BY <2>1 DEF New
  <2>4. QED  BY <1>4, <2>2, <2>3 DEF Matches
<1>7. \A i \in 1..Len(out') : i \in 1..Len(out) \/ i = Len(out) + 1  BY <1>1, <1>5
<1>8. QED  BY <1>5, <1>6, <1>7 DEF EInv, RepliesMatch, Busy

LEMMA RefusesMatches ==
  ASSUME IInv, EInv, job \in Working, Refuses, UNCHANGED pending
  PROVE  RepliesMatch'
<1>1. Content("", "lf") \in Contents  BY DEF Content, Contents, AllTexts
<1>2. QED  BY <1>1, SaysMatches DEF Refuses

LEMMA GoesMatches ==
  ASSUME EInv, NEW pc, Goes(pc), UNCHANGED pending
  PROVE  RepliesMatch'
  BY DEF Goes, EInv, RepliesMatch, Busy

LEMMA ChildKeepsEdits ==
  ASSUME IInv, EInv,
         Load \/ CheckOriginal \/ Backup \/ WriteTemp \/ Recheck \/ Rename \/ SyncParent
  PROVE  EInv'
<1>1. Quiet
  BY DEF Load, CheckOriginal, Backup, WriteTemp, Recheck, Rename, SyncParent
<1>2. UNCHANGED TabSideVars  BY <1>1 DEF Quiet, tabs, link, TabSideVars
<1>3. pending' = pending /\ TabSide'  BY <1>2, TabSideDependsOn DEF EInv, TabSideVars
<1>4. CASE Load
  <2>1. job \in Working /\ Target \in Files  BY <1>4, JobIs DEF Load
  <2>2. disk[Target] \in Contents  BY <2>1 DEF IInv, Rest, Types
  <2>3. CASE Refuses  BY <1>3, <2>1, <2>3, RefusesMatches DEF EInv
  <2>4. CASE job.req.c # "save" /\ Says(TRUE, disk[Target])
    BY <1>3, <2>1, <2>2, <2>4, SaysMatches DEF EInv
  <2>5. QED  BY <1>4, <2>3, <2>4 DEF Load
<1>5. CASE CheckOriginal
  <2>1. job \in Working /\ New \in Contents  BY <1>5, JobIs DEF CheckOriginal
  <2>2. CASE Says(TRUE, New)  BY <1>3, <2>1, <2>2, SaysMatches DEF EInv
  <2>3. CASE Goes("backup")  BY <1>3, <2>3, GoesMatches DEF EInv
  <2>4. QED  BY <1>5, <2>2, <2>3 DEF CheckOriginal
<1>6. CASE Backup \/ WriteTemp \/ Recheck \/ Rename
  <2>1. job \in Working  BY <1>6, JobIs DEF Backup, WriteTemp, Recheck, Rename
  <2>2. Refuses \/ \E pc : Goes(pc)
    BY <1>6 DEF Backup, WriteTemp, Recheck, Rename, Unwritten
  <2>3. QED  BY <1>3, <2>1, <2>2, RefusesMatches, GoesMatches DEF EInv
<1>7. CASE SyncParent
  <2>1. job \in Working /\ New \in Contents  BY <1>7, JobIs DEF SyncParent
  <2>2. CASE Refuses  BY <1>3, <2>1, <2>2, RefusesMatches DEF EInv
  <2>3. CASE Says(TRUE, New)  BY <1>3, <2>1, <2>3, SaysMatches DEF EInv
  <2>4. QED  BY <1>7, <2>2, <2>3 DEF SyncParent
<1>8. QED  BY <1>4, <1>5, <1>6, <1>7

-----------------------------------------------------------------------------
(* The answer.                                                             *)

\* The text of every unsaved tab is in a tab still, or in the note.
Stands ==
  \A i \in DOMAIN items : Dirty(items[i]) =>
    \/ \E j \in TabsOf(items', items[i].path) : items'[j].text = items[i].text
    \/ /\ pending[1].c = "save" /\ pending[1].path = items[i].path
       /\ pending[1].text = items[i].text
       /\ <<items[i].path, Encoded(pending[1].original, items[i].text)>> \in held

LEMMA FailsStands ==
  ASSUME EInv, Fails
  PROVE  Unique' /\ Stands
  BY DEF EInv, TabSide, Unique, Fails, Stands, TabsOf

LEMMA TakeSaveStands ==
  ASSUME IInv, EInv, Busy, pending[1].c = "save", NEW reply \in Reply, TakeSave(reply),
         Matches(reply, pending[1]), Wrote(pending[1])
  PROVE  Unique' /\ Stands
<1> DEFINE r == pending[1]
           at == TabsOf(items, reply.path)
           list == [i \in DOMAIN items |->
                     IF i \in at THEN [items[i] EXCEPT !.original = reply.content] ELSE items[i]]
<1>1. Len(items) \in Nat /\ DOMAIN items = 1..Len(items)
      /\ \A i \in 1..Len(items) : items[i] \in Tab
  BY ItemsAre DEF IInv
<1>2. r.path \in Files /\ Real(r.path) = r.path  BY DEF EInv, TabSide, SavesShown, Real
<1>3. reply.path = r.path /\ reply.content = Encoded(r.original, r.text)
  BY <1>2 DEF Matches
<1>4. <<r.path, Encoded(r.original, r.text)>> \in held  BY <1>2 DEF Wrote
<1>5. \A i \in 1..Len(items) : [items[i] EXCEPT !.original = reply.content] \in Tab
  BY <1>1 DEF Tab, Reply
<1>6. list \in Seq(Tab) /\ Len(list) = Len(items)
  <2>1. list \in [1..Len(items) -> Tab]  BY <1>1, <1>5
  <2> HIDE DEF list
  <2>2. list \in Seq(Tab)  BY <1>1, <2>1, SeqDef
  <2>3. QED  BY <1>1, <2>1, <2>2, LenProperties
<1>7. \A i \in 1..Len(items) : list[i].path = items[i].path /\ list[i].text = items[i].text
  BY <1>1 DEF Tab
<1>8. \A i, k \in 1..Len(items) : list[i].path = list[k].path => i = k
  BY <1>7 DEF EInv, TabSide, Unique
<1>9. CASE (\E i \in at : GoesWithSave(list, i)) /\ Active /\ Discarded(list, current)
  <2>1. PICK i \in 1..Len(items) : items[i].path = r.path /\ closePending = i /\ ~Dirty(list[i])
    BY <1>1, <1>3, <1>9 DEF TabsOf, GoesWithSave
  <2>2. current \in 1..Len(items)  BY <1>9, NoteIs
  <2>3. items[current].path = r.path  BY <2>1 DEF EInv, TabSide, SavesShown
  <2>4. i = current  BY <2>1, <2>2, <2>3 DEF EInv, TabSide, Unique
  <2>5. items[current].text = r.text
    <3>1. list[current].original = reply.content /\ list[current].text = items[current].text
      BY <1>1, <1>3, <2>2, <2>3 DEF TabsOf, Tab
    <3>2. Source(reply.content) = r.text  BY <1>3 DEF Encoded, Content, Source
    <3> HIDE DEF list
    <3>3. QED  BY <2>1, <2>4, <3>1, <3>2 DEF Dirty
  <2> HIDE DEF list
  <2>6. /\ Unique'
        /\ \A j \in 1..Len(items) : j # current => \E k \in DOMAIN items' : items'[k] = list[j]
    BY <1>6, <1>8, <1>9, <2>2, DiscardedHas
  <2>7. Stands
    <3> SUFFICES ASSUME NEW j \in 1..Len(items)
                 PROVE  \/ \E k \in TabsOf(items', items[j].path) : items'[k].text = items[j].text
                        \/ /\ r.path = items[j].path /\ r.text = items[j].text
                           /\ <<items[j].path, Encoded(r.original, items[j].text)>> \in held
      BY <1>1 DEF Stands
    <3>1. CASE j = current  BY <1>4, <2>3, <2>5, <3>1
    <3>2. CASE j # current  BY <1>7, <2>6, <3>2 DEF TabsOf
    <3>3. QED  BY <3>1, <3>2
  <2>8. QED  BY <2>6, <2>7
<1>10. CASE items' = list
  <2>1. DOMAIN list = DOMAIN items  OBVIOUS
  <2> HIDE DEF list
  <2>2. Unique'  BY <1>6, <1>8, <1>10 DEF Unique
  <2>3. Stands  BY <1>1, <1>7, <1>10, <2>1 DEF Stands, TabsOf
  <2>4. QED  BY <2>2, <2>3
<1>11. QED  BY <1>9, <1>10 DEF TakeSave

LEMMA TakeNoteStands ==
  ASSUME IInv, EInv, Busy, NEW reply \in Reply, TakeNote(pending[1], reply),
         Matches(reply, pending[1])
  PROVE  Unique' /\ Stands
<1> DEFINE r == pending[1]
           note == [path |-> reply.path, text |-> Source(reply.content), original |-> reply.content]
           at == TabsOf(items, reply.path)
<1>1. Len(items) \in Nat /\ DOMAIN items = 1..Len(items)
      /\ \A i \in 1..Len(items) : items[i] \in Tab
  BY ItemsAre DEF IInv
<1>2. note.path = reply.path /\ note \in Tab  BY DEF Tab, Reply, Contents, Source
<1> HIDE DEF note
<1>3. CASE UNCHANGED items  BY <1>3 DEF EInv, TabSide, Unique, Stands, TabsOf
<1>4. CASE r.c = "reload" /\ \E i \in at : items' = [items EXCEPT ![i] = note]
  <2>1. PICK i \in 1..Len(items) : items[i].path = reply.path /\ items' = [items EXCEPT ![i] = note]
    BY <1>1, <1>4 DEF TabsOf
  <2>2. r.path \in Files /\ reply.path = r.path
    BY <1>4 DEF EInv, TabSide, ReloadsClean, Matches, Real
  <2>3. ~Dirty(items[i])  BY <1>4, <2>1, <2>2 DEF EInv, TabSide, ReloadsClean
  <2>4. /\ DOMAIN items' = DOMAIN items /\ Len(items') = Len(items)
        /\ \A k \in 1..Len(items) : items'[k].path = items[k].path
        /\ \A k \in 1..Len(items) : k # i => items'[k] = items[k]
    <3>1. Len(items') = Len(items)  BY <1>2, <2>1, ExceptSeq DEF IInv, TabsTyped
    <3>2. QED  BY <1>1, <1>2, <2>1, <3>1
  <2>5. Unique'  BY <2>4 DEF EInv, TabSide, Unique
  <2>6. Stands  BY <1>1, <2>3, <2>4 DEF Stands, TabsOf
  <2>7. QED  BY <2>5, <2>6
<1>5. CASE at = {} /\ items' = Append(items, note)
  <2>1. /\ Len(items') = Len(items) + 1 /\ items'[Len(items) + 1] = note
        /\ \A k \in 1..Len(items) : items'[k] = items[k]
        /\ items' \in Seq(Tab)
    BY <1>2, <1>5, AppendProperties DEF IInv, TabsTyped
  <2>2. DOMAIN items' = 1..(Len(items) + 1)  BY <1>1, <2>1, LenProperties
  <2>3. \A k \in 1..Len(items) : items[k].path # note.path  BY <1>1, <1>2, <1>5 DEF TabsOf
  <2>4. \A k \in 1..(Len(items) + 1) : k \in 1..Len(items) \/ k = Len(items) + 1  BY <1>1
  <2>5. Unique'  BY <2>1, <2>3, <2>4 DEF EInv, TabSide, Unique
  <2>6. Stands  BY <1>1, <2>1, <2>2 DEF Stands, TabsOf
  <2>7. QED  BY <2>5, <2>6
<1>6. QED  BY <1>3, <1>4, <1>5 DEF TakeNote, note

\* An answer taken leaves what was typed where it is, or in the note.
LEMMA AnsweredStands ==
  ASSUME IInv, EInv, OnRead, Answers(Head(out)), Answered(pending[1], Head(out))
  PROVE  Unique' /\ Stands
<1>1. out # <<>> /\ out \in Seq(Reply)  BY DEF OnRead, IInv, Rest, Types
<1>2. Head(out) \in Reply /\ 1 \in 1..Len(out) /\ Head(out) = out[1]
  BY <1>1, HeadTailProperties, LenProperties, EmptySeq
<1>3. Busy /\ Head(out).id = pending[1].id  BY DEF Answers
<1>4. CASE ~Head(out).ok  BY <1>4, FailsStands DEF Answered
<1>5. CASE Head(out).ok
  <2>1. Matches(Head(out), pending[1])  BY <1>2, <1>3, <1>5 DEF EInv, RepliesMatch
  <2>2. CASE pending[1].c = "save"
    <3>1. Wrote(pending[1])  BY <1>2, <1>3, <1>5, <2>2 DEF IInv, Rest, SaidTrue
    <3>2. QED  BY <1>2, <1>3, <1>5, <2>1, <2>2, <3>1, TakeSaveStands DEF Answered
  <2>3. CASE pending[1].c # "save"
    BY <1>2, <1>3, <1>5, <2>1, <2>3, TakeNoteStands DEF Answered
  <2>4. QED  BY <2>2, <2>3
<1>6. QED  BY <1>4, <1>5

LEMMA OnReadKeepsEdits ==
  ASSUME IInv, EInv, OnRead
  PROVE  EInv'
<1>1. CASE Answers(Head(out)) /\ Answered(pending[1], Head(out)) /\ pending' = <<>>
  BY <1>1, AnsweredStands DEF Busy, EInv, TabSide, SavesShown, ReloadsClean,
     RepliesMatch
<1>2. CASE UNCHANGED <<tabs, pending>>
  <2>1. TabSide'  BY <1>2, TabSideDependsOn DEF tabs, TabSideVars, EInv
  <2>2. /\ out # <<>> /\ out \in Seq(Reply) /\ Len(out) \in Nat /\ out' = Tail(out)
    BY LenProperties DEF OnRead, IInv, Rest, Types
  <2>3. Len(out') = Len(out) - 1 /\ \A i \in 1..Len(out') : out'[i] = out[i + 1]
    BY <2>2, HeadTailProperties
  <2>4. \A i \in 1..Len(out') : i + 1 \in 1..Len(out)  BY <2>2, <2>3
  <2>5. RepliesMatch'  BY <1>2, <2>3, <2>4 DEF EInv, RepliesMatch, Busy
  <2>6. QED  BY <2>1, <2>5 DEF EInv
<1>3. QED  BY <1>1, <1>2 DEF OnRead

LEMMA ChildEndsKeepsEdits ==
  ASSUME EInv, ChildStarts \/ ChildDies
  PROVE  EInv'
<1>1. out' = out /\ items' = items  BY DEF ChildStarts, ChildDies, Fails, tabs
<1>2. CASE pending' = <<>>
  BY <1>1, <1>2 DEF Busy, EInv, TabSide, Unique, SavesShown, ReloadsClean, RepliesMatch
<1>3. CASE UNCHANGED <<tabs, pending>>
  <2>1. TabSide'  BY <1>3, TabSideDependsOn DEF tabs, TabSideVars, EInv
  <2>2. RepliesMatch'  BY <1>1, <1>3 DEF EInv, RepliesMatch, Busy
  <2>3. QED  BY <2>1, <2>2 DEF EInv
<1>4. QED  BY <1>2, <1>3 DEF ChildStarts, ChildDies

LEMMA StepKeepsEdits == Careless = {} /\ IInv /\ EInv /\ [Next]_vars => EInv'
<1> SUFFICES ASSUME Careless = {}, IInv, EInv, [Next]_vars PROVE EInv'  OBVIOUS
<1>1. CASE User  BY <1>1, UserKeepsTabs, UserMatches DEF EInv
<1>2. CASE System
  BY <1>2, OnReadKeepsEdits, ChildEndsKeepsEdits, ChildKeepsEdits DEF System
<1>3. CASE ChildDies  BY <1>3, ChildEndsKeepsEdits
<1>4. CASE (\E f \in Files, text \in Texts : Outside(f, text)) \/ UNCHANGED vars
  <2>1. UNCHANGED TabSideVars /\ out' = out  BY <1>4 DEF Outside, vars, tabs, link, TabSideVars
  <2>2. TabSide'  BY <2>1, TabSideDependsOn DEF EInv
  <2>3. RepliesMatch'  BY <2>1 DEF TabSideVars, EInv, RepliesMatch, Busy
  <2>4. QED  BY <2>2, <2>3 DEF EInv
<1>5. QED  BY <1>1, <1>2, <1>3, <1>4 DEF Next

\* Unless the user types into a note being reloaded or closes the window behind
\* a request, no answer takes typed text out of the tabs but the answer of the
\* save that wrote it: not a late one, not a failed one, not the answer of a
\* save whose tab waits to close while more is typed (NoteWorkspace.qml).
THEOREM TypedTextStands == Careless = {} => (Spec => EditsStand)
<1> SUFFICES ASSUME Careless = {} PROVE Spec => EditsStand
  OBVIOUS
<1>1. IInv /\ EInv /\ [Next]_vars => (Ends => Stands)
  <2> SUFFICES ASSUME IInv, EInv, [Next]_vars, Ends PROVE Stands  OBVIOUS
  <2>1. CASE OnRead /\ Answers(Head(out)) /\ Answered(pending[1], Head(out))
    BY <2>1, AnsweredStands
  <2>2. CASE Fails  BY <2>2, FailsStands
  <2>3. QED  BY <2>1, <2>2, WhatEnds
<1>2. IInv /\ EInv /\ [Next]_vars => EInv'  BY StepKeepsEdits
<1>3. QED  BY <1>1, <1>2, InitEdits, Invariance, PTL DEF Spec, EditsStand, Stands
=============================================================================
