------------------------------ MODULE Jobs_proofs ------------------------------
(***************************************************************************)
(* Four results about the threads and their tools, for any requests, tools *)
(* and limits: no signal meets a process that was reaped, no two jobs      *)
(* share a work directory, what a thread answers is what happened, and     *)
(* nothing that stands at the destination is replaced.                     *)
(***************************************************************************)
EXTENDS Jobs, FiniteSetTheorems, WellFoundedInduction, TLAPS

-----------------------------------------------------------------------------
(* What every step keeps of the shape of the state. A request is whatever  *)
(* the scenario gives; the fields beside it are what a step may write.     *)

Fields == {"req", "pc", "tries", "dir", "staged", "got", "done", "failed", "verified",
           "listed", "wide", "cut"}
Children == [st : {"none", "runs", "exited", "reaped"}, open : BOOLEAN, sent : Nat,
             ok : BOOLEAN]

Types ==
  /\ DOMAIN job = Threads
  /\ \A j \in Threads : Fields \subseteq DOMAIN job[j]
  /\ child \in [Threads -> Children]
  /\ watch \in [Threads -> {"off", "sleeps", "aims", "waits", "ended"}]

\* While the listing's watchdog may still signal, its thread has not reaped.
Listing == {"read", "stop", "wait"}
WatchedLives ==
  \A j \in Threads :
    /\ job[j].pc \in Listing => child[j].st # "reaped"
    /\ watch[j] \in {"sleeps", "aims"} => job[j].pc \in Listing

\* From its creation to its drop, what is under a job's name is that job's.
Owning == {"tool", "boxed", "verify", "vread", "vwait", "publish", "drop"}
OwnersOf(j) == {d.owner : d \in Under(job[j].dir)}
EachOwnsItsWork == \A j \in Threads : job[j].pc \in Owning => OwnersOf(j) = {j}
Old == {d \in work : d.owner = "old"}
LeftoversStay == {<<d.tag, d.n>> : d \in Old} = Leftovers

IInv == Types /\ WatchedLives /\ KillsItsOwn /\ EachOwnsItsWork /\ LeftoversStay

-----------------------------------------------------------------------------
(* What a step of one thread, its watchdog or its tool may touch.          *)

OnlyJob(j) ==
  /\ DOMAIN job' = Threads
  /\ \A k \in Threads : Fields \subseteq DOMAIN job'[k]
  /\ \A k \in Threads \ {j} : job'[k] = job[k]

OnlyChild(j) ==
  /\ child' \in [Threads -> Children]
  /\ \A k \in Threads \ {j} : child'[k] = child[k]

OnlyWatch(j) ==
  /\ watch' \in [Threads -> {"off", "sleeps", "aims", "waits", "ended"}]
  /\ \A k \in Threads \ {j} : watch'[k] = watch[k]

\* The work directories and who owns them stay.
SameWork(j) ==
  /\ work' = work /\ job'[j].dir = job[j].dir
  /\ job'[j].pc \in Owning => job[j].pc \in Owning

Frame(j) == OnlyJob(j) /\ OnlyChild(j) /\ OnlyWatch(j)

LEMMA GoesIs ==
  ASSUME Types, NEW j \in Threads, NEW pc, Goes(j, pc)
  PROVE  OnlyJob(j) /\ job'[j].pc = pc /\ job'[j].dir = job[j].dir
  BY DEF Types, Goes, OnlyJob, Fields

LEMMA FallenIs ==
  ASSUME Types, NEW j \in Threads, Fallen(j)
  PROVE  OnlyJob(j) /\ job'[j].pc = "drop" /\ job'[j].dir = job[j].dir
  BY DEF Types, Fallen, OnlyJob, Fields

LEMMA SameJobIs ==
  ASSUME Types, NEW j \in Threads, job' = job
  PROVE  OnlyJob(j) /\ job'[j] = job[j]
  BY DEF Types, OnlyJob

LEMMA ChildIs ==
  ASSUME Types, NEW j \in Threads, NEW c \in Children, child' = [child EXCEPT ![j] = c]
  PROVE  OnlyChild(j) /\ child'[j] = c
  BY DEF Types, OnlyChild

LEMMA SameChildIs ==
  ASSUME Types, NEW j \in Threads, child' = child
  PROVE  OnlyChild(j) /\ child'[j] = child[j]
  BY DEF Types, OnlyChild

LEMMA WatchIs ==
  ASSUME Types, NEW j \in Threads, NEW s \in {"off", "sleeps", "aims", "waits", "ended"},
         watch' = [watch EXCEPT ![j] = s]
  PROVE  OnlyWatch(j) /\ watch'[j] = s
  BY DEF Types, OnlyWatch

LEMMA SameWatchIs ==
  ASSUME Types, NEW j \in Threads, watch' = watch
  PROVE  OnlyWatch(j) /\ watch'[j] = watch[j]
  BY DEF Types, OnlyWatch

LEMMA StartedIs == Started \in Children /\ Started.st = "runs"
  BY DEF Started, Children

LEMMA ReapedIs ==
  ASSUME Types, NEW j \in Threads, child' = [child EXCEPT ![j].st = "reaped"]
  PROVE  OnlyChild(j)
  BY DEF Types, OnlyChild, Children

LEMMA KilledIs ==
  ASSUME NEW c \in Children
  PROVE  Killed(c) \in Children /\ (c.st # "reaped" => Killed(c).st # "reaped")
  BY DEF Killed, Children

-----------------------------------------------------------------------------
(* How the parts of the invariant are kept.                                *)

LEMMA SameWorkKeeps ==
  ASSUME IInv, NEW j \in Threads, OnlyJob(j), SameWork(j)
  PROVE  EachOwnsItsWork' /\ LeftoversStay'
<1>1. \A k \in Threads : /\ job'[k].dir = job[k].dir
                         /\ job'[k].pc \in Owning => job[k].pc \in Owning
  BY DEF OnlyJob, SameWork
<1>2. work' = work  BY DEF SameWork
<1>3. \A k \in Threads : OwnersOf(k)' = OwnersOf(k)
  BY <1>1, <1>2 DEF OwnersOf, Under
<1>4. EachOwnsItsWork'  BY <1>1, <1>3 DEF IInv, EachOwnsItsWork
<1>5. LeftoversStay'  BY <1>2 DEF IInv, LeftoversStay, Old
<1>6. QED  BY <1>4, <1>5

\* A step of a thread that is not listing, before it and after.
LEMMA OutsideIs ==
  ASSUME IInv, NEW j \in Threads, Frame(j), hits' = hits,
         job[j].pc \notin Listing, job'[j].pc \notin Listing,
         watch'[j] \in {watch[j], "waits", "ended"}
  PROVE  Types' /\ WatchedLives' /\ KillsItsOwn'
<1>1. Types'  BY DEF Types, Frame, OnlyJob, OnlyChild, OnlyWatch
<1>2. WatchedLives'
  BY DEF IInv, WatchedLives, Frame, OnlyJob, OnlyChild, OnlyWatch
<1>3. KillsItsOwn'  BY DEF IInv, KillsItsOwn
<1>4. QED  BY <1>1, <1>2, <1>3

LEMMA OutsideKeeps ==
  ASSUME IInv, NEW j \in Threads, Frame(j), SameWork(j), hits' = hits,
         job[j].pc \notin Listing, job'[j].pc \notin Listing,
         watch'[j] \in {watch[j], "waits", "ended"}
  PROVE  IInv'
  BY OutsideIs, SameWorkKeeps DEF IInv, Frame

\* A step that stays in the listing or out of it, reaps nothing, wakes no
\* watchdog and signals only what is not reaped.
LEMMA LiveKeeps ==
  ASSUME IInv, NEW j \in Threads, Frame(j), SameWork(j),
         job'[j].pc \in Listing <=> job[j].pc \in Listing,
         child[j].st # "reaped" => child'[j].st # "reaped",
         watch'[j] \in {"sleeps", "aims"} => watch[j] \in {"sleeps", "aims"},
         "reaped" \notin hits'
  PROVE  IInv'
<1>1. Types'  BY DEF Types, Frame, OnlyJob, OnlyChild, OnlyWatch
<1>2. WatchedLives'
  BY DEF IInv, WatchedLives, Frame, OnlyJob, OnlyChild, OnlyWatch
<1>3. KillsItsOwn'  BY DEF KillsItsOwn
<1>4. QED  BY <1>1, <1>2, <1>3, SameWorkKeeps DEF IInv, Frame

LEMMA InitHolds == Init => IInv
<1> SUFFICES ASSUME Init PROVE IInv  OBVIOUS
<1>1. PICK s \in Scenarios : job = [j \in Threads |->
                [req |-> s.asked[j], pc |-> "asked", tries |-> 0, dir |-> <<>>, staged |-> {},
                 got |-> 0, done |-> FALSE, failed |-> FALSE, verified |-> TRUE,
                 listed |-> NoContents, wide |-> FALSE, cut |-> FALSE]]
  BY DEF Init
<1>2. \A j \in Threads : job[j].pc = "asked" /\ Fields \subseteq DOMAIN job[j]
  BY <1>1 DEF Fields
<1>3. Types  BY <1>1, <1>2 DEF Init, Types, NoChild, Children
<1>4. WatchedLives  BY <1>2 DEF Init, WatchedLives, Listing
<1>5. KillsItsOwn  BY DEF Init, KillsItsOwn
<1>6. EachOwnsItsWork  BY <1>2 DEF EachOwnsItsWork, Owning
<1>7. LeftoversStay
  <2>1. Old = work  BY DEF Init, Old
  <2>2. {<<d.tag, d.n>> : d \in work} = {<<n[1], n[2]>> : n \in Leftovers}
    <3>1. \A d \in work : \E n \in Leftovers : d.tag = n[1] /\ d.n = n[2]
      BY DEF Init
    <3>2. \A n \in Leftovers : \E d \in work : d.tag = n[1] /\ d.n = n[2]
      <4> TAKE n \in Leftovers
      <4> DEFINE d == [tag |-> n[1], n |-> n[2], owner |-> "old"]
      <4>1. d \in work  BY DEF Init
      <4>2. d.tag = n[1] /\ d.n = n[2]  OBVIOUS
      <4>3. QED  BY <4>1, <4>2
    <3>3. QED  BY <3>1, <3>2
  <2>3. \A n \in Leftovers : n = <<n[1], n[2]>>  BY JobsAssumption
  <2>4. QED  BY <2>1, <2>2, <2>3 DEF LeftoversStay
<1>8. QED  BY <1>3, <1>4, <1>5, <1>6, <1>7 DEF IInv

-----------------------------------------------------------------------------
(* Compress, extract and convert.                                          *)

LEMMA BeginFileKeeps ==
  ASSUME IInv, NEW j \in Threads, BeginFile(j)
  PROVE  IInv'
<1>1. job[j].pc = "asked"  BY DEF BeginFile, At
<1>2. Types  BY DEF IInv
<1>3. UNCHANGED <<child, watch, hits, work>>
  BY DEF BeginFile, Refuse, Files
<1>4. \E pc \in {"ended", "work"} : Goes(j, pc)
  BY DEF BeginFile, Refuse, Fails
<1>5. PICK pc \in {"ended", "work"} : Goes(j, pc)  BY <1>4
<1>6. OnlyJob(j) /\ job'[j].pc = pc /\ job'[j].dir = job[j].dir  BY <1>2, <1>5, GoesIs
<1>7. Frame(j) /\ watch'[j] = watch[j]
  BY <1>2, <1>3, <1>6, SameChildIs, SameWatchIs DEF Frame
<1>8. SameWork(j)  BY <1>3, <1>5, <1>6 DEF SameWork, Owning
<1>9. QED  BY <1>1, <1>3, <1>5, <1>6, <1>7, <1>8, OutsideKeeps DEF Listing

\* A name nothing stands under is the job's own once it is made.
LEMMA NewWorkMakes ==
  ASSUME IInv, NEW j \in Threads, ~Taken(<<Kind(j), seq>>), OnlyJob(j),
         job'[j].dir = <<Kind(j), seq>>,
         work' = work \cup {[tag |-> Kind(j), n |-> seq, owner |-> j]}
  PROVE  EachOwnsItsWork' /\ LeftoversStay'
<1> DEFINE new == [tag |-> Kind(j), n |-> seq, owner |-> j]
<1>1. Under(<<Kind(j), seq>>) = {}  BY DEF Taken
<1>2. \A d \in work : ~(d.tag = Kind(j) /\ d.n = seq)  BY <1>1 DEF Under
<1>3. new.tag = Kind(j) /\ new.n = seq /\ new.owner = j  OBVIOUS
<1>4. Under(job[j].dir)' = {new}
  BY <1>2, <1>3 DEF Under
<1>5. OwnersOf(j)' = {j}  BY <1>3, <1>4 DEF OwnersOf
<1>6. ASSUME NEW k \in Threads \ {j}, job[k].pc \in Owning
      PROVE  OwnersOf(k)' = {k}
  <2>1. OwnersOf(k) = {k}  BY <1>6 DEF IInv, EachOwnsItsWork
  <2>2. PICK d \in work : d.tag = job[k].dir[1] /\ d.n = job[k].dir[2]
    BY <2>1 DEF OwnersOf, Under
  <2>3. ~(job[k].dir[1] = Kind(j) /\ job[k].dir[2] = seq)  BY <1>2, <2>2
  <2>4. job'[k] = job[k]  BY DEF OnlyJob
  <2>5. Under(job[k].dir)' = Under(job[k].dir)  BY <1>3, <2>3, <2>4 DEF Under
  <2>6. QED  BY <2>1, <2>5 DEF OwnersOf
<1>7. EachOwnsItsWork'
  <2> SUFFICES ASSUME NEW k \in Threads, job'[k].pc \in Owning
               PROVE  OwnersOf(k)' = {k}
    BY DEF EachOwnsItsWork
  <2>1. CASE k = j  BY <1>5, <2>1
  <2>2. CASE k # j  BY <1>6, <2>2 DEF OnlyJob
  <2>3. QED  BY <2>1, <2>2
<1>8. Old' = Old
  <2>1. new.owner # "old"  BY <1>3, JobsAssumption
  <2>2. QED  BY <2>1 DEF Old
<1>9. LeftoversStay'  BY <1>8 DEF IInv, LeftoversStay
<1>10. QED  BY <1>7, <1>9

LEMMA NewWorkKeeps ==
  ASSUME IInv, NEW j \in Threads, NewWork(j)
  PROVE  IInv'
<1>1. Types /\ job[j].pc = "work"  BY DEF IInv, NewWork, At
<1>2. UNCHANGED <<child, watch, hits>>  BY DEF NewWork, Files
<1>3. OnlyChild(j) /\ OnlyWatch(j) /\ watch'[j] = watch[j]
  BY <1>1, <1>2, SameChildIs, SameWatchIs
<1>4. CASE /\ ~Taken(<<Kind(j), seq>>)
           /\ work' = work \cup {[tag |-> Kind(j), n |-> seq, owner |-> j]}
           /\ job' = [job EXCEPT ![j].pc = "tool", ![j].dir = <<Kind(j), seq>>]
  <2>1. OnlyJob(j) /\ job'[j].pc = "tool" /\ job'[j].dir = <<Kind(j), seq>>
    BY <1>1, <1>4 DEF Types, OnlyJob, Fields
  <2>2. EachOwnsItsWork' /\ LeftoversStay'  BY <1>4, <2>1, NewWorkMakes
  <2>3. Types' /\ WatchedLives' /\ KillsItsOwn'
    BY <1>1, <1>2, <1>3, <2>1, OutsideIs DEF Frame, Listing
  <2>4. QED  BY <2>2, <2>3 DEF IInv
<1>5. CASE job' = [job EXCEPT ![j].tries = @ + 1] /\ work' = work
  <2>1. OnlyJob(j) /\ job'[j].pc = "work" /\ job'[j].dir = job[j].dir
    BY <1>1, <1>5 DEF Types, OnlyJob, Fields
  <2>2. SameWork(j)  BY <1>5, <2>1 DEF SameWork, Owning
  <2>3. QED  BY <1>1, <1>2, <1>3, <2>1, <2>2, OutsideKeeps DEF Frame, Listing
<1>6. CASE Fails(j) /\ work' = work
  <2>1. OnlyJob(j) /\ job'[j].pc = "ended" /\ job'[j].dir = job[j].dir
    BY <1>1, <1>6, GoesIs DEF Fails
  <2>2. SameWork(j)  BY <1>6, <2>1 DEF SameWork, Owning
  <2>3. QED  BY <1>1, <1>2, <1>3, <2>1, <2>2, OutsideKeeps DEF Frame, Listing
<1>7. QED  BY <1>4, <1>5, <1>6 DEF NewWork

LEMMA RunBoxedKeeps ==
  ASSUME IInv, NEW j \in Threads, RunBoxed(j)
  PROVE  IInv'
<1>1. Types /\ job[j].pc = "tool"  BY DEF IInv, RunBoxed, At
<1>2. UNCHANGED <<watch, hits, work>>  BY DEF RunBoxed, Files
<1>3. OnlyWatch(j) /\ watch'[j] = watch[j]  BY <1>1, <1>2, SameWatchIs
<1>4. OnlyJob(j) /\ job'[j].pc \in {"boxed", "drop"} /\ job'[j].dir = job[j].dir
  BY <1>1, GoesIs, FallenIs DEF RunBoxed
<1>5. OnlyChild(j)
  BY <1>1, SameChildIs, ChildIs, StartedIs DEF RunBoxed
<1>6. SameWork(j)  BY <1>1, <1>2, <1>4 DEF SameWork, Owning
<1>7. QED  BY <1>1, <1>2, <1>3, <1>4, <1>5, <1>6, OutsideKeeps DEF Frame, Listing

LEMMA BoxedKeeps ==
  ASSUME IInv, NEW j \in Threads, Boxed(j)
  PROVE  IInv'
<1>1. Types /\ job[j].pc = "boxed"  BY DEF IInv, Boxed, At
<1>2. UNCHANGED <<watch, hits, work>>  BY DEF Boxed, Files
<1>3. OnlyWatch(j) /\ watch'[j] = watch[j]  BY <1>1, <1>2, SameWatchIs
<1>4. OnlyJob(j) /\ job'[j].pc \in {"verify", "publish", "drop"} /\ job'[j].dir = job[j].dir
  BY <1>1, GoesIs, FallenIs DEF Boxed
<1>5. OnlyChild(j)  BY <1>1, ReapedIs DEF Boxed
<1>6. SameWork(j)  BY <1>1, <1>2, <1>4 DEF SameWork, Owning
<1>7. QED  BY <1>1, <1>2, <1>3, <1>4, <1>5, <1>6, OutsideKeeps DEF Frame, Listing

LEMMA VerifyKeeps ==
  ASSUME IInv, NEW j \in Threads, Verify(j)
  PROVE  IInv'
<1>1. Types /\ job[j].pc = "verify"  BY DEF IInv, Verify, At
<1>2. UNCHANGED <<watch, hits, work>>  BY DEF Verify
<1>3. OnlyWatch(j) /\ watch'[j] = watch[j]  BY <1>1, <1>2, SameWatchIs
<1>4. OnlyJob(j) /\ job'[j].pc \in {"vread", "publish"} /\ job'[j].dir = job[j].dir
  <2>1. CASE Goes(j, "vread")  BY <1>1, <2>1, GoesIs
  <2>2. CASE job' = [job EXCEPT ![j].pc = "publish", ![j].verified = FALSE]
    BY <1>1, <2>2 DEF Types, OnlyJob, Fields
  <2>3. QED  BY <2>1, <2>2 DEF Verify
<1>5. OnlyChild(j)
  BY <1>1, SameChildIs, ChildIs, StartedIs DEF Verify
<1>6. SameWork(j)  BY <1>1, <1>2, <1>4 DEF SameWork, Owning
<1>7. QED  BY <1>1, <1>2, <1>3, <1>4, <1>5, <1>6, OutsideKeeps DEF Frame, Listing

LEMMA VerifiedKeeps ==
  ASSUME IInv, NEW j \in Threads, Verified(j)
  PROVE  IInv'
<1>1. Types /\ job[j].pc = "vwait"  BY DEF IInv, Verified, At
<1>2. UNCHANGED <<watch, hits, work>>  BY DEF Verified, Files
<1>3. OnlyWatch(j) /\ watch'[j] = watch[j]  BY <1>1, <1>2, SameWatchIs
<1>4. OnlyJob(j) /\ job'[j].pc \in {"publish", "drop"} /\ job'[j].dir = job[j].dir
  <2>1. CASE Goes(j, "publish")  BY <1>1, <2>1, GoesIs
  <2>2. CASE job' = [job EXCEPT ![j].pc = "publish", ![j].verified = FALSE,
                                ![j].failed = FALSE]
    BY <1>1, <2>2 DEF Types, OnlyJob, Fields
  <2>3. CASE Fallen(j)  BY <1>1, <2>3, FallenIs
  <2>4. QED  BY <2>1, <2>2, <2>3 DEF Verified
<1>5. OnlyChild(j)  BY <1>1, ReapedIs DEF Verified
<1>6. SameWork(j)  BY <1>1, <1>2, <1>4 DEF SameWork, Owning
<1>7. QED  BY <1>1, <1>2, <1>3, <1>4, <1>5, <1>6, OutsideKeeps DEF Frame, Listing

LEMMA PublishKeeps ==
  ASSUME IInv, NEW j \in Threads, Publish(j)
  PROVE  IInv'
<1>1. Types /\ job[j].pc = "publish"  BY DEF IInv, Publish, At
<1>2. UNCHANGED <<child, watch, hits, work>>  BY DEF Publish
<1>3. OnlyChild(j) /\ OnlyWatch(j) /\ watch'[j] = watch[j]
  BY <1>1, <1>2, SameChildIs, SameWatchIs
<1>4. OnlyJob(j) /\ job'[j].pc = "drop" /\ job'[j].dir = job[j].dir
  BY <1>1, GoesIs, FallenIs DEF Publish
<1>5. SameWork(j)  BY <1>1, <1>2, <1>4 DEF SameWork, Owning
<1>6. QED  BY <1>1, <1>2, <1>3, <1>4, <1>5, OutsideKeeps DEF Frame, Listing

\* A drop takes what is under the job's name, which is the job's alone.
LEMMA DropTakesItsOwn ==
  ASSUME IInv, NEW j \in Threads, job[j].pc = "drop", OnlyJob(j), job'[j].pc = "ended",
         work' = work \ Under(job[j].dir)
  PROVE  EachOwnsItsWork' /\ LeftoversStay'
<1>1. \A d \in Under(job[j].dir) : d.owner = j
  <2>1. OwnersOf(j) = {j}  BY DEF IInv, EachOwnsItsWork, Owning
  <2>2. QED  BY <2>1 DEF OwnersOf
<1>2. ASSUME NEW k \in Threads, job'[k].pc \in Owning
      PROVE  OwnersOf(k)' = {k}
  <2>1. k # j  BY <1>2 DEF Owning
  <2>2. job'[k] = job[k]  BY <2>1 DEF OnlyJob
  <2>3. OwnersOf(k) = {k}  BY <1>2, <2>2 DEF IInv, EachOwnsItsWork
  <2>4. \A d \in Under(job[k].dir) : d.owner = k  BY <2>3 DEF OwnersOf
  <2>5. Under(job[k].dir)' = Under(job[k].dir)
    <3>1. \A d \in Under(job[k].dir) : d \notin Under(job[j].dir)  BY <1>1, <2>1, <2>4
    <3>2. QED  BY <2>2, <3>1 DEF Under
  <2>6. QED  BY <2>3, <2>5 DEF OwnersOf
<1>3. Old' = Old
  <2>1. \A d \in Old : d \notin Under(job[j].dir)  BY <1>1, JobsAssumption DEF Old
  <2>2. QED  BY <2>1 DEF Old
<1>4. QED  BY <1>2, <1>3 DEF EachOwnsItsWork, IInv, LeftoversStay

LEMMA DropKeeps ==
  ASSUME IInv, NEW j \in Threads, Drop(j)
  PROVE  IInv'
<1>1. Types /\ job[j].pc = "drop"  BY DEF IInv, Drop, At
<1>2. UNCHANGED <<child, watch, hits>>  BY DEF Drop, Files
<1>3. OnlyChild(j) /\ OnlyWatch(j) /\ watch'[j] = watch[j]
  BY <1>1, <1>2, SameChildIs, SameWatchIs
<1>4. OnlyJob(j) /\ job'[j].pc = "ended" /\ job'[j].dir = job[j].dir
  BY <1>1, GoesIs DEF Drop
<1>5. CASE work' = work
  <2>1. SameWork(j)  BY <1>4, <1>5 DEF SameWork, Owning
  <2>2. QED  BY <1>1, <1>2, <1>3, <1>4, <2>1, OutsideKeeps DEF Frame, Listing
<1>6. CASE work' = work \ Under(job[j].dir)
  <2>1. Types' /\ WatchedLives' /\ KillsItsOwn'
    BY <1>1, <1>2, <1>3, <1>4, OutsideIs DEF Frame, Listing
  <2>2. QED  BY <1>1, <1>4, <1>6, <2>1, DropTakesItsOwn DEF IInv
<1>7. QED  BY <1>5, <1>6 DEF Drop

LEMMA FileJobKeeps ==
  ASSUME IInv, NEW j \in Threads, FileJob(j)
  PROVE  IInv'
  BY BeginFileKeeps, NewWorkKeeps, RunBoxedKeeps, BoxedKeeps, VerifyKeeps, VerifiedKeeps,
     PublishKeeps, DropKeeps DEF FileJob

-----------------------------------------------------------------------------
(* The meta line of a row.                                                 *)

\* A step of the thread alone, outside the listing.
LEMMA QuietKeeps ==
  ASSUME IInv, NEW j \in Threads, UNCHANGED <<child, watch, hits, work>>, OnlyJob(j),
         job[j].pc \notin Listing, job'[j].pc \notin Listing \cup Owning,
         job'[j].dir = job[j].dir
  PROVE  IInv'
<1>1. Types  BY DEF IInv
<1>2. Frame(j) /\ watch'[j] = watch[j]  BY <1>1, SameChildIs, SameWatchIs DEF Frame
<1>3. SameWork(j)  BY DEF SameWork
<1>4. QED  BY <1>2, <1>3, OutsideKeeps

LEMMA BeginMetaKeeps ==
  ASSUME IInv, NEW j \in Threads, BeginMeta(j)
  PROVE  IInv'
<1>1. Types /\ job[j].pc = "asked"  BY DEF IInv, BeginMeta, At
<1>2. PICK pc \in {"list", "media", "stat"} : Goes(j, pc)  BY DEF BeginMeta, AfterList
<1>3. UNCHANGED <<child, watch, hits, work>>  BY DEF BeginMeta, Metas
<1>4. OnlyJob(j) /\ job'[j].pc = pc /\ job'[j].dir = job[j].dir  BY <1>1, <1>2, GoesIs
<1>5. QED  BY <1>1, <1>2, <1>3, <1>4, QuietKeeps DEF Listing, Owning

\* The listing, its thread and its watchdog start together.
LEMMA StartListKeeps ==
  ASSUME IInv, NEW j \in Threads, StartList(j)
  PROVE  IInv'
<1>1. Types /\ job[j].pc = "list"  BY DEF IInv, StartList, At
<1>2. UNCHANGED <<hits, work>>  BY DEF StartList, Metas
<1>3. CASE /\ Goes(j, "read")
           /\ child' = [child EXCEPT ![j] = Started]
           /\ watch' = [watch EXCEPT ![j] = "sleeps"]
  <2>1. OnlyJob(j) /\ job'[j].pc = "read" /\ job'[j].dir = job[j].dir
    BY <1>1, <1>3, GoesIs
  <2>2. OnlyChild(j) /\ child'[j].st = "runs"  BY <1>1, <1>3, ChildIs, StartedIs
  <2>3. OnlyWatch(j)  BY <1>1, <1>3, WatchIs
  <2>4. SameWork(j)  BY <1>2, <2>1 DEF SameWork, Owning
  <2>5. Types'  BY <2>1, <2>2, <2>3 DEF Types, OnlyJob, OnlyChild, OnlyWatch
  <2>6. WatchedLives'
    BY <2>1, <2>2, <2>3 DEF IInv, WatchedLives, Listing, OnlyJob, OnlyChild, OnlyWatch
  <2>7. KillsItsOwn'  BY <1>2 DEF IInv, KillsItsOwn
  <2>8. QED  BY <2>1, <2>4, <2>5, <2>6, <2>7, SameWorkKeeps DEF IInv
<1>4. CASE /\ job' = [job EXCEPT ![j].pc = AfterList(j), ![j].listed = Cleared]
           /\ UNCHANGED <<child, watch>>
  <2>1. AfterList(j) \in {"media", "stat"}  BY DEF AfterList
  <2>2. OnlyJob(j) /\ job'[j].pc = AfterList(j) /\ job'[j].dir = job[j].dir
    BY <1>1, <1>4 DEF Types, OnlyJob, Fields
  <2>3. QED  BY <1>1, <1>2, <1>4, <2>1, <2>2, QuietKeeps DEF Listing, Owning
<1>5. QED  BY <1>3, <1>4 DEF StartList

LEMMA ReadLineKeeps ==
  ASSUME IInv, NEW j \in Threads, ReadLine(j)
  PROVE  IInv'
<1>1. Types /\ job[j].pc \in {"read", "vread"}  BY DEF IInv, ReadLine
<1>2. UNCHANGED <<child, watch, hits, work>>  BY DEF ReadLine, Metas
<1>3. /\ OnlyJob(j) /\ job'[j].dir = job[j].dir
      /\ job'[j].pc \in IF job[j].pc = "read" THEN {"read", "stop"} ELSE {"vread", "vwait"}
  <2> DEFINE after == IF job[j].pc = "read" THEN "stop" ELSE "vwait"
  <2>1. CASE job' = [job EXCEPT ![j].pc = after, ![j].failed = TRUE]
    BY <1>1, <2>1 DEF Types, OnlyJob, Fields
  <2>2. CASE job' = [job EXCEPT ![j].got = @ + 1]
    BY <1>1, <2>2 DEF Types, OnlyJob, Fields
  <2>3. CASE Goes(j, after)  BY <1>1, <2>3, GoesIs
  <2>4. QED  BY <2>1, <2>2, <2>3 DEF ReadLine
<1>4. Frame(j) /\ watch'[j] = watch[j] /\ child'[j] = child[j]
  BY <1>1, <1>2, <1>3, SameChildIs, SameWatchIs DEF Frame
<1>5. SameWork(j)  BY <1>1, <1>2, <1>3 DEF SameWork, Owning
<1>6. job'[j].pc \in Listing <=> job[j].pc \in Listing  BY <1>1, <1>3 DEF Listing
<1>7. "reaped" \notin hits'  BY <1>2 DEF IInv, KillsItsOwn
<1>8. QED  BY <1>4, <1>5, <1>6, <1>7, LiveKeeps

\* A signal sent while the tool is not reaped.
LEMMA KillIs ==
  ASSUME IInv, NEW j \in Threads, Kill(j), child[j].st # "reaped"
  PROVE  OnlyChild(j) /\ child'[j].st # "reaped" /\ "reaped" \notin hits'
<1>1. Types /\ child[j] \in Children  BY DEF IInv, Types
<1>2. Killed(child[j]) \in Children /\ Killed(child[j]).st # "reaped"  BY <1>1, KilledIs
<1>3. child' = [child EXCEPT ![j] = Killed(child[j])]  BY DEF Kill
<1>4. OnlyChild(j) /\ child'[j].st # "reaped"  BY <1>1, <1>2, <1>3, ChildIs
<1>5. "reaped" \notin hits'  BY DEF Kill, IInv, KillsItsOwn
<1>6. QED  BY <1>4, <1>5

LEMMA StopListKeeps ==
  ASSUME IInv, NEW j \in Threads, StopList(j)
  PROVE  IInv'
<1>1. Types /\ job[j].pc = "stop"  BY DEF IInv, StopList, At
<1>2. UNCHANGED <<watch, work>>  BY DEF StopList, Metas
<1>3. OnlyWatch(j) /\ watch'[j] = watch[j]  BY <1>1, <1>2, SameWatchIs
<1>4. OnlyJob(j) /\ job'[j].pc = "wait" /\ job'[j].dir = job[j].dir
  BY <1>1 DEF StopList, Types, OnlyJob, Fields
<1>5. SameWork(j)  BY <1>2, <1>4 DEF SameWork, Owning
<1>6. child[j].st # "reaped"  BY <1>1 DEF IInv, WatchedLives, Listing
<1>7. OnlyChild(j) /\ child'[j].st # "reaped" /\ "reaped" \notin hits'
  <2>1. CASE Kill(j)  BY <1>6, <2>1, KillIs
  <2>2. CASE UNCHANGED <<child, hits>>
    BY <1>1, <1>6, <2>2, SameChildIs DEF IInv, KillsItsOwn
  <2>3. QED  BY <2>1, <2>2 DEF StopList
<1>8. QED  BY <1>1, <1>3, <1>4, <1>5, <1>7, LiveKeeps DEF Frame, Listing

\* The child is reaped only once the watchdog has ended.
LEMMA WaitListKeeps ==
  ASSUME IInv, NEW j \in Threads, WaitList(j)
  PROVE  IInv'
<1>1. Types /\ job[j].pc = "wait" /\ watch[j] = "ended"
  BY DEF IInv, WaitList, At, StoodDown
<1>2. UNCHANGED <<watch, hits, work>>  BY DEF WaitList, Metas
<1>3. OnlyWatch(j) /\ watch'[j] = "ended"  BY <1>1, <1>2, SameWatchIs
<1>4. OnlyChild(j)  BY <1>1, ReapedIs DEF WaitList
<1>5. AfterList(j) \in {"media", "stat"}  BY DEF AfterList
<1>6. OnlyJob(j) /\ job'[j].pc = AfterList(j) /\ job'[j].dir = job[j].dir
  BY <1>1 DEF WaitList, Types, OnlyJob, Fields
<1>7. SameWork(j)  BY <1>2, <1>5, <1>6 DEF SameWork, Owning
<1>8. Types'  BY <1>3, <1>4, <1>6 DEF Types, OnlyJob, OnlyChild, OnlyWatch
<1>9. WatchedLives'
  BY <1>3, <1>4, <1>5, <1>6 DEF IInv, WatchedLives, Listing, OnlyJob, OnlyChild, OnlyWatch
<1>10. KillsItsOwn'  BY <1>2 DEF IInv, KillsItsOwn
<1>11. QED  BY <1>6, <1>7, <1>8, <1>9, <1>10, SameWorkKeeps DEF IInv

LEMMA WatchListKeeps ==
  ASSUME IInv, NEW j \in Threads, WatchList(j)
  PROVE  IInv'
<1>1. Types  BY DEF IInv
<1>2. job' = job /\ work' = work  BY DEF WatchList, Metas
<1>3. OnlyJob(j) /\ job'[j] = job[j] /\ SameWork(j)
  BY <1>1, <1>2, SameJobIs DEF SameWork
<1>4. watch[j] \in {"sleeps", "aims"}  BY DEF WatchList
<1>5. child[j].st # "reaped"  BY <1>4 DEF IInv, WatchedLives
<1>6. OnlyWatch(j)  BY <1>1, WatchIs DEF WatchList
<1>7. OnlyChild(j) /\ child'[j].st # "reaped" /\ "reaped" \notin hits'
  <2>1. CASE Kill(j)  BY <1>5, <2>1, KillIs
  <2>2. CASE UNCHANGED <<child, hits>>
    BY <1>1, <1>5, <2>2, SameChildIs DEF IInv, KillsItsOwn
  <2>3. QED  BY <2>1, <2>2 DEF WatchList
<1>8. QED  BY <1>3, <1>4, <1>6, <1>7, LiveKeeps DEF Frame

LEMMA StartProbeKeeps ==
  ASSUME IInv, NEW j \in Threads, StartProbe(j)
  PROVE  IInv'
<1>1. Types /\ job[j].pc = "media"  BY DEF IInv, StartProbe, At
<1>2. UNCHANGED <<hits, work>>  BY DEF StartProbe, Metas
<1>3. OnlyJob(j) /\ job'[j].pc \in {"drain", "stat"} /\ job'[j].dir = job[j].dir
  BY <1>1, GoesIs DEF StartProbe
<1>4. OnlyChild(j)  BY <1>1, SameChildIs, ChildIs, StartedIs DEF StartProbe
<1>5. OnlyWatch(j) /\ watch'[j] \in {watch[j], "waits"}
  BY <1>1, SameWatchIs, WatchIs DEF StartProbe
<1>6. SameWork(j)  BY <1>2, <1>3 DEF SameWork, Owning
<1>7. QED  BY <1>1, <1>2, <1>3, <1>4, <1>5, <1>6, OutsideKeeps DEF Frame, Listing

LEMMA DrainKeeps ==
  ASSUME IInv, NEW j \in Threads, Drain(j)
  PROVE  IInv'
<1>1. Types /\ job[j].pc = "drain"  BY DEF IInv, Drain, At
<1>2. OnlyJob(j) /\ job'[j].pc = "reap" /\ job'[j].dir = job[j].dir
  BY <1>1, GoesIs DEF Drain
<1>3. UNCHANGED <<child, watch, hits, work>>  BY DEF Drain, Metas
<1>4. QED  BY <1>1, <1>2, <1>3, QuietKeeps DEF Listing, Owning

\* The probe's watchdog looks at the child under the lock of the reap.
LEMMA WatchProbeKeeps ==
  ASSUME IInv, NEW j \in Threads, WatchProbe(j)
  PROVE  IInv'
<1>1. Types /\ child[j] \in Children  BY DEF IInv, Types
<1>2. job' = job /\ work' = work  BY DEF WatchProbe, Metas
<1>3. OnlyJob(j) /\ job'[j] = job[j] /\ SameWork(j)
  BY <1>1, <1>2, SameJobIs DEF SameWork
<1>4. OnlyWatch(j) /\ watch'[j] = "ended"  BY <1>1, WatchIs DEF WatchProbe
<1>5. /\ OnlyChild(j) /\ "reaped" \notin hits'
      /\ child[j].st # "reaped" => child'[j].st # "reaped"
  <2>1. CASE UNCHANGED <<child, hits>>
    BY <1>1, <2>1, SameChildIs DEF IInv, KillsItsOwn
  <2>2. CASE /\ child[j].st # "reaped"
             /\ child' = [child EXCEPT ![j] = WithinReach(@)]
             /\ hits' = hits \cup {child[j].st}
    <3>1. child' = [child EXCEPT ![j] = Killed(child[j])]  BY <2>2 DEF WithinReach
    <3>2. Killed(child[j]) \in Children /\ Killed(child[j]).st # "reaped"
      BY <1>1, <2>2, KilledIs
    <3>3. OnlyChild(j) /\ child'[j].st # "reaped"  BY <1>1, <3>1, <3>2, ChildIs
    <3>4. "reaped" \notin hits'  BY <2>2 DEF IInv, KillsItsOwn
    <3>5. QED  BY <3>3, <3>4
  <2>3. QED  BY <2>1, <2>2 DEF WatchProbe
<1>6. QED  BY <1>3, <1>4, <1>5, LiveKeeps DEF Frame

LEMMA ReapKeeps ==
  ASSUME IInv, NEW j \in Threads, Reap(j)
  PROVE  IInv'
<1>1. Types /\ job[j].pc = "reap"  BY DEF IInv, Reap, At
<1>2. UNCHANGED <<watch, hits, work>>  BY DEF Reap, Metas
<1>3. OnlyWatch(j) /\ watch'[j] = watch[j]  BY <1>1, <1>2, SameWatchIs
<1>4. OnlyJob(j) /\ job'[j].pc = "probed" /\ job'[j].dir = job[j].dir
  BY <1>1, GoesIs DEF Reap
<1>5. OnlyChild(j)  BY <1>1, ReapedIs DEF Reap
<1>6. SameWork(j)  BY <1>2, <1>4 DEF SameWork, Owning
<1>7. QED  BY <1>1, <1>2, <1>3, <1>4, <1>5, <1>6, OutsideKeeps DEF Frame, Listing

\* What is left of the row: the verdict on the probe, and the text.
LEMMA TextKeeps ==
  ASSUME IInv, NEW j \in Threads, Probed(j) \/ StatText(j) \/ OpenText(j) \/ CountText(j)
  PROVE  IInv'
<1>1. Types /\ job[j].pc \in {"probed", "stat", "open", "count"}
  BY DEF IInv, Probed, StatText, OpenText, CountText, At
<1>2. UNCHANGED <<child, watch, hits, work>>
  BY DEF Probed, StatText, OpenText, CountText, Metas
<1>3. /\ OnlyJob(j) /\ job'[j].dir = job[j].dir
      /\ job'[j].pc \in {"stat", "open", "count", "ended"}
  <2>1. CASE Probed(j)
    <3>1. PICK wide : job' = [job EXCEPT ![j].pc = "stat", ![j].wide = wide]
      BY <2>1 DEF Probed
    <3>2. QED  BY <1>1, <3>1 DEF Types, OnlyJob, Fields
  <2>2. CASE StatText(j) \/ OpenText(j) \/ CountText(j)
    <3>1. \/ \E pc \in {"count", "ended"} : Goes(j, pc)
          \/ job' = [job EXCEPT ![j].pc = "ended", ![j].cut = TRUE]
          \/ job' = [job EXCEPT ![j].pc = "open", ![j].got = 0]
          \/ job[j].pc = "count" /\ \E n : job' = [job EXCEPT ![j].got = n]
      <4>1. CASE StatText(j)  BY <4>1 DEF StatText, Tells
      <4>2. CASE OpenText(j)  BY <4>2 DEF OpenText, Tells
      <4>3. CASE CountText(j)  BY <4>3 DEF CountText, Tells, At
      <4>4. QED  BY <2>2, <4>1, <4>2, <4>3
    <3>2. CASE \E pc \in {"count", "ended"} : Goes(j, pc)  BY <1>1, <3>2, GoesIs
    <3>3. CASE job' = [job EXCEPT ![j].pc = "open", ![j].got = 0]
      BY <1>1, <3>3 DEF Types, OnlyJob, Fields
    <3>4. CASE job[j].pc = "count" /\ \E n : job' = [job EXCEPT ![j].got = n]
      BY <1>1, <3>4 DEF Types, OnlyJob, Fields
    <3>5. CASE job' = [job EXCEPT ![j].pc = "ended", ![j].cut = TRUE]
      BY <1>1, <3>5 DEF Types, OnlyJob, Fields
    <3>6. QED  BY <3>1, <3>2, <3>3, <3>4, <3>5
  <2>3. QED  BY <2>1, <2>2
<1>4. QED  BY <1>1, <1>2, <1>3, QuietKeeps DEF Listing, Owning

LEMMA MetaJobKeeps ==
  ASSUME IInv, NEW j \in Threads, MetaJob(j) \/ Watchdog(j)
  PROVE  IInv'
  BY BeginMetaKeeps, StartListKeeps, ReadLineKeeps, StopListKeeps, WaitListKeeps,
     StartProbeKeeps, DrainKeeps, ReapKeeps, TextKeeps, WatchListKeeps, WatchProbeKeeps
  DEF MetaJob, Watchdog

-----------------------------------------------------------------------------
(* The tools, time and other programs.                                     *)

LEMMA ToolKeeps ==
  ASSUME IInv, NEW j \in Threads, Tool(j)
  PROVE  IInv'
<1>1. Types /\ child[j] \in Children  BY DEF IInv, Types
<1>2. UNCHANGED <<watch, hits, work>>  BY DEF Tool, Metas
<1>3. OnlyWatch(j) /\ watch'[j] = watch[j]  BY <1>1, <1>2, SameWatchIs
<1>4. OnlyChild(j) /\ (child[j].st # "reaped" => child'[j].st # "reaped")
  <2>1. CASE ToolWrites(j)
    <3> DEFINE c == [child[j] EXCEPT !.sent = @ + 1]
    <3>1. c \in Children /\ c.st = child[j].st  BY <1>1 DEF Children
    <3>2. child' = [child EXCEPT ![j] = c]  BY <2>1 DEF ToolWrites
    <3> HIDE DEF c
    <3>3. QED  BY <1>1, <3>1, <3>2, ChildIs
  <2>2. CASE ToolCloses(j)
    BY <1>1, <2>2 DEF ToolCloses, Types, OnlyChild, Children
  <2>3. CASE ToolExits(j)
    <3>1. PICK ok \in BOOLEAN :
            child' = [child EXCEPT ![j].st = "exited", ![j].open = FALSE, ![j].ok = ok]
      BY <2>3 DEF ToolExits
    <3>2. QED  BY <1>1, <3>1 DEF Types, OnlyChild, Children
  <2>4. QED  BY <2>1, <2>2, <2>3 DEF Tool
<1>5. OnlyJob(j) /\ job'[j].pc = job[j].pc /\ job'[j].dir = job[j].dir
  <2>1. CASE job' = job  BY <1>1, <2>1, SameJobIs
  <2>2. CASE \E left : job' = [job EXCEPT ![j].staged = left]
    BY <1>1, <2>2 DEF Types, OnlyJob, Fields
  <2>3. QED  BY <2>1, <2>2 DEF Tool, ToolWrites, ToolCloses, ToolExits
<1>6. SameWork(j)  BY <1>2, <1>5 DEF SameWork
<1>7. "reaped" \notin hits'  BY <1>2 DEF IInv, KillsItsOwn
<1>8. QED  BY <1>3, <1>4, <1>5, <1>6, <1>7, LiveKeeps DEF Frame

LEMMA OthersKeep ==
  ASSUME IInv, Meddle \/ UNCHANGED vars \/ \E j \in Threads : Elapse(j)
  PROVE  IInv'
<1>1. UNCHANGED <<job, child, watch, hits, work>>
  BY DEF Meddle, vars, Elapse, Metas
<1>2. QED
  BY <1>1 DEF IInv, Types, WatchedLives, KillsItsOwn, EachOwnsItsWork, OwnersOf, Under,
              LeftoversStay, Old

LEMMA StepKeeps == IInv /\ [Next]_vars => IInv'
<1> SUFFICES ASSUME IInv, [Next]_vars PROVE IInv'  OBVIOUS
<1>1. CASE \E j \in Threads : Thread(j) \/ Watchdog(j) \/ Tool(j)
  BY <1>1, FileJobKeeps, MetaJobKeeps, ToolKeeps DEF Thread
<1>2. CASE Meddle \/ UNCHANGED vars \/ \E j \in Threads : Elapse(j)
  BY <1>2, OthersKeep
<1>3. QED  BY <1>1, <1>2 DEF Next

\* Every reachable state satisfies the inductive invariant.
THEOREM Invariance == Spec => []IInv
  BY InitHolds, StepKeeps, PTL DEF Spec

\* Whatever a tool does and whenever a limit passes, neither watchdog nor a
\* reader that gave up signals a process that was already reaped: the list's
\* thread joins its watchdog before it waits, and the probe's looks under the
\* lock of the reap (metareq.rs, mediaprobe.rs).
THEOREM SignalsMeetTheirOwn == Spec => []KillsItsOwn
<1>1. IInv => KillsItsOwn  BY DEF IInv
<1>2. QED  BY <1>1, Invariance, PTL

\* However many jobs run, whatever killed runs left beside the destination and
\* whichever removals fail, what stands under a job's name while it works is
\* its own, and no drop takes another's (archivework.rs Work::new, Drop).
THEOREM WorkIsTheirs == Spec => []WorkIsPrivate
<1>1. IInv => WorkIsPrivate
  BY DEF IInv, EachOwnsItsWork, OwnersOf, Owning, LeftoversStay, Old, WorkIsPrivate
<1>2. QED  BY <1>1, Invariance, PTL

-----------------------------------------------------------------------------
(* What the count of a listing says of its lines, by the least number at   *)
(* which it would not.                                                     *)

LEMMA Least ==
  ASSUME NEW T \in SUBSET Nat, T # {}
  PROVE  \E n \in T : \A m \in T : n <= m
<1> DEFINE R == OpToRel(<, Nat)
<1>1. IsWellFoundedOn(R, Nat)  BY NatLessThanWellFounded
<1>2. \A x, y \in Nat : x < y => <<x, y>> \in R  BY DEF OpToRel
<1> HIDE DEF R
<1>3. PICK x \in T : \A y \in T : ~(<<y, x>> \in R)  BY <1>1, WFMin
<1>4. \A y \in T : x <= y
  <2> TAKE y \in T
  <2>1. ~(<<y, x>> \in R)  BY <1>3
  <2>2. y \in Nat /\ x \in Nat  OBVIOUS
  <2>3. ~(y < x)  BY <1>2, <2>1, <2>2, Zenon
  <2>4. QED  BY <2>2, <2>3
<1>5. QED  BY <1>4

Counting(f, N, lines) ==
  f = [n \in 0..N |-> IF n = 0 THEN NoContents ELSE Counted(f[n - 1], lines[n])]

LEMMA CountingExists ==
  ASSUME NEW lines, NEW N \in Nat
  PROVE  \E f : Counting(f, N, lines)
<1> DEFINE T == {n \in Nat : ~\E f : Counting(f, n, lines)}
<1> SUFFICES ASSUME T # {} PROVE FALSE  OBVIOUS
<1>1. PICK m \in T : \A n \in T : m <= n
  <2>1. T \in SUBSET Nat  OBVIOUS
  <2> HIDE DEF T
  <2>2. QED  BY <2>1, Least
<1>2. m \in Nat /\ ~\E f : Counting(f, m, lines)  OBVIOUS
<1>3. CASE m = 0
  <2> DEFINE f == [n \in 0..m |-> NoContents]
  <2>1. Counting(f, m, lines)  BY <1>3 DEF Counting
  <2>2. QED  BY <1>2, <2>1
<1>4. CASE m # 0
  <2>1. m - 1 \in Nat /\ m - 1 \notin T  BY <1>1, <1>2, <1>4
  <2>2. PICK g : Counting(g, m - 1, lines)  BY <2>1
  <2>3. /\ g[0] = NoContents
        /\ \A n \in 1..(m - 1) : g[n] = Counted(g[n - 1], lines[n])
    BY <1>2, <1>4, <2>2 DEF Counting
  <2> DEFINE f == [n \in 0..m |-> IF n = m THEN Counted(g[m - 1], lines[m]) ELSE g[n]]
             h == [n \in 0..m |-> IF n = 0 THEN NoContents ELSE Counted(f[n - 1], lines[n])]
  <2>4. \A n \in 0..m : f[n] = h[n]
    <3> TAKE n \in 0..m
    <3>1. CASE n = 0  BY <1>2, <1>4, <2>3, <3>1
    <3>2. CASE n \in 1..(m - 1)
      <4>1. f[n] = g[n] /\ f[n - 1] = g[n - 1]  BY <1>2, <3>2
      <4>2. h[n] = Counted(f[n - 1], lines[n])  BY <3>2
      <4>3. QED  BY <2>3, <3>2, <4>1, <4>2
    <3>3. CASE n = m
      <4>1. f[n] = Counted(g[m - 1], lines[m]) /\ f[m - 1] = g[m - 1]
        BY <1>2, <1>4, <3>3
      <4>2. h[n] = Counted(f[m - 1], lines[m])  BY <1>4, <3>3
      <4>3. QED  BY <4>1, <4>2
    <3>4. QED  BY <1>2, <3>1, <3>2, <3>3
  <2>5. f = h
    <3>1. f = [n \in 0..m |-> f[n]] /\ h = [n \in 0..m |-> h[n]]  OBVIOUS
    <3> HIDE DEF f, h
    <3>2. QED  BY <2>4, <3>1
  <2>6. Counting(f, m, lines)  BY <2>5 DEF Counting
  <2>7. QED  BY <1>2, <2>6
<1>5. QED  BY <1>3, <1>4

\* A line counted is an entry, and a member that produces an entry is seen.
LEMMA CountedIs ==
  ASSUME NEW c, NEW line,
         {"entries", "produced", "unpacked", "names"} \subseteq DOMAIN c,
         c.entries \in Nat, c.produced \in Nat
  PROVE  LET d == Counted(c, line) IN
         /\ DOMAIN d = DOMAIN c
         /\ d.entries = c.entries + 1 /\ d.produced \in Nat
         /\ d.produced = 0 => c.produced = 0 /\ ~ProducesEntry(line)
  BY DEF Counted

CountsWell(c, lines, n) ==
  /\ {"entries", "produced", "unpacked", "names"} \subseteq DOMAIN c
  /\ c.entries = n /\ c.produced \in Nat
  /\ c.produced = 0 => \A i \in 1..n : ~ProducesEntry(lines[i])

LEMMA CountingCounts ==
  ASSUME NEW lines, NEW N \in Nat, NEW f, Counting(f, N, lines)
  PROVE  CountsWell(f[N], lines, N)
<1> DEFINE T == {n \in 0..N : ~CountsWell(f[n], lines, n)}
<1> SUFFICES ASSUME T # {} PROVE FALSE  OBVIOUS
<1>1. PICK m \in T : \A n \in T : m <= n
  <2>1. T \in SUBSET Nat  OBVIOUS
  <2> HIDE DEF T
  <2>2. QED  BY <2>1, Least
<1>2. m \in 0..N /\ ~CountsWell(f[m], lines, m)  OBVIOUS
<1>3. CASE m = 0
  <2>1. f[m] = NoContents  BY <1>2, <1>3 DEF Counting
  <2>2. QED  BY <1>2, <1>3, <2>1 DEF CountsWell, NoContents
<1>4. CASE m # 0
  <2>1. m - 1 \in 0..N /\ m - 1 \notin T  BY <1>1, <1>2, <1>4
  <2>2. CountsWell(f[m - 1], lines, m - 1)  BY <2>1
  <2>3. f[m] = Counted(f[m - 1], lines[m])  BY <1>2, <1>4 DEF Counting
  <2> DEFINE c == f[m - 1]
             d == Counted(c, lines[m])
  <2>4. /\ {"entries", "produced", "unpacked", "names"} \subseteq DOMAIN c
        /\ c.entries = m - 1 /\ c.entries \in Nat /\ c.produced \in Nat
    BY <1>2, <1>4, <2>2 DEF CountsWell
  <2>5. /\ DOMAIN d = DOMAIN c
        /\ d.entries = c.entries + 1 /\ d.produced \in Nat
        /\ d.produced = 0 => c.produced = 0 /\ ~ProducesEntry(lines[m])
    <3> HIDE DEF c
    <3>1. QED  BY <2>4, CountedIs
  <2>6. d.produced = 0 => \A i \in 1..m : ~ProducesEntry(lines[i])
    <3> SUFFICES ASSUME d.produced = 0, NEW i \in 1..m PROVE ~ProducesEntry(lines[i])
      OBVIOUS
    <3>1. CASE i = m  BY <2>5, <3>1
    <3>2. CASE i # m
      <4>1. i \in 1..(m - 1)  BY <1>2, <3>2
      <4>2. c.produced = 0  BY <2>5
      <4>3. QED  BY <2>2, <4>1, <4>2 DEF CountsWell
    <3>3. QED  BY <3>1, <3>2
  <2>7. CountsWell(d, lines, m)
    <3> HIDE DEF d, c
    <3>1. d.entries = m  BY <1>2, <2>4, <2>5
    <3>2. QED  BY <2>4, <2>5, <2>6, <3>1 DEF CountsWell
  <2>8. QED  BY <1>2, <2>3, <2>7
<1>5. QED  BY <1>3, <1>4

LEMMA ContentsCount ==
  ASSUME NEW lines, Len(lines) \in Nat
  PROVE  CountsWell(Contents(lines), lines, Len(lines))
<1> DEFINE N == Len(lines)
           f == CHOOSE f : f = [n \in 0..N |->
                                  IF n = 0 THEN NoContents ELSE Counted(f[n - 1], lines[n])]
<1>1. \E g : g = [n \in 0..N |->
                    IF n = 0 THEN NoContents ELSE Counted(g[n - 1], lines[n])]
  BY CountingExists DEF Counting
<1>2. Counting(f, N, lines)  BY <1>1 DEF Counting
<1>3. Contents(lines) = f[N]  BY DEF Contents
<1> HIDE DEF f
<1>4. QED  BY <1>2, <1>3, CountingCounts

\* An archive of which nothing was counted has no lines.
LEMMA NothingListed ==
  ASSUME NEW lines \in Seq(Line), Contents(lines) = NoContents
  PROVE  lines = <<>>
<1>1. Len(lines) \in Nat  OBVIOUS
<1>2. Contents(lines).entries = Len(lines)  BY <1>1, ContentsCount DEF CountsWell
<1>3. Len(lines) = 0  BY <1>2 DEF NoContents
<1>4. QED  BY <1>3

\* A count that found nothing to produce saw no line that produces.
LEMMA NothingProduced ==
  ASSUME NEW lines \in Seq(Line), ~(Contents(lines).produced > 0)
  PROVE  \A i \in DOMAIN lines : ~ProducesEntry(lines[i])
<1>1. Len(lines) \in Nat /\ DOMAIN lines = 1..Len(lines)  OBVIOUS
<1>2. CountsWell(Contents(lines), lines, Len(lines))  BY <1>1, ContentsCount
<1>3. Contents(lines).produced = 0  BY <1>2 DEF CountsWell
<1>4. QED  BY <1>1, <1>2, <1>3 DEF CountsWell

-----------------------------------------------------------------------------
(* What a thread's answer rests on, one part after the other. Each part    *)
(* speaks of one thread alone.                                             *)

FilePcs == {"work", "tool", "boxed", "verify", "vread", "vwait", "publish", "drop"}
MetaPcs == {"list", "read", "stop", "wait", "media", "drain", "reap", "probed", "stat",
            "open", "count"}
Unlisted == {"asked", "list", "read", "stop", "wait"}

Sequenced ==
  /\ index \in Seq(Line) /\ text \in Seq(BOOLEAN)
  /\ DOMAIN said = Threads

\* A thread does the work of its request, within its text, and answers as it
\* ends.
KindFits(j) ==
  /\ job[j].pc \in FilePcs \cup MetaPcs \cup {"asked", "ended"}
  /\ job[j].pc \in FilePcs => Kind(j) \in FileKinds
  /\ job[j].pc \in MetaPcs => Kind(j) = "meta"
  /\ said[j] # <<>> => job[j].pc = "ended" /\ Kind(j) \in FileKinds \cup {"meta"}
  /\ job[j].pc \in {"open", "count"} => job[j].got \in 0..Len(text)

\* A listing that ended well was written whole, and one that was not cut short
\* was read as far as it was written.
ReadsAll(j) ==
  /\ Lists(j) /\ child[j].ok => child[j].st # "runs" /\ child[j].sent = Len(index)
  /\ job[j].pc \in {"stop", "wait", "vwait"} /\ ~job[j].failed =>
       job[j].got = child[j].sent /\ ~child[j].open

NoneProduced == \A i \in DOMAIN index : ~ProducesEntry(index[i])

\* A result fit to be published.
Worthy(j) ==
  /\ Kind(j) # "extract" => job[j].staged # {}
  /\ Kind(j) = "extract" /\ job[j].verified /\ job[j].staged = {} => NoneProduced

\* A job that has not failed is published between its last two steps.
Publishes(j) ==
  /\ job[j].pc \in {"asked", "work", "tool", "boxed", "verify", "publish"} => ~job[j].failed
  /\ j \in published => job[j].pc \in {"drop", "ended"} /\ Kind(j) \in FileKinds
  /\ job[j].pc = "drop" => (j \in published <=> ~job[j].failed)
  /\ job[j].pc \in {"verify", "vread", "vwait"} =>
       Kind(j) = "extract" /\ job[j].staged = {}
  /\ job[j].pc = "publish" \/ j \in published => Worthy(j)

\* What a meta line says of its archive.
ListsTrue(j) ==
  Kind(j) = "meta" =>
    /\ job[j].listed \in {NoContents, Cleared, Contents(index)}
    /\ Wants(j, "list") /\ job[j].pc \notin Unlisted /\ job[j].listed = NoContents =>
         index = <<>>

LinesOf == Cardinality({i \in DOMAIN text : text[i]})
           + IF text # <<>> /\ ~Last(text) THEN 1 ELSE 0

\* A count is a floor, and of every line when nothing says or makes it less.
CountsTrue(j, counted) ==
  /\ counted.lines <= LinesOf
  /\ Wants(j, "text") /\ ~counted.failed /\ ~counted.partial /\ ~job[j].wide /\ ~job[j].cut =>
       counted.lines = LinesOf

SaysTrue(j) ==
  said[j] # <<>> =>
    LET line == said[j][1] IN
    IF Kind(j) \in FileKinds
      THEN /\ line.ok <=> j \in published
           /\ line.ok /\ line.verified => job[j].verified
      ELSE line.listed = job[j].listed /\ CountsTrue(j, line.text)

Honest(j) ==
  KindFits(j) /\ ReadsAll(j) /\ Publishes(j) /\ ListsTrue(j) /\ SaysTrue(j)

AInv == Sequenced /\ \A j \in Threads : Honest(j)

-----------------------------------------------------------------------------
(* A step of one thread leaves every other as honest as it was.            *)

Alone(j) ==
  /\ index' = index /\ text' = text /\ DOMAIN said' = Threads
  /\ \A k \in Threads \ {j} :
       /\ job'[k] = job[k] /\ child'[k] = child[k] /\ said'[k] = said[k]
       /\ k \in published' <=> k \in published

LEMMA AloneKeeps ==
  ASSUME AInv, NEW j \in Threads, Alone(j), Honest(j)'
  PROVE  AInv'
<1>1. Sequenced'  BY DEF AInv, Sequenced, Alone
<1>2. ASSUME NEW k \in Threads \ {j}
      PROVE  Honest(k)'
  <2>1. /\ index' = index /\ text' = text
        /\ job'[k] = job[k] /\ child'[k] = child[k] /\ said'[k] = said[k]
        /\ k \in published' <=> k \in published
    BY <1>2 DEF Alone
  <2>2. Honest(k)  BY DEF AInv
  <2>3. KindFits(k)'  BY <2>1, <2>2 DEF Honest, KindFits, Kind
  <2>4. ReadsAll(k)'  BY <2>1, <2>2 DEF Honest, ReadsAll, Lists
  <2>5. Publishes(k)'  BY <2>1, <2>2 DEF Honest, Publishes, Worthy, NoneProduced, Kind
  <2>6. ListsTrue(k)'  BY <2>1, <2>2 DEF Honest, ListsTrue, Kind, Wants
  <2>7. LinesOf' = LinesOf  BY <2>1 DEF LinesOf
  <2>8. SaysTrue(k)'
    <3> HIDE DEF LinesOf
    <3>1. QED  BY <2>1, <2>2, <2>7 DEF Honest, SaysTrue, CountsTrue, Kind, Wants
  <2>9. QED  BY <2>3, <2>4, <2>5, <2>6, <2>8 DEF Honest
<1>3. QED  BY <1>1, <1>2 DEF AInv

\* The fields of a job no step of this kind writes.
Same(j) ==
  /\ job'[j].req = job[j].req /\ job'[j].staged = job[j].staged
  /\ job'[j].verified = job[j].verified /\ job'[j].wide = job[j].wide

LEMMA GoesOn ==
  ASSUME Types, NEW j \in Threads, NEW pc, Goes(j, pc)
  PROVE  /\ Same(j) /\ job'[j].pc = pc
         /\ UNCHANGED <<job[j].got, job[j].failed, job[j].listed>>
         /\ \A k \in Threads \ {j} : job'[k] = job[k]
  BY DEF Types, Goes, Same, Fields

LEMMA AnswersIs ==
  ASSUME DOMAIN said = Threads, NEW j \in Threads, NEW line, Answers(j, line)
  PROVE  /\ DOMAIN said' = Threads /\ said'[j] # <<>> /\ said'[j][1] = line
         /\ \A k \in Threads \ {j} : said'[k] = said[k]
  BY DEF Answers

\* A job refused or out of names says so.
LEMMA FailsHonest ==
  ASSUME IInv, AInv, NEW j \in Threads, Fails(j), Kind(j) \in FileKinds,
         job[j].pc \in {"asked", "work"},
         UNCHANGED <<child, published, index, text>>
  PROVE  AInv'
<1>1. /\ Same(j) /\ job'[j].pc = "ended"
      /\ UNCHANGED <<job[j].got, job[j].failed, job[j].listed>>
      /\ \A k \in Threads \ {j} : job'[k] = job[k]
  BY GoesOn DEF IInv, Fails
<1>2. /\ DOMAIN said' = Threads /\ said'[j] # <<>>
      /\ said'[j][1] = [ok |-> FALSE, verified |-> TRUE]
      /\ \A k \in Threads \ {j} : said'[k] = said[k]
  BY AnswersIs DEF AInv, Sequenced, Fails
<1>3. Alone(j)  BY <1>1, <1>2 DEF Alone
<1>4. Honest(j)  BY DEF AInv
<1>5. KindFits(j)'  BY <1>1 DEF KindFits, FilePcs, MetaPcs, Same, Kind
<1>6. ReadsAll(j)'  BY <1>1 DEF ReadsAll, Lists
<1>7. j \notin published'  BY <1>4 DEF Honest, Publishes
<1>8. Publishes(j)'  BY <1>1, <1>7 DEF Publishes
<1>9. Kind(j)' \in FileKinds /\ Kind(j)' # "meta"  BY <1>1 DEF Same, Kind, FileKinds
<1>10. ListsTrue(j)'  BY <1>9 DEF ListsTrue
<1>11. SaysTrue(j)'  BY <1>2, <1>7, <1>9 DEF SaysTrue
<1>12. QED  BY <1>3, <1>5, <1>6, <1>8, <1>10, <1>11, AloneKeeps DEF Honest

\* A step that neither answers nor publishes.
Silent(j) ==
  /\ UNCHANGED <<said, published, index, text>>
  /\ \A k \in Threads \ {j} : job'[k] = job[k] /\ child'[k] = child[k]

LEMMA SilentIs ==
  ASSUME AInv, NEW j \in Threads, Silent(j), Same(j)
  PROVE  /\ Alone(j) /\ Honest(j) /\ Kind(j)' = Kind(j) /\ NoneProduced' = NoneProduced
         /\ LinesOf' = LinesOf
  BY DEF AInv, Sequenced, Silent, Alone, Same, Kind, NoneProduced, LinesOf

\* A step of a job's own thread between its start and its publication.
LEMMA FileHonest ==
  ASSUME AInv, NEW j \in Threads, Silent(j), Same(j), said[j] = <<>>,
         Kind(j) \in FileKinds, job'[j].pc \in FilePcs, j \notin published,
         ReadsAll(j)', Publishes(j)'
  PROVE  AInv'
<1>1. Alone(j) /\ Honest(j) /\ Kind(j)' = Kind(j)  BY SilentIs
<1>2. said'[j] = <<>>  BY DEF Silent
<1>3. KindFits(j)'  BY <1>1, <1>2 DEF KindFits, FilePcs, MetaPcs
<1>4. ListsTrue(j)'  BY <1>1 DEF ListsTrue, FileKinds
<1>5. SaysTrue(j)'  BY <1>2 DEF SaysTrue
<1>6. QED  BY <1>1, <1>3, <1>4, <1>5, AloneKeeps DEF Honest

LEMMA HonestIs ==
  ASSUME AInv, NEW j \in Threads
  PROVE  KindFits(j) /\ ReadsAll(j) /\ Publishes(j) /\ ListsTrue(j) /\ SaysTrue(j)
  BY DEF AInv, Honest

LEMMA BeginFileHonest ==
  ASSUME IInv, AInv, NEW j \in Threads, BeginFile(j)
  PROVE  AInv'
<1>1. job[j].pc = "asked" /\ Kind(j) \in FileKinds  BY DEF BeginFile, At
<1>2. UNCHANGED <<child, published, index, text>>  BY DEF BeginFile, Refuse, Files, fixed
<1>3. CASE Fails(j)  BY <1>1, <1>2, <1>3, FailsHonest
<1>4. CASE Goes(j, "work") /\ UNCHANGED said
  <2>1. /\ Same(j) /\ job'[j].pc = "work"
        /\ UNCHANGED <<job[j].got, job[j].failed, job[j].listed>>
        /\ \A k \in Threads \ {j} : job'[k] = job[k]
    BY <1>4, GoesOn DEF IInv
  <2>2. Silent(j)  BY <1>2, <1>4, <2>1 DEF Silent
  <2>3. KindFits(j) /\ Publishes(j)  BY HonestIs
  <2>4. ReadsAll(j)'  BY <2>1 DEF ReadsAll, Lists
  <2>5. Publishes(j)'  BY <1>1, <1>2, <2>1, <2>3 DEF Publishes
  <2>6. said[j] = <<>> /\ j \notin published
    BY <1>1, <2>3 DEF KindFits, Publishes
  <2>7. QED  BY <1>1, <2>1, <2>2, <2>4, <2>5, <2>6, FileHonest DEF FilePcs
<1>5. QED  BY <1>3, <1>4 DEF BeginFile, Refuse

\* The steps of a job that has nothing staged and lists nothing.
LEMMA NewWorkHonest ==
  ASSUME IInv, AInv, NEW j \in Threads, NewWork(j)
  PROVE  AInv'
<1>1. job[j].pc = "work"  BY DEF NewWork, At
<1>2. UNCHANGED <<child, published, index, text>>  BY DEF NewWork, Files, fixed
<1>3. KindFits(j) /\ Publishes(j)  BY HonestIs
<1>4. Kind(j) \in FileKinds /\ said[j] = <<>> /\ j \notin published
  BY <1>1, <1>3 DEF KindFits, FilePcs, Publishes
<1>5. CASE Fails(j)  BY <1>1, <1>2, <1>4, <1>5, FailsHonest
<1>6. CASE UNCHANGED said /\ \/ \E name : job' = [job EXCEPT ![j].pc = "tool", ![j].dir = name]
                             \/ job' = [job EXCEPT ![j].tries = @ + 1]
  <2>1. /\ Same(j) /\ job'[j].pc \in {"work", "tool"} /\ job'[j].failed = job[j].failed
        /\ \A k \in Threads \ {j} : job'[k] = job[k]
    BY <1>1, <1>6 DEF IInv, Types, Same, Fields
  <2>2. Silent(j)  BY <1>2, <1>6, <2>1 DEF Silent
  <2>3. ReadsAll(j)'  BY <2>1 DEF ReadsAll, Lists
  <2>4. Publishes(j)'  BY <1>1, <1>2, <1>3, <1>4, <2>1 DEF Publishes
  <2>5. QED  BY <1>4, <2>1, <2>2, <2>3, <2>4, FileHonest DEF FilePcs
<1>7. QED  BY <1>5, <1>6 DEF NewWork

LEMMA FallenOn ==
  ASSUME Types, NEW j \in Threads, Fallen(j)
  PROVE  /\ Same(j) /\ job'[j].pc = "drop" /\ job'[j].failed = TRUE
         /\ \A k \in Threads \ {j} : job'[k] = job[k]
  BY DEF Types, Fallen, Same, Fields

\* A job that falls goes to its drop unpublished.
LEMMA FallenHonest ==
  ASSUME IInv, AInv, NEW j \in Threads, Fallen(j), job[j].pc \in FilePcs \ {"drop"},
         UNCHANGED <<said, published, index, text>>,
         \A k \in Threads \ {j} : child'[k] = child[k]
  PROVE  AInv'
<1>1. /\ Same(j) /\ job'[j].pc = "drop" /\ job'[j].failed = TRUE
      /\ \A k \in Threads \ {j} : job'[k] = job[k]
  BY FallenOn DEF IInv
<1>2. Silent(j)  BY <1>1 DEF Silent
<1>3. KindFits(j) /\ Publishes(j)  BY HonestIs
<1>4. Kind(j) \in FileKinds /\ said[j] = <<>> /\ j \notin published
  BY <1>3 DEF KindFits, FilePcs, Publishes
<1>5. ReadsAll(j)'  BY <1>1 DEF ReadsAll, Lists
<1>6. Publishes(j)'  BY <1>1, <1>4 DEF Publishes
<1>7. QED  BY <1>1, <1>2, <1>4, <1>5, <1>6, FileHonest DEF FilePcs

LEMMA RunBoxedHonest ==
  ASSUME IInv, AInv, NEW j \in Threads, RunBoxed(j)
  PROVE  AInv'
<1>1. job[j].pc = "tool"  BY DEF RunBoxed, At
<1>2. UNCHANGED <<said, published, index, text>>  BY DEF RunBoxed, Files, fixed
<1>3. \A k \in Threads \ {j} : child'[k] = child[k]  BY DEF RunBoxed, IInv, Types
<1>4. CASE Fallen(j)  BY <1>1, <1>2, <1>3, <1>4, FallenHonest DEF FilePcs
<1>5. CASE Goes(j, "boxed")
  <2>1. /\ Same(j) /\ job'[j].pc = "boxed" /\ job'[j].failed = job[j].failed
        /\ \A k \in Threads \ {j} : job'[k] = job[k]
    BY <1>5, GoesOn DEF IInv
  <2>2. Silent(j)  BY <1>2, <1>3, <2>1 DEF Silent
  <2>3. KindFits(j) /\ Publishes(j)  BY HonestIs
  <2>4. Kind(j) \in FileKinds /\ said[j] = <<>> /\ j \notin published
    BY <1>1, <2>3 DEF KindFits, FilePcs, Publishes
  <2>5. ReadsAll(j)'  BY <2>1 DEF ReadsAll, Lists
  <2>6. Publishes(j)'  BY <1>1, <1>2, <2>1, <2>3, <2>4 DEF Publishes
  <2>7. QED  BY <2>1, <2>2, <2>4, <2>5, <2>6, FileHonest DEF FilePcs
<1>6. QED  BY <1>4, <1>5 DEF RunBoxed

\* A tool that ended well and left something, or an extract to be verified.
LEMMA BoxedHonest ==
  ASSUME IInv, AInv, NEW j \in Threads, Boxed(j)
  PROVE  AInv'
<1>1. job[j].pc = "boxed"  BY DEF Boxed, At
<1>2. UNCHANGED <<said, published, index, text>>  BY DEF Boxed, Files, fixed
<1>3. \A k \in Threads \ {j} : child'[k] = child[k]  BY DEF Boxed, IInv, Types
<1>4. KindFits(j) /\ Publishes(j)  BY HonestIs
<1>5. Kind(j) \in FileKinds /\ said[j] = <<>> /\ j \notin published
  BY <1>1, <1>4 DEF KindFits, FilePcs, Publishes
<1>6. CASE Fallen(j)  BY <1>1, <1>2, <1>3, <1>6, FallenHonest DEF FilePcs
<1>7. CASE ~Fallen(j)
  <2>1. ~(Kind(j) # "extract" /\ job[j].staged = {})  BY <1>7 DEF Boxed
  <2>2. PICK pc \in {"verify", "publish"} :
          Goes(j, pc) /\ (pc = "verify" <=> Kind(j) = "extract" /\ job[j].staged = {})
    BY <1>7 DEF Boxed, NothingArrived
  <2>3. /\ Same(j) /\ job'[j].pc = pc /\ job'[j].failed = job[j].failed
        /\ \A k \in Threads \ {j} : job'[k] = job[k]
    BY <2>2, GoesOn DEF IInv
  <2>4. Silent(j)  BY <1>2, <1>3, <2>3 DEF Silent
  <2>5. Kind(j)' = Kind(j)  BY <2>3, <2>4, SilentIs
  <2>6. ReadsAll(j)'  BY <2>2, <2>3 DEF ReadsAll, Lists
  <2>7. ~job'[j].failed  BY <1>1, <1>4, <2>3 DEF Publishes
  <2>8. Publishes(j)'
    <3>1. CASE pc = "verify"
      BY <1>2, <1>5, <2>2, <2>3, <2>5, <2>7, <3>1 DEF Publishes, Same
    <3>2. CASE pc = "publish"
      BY <1>2, <1>5, <2>1, <2>2, <2>3, <2>5, <2>7, <3>2 DEF Publishes, Same, Worthy
    <3>3. QED  BY <3>1, <3>2
  <2>9. QED  BY <1>5, <2>2, <2>3, <2>4, <2>6, <2>8, FileHonest DEF FilePcs
<1>8. QED  BY <1>6, <1>7

\* The index is listed, or the extract goes on unverified.
LEMMA VerifyHonest ==
  ASSUME IInv, AInv, NEW j \in Threads, Verify(j)
  PROVE  AInv'
<1>1. job[j].pc = "verify"  BY DEF Verify, At
<1>2. UNCHANGED <<said, published, index, text>>  BY DEF Verify, fixed
<1>3. \A k \in Threads \ {j} : child'[k] = child[k]  BY DEF Verify, IInv, Types
<1>4. KindFits(j) /\ Publishes(j)  BY HonestIs
<1>5. /\ Kind(j) = "extract" /\ job[j].staged = {} /\ ~job[j].failed
      /\ Kind(j) \in FileKinds /\ said[j] = <<>> /\ j \notin published
  BY <1>1, <1>4 DEF KindFits, FilePcs, Publishes
<1>6. CASE Goes(j, "vread") /\ child' = [child EXCEPT ![j] = Started]
  <2>1. /\ Same(j) /\ job'[j].pc = "vread"
        /\ \A k \in Threads \ {j} : job'[k] = job[k]
    BY <1>6, GoesOn DEF IInv
  <2>2. Silent(j)  BY <1>2, <1>3, <2>1 DEF Silent
  <2>3. Kind(j)' = Kind(j)  BY <2>1, <2>2, SilentIs
  <2>4. child'[j].ok = FALSE  BY <1>6 DEF IInv, Types, Started
  <2>5. ReadsAll(j)'  BY <2>1, <2>4 DEF ReadsAll
  <2>6. Publishes(j)'  BY <1>2, <1>5, <2>1, <2>3 DEF Publishes, Same
  <2>7. QED  BY <1>5, <2>1, <2>2, <2>5, <2>6, FileHonest DEF FilePcs
<1>7. CASE job' = [job EXCEPT ![j].pc = "publish", ![j].verified = FALSE]
  <2>1. /\ job'[j].req = job[j].req /\ job'[j].pc = "publish" /\ ~job'[j].verified
        /\ UNCHANGED <<job[j].failed, job[j].staged>>
        /\ \A k \in Threads \ {j} : job'[k] = job[k]
    BY <1>7 DEF IInv, Types, Fields
  <2>2. Alone(j)  BY <1>2, <1>3, <2>1 DEF Alone, AInv, Sequenced
  <2>3. Kind(j)' = Kind(j)  BY <2>1 DEF Kind
  <2>4. KindFits(j)'  BY <1>2, <1>5, <2>1, <2>3 DEF KindFits, FilePcs, MetaPcs
  <2>5. ReadsAll(j)'  BY <2>1 DEF ReadsAll, Lists
  <2>6. Publishes(j)'  BY <1>2, <1>5, <2>1, <2>3 DEF Publishes, Worthy
  <2>7. ListsTrue(j)'  BY <1>5, <2>3 DEF ListsTrue
  <2>8. SaysTrue(j)'  BY <1>2, <1>5 DEF SaysTrue
  <2>9. QED  BY <2>2, <2>4, <2>5, <2>6, <2>7, <2>8, AloneKeeps DEF Honest
<1>8. QED  BY <1>6, <1>7 DEF Verify

\* What a reader that stops was given.
LEMMA ReadIs ==
  ASSUME IInv, AInv, NEW j \in Threads, ReadLine(j)
  PROVE  /\ Same(j) /\ Silent(j) /\ child'[j] = child[j]
         /\ job'[j].listed = job[j].listed
         /\ job'[j].pc \in {job[j].pc, IF job[j].pc = "read" THEN "stop" ELSE "vwait"}
         /\ ReadsAll(j)'
<1>1. job[j].pc \in {"read", "vread"} /\ Types  BY DEF ReadLine, IInv
<1>2. UNCHANGED <<child, said, published, index, text>>  BY DEF ReadLine, Metas, fixed
<1>3. ReadsAll(j)  BY HonestIs
<1> DEFINE after == IF job[j].pc = "read" THEN "stop" ELSE "vwait"
<1>4. CASE job' = [job EXCEPT ![j].pc = after, ![j].failed = TRUE]
  <2>1. /\ Same(j) /\ job'[j].pc = after /\ job'[j].failed = TRUE
        /\ job'[j].listed = job[j].listed /\ \A k \in Threads \ {j} : job'[k] = job[k]
    BY <1>1, <1>4 DEF Types, Same, Fields
  <2>2. ReadsAll(j)'  BY <1>1, <1>2, <1>3, <2>1 DEF ReadsAll, Lists
  <2>3. QED  BY <1>1, <1>2, <2>1, <2>2 DEF Silent
<1>5. CASE job' = [job EXCEPT ![j].got = @ + 1]
  <2>1. /\ Same(j) /\ job'[j].pc = job[j].pc
        /\ job'[j].listed = job[j].listed /\ \A k \in Threads \ {j} : job'[k] = job[k]
    BY <1>1, <1>5 DEF Types, Same, Fields
  <2>2. ReadsAll(j)'  BY <1>1, <1>2, <1>3, <2>1 DEF ReadsAll, Lists
  <2>3. QED  BY <1>1, <1>2, <2>1, <2>2 DEF Silent
<1>6. CASE Goes(j, after) /\ job[j].got = child[j].sent /\ ~child[j].open
  <2>1. /\ Same(j) /\ job'[j].pc = after /\ job'[j].got = job[j].got
        /\ job'[j].listed = job[j].listed /\ \A k \in Threads \ {j} : job'[k] = job[k]
    BY <1>1, <1>6, GoesOn
  <2>2. ReadsAll(j)'  BY <1>1, <1>2, <1>3, <1>6, <2>1 DEF ReadsAll, Lists
  <2>3. QED  BY <1>1, <1>2, <2>1, <2>2 DEF Silent
<1>7. QED  BY <1>4, <1>5, <1>6 DEF ReadLine

\* A count of the whole index.
LEMMA CountIsWhole ==
  ASSUME AInv, NEW j \in Threads, job[j].pc \in {"wait", "vwait"}, ~job[j].failed, child[j].ok
  PROVE  SubSeq(index, 1, job[j].got) = index
<1>1. job[j].got = Len(index)  BY HonestIs DEF ReadsAll, Lists
<1>2. index \in Seq(Line)  BY DEF AInv, Sequenced
<1>3. QED  BY <1>1, <1>2

\* An empty tree passes only when the whole index produces nothing.
LEMMA VerifiedHonest ==
  ASSUME IInv, AInv, NEW j \in Threads, Verified(j)
  PROVE  AInv'
<1>1. job[j].pc = "vwait"  BY DEF Verified, At
<1>2. UNCHANGED <<said, published, index, text>>  BY DEF Verified, Files, fixed
<1>3. \A k \in Threads \ {j} : child'[k] = child[k]  BY DEF Verified, IInv, Types
<1>4. KindFits(j) /\ Publishes(j)  BY HonestIs
<1>5. /\ Kind(j) = "extract" /\ job[j].staged = {}
      /\ Kind(j) \in FileKinds /\ said[j] = <<>> /\ j \notin published
  BY <1>1, <1>4 DEF KindFits, FilePcs, Publishes
<1> DEFINE c == Contents(SubSeq(index, 1, job[j].got))
<1>6. CASE job' = [job EXCEPT ![j].pc = "publish", ![j].verified = FALSE, ![j].failed = FALSE]
  <2>1. /\ job'[j].req = job[j].req /\ job'[j].pc = "publish" /\ ~job'[j].verified
        /\ ~job'[j].failed /\ job'[j].staged = job[j].staged
        /\ \A k \in Threads \ {j} : job'[k] = job[k]
    BY <1>6 DEF IInv, Types, Fields
  <2>2. Alone(j)  BY <1>2, <1>3, <2>1 DEF Alone, AInv, Sequenced
  <2>3. Kind(j)' = Kind(j)  BY <2>1 DEF Kind
  <2>4. KindFits(j)'  BY <1>2, <1>5, <2>1, <2>3 DEF KindFits, FilePcs, MetaPcs
  <2>5. ReadsAll(j)'  BY <2>1 DEF ReadsAll, Lists
  <2>6. Publishes(j)'  BY <1>2, <1>5, <2>1, <2>3 DEF Publishes, Worthy
  <2>7. ListsTrue(j)'  BY <1>5, <2>3 DEF ListsTrue
  <2>8. SaysTrue(j)'  BY <1>2, <1>5 DEF SaysTrue
  <2>9. QED  BY <2>2, <2>4, <2>5, <2>6, <2>7, <2>8, AloneKeeps DEF Honest
<1>7. CASE Fallen(j)  BY <1>1, <1>2, <1>3, <1>7, FallenHonest DEF FilePcs
<1>8. CASE ~job[j].failed /\ child[j].ok /\ ~(c.produced > 0) /\ Goes(j, "publish")
  <2>1. /\ Same(j) /\ job'[j].pc = "publish" /\ ~job'[j].failed
        /\ \A k \in Threads \ {j} : job'[k] = job[k]
    BY <1>8, GoesOn DEF IInv
  <2>2. Silent(j)  BY <1>2, <1>3, <2>1 DEF Silent
  <2>3. Kind(j)' = Kind(j) /\ NoneProduced' = NoneProduced  BY <2>1, <2>2, SilentIs
  <2>4. NoneProduced
    <3>1. c = Contents(index)  BY <1>1, <1>8, CountIsWhole
    <3>2. index \in Seq(Line)  BY DEF AInv, Sequenced
    <3>3. QED  BY <1>8, <3>1, <3>2, NothingProduced DEF NoneProduced
  <2>5. ReadsAll(j)'  BY <2>1 DEF ReadsAll, Lists
  <2>6. Publishes(j)'  BY <1>2, <1>5, <2>1, <2>3, <2>4 DEF Publishes, Worthy, Same
  <2>7. QED  BY <1>5, <2>1, <2>2, <2>5, <2>6, FileHonest DEF FilePcs
<1>9. QED  BY <1>6, <1>7, <1>8 DEF Verified

\* The rename and the word of it are one step.
LEMMA PublishHonest ==
  ASSUME IInv, AInv, NEW j \in Threads, Publish(j)
  PROVE  AInv'
<1>1. job[j].pc = "publish"  BY DEF Publish, At
<1>2. UNCHANGED <<child, said, index, text>>  BY DEF Publish, fixed
<1>3. KindFits(j) /\ Publishes(j)  BY HonestIs
<1>4. /\ Worthy(j) /\ ~job[j].failed /\ Kind(j) \in FileKinds /\ said[j] = <<>>
  BY <1>1, <1>3 DEF KindFits, FilePcs, Publishes
<1>5. CASE Fallen(j) /\ UNCHANGED published
  BY <1>1, <1>2, <1>5, FallenHonest DEF FilePcs
<1>6. CASE published' = published \cup {j} /\ Goes(j, "drop")
  <2>1. /\ Same(j) /\ job'[j].pc = "drop" /\ job'[j].failed = job[j].failed
        /\ \A k \in Threads \ {j} : job'[k] = job[k]
    BY <1>6, GoesOn DEF IInv
  <2>2. Alone(j)  BY <1>2, <1>6, <2>1 DEF Alone, AInv, Sequenced
  <2>3. Kind(j)' = Kind(j)  BY <2>1 DEF Kind, Same
  <2>4. KindFits(j)'  BY <1>2, <1>4, <2>1, <2>3 DEF KindFits, FilePcs, MetaPcs
  <2>5. ReadsAll(j)'  BY <2>1 DEF ReadsAll, Lists
  <2>6. Worthy(j)'  BY <1>2, <1>4, <2>1, <2>3 DEF Worthy, Same, NoneProduced
  <2>7. Publishes(j)'  BY <1>4, <1>6, <2>1, <2>3, <2>6 DEF Publishes
  <2>8. ListsTrue(j)'  BY <1>4, <2>3 DEF ListsTrue, FileKinds
  <2>9. SaysTrue(j)'  BY <1>2, <1>4 DEF SaysTrue
  <2>10. QED  BY <2>2, <2>4, <2>5, <2>7, <2>8, <2>9, AloneKeeps DEF Honest
<1>7. QED  BY <1>5, <1>6 DEF Publish

LEMMA DropHonest ==
  ASSUME IInv, AInv, NEW j \in Threads, Drop(j)
  PROVE  AInv'
<1>1. job[j].pc = "drop" /\ Goes(j, "ended")  BY DEF Drop, At
<1>2. UNCHANGED <<child, published, index, text>>  BY DEF Drop, Files, fixed
<1>3. KindFits(j) /\ Publishes(j)  BY HonestIs
<1>4. Kind(j) \in FileKinds /\ (j \in published <=> ~job[j].failed)
  BY <1>1, <1>3 DEF KindFits, FilePcs, Publishes
<1>5. /\ Same(j) /\ job'[j].pc = "ended" /\ job'[j].failed = job[j].failed
      /\ \A k \in Threads \ {j} : job'[k] = job[k]
  BY <1>1, GoesOn DEF IInv
<1>6. /\ DOMAIN said' = Threads /\ said'[j] # <<>>
      /\ said'[j][1] = [ok |-> ~job[j].failed,
                        verified |-> job[j].failed \/ job[j].verified]
      /\ \A k \in Threads \ {j} : said'[k] = said[k]
  BY AnswersIs DEF AInv, Sequenced, Drop
<1>7. Alone(j)  BY <1>2, <1>5, <1>6 DEF Alone, AInv, Sequenced
<1>8. Kind(j)' = Kind(j)  BY <1>5 DEF Kind, Same
<1>9. KindFits(j)'  BY <1>4, <1>5, <1>8 DEF KindFits, FilePcs, MetaPcs
<1>10. ReadsAll(j)'  BY <1>5 DEF ReadsAll, Lists
<1>11. j \in published => Worthy(j)'
  BY <1>2, <1>3, <1>5, <1>8 DEF Publishes, Worthy, Same, NoneProduced
<1>12. Publishes(j)'  BY <1>2, <1>4, <1>5, <1>8, <1>11 DEF Publishes
<1>13. ListsTrue(j)'  BY <1>4, <1>8 DEF ListsTrue, FileKinds
<1>14. SaysTrue(j)'
  <2> DEFINE ok == ~job[j].failed
             checked == job[j].failed \/ job[j].verified
  <2>1. (said'[j][1].ok <=> ok) /\ (said'[j][1].verified <=> checked)
    <3>1. said'[j][1] = [ok |-> ok, verified |-> checked]  BY <1>6
    <3> HIDE DEF ok, checked
    <3>2. said'[j][1].ok = ok /\ said'[j][1].verified = checked  BY <3>1
    <3>3. QED  BY <3>2, Zenon
  <2>2. said'[j][1].ok /\ said'[j][1].verified => job[j].verified  BY <2>1
  <2>3. QED  BY <1>2, <1>4, <1>5, <1>8, <2>1, <2>2 DEF SaysTrue, Same
<1>15. QED  BY <1>7, <1>9, <1>10, <1>12, <1>13, <1>14, AloneKeeps DEF Honest

\* A step within the meta line of a row.
LEMMA MetaHonest ==
  ASSUME AInv, NEW j \in Threads, Silent(j), UNCHANGED job[j].req,
         Kind(j) = "meta", said[j] = <<>>, job'[j].pc \in MetaPcs,
         job'[j].pc \in {"open", "count"} => job'[j].got \in 0..Len(text),
         ReadsAll(j)', ListsTrue(j)'
  PROVE  AInv'
<1>1. Alone(j)  BY DEF AInv, Sequenced, Silent, Alone
<1>2. Kind(j)' = "meta" /\ said'[j] = <<>>  BY DEF Kind, Silent
<1>3. KindFits(j)'  BY <1>2 DEF KindFits, FilePcs, MetaPcs, Silent
<1>4. j \notin published'  BY HonestIs DEF Publishes, FileKinds, Silent
<1>5. Publishes(j)'  BY <1>4 DEF Publishes, MetaPcs
<1>6. SaysTrue(j)'  BY <1>2 DEF SaysTrue
<1>7. QED  BY <1>1, <1>3, <1>5, <1>6, AloneKeeps DEF Honest

LEMMA MetaIs ==
  ASSUME AInv, NEW j \in Threads, job[j].pc \in MetaPcs
  PROVE  Kind(j) = "meta" /\ said[j] = <<>> /\ j \notin published
  BY HonestIs DEF KindFits, Publishes, MetaPcs, FileKinds

\* A step that leaves the listing as it is told, or is before it.
LEMMA ListedStays ==
  ASSUME AInv, NEW j \in Threads, UNCHANGED <<job[j].req, job[j].listed, index>>,
         \/ job'[j].pc \in Unlisted
         \/ job[j].pc \notin Unlisted
         \/ ~Wants(j, "list")
  PROVE  ListsTrue(j)'
<1>1. ListsTrue(j)  BY HonestIs
<1>2. Kind(j)' = Kind(j) /\ Wants(j, "list")' = Wants(j, "list")  BY DEF Kind, Wants
<1>3. QED  BY <1>1, <1>2 DEF ListsTrue

LEMMA BeginMetaHonest ==
  ASSUME IInv, AInv, NEW j \in Threads, BeginMeta(j)
  PROVE  AInv'
<1>1. job[j].pc = "asked" /\ Kind(j) = "meta"  BY DEF BeginMeta, At
<1>2. UNCHANGED <<child, said, published, index, text>>  BY DEF BeginMeta, Metas, fixed
<1>3. PICK pc \in {"list", "media", "stat"} :
        Goes(j, pc) /\ (pc # "list" => ~Wants(j, "list"))
  BY DEF BeginMeta, AfterList
<1>4. /\ Same(j) /\ job'[j].pc = pc /\ job'[j].listed = job[j].listed
      /\ \A k \in Threads \ {j} : job'[k] = job[k]
  BY <1>3, GoesOn DEF IInv
<1>5. Silent(j)  BY <1>2, <1>4 DEF Silent
<1>6. ListsTrue(j)'
  <2>1. job'[j].pc \in Unlisted \/ ~Wants(j, "list")  BY <1>3, <1>4 DEF Unlisted
  <2>2. QED  BY <1>2, <1>4, <2>1, ListedStays DEF Same
<1>7. ReadsAll(j)'  BY <1>3, <1>4 DEF ReadsAll, Lists
<1>8. said[j] = <<>>  BY <1>1, HonestIs DEF KindFits
<1>9. job'[j].pc \in MetaPcs  BY <1>3, <1>4 DEF MetaPcs
<1>10. QED  BY <1>1, <1>4, <1>5, <1>6, <1>7, <1>8, <1>9, MetaHonest DEF Same

LEMMA StartListHonest ==
  ASSUME IInv, AInv, NEW j \in Threads, StartList(j)
  PROVE  AInv'
<1>1. job[j].pc = "list"  BY DEF StartList, At
<1>2. UNCHANGED <<said, published, index, text>>  BY DEF StartList, Metas, fixed
<1>3. \A k \in Threads \ {j} : child'[k] = child[k]  BY DEF StartList, IInv, Types
<1>4. Kind(j) = "meta" /\ said[j] = <<>>  BY <1>1, MetaIs DEF MetaPcs
<1>5. CASE Goes(j, "read") /\ child' = [child EXCEPT ![j] = Started]
  <2>1. /\ Same(j) /\ job'[j].pc = "read" /\ job'[j].listed = job[j].listed
        /\ \A k \in Threads \ {j} : job'[k] = job[k]
    BY <1>5, GoesOn DEF IInv
  <2>2. Silent(j)  BY <1>2, <1>3, <2>1 DEF Silent
  <2>3. child'[j].ok = FALSE  BY <1>5 DEF IInv, Types, Started
  <2>4. ReadsAll(j)'  BY <2>1, <2>3 DEF ReadsAll
  <2>5. ListsTrue(j)'  BY <1>2, <2>1, ListedStays DEF Same, Unlisted
  <2>6. QED  BY <1>4, <2>1, <2>2, <2>4, <2>5, MetaHonest DEF Same, MetaPcs
<1>6. CASE job' = [job EXCEPT ![j].pc = AfterList(j), ![j].listed = Cleared]
  <2>1. AfterList(j) \in {"media", "stat"}  BY DEF AfterList
  <2>2. /\ Same(j) /\ job'[j].pc = AfterList(j) /\ job'[j].listed = Cleared
        /\ \A k \in Threads \ {j} : job'[k] = job[k]
    BY <1>6 DEF IInv, Types, Same, Fields
  <2>3. Silent(j)  BY <1>2, <1>3, <2>2 DEF Silent
  <2>4. ReadsAll(j)'  BY <2>1, <2>2 DEF ReadsAll, Lists
  <2>5. ListsTrue(j)'
    <3>1. Cleared # NoContents  BY DEF Cleared, NoContents
    <3>2. QED  BY <2>2, <3>1 DEF ListsTrue
  <2>6. QED  BY <1>4, <2>1, <2>2, <2>3, <2>4, <2>5, MetaHonest DEF Same, MetaPcs
<1>7. QED  BY <1>5, <1>6 DEF StartList

LEMMA ReadLineHonest ==
  ASSUME IInv, AInv, NEW j \in Threads, ReadLine(j)
  PROVE  AInv'
<1>1. job[j].pc \in {"read", "vread"}  BY DEF ReadLine
<1>2. /\ Same(j) /\ Silent(j) /\ job'[j].listed = job[j].listed
      /\ job'[j].pc \in {job[j].pc, IF job[j].pc = "read" THEN "stop" ELSE "vwait"}
      /\ ReadsAll(j)'
  BY ReadIs
<1>3. CASE job[j].pc = "read"
  <2>1. Kind(j) = "meta" /\ said[j] = <<>>  BY <1>3, MetaIs DEF MetaPcs
  <2>2. ListsTrue(j)'  BY <1>2, <1>3, ListedStays DEF Same, Unlisted, Silent
  <2>3. QED  BY <1>2, <1>3, <2>1, <2>2, MetaHonest DEF Same, MetaPcs
<1>4. CASE job[j].pc = "vread"
  <2>1. KindFits(j) /\ Publishes(j)  BY HonestIs
  <2>2. /\ Kind(j) = "extract" /\ job[j].staged = {}
        /\ Kind(j) \in FileKinds /\ said[j] = <<>> /\ j \notin published
    BY <1>4, <2>1 DEF KindFits, FilePcs, Publishes
  <2>3. Publishes(j)'  BY <1>2, <1>4, <2>2 DEF Publishes, Same, Kind, Silent
  <2>4. QED  BY <1>2, <1>4, <2>2, <2>3, FileHonest DEF FilePcs
<1>5. QED  BY <1>1, <1>3, <1>4

\* A signal changes neither what was written nor the tool's word.
LEMMA KillTells ==
  ASSUME IInv, AInv, NEW j \in Threads, child' = [child EXCEPT ![j] = Killed(child[j])]
  PROVE  /\ child'[j].ok = child[j].ok /\ child'[j].sent = child[j].sent
         /\ ~child[j].open => ~child'[j].open
         /\ child[j].st # "runs" => child'[j].st # "runs"
         /\ \A k \in Threads \ {j} : child'[k] = child[k]
<1>1. child[j] \in Children  BY DEF IInv, Types
<1>2. child'[j] = Killed(child[j])  BY DEF IInv, Types
<1>3. QED  BY <1>1, <1>2 DEF Killed, Children, IInv, Types

LEMMA StopListHonest ==
  ASSUME IInv, AInv, NEW j \in Threads, StopList(j)
  PROVE  AInv'
<1>1. job[j].pc = "stop"  BY DEF StopList, At
<1>2. UNCHANGED <<said, published, index, text>>  BY DEF StopList, Metas, fixed
<1>3. /\ Same(j) /\ job'[j].pc = "wait" /\ job'[j].listed = job[j].listed
      /\ job'[j].got = job[j].got /\ job'[j].failed = job[j].failed
      /\ \A k \in Threads \ {j} : job'[k] = job[k]
  BY DEF StopList, IInv, Types, Same, Fields
<1>4. /\ child'[j].ok = child[j].ok /\ child'[j].sent = child[j].sent
      /\ ~child[j].open => ~child'[j].open
      /\ child[j].st # "runs" => child'[j].st # "runs"
      /\ \A k \in Threads \ {j} : child'[k] = child[k]
  <2>1. CASE Kill(j)  BY <2>1, KillTells DEF Kill
  <2>2. CASE child' = child  BY <2>2
  <2>3. QED  BY <2>1, <2>2 DEF StopList
<1>5. Silent(j)  BY <1>2, <1>3, <1>4 DEF Silent
<1>6. ReadsAll(j)'  BY <1>1, <1>2, <1>3, <1>4, HonestIs DEF ReadsAll, Lists
<1>7. ListsTrue(j)'  BY <1>1, <1>2, <1>3, ListedStays DEF Same, Unlisted
<1>8. Kind(j) = "meta" /\ said[j] = <<>>  BY <1>1, MetaIs DEF MetaPcs
<1>9. QED  BY <1>3, <1>5, <1>6, <1>7, <1>8, MetaHonest DEF Same, MetaPcs

\* The count is the whole index's, or the verdict takes it back.
LEMMA WaitListHonest ==
  ASSUME IInv, AInv, NEW j \in Threads, WaitList(j)
  PROVE  AInv'
<1>1. job[j].pc = "wait"  BY DEF WaitList, At
<1>2. UNCHANGED <<said, published, index, text>>  BY DEF WaitList, Metas, fixed
<1>3. \A k \in Threads \ {j} : child'[k] = child[k]  BY DEF WaitList, IInv, Types
<1>4. Kind(j) = "meta" /\ said[j] = <<>>  BY <1>1, MetaIs DEF MetaPcs
<1> DEFINE failed == job[j].failed \/ ~child[j].ok
           listed == Judged(Contents(SubSeq(index, 1, job[j].got)), failed)
<1>5. AfterList(j) \in {"media", "stat"}  BY DEF AfterList
<1>6. /\ Same(j) /\ job'[j].pc = AfterList(j) /\ job'[j].listed = listed
      /\ \A k \in Threads \ {j} : job'[k] = job[k]
  <2>1. job' = [job EXCEPT ![j].pc = AfterList(j), ![j].failed = FALSE, ![j].done = FALSE,
                  ![j].listed = listed]
    BY DEF WaitList
  <2> HIDE DEF listed
  <2>2. QED  BY <2>1 DEF IInv, Types, Same, Fields
<1>7. Silent(j)  BY <1>2, <1>3, <1>6 DEF Silent
<1>8. index \in Seq(Line)  BY DEF AInv, Sequenced
<1>9. listed = Cleared \/ listed = Contents(index)
  <2>1. CASE failed  BY <2>1 DEF Judged
  <2>2. CASE ~failed  BY <1>1, <2>2, CountIsWhole DEF Judged
  <2>3. QED  BY <2>1, <2>2
<1>10. listed = NoContents => index = <<>>
  <2>1. Cleared # NoContents  BY DEF Cleared, NoContents
  <2> HIDE DEF listed
  <2>2. QED  BY <1>8, <1>9, <2>1, NothingListed
<1> HIDE DEF listed, failed
<1>11. ListsTrue(j)'  BY <1>2, <1>6, <1>9, <1>10 DEF ListsTrue
<1>12. ReadsAll(j)'  BY <1>5, <1>6 DEF ReadsAll, Lists
<1>13. QED  BY <1>4, <1>5, <1>6, <1>7, <1>11, <1>12, MetaHonest DEF Same, MetaPcs

\* A step past the listing, to another.
LEMMA PastHonest ==
  ASSUME IInv, AInv, NEW j \in Threads, job[j].pc \in MetaPcs \ Unlisted,
         job'[j].pc \in MetaPcs \ Unlisted, UNCHANGED <<job[j].req, job[j].listed>>,
         job'[j].pc \in {"open", "count"} => job'[j].got \in 0..Len(text),
         UNCHANGED <<said, published, index, text>>,
         \A k \in Threads \ {j} : job'[k] = job[k] /\ child'[k] = child[k]
  PROVE  AInv'
<1>1. Kind(j) = "meta" /\ said[j] = <<>>  BY MetaIs
<1>2. Silent(j)  BY DEF Silent
<1>3. ReadsAll(j)'  BY DEF ReadsAll, Lists, Unlisted, MetaPcs
<1>4. ListsTrue(j)'  BY ListedStays
<1>5. QED  BY <1>1, <1>2, <1>3, <1>4, MetaHonest

LEMMA ProbeHonest ==
  ASSUME IInv, AInv, NEW j \in Threads,
         StartProbe(j) \/ Drain(j) \/ Reap(j) \/ Probed(j)
  PROVE  AInv'
<1>1. job[j].pc \in MetaPcs \ Unlisted
  BY DEF StartProbe, Drain, Reap, Probed, At, MetaPcs, Unlisted
<1>2. UNCHANGED <<said, published, index, text>>
  BY DEF StartProbe, Drain, Reap, Probed, Metas, fixed
<1>3. \A k \in Threads \ {j} : child'[k] = child[k]
  BY DEF StartProbe, Drain, Reap, Probed, IInv, Types
<1>4. /\ UNCHANGED <<job[j].req, job[j].listed>> /\ job'[j].pc \in MetaPcs \ Unlisted
      /\ job'[j].pc \notin {"open", "count"}
      /\ \A k \in Threads \ {j} : job'[k] = job[k]
  <2>1. CASE \E pc \in {"drain", "stat", "reap", "probed"} : Goes(j, pc)
    <3>1. PICK pc \in {"drain", "stat", "reap", "probed"} : Goes(j, pc)  BY <2>1
    <3>2. Same(j) /\ job'[j].pc = pc /\ job'[j].listed = job[j].listed
          /\ \A k \in Threads \ {j} : job'[k] = job[k]
      BY <3>1, GoesOn DEF IInv
    <3>3. QED  BY <3>1, <3>2 DEF Same, MetaPcs, Unlisted
  <2>2. CASE \E wide : job' = [job EXCEPT ![j].pc = "stat", ![j].wide = wide]
    BY <2>2 DEF IInv, Types, Fields, MetaPcs, Unlisted
  <2>3. QED  BY <2>1, <2>2 DEF StartProbe, Drain, Reap, Probed
<1>5. QED  BY <1>1, <1>2, <1>3, <1>4, PastHonest

\* The meta line, with a count that is of every line unless it is called
\* failed or partial, the probe saw a picture, or a read failed.
LEMMA AnswerHonest ==
  ASSUME IInv, AInv, NEW j \in Threads, NEW counted, Answers(j, MetaLine(j, counted)),
         job[j].pc \in {"stat", "open", "count"},
         Same(j), job'[j].pc = "ended", job'[j].listed = job[j].listed,
         \A k \in Threads \ {j} : job'[k] = job[k],
         UNCHANGED <<child, published, index, text>>, CountsTrue(j, counted)'
  PROVE  AInv'
<1>1. Kind(j) = "meta" /\ j \notin published  BY MetaIs DEF MetaPcs
<1>3. /\ DOMAIN said' = Threads /\ said'[j] # <<>> /\ said'[j][1] = MetaLine(j, counted)
      /\ \A k \in Threads \ {j} : said'[k] = said[k]
  BY AnswersIs DEF AInv, Sequenced
<1>4. Alone(j)  BY <1>3 DEF Alone
<1>5. Kind(j)' = Kind(j)  BY DEF Same, Kind
<1>6. KindFits(j)'  BY <1>1, <1>5 DEF KindFits, FilePcs, MetaPcs
<1>7. ReadsAll(j)'  BY DEF ReadsAll, Lists
<1>8. Publishes(j)'  BY <1>1 DEF Publishes
<1>9. ListsTrue(j)'  BY ListedStays DEF Same, Unlisted
<1>10. SaysTrue(j)'
  <2>1. said'[j][1].listed = job'[j].listed /\ said'[j][1].text = counted
    BY <1>3 DEF MetaLine
  <2>2. Kind(j)' \notin FileKinds  BY <1>1, <1>5 DEF FileKinds
  <2>3. QED  BY <2>1, <2>2 DEF SaysTrue
<1>11. QED  BY <1>4, <1>6, <1>7, <1>8, <1>9, <1>10, AloneKeeps DEF Honest

LEMMA TellsHonest ==
  ASSUME IInv, AInv, NEW j \in Threads, NEW counted, Tells(j, counted),
         job[j].pc \in {"stat", "open", "count"},
         UNCHANGED <<child, published, index, text>>,
         counted.lines <= LinesOf,
         Wants(j, "text") /\ ~counted.failed /\ ~counted.partial /\ ~job[j].wide =>
           counted.lines = LinesOf
  PROVE  AInv'
<1>1. /\ Same(j) /\ job'[j].pc = "ended" /\ job'[j].listed = job[j].listed
      /\ \A k \in Threads \ {j} : job'[k] = job[k]
  BY GoesOn DEF IInv, Tells
<1>2. LinesOf' = LinesOf  BY DEF LinesOf
<1>3. Wants(j, "text")' <=> Wants(j, "text")  BY <1>1 DEF Same, Wants
<1>4. CountsTrue(j, counted)'
  <2> HIDE DEF LinesOf
  <2>1. QED  BY <1>1, <1>2, <1>3 DEF CountsTrue, Same
<1>5. QED  BY <1>1, <1>4, AnswerHonest DEF Tells

LEMMA NoTextIs ==
  /\ NoText.lines = 0
  /\ [NoText EXCEPT !.failed = TRUE].failed /\ [NoText EXCEPT !.failed = TRUE].lines = 0
  /\ \A n : /\ [NoText EXCEPT !.lines = n, !.partial = TRUE].partial
            /\ [NoText EXCEPT !.lines = n, !.partial = TRUE].lines = n
  /\ \A n : [NoText EXCEPT !.lines = n].lines = n
  BY DEF NoText

\* The newlines of a part are some of all of them; a part that ends in the
\* middle of a line has that line besides, and so has the text, or a newline
\* further on.
LEMMA CountIsFloor ==
  ASSUME text \in Seq(BOOLEAN), NEW n \in 0..Len(text)
  PROVE  /\ NewlinesIn(n) \in Nat /\ LinesOf \in Nat
         /\ NewlinesIn(n) <= LinesOf /\ LinesIn(n) <= LinesOf
         /\ n = Len(text) => LinesIn(n) = LinesOf
<1> DEFINE L == Len(text)
           some == {i \in 1..n : text[i]}
           every == {i \in 1..L : text[i]}
<1>1. L \in Nat /\ n \in Nat /\ n <= L /\ DOMAIN text = 1..L  OBVIOUS
<1>2. IsFiniteSet(1..L)  BY <1>1, FS_Interval
<1>3. every \in SUBSET (1..L) /\ some \in SUBSET every  BY <1>1
<1>4. IsFiniteSet(every)  BY <1>2, <1>3, FS_Subset
<1>5. /\ IsFiniteSet(some) /\ Cardinality(some) <= Cardinality(every)
      /\ Cardinality(every) = Cardinality(some) => every = some
  BY <1>3, <1>4, FS_Subset
<1>6. Cardinality(some) \in Nat /\ Cardinality(every) \in Nat
  BY <1>4, <1>5, FS_CardinalityType
<1> DEFINE open == text # <<>> /\ ~Last(text)
           left == n > 0 /\ ~text[n]
<1>7. NewlinesIn(n) = Cardinality(some) /\ LinesIn(n) = Cardinality(some) + IF left THEN 1 ELSE 0
  BY DEF NewlinesIn, LinesIn
<1>8. LinesOf = Cardinality(every) + IF open THEN 1 ELSE 0  BY <1>1 DEF LinesOf
<1>9. left => open \/ every # some
  <2> SUFFICES ASSUME left, ~open PROVE every # some  OBVIOUS
  <2>1. text # <<>> /\ text[L]  BY <1>1 DEF Last
  <2>2. L \in every  BY <1>1, <2>1
  <2>3. L \notin some  BY <1>1, <2>1
  <2>4. QED  BY <2>2, <2>3
<1>10. n = L => (left <=> open) /\ every = some  BY <1>1 DEF Last
<1> HIDE DEF some, every, open, left
<1>11. QED  BY <1>5, <1>6, <1>7, <1>8, <1>9, <1>10

LEMMA StatTextHonest ==
  ASSUME IInv, AInv, NEW j \in Threads, StatText(j) \/ OpenText(j)
  PROVE  AInv'
<1>1. job[j].pc \in {"stat", "open"}  BY DEF StatText, OpenText, At
<1>2. UNCHANGED <<child, published, index, text>>  BY DEF StatText, OpenText, Metas, fixed
<1>3. text \in Seq(BOOLEAN) /\ 0 <= LinesOf
  <2>1. text \in Seq(BOOLEAN)  BY DEF AInv, Sequenced
  <2>2. 0 \in 0..Len(text)  BY <2>1
  <2>3. QED  BY <2>1, <2>2, CountIsFloor
<1>4. CASE Tells(j, NoText) /\ (~Wants(j, "text") \/ job[j].wide)
  <2> HIDE DEF LinesOf
  <2>1. QED  BY <1>1, <1>2, <1>3, <1>4, TellsHonest, NoTextIs
<1>5. CASE Tells(j, [NoText EXCEPT !.failed = TRUE])
  <2> HIDE DEF LinesOf
  <2>1. QED  BY <1>1, <1>2, <1>3, <1>5, TellsHonest, NoTextIs
<1>6. CASE UNCHANGED said /\ job' = [job EXCEPT ![j].pc = "open", ![j].got = 0]
  <2>1. /\ UNCHANGED <<job[j].req, job[j].listed>> /\ job'[j].pc = "open" /\ job'[j].got = 0
        /\ \A k \in Threads \ {j} : job'[k] = job[k]
    BY <1>6 DEF IInv, Types, Fields
  <2>2. 0 \in 0..Len(text)  BY <1>3
  <2>3. QED  BY <1>1, <1>2, <1>6, <2>1, <2>2, PastHonest DEF MetaPcs, Unlisted
<1>7. CASE job[j].pc = "open" /\ UNCHANGED said /\ Goes(j, "count")
  <2>1. /\ UNCHANGED <<job[j].req, job[j].listed, job[j].got>> /\ job'[j].pc = "count"
        /\ \A k \in Threads \ {j} : job'[k] = job[k]
    BY <1>7, GoesOn DEF IInv, Same
  <2>2. job[j].got \in 0..Len(text)  BY <1>7, HonestIs DEF KindFits
  <2>3. QED  BY <1>1, <1>2, <1>7, <2>1, <2>2, PastHonest DEF MetaPcs, Unlisted
<1>8. QED  BY <1>4, <1>5, <1>6, <1>7 DEF StatText, OpenText, At

\* At the end of the text every line was seen, the open one too; short of it,
\* none that is not there.
LEMMA CountTextHonest ==
  ASSUME IInv, AInv, NEW j \in Threads, CountText(j)
  PROVE  AInv'
<1>1. job[j].pc = "count"  BY DEF CountText, At
<1>2. UNCHANGED <<child, published, index, text>>  BY DEF CountText, Metas, fixed
<1>3. text \in Seq(BOOLEAN)  BY DEF AInv, Sequenced
<1>4. PICK got \in 0..Len(text) : got = job[j].got  BY <1>1, HonestIs DEF KindFits
<1>4a. PICK whole : whole = [NoText EXCEPT !.lines = LinesIn(got)]  OBVIOUS
<1>5. whole.lines = LinesIn(got)  BY <1>4a, NoTextIs
<1>6. /\ LinesIn(got) <= LinesOf /\ (got = Len(text) => LinesIn(got) = LinesOf)
  BY <1>3, CountIsFloor
<1>7. CASE got = Len(text) /\ Tells(j, whole)
  BY <1>1, <1>2, <1>5, <1>6, <1>7, TellsHonest
<1>8. CASE /\ Answers(j, MetaLine(j, whole))
           /\ job' = [job EXCEPT ![j].pc = "ended", ![j].cut = TRUE]
  <2>1. /\ Same(j) /\ job'[j].pc = "ended" /\ job'[j].listed = job[j].listed /\ job'[j].cut
        /\ \A k \in Threads \ {j} : job'[k] = job[k]
    BY <1>8 DEF IInv, Types, Same, Fields
  <2>2. LinesOf' = LinesOf  BY <1>2 DEF LinesOf
  <2>3. whole.lines <= LinesOf'  BY <1>5, <1>6, <2>2
  <2> HIDE DEF LinesOf
  <2>5. CountsTrue(j, whole)'  BY <2>1, <2>3 DEF CountsTrue
  <2>4. QED  BY <1>1, <1>2, <1>8, <2>1, <2>5, AnswerHonest
<1>9. ASSUME NEW n \in 1..Chunk, got + n <= Len(text),
             Tells(j, [NoText EXCEPT !.lines = NewlinesIn(got + n), !.partial = TRUE])
      PROVE  AInv'
  <2>1. got + n \in 0..Len(text)  BY <1>3, <1>9, JobsAssumption
  <2>2. NewlinesIn(got + n) <= LinesOf  BY <1>3, <2>1, CountIsFloor
  <2>3. QED  BY <1>1, <1>2, <1>9, <2>2, TellsHonest, NoTextIs
<1>10. ASSUME NEW n \in 1..Chunk, got + n <= Len(text), UNCHANGED said,
              job' = [job EXCEPT ![j].got = got + n]
       PROVE  AInv'
  <2>1. /\ UNCHANGED <<job[j].req, job[j].listed, job[j].pc>> /\ job'[j].got = got + n
        /\ \A k \in Threads \ {j} : job'[k] = job[k]
    BY <1>10 DEF IInv, Types, Fields
  <2>2. got + n \in 0..Len(text)  BY <1>3, <1>10, JobsAssumption
  <2>3. QED  BY <1>1, <1>2, <1>10, <2>1, <2>2, PastHonest DEF MetaPcs, Unlisted
<1>11. \/ got = Len(text) /\ Tells(j, whole)
       \/ /\ Answers(j, MetaLine(j, whole))
          /\ job' = [job EXCEPT ![j].pc = "ended", ![j].cut = TRUE]
       \/ \E n \in 1..Chunk :
            /\ got + n <= Len(text)
            /\ \/ Tells(j, [NoText EXCEPT !.lines = NewlinesIn(got + n), !.partial = TRUE])
               \/ job' = [job EXCEPT ![j].got = got + n] /\ UNCHANGED said
  BY <1>4, <1>4a, Zenon DEF CountText
<1>12. QED  BY <1>7, <1>8, <1>9, <1>10, <1>11

LEMMA ThreadHonest ==
  ASSUME IInv, AInv, NEW j \in Threads, Thread(j)
  PROVE  AInv'
<1>1. CASE FileJob(j)
  BY <1>1, BeginFileHonest, NewWorkHonest, RunBoxedHonest, BoxedHonest, VerifyHonest,
     VerifiedHonest, PublishHonest, DropHonest DEF FileJob
<1>2. CASE MetaJob(j)
  BY <1>2, BeginMetaHonest, StartListHonest, ReadLineHonest, StopListHonest,
     WaitListHonest, ProbeHonest, StatTextHonest, CountTextHonest DEF MetaJob
<1>3. QED  BY <1>1, <1>2 DEF Thread

-----------------------------------------------------------------------------
(* What a thread does not do itself.                                       *)

\* A step of a thread's tool or watchdog, which writes no field of the job
\* but what the tool staged.
LEMMA BesideHonest ==
  ASSUME AInv, NEW j \in Threads, UNCHANGED <<said, published, index, text>>,
         \A k \in Threads \ {j} : job'[k] = job[k] /\ child'[k] = child[k],
         \/ job'[j] = job[j]
         \/ /\ job[j].pc = "boxed" /\ job'[j].pc = "boxed" /\ job'[j].failed = job[j].failed
            /\ UNCHANGED <<job[j].req, job[j].listed, job[j].wide, job[j].verified>>,
         ReadsAll(j)'
  PROVE  AInv'
<1>1. Alone(j)  BY DEF AInv, Sequenced, Alone
<1>2. CASE job'[j] = job[j]
  <2>1. KindFits(j)'  BY <1>2, HonestIs DEF KindFits, Kind
  <2>2. Publishes(j)'  BY <1>2, HonestIs DEF Publishes, Worthy, NoneProduced, Kind
  <2>3. ListsTrue(j)'  BY <1>2, HonestIs DEF ListsTrue, Kind, Wants
  <2>4. LinesOf' = LinesOf  BY DEF LinesOf
  <2> HIDE DEF LinesOf
  <2>5. SaysTrue(j)'  BY <1>2, <2>4, HonestIs DEF SaysTrue, CountsTrue, Kind, Wants
  <2>6. QED  BY <1>1, <2>1, <2>2, <2>3, <2>5, AloneKeeps DEF Honest
<1>3. CASE /\ job[j].pc = "boxed" /\ job'[j].pc = "boxed" /\ job'[j].failed = job[j].failed
           /\ UNCHANGED <<job[j].req, job[j].listed, job[j].wide, job[j].verified>>
  <2>1. KindFits(j) /\ Publishes(j)  BY HonestIs
  <2>2. Kind(j) \in FileKinds /\ said[j] = <<>> /\ j \notin published
    BY <1>3, <2>1 DEF KindFits, FilePcs, Publishes
  <2>3. Kind(j)' = Kind(j)  BY <1>3 DEF Kind
  <2>4. KindFits(j)'  BY <1>3, <2>2, <2>3 DEF KindFits, FilePcs, MetaPcs
  <2>5. Publishes(j)'  BY <1>3, <2>1, <2>2 DEF Publishes
  <2>6. ListsTrue(j)'  BY <2>2, <2>3 DEF ListsTrue, FileKinds
  <2>7. SaysTrue(j)'  BY <2>2 DEF SaysTrue
  <2>8. QED  BY <1>1, <2>4, <2>5, <2>6, <2>7, AloneKeeps DEF Honest
<1>4. QED  BY <1>2, <1>3

LEMMA WatchdogHonest ==
  ASSUME IInv, AInv, NEW j \in Threads, Watchdog(j)
  PROVE  AInv'
<1>1. UNCHANGED <<job, said, published, index, text>>
  BY DEF Watchdog, WatchList, WatchProbe, Metas, fixed
<1>2. /\ child'[j].ok = child[j].ok /\ child'[j].sent = child[j].sent
      /\ ~child[j].open => ~child'[j].open
      /\ child[j].st # "runs" => child'[j].st # "runs"
      /\ \A k \in Threads \ {j} : child'[k] = child[k]
  <2>1. CASE Kill(j)  BY <2>1, KillTells DEF Kill
  <2>2. CASE child' = [child EXCEPT ![j] = WithinReach(@)]
    BY <2>2, KillTells DEF WithinReach
  <2>3. CASE child' = child  BY <2>3
  <2>4. QED  BY <2>1, <2>2, <2>3 DEF Watchdog, WatchList, WatchProbe
<1>3. ReadsAll(j)'  BY <1>1, <1>2, HonestIs DEF ReadsAll, Lists
<1>4. QED  BY <1>1, <1>2, <1>3, BesideHonest

\* A tool writes only while its output is open, and ends well only when it has
\* listed everything.
LEMMA ToolHonest ==
  ASSUME IInv, AInv, NEW j \in Threads, Tool(j)
  PROVE  AInv'
<1>1. UNCHANGED <<said, published, index, text>>  BY DEF Tool, Metas, fixed
<1>2. Types /\ child[j] \in Children /\ ReadsAll(j)  BY HonestIs DEF IInv, Types
<1>3. CASE ToolWrites(j)
  <2>1. /\ child[j].st = "runs" /\ child[j].open /\ job' = job
        /\ child' = [child EXCEPT ![j].sent = @ + 1]
    BY <1>3 DEF ToolWrites
  <2>2. /\ child'[j].ok = child[j].ok /\ child'[j].open
        /\ \A k \in Threads \ {j} : child'[k] = child[k]
    BY <1>2, <2>1 DEF Types, Children
  <2>3. ReadsAll(j)'  BY <1>2, <2>1, <2>2 DEF ReadsAll, Lists
  <2>4. QED  BY <1>1, <2>1, <2>2, <2>3, BesideHonest
<1>4. CASE ToolCloses(j)
  <2>1. child[j].st = "runs" /\ job' = job /\ child' = [child EXCEPT ![j].open = FALSE]
    BY <1>4 DEF ToolCloses
  <2>2. /\ child'[j].ok = child[j].ok /\ ~child'[j].open /\ child'[j].sent = child[j].sent
        /\ child'[j].st = "runs"
        /\ \A k \in Threads \ {j} : child'[k] = child[k]
    BY <1>2, <2>1 DEF Types, Children
  <2>3. ReadsAll(j)'  BY <1>1, <1>2, <2>1, <2>2 DEF ReadsAll, Lists
  <2>4. QED  BY <1>1, <2>1, <2>2, <2>3, BesideHonest
<1>5. CASE ToolExits(j)
  <2>1. PICK ok \in BOOLEAN :
          /\ ok /\ Lists(j) => child[j].sent = Len(index)
          /\ child' = [child EXCEPT ![j].st = "exited", ![j].open = FALSE, ![j].ok = ok]
    BY <1>5 DEF ToolExits
  <2>2. /\ child'[j].ok = ok /\ ~child'[j].open /\ child'[j].sent = child[j].sent
        /\ child'[j].st = "exited"
        /\ \A k \in Threads \ {j} : child'[k] = child[k]
    BY <1>2, <2>1 DEF Types, Children
  <2>3. CASE job' = job
    <3>1. ReadsAll(j)'  BY <1>1, <1>2, <2>1, <2>2, <2>3 DEF ReadsAll, Lists
    <3>2. QED  BY <1>1, <2>2, <2>3, <3>1, BesideHonest
  <2>4. CASE job[j].pc = "boxed" /\ \E left : job' = [job EXCEPT ![j].staged = left]
    <3>1. /\ job'[j].pc = "boxed" /\ job'[j].failed = job[j].failed
          /\ UNCHANGED <<job[j].req, job[j].listed, job[j].wide, job[j].verified>>
          /\ \A k \in Threads \ {j} : job'[k] = job[k]
      BY <1>2, <2>4 DEF Types, Fields
    <3>2. ReadsAll(j)'  BY <3>1 DEF ReadsAll, Lists
    <3>3. QED  BY <1>1, <2>2, <2>4, <3>1, <3>2, BesideHonest
  <2>5. QED  BY <1>5, <2>3, <2>4 DEF ToolExits
<1>6. QED  BY <1>3, <1>4, <1>5 DEF Tool

LEMMA OthersHonest ==
  ASSUME AInv, Meddle \/ UNCHANGED vars \/ \E j \in Threads : Elapse(j)
  PROVE  AInv'
<1>1. UNCHANGED <<job, child, said, published, index, text>>
  BY DEF Meddle, vars, Elapse, Metas, fixed
<1>2. LinesOf' = LinesOf  BY <1>1 DEF LinesOf
<1>3. Sequenced'  BY <1>1 DEF AInv, Sequenced
<1>4. ASSUME NEW j \in Threads PROVE Honest(j)'
  <2>1. KindFits(j)'  BY <1>1, HonestIs DEF KindFits, Kind
  <2>2. Publishes(j)'  BY <1>1, HonestIs DEF Publishes, Worthy, NoneProduced, Kind
  <2>3. ListsTrue(j)'  BY <1>1, HonestIs DEF ListsTrue, Kind, Wants
  <2>4. ReadsAll(j)'  BY <1>1, HonestIs DEF ReadsAll, Lists
  <2> HIDE DEF LinesOf
  <2>5. SaysTrue(j)'  BY <1>1, <1>2, HonestIs DEF SaysTrue, CountsTrue, Kind, Wants
  <2>6. QED  BY <2>1, <2>2, <2>3, <2>4, <2>5 DEF Honest
<1>5. QED  BY <1>3, <1>4 DEF AInv

LEMMA StepHonest == IInv /\ AInv /\ [Next]_vars => AInv'
<1> SUFFICES ASSUME IInv, AInv, [Next]_vars PROVE AInv'  OBVIOUS
<1>1. CASE \E j \in Threads : Thread(j) \/ Watchdog(j) \/ Tool(j)
  BY <1>1, ThreadHonest, WatchdogHonest, ToolHonest
<1>2. CASE Meddle \/ UNCHANGED vars \/ \E j \in Threads : Elapse(j)
  BY <1>2, OthersHonest
<1>3. QED  BY <1>1, <1>2 DEF Next

LEMMA InitHonest == Init => AInv
<1> SUFFICES ASSUME Init PROVE AInv  OBVIOUS
<1>1. PICK s \in Scenarios :
        /\ index = s.index /\ text = s.text
        /\ job = [j \in Threads |->
                [req |-> s.asked[j], pc |-> "asked", tries |-> 0, dir |-> <<>>, staged |-> {},
                 got |-> 0, done |-> FALSE, failed |-> FALSE, verified |-> TRUE,
                 listed |-> NoContents, wide |-> FALSE, cut |-> FALSE]]
  BY DEF Init
<1>2. Sequenced  BY <1>1, JobsAssumption DEF Init, Sequenced
<1>3. ASSUME NEW j \in Threads PROVE Honest(j)
  <2>1. /\ job[j].pc = "asked" /\ ~job[j].failed /\ job[j].listed = NoContents
        /\ said[j] = <<>> /\ j \notin published
    BY <1>1 DEF Init
  <2>2. QED
    BY <2>1 DEF Honest, KindFits, ReadsAll, Publishes, ListsTrue, SaysTrue, Lists, FilePcs,
                MetaPcs, Unlisted
<1>4. QED  BY <1>2, <1>3 DEF AInv

LEMMA HonestTells == AInv => AnswerIsTrue
<1> SUFFICES ASSUME AInv, NEW j \in Threads, said[j] # <<>>
             PROVE  LET line == said[j][1] IN
      IF Kind(j) \in FileKinds
      THEN /\ line.ok <=> j \in published
           /\ line.ok /\ Kind(j) # "extract" => job[j].staged # {}
           /\ line.ok /\ line.verified /\ Kind(j) = "extract" /\ job[j].staged = {} =>
                NoneProduced
      ELSE /\ line.listed \in {NoContents, Cleared, Contents(index)}
           /\ Wants(j, "list") /\ line.listed = NoContents => index = <<>>
           /\ CountsTrue(j, line.text)
  BY DEF AnswerIsTrue, NoneProduced, CountsTrue, LinesOf
<1>1. KindFits(j) /\ Publishes(j) /\ ListsTrue(j) /\ SaysTrue(j)  BY HonestIs
<1>2. job[j].pc = "ended"  BY <1>1 DEF KindFits
<1>3. CASE Kind(j) \in FileKinds
  BY <1>1, <1>3 DEF SaysTrue, Publishes, Worthy
<1>4. CASE Kind(j) \notin FileKinds
  <2>1. Kind(j) = "meta"  BY <1>1, <1>4 DEF KindFits
  <2>2. QED  BY <1>1, <1>2, <1>4, <2>1 DEF SaysTrue, ListsTrue, Unlisted
<1>5. QED  BY <1>3, <1>4

\* Whatever a tool leaves, writes or says as it exits, wherever a read is cut
\* short and whatever is done to the text's path meanwhile: ok is a result that
\* was renamed into place, none is vouched for against the index, a listing that
\* did not end well carries no count, a text has at least the lines it is said
\* to have, and lines not called partial are all of them unless a read of the
\* text failed (archivework.rs, archivelist.rs, metareq.rs, linecount.rs).
THEOREM AnswersAreTrue == Spec => []AnswerIsTrue
<1>1. Spec => []AInv
  BY InitHonest, StepHonest, Invariance, PTL DEF Spec
<1>2. QED  BY <1>1, HonestTells, PTL

-----------------------------------------------------------------------------
\* No job replaces what stands at its destination, however long ago it looked
\* and whoever put it there since (archivework.rs rename_noreplace).
THEOREM NothingReplaced == Spec => NothingIsReplaced
<1> DEFINE body == dest # <<>> => dest' \in {dest, <<>>}
<1>1. [Next]_vars => [body]_vars
  <2> SUFFICES ASSUME Next PROVE body \/ UNCHANGED vars  BY DEF vars
  <2>1. CASE Meddle  BY <2>1 DEF Meddle
  <2>2. ASSUME NEW j \in Threads, Thread(j) \/ Watchdog(j) \/ Tool(j) \/ Elapse(j)
        PROVE  body
    <3>1. CASE Publish(j)  BY <3>1 DEF Publish, MayPublish
    <3>2. CASE FileJob(j) /\ ~Publish(j)
      BY <3>2 DEF FileJob, BeginFile, Refuse, NewWork, RunBoxed, Boxed, Verify, Verified,
                  Drop, Files
    <3>3. CASE MetaJob(j)
      BY <3>3 DEF MetaJob, BeginMeta, StartList, ReadLine, StopList, WaitList, StartProbe,
                  Drain, Reap, Probed, StatText, OpenText, CountText, Metas
    <3>4. CASE Watchdog(j) \/ Tool(j) \/ Elapse(j)
      BY <3>4 DEF Watchdog, WatchList, WatchProbe, Tool, Elapse, Metas
    <3>5. QED  BY <2>2, <3>1, <3>2, <3>3, <3>4 DEF Thread
  <2>3. QED  BY <2>1, <2>2 DEF Next
<1>2. QED  BY <1>1, PTL DEF Spec, NothingIsReplaced
=============================================================================
