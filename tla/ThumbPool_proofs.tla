--------------------------- MODULE ThumbPool_proofs ---------------------------
(***************************************************************************)
(* Proofs about ThumbPool, for any set of paths, any finite set of         *)
(* workers, any queue bound and any set of listings.                       *)
(***************************************************************************)
EXTENDS ThumbPool, TLAPS, FiniteSetTheorems, SequenceTheorems

-----------------------------------------------------------------------------
(* Queues of jobs.                                                         *)

LEMMA TypedListing == ASSUME TypeOK PROVE listing \in Seq(Media \cup Plain)
  BY PoolAssumption DEF TypeOK

\* Every job is for a path some thumbnailer declares.
LEMMA PathsAreMedia ==
  ASSUME NEW q \in Seq(Job)
  PROVE  JobPaths(q) \subseteq Media
<1>1. DOMAIN q = 1..Len(q) /\ \A i \in 1..Len(q) : q[i] \in Job
  BY LenProperties, ElementOfSeq
<1>2. QED  BY <1>1 DEF JobPaths, Job

\* The paths of a queue that grew by one job.
LEMMA AppendPaths ==
  ASSUME NEW q \in Seq(Job), NEW j \in Job
  PROVE  /\ Append(q, j) \in Seq(Job)
         /\ Len(Append(q, j)) = Len(q) + 1
         /\ JobPaths(Append(q, j)) = JobPaths(q) \cup {j.path}
<1>1. /\ Append(q, j) \in Seq(Job)
      /\ Len(Append(q, j)) = Len(q) + 1
      /\ \A i \in 1..Len(q) : Append(q, j)[i] = q[i]
      /\ Append(q, j)[Len(q) + 1] = j
  BY AppendProperties
<1>2. DOMAIN Append(q, j) = 1..(Len(q) + 1) /\ DOMAIN q = 1..Len(q) /\ Len(q) \in Nat
  BY <1>1, LenProperties
<1>3. ASSUME NEW x \in JobPaths(Append(q, j)) PROVE x \in JobPaths(q) \cup {j.path}
  BY <1>1, <1>2, <1>3 DEF JobPaths
<1>4. ASSUME NEW x \in JobPaths(q) \cup {j.path} PROVE x \in JobPaths(Append(q, j))
  BY <1>1, <1>2, <1>4 DEF JobPaths
<1>5. QED  BY <1>1, <1>3, <1>4

\* Popping the head of a queue splits its paths.
LEMMA PopPaths ==
  ASSUME NEW q \in Seq(Job), q # <<>>
  PROVE  /\ Head(q) \in Job
         /\ Tail(q) \in Seq(Job)
         /\ Len(Tail(q)) = Len(q) - 1
         /\ Len(q) \in Nat \ {0}
         /\ JobPaths(q) = {Head(q).path} \cup JobPaths(Tail(q))
<1>1. /\ Head(q) \in Job
      /\ Tail(q) \in Seq(Job)
      /\ Len(Tail(q)) = Len(q) - 1
      /\ \A i \in 1..Len(Tail(q)) : Tail(q)[i] = q[i+1]
  BY HeadTailProperties
<1>2. DOMAIN q = 1..Len(q) /\ Len(q) \in Nat \ {0} /\ Head(q) = q[1]
  BY EmptySeq, LenProperties
<1>3. DOMAIN Tail(q) = 1..(Len(q) - 1)
  BY <1>1, LenProperties
<1>4. ASSUME NEW x \in JobPaths(q) PROVE x \in {Head(q).path} \cup JobPaths(Tail(q))
  <2>1. PICK i \in 1..Len(q) : x = q[i].path
    BY <1>2 DEF JobPaths
  <2>2. CASE i = 1  BY <2>1, <2>2, <1>2
  <2>3. CASE i # 1
    <3>1. i - 1 \in 1..(Len(q) - 1) /\ Tail(q)[i - 1] = q[i]
      BY <2>3, <1>1, <1>2
    <3>2. QED  BY <3>1, <2>1, <1>3 DEF JobPaths
  <2>4. QED  BY <2>2, <2>3
<1>5. ASSUME NEW x \in {Head(q).path} \cup JobPaths(Tail(q)) PROVE x \in JobPaths(q)
  BY <1>1, <1>2, <1>3, <1>5 DEF JobPaths
<1>6. QED  BY <1>1, <1>2, <1>4, <1>5

\* Cutting a queue after its first n jobs splits its paths and its length.
LEMMA CutPaths ==
  ASSUME NEW q \in Seq(Job), NEW n \in 0..Len(q)
  PROVE  /\ SubSeq(q, 1, n) \in Seq(Job)
         /\ SubSeq(q, n + 1, Len(q)) \in Seq(Job)
         /\ Len(SubSeq(q, 1, n)) = n
         /\ Len(SubSeq(q, n + 1, Len(q))) = Len(q) - n
         /\ JobPaths(q) = JobPaths(SubSeq(q, 1, n)) \cup JobPaths(SubSeq(q, n + 1, Len(q)))
<1> DEFINE front == SubSeq(q, 1, n)
           back  == SubSeq(q, n + 1, Len(q))
<1>1. Len(q) \in Nat /\ DOMAIN q = 1..Len(q) /\ \A i \in 1..Len(q) : q[i] \in Job
  BY LenProperties, ElementOfSeq
<1>2. /\ front \in Seq(Job)
      /\ Len(front) = n
      /\ \A i \in 1..n : front[i] = q[i]
  <2>1. \A i \in 1..n : q[i] \in Job  BY <1>1
  <2>2. n \in Int /\ 1 \in Int  BY <1>1
  <2>3. /\ front \in Seq(Job)
        /\ Len(front) = IF 1 <= n THEN n - 1 + 1 ELSE 0
        /\ \A i \in 1..(n - 1 + 1) : front[i] = q[1 + i - 1]
    BY <2>1, <2>2, SubSeqProperties
  <2>4. QED  BY <2>3, <1>1
<1>3. /\ back \in Seq(Job)
      /\ Len(back) = Len(q) - n
      /\ \A i \in 1..(Len(q) - n) : back[i] = q[n + i]
  <2>1. \A i \in (n+1)..Len(q) : q[i] \in Job  BY <1>1
  <2>2. n + 1 \in Int /\ Len(q) \in Int  BY <1>1
  <2>3. /\ back \in Seq(Job)
        /\ Len(back) = IF n + 1 <= Len(q) THEN Len(q) - (n + 1) + 1 ELSE 0
        /\ \A i \in 1..(Len(q) - (n + 1) + 1) : back[i] = q[(n + 1) + i - 1]
    BY <2>1, <2>2, SubSeqProperties
  <2> HIDE DEF back
  <2>4. Len(back) = Len(q) - n
    <3>1. CASE n + 1 <= Len(q)  BY <3>1, <2>3, <1>1
    <3>2. CASE ~(n + 1 <= Len(q))
      <4>0. Len(q) \in Nat /\ n \in 0..Len(q)  BY <1>1
      <4>1. n = Len(q)  BY <3>2, <4>0
      <4>2. Len(back) = 0  BY <3>2, <2>3
      <4>3. Len(q) - n = 0  BY <4>1, <1>1
      <4>4. QED  BY <4>2, <4>3
    <3>3. QED  BY <3>1, <3>2
  <2>5. ASSUME NEW i \in 1..(Len(q) - n) PROVE back[i] = q[n + i]
    <3>1. i \in 1..(Len(q) - (n + 1) + 1)  BY <1>1
    <3>2. back[i] = q[(n + 1) + i - 1]  BY <2>3, <3>1
    <3>3. (n + 1) + i - 1 = n + i  BY <1>1
    <3>4. QED  BY <3>2, <3>3
  <2>6. QED  BY <2>3, <2>4, <2>5
<1>4. DOMAIN front = 1..n /\ DOMAIN back = 1..(Len(q) - n)
  BY <1>1, <1>2, <1>3, LenProperties
<1>5. ASSUME NEW x \in JobPaths(q) PROVE x \in JobPaths(front) \cup JobPaths(back)
  <2>1. PICK i \in 1..Len(q) : x = q[i].path
    BY <1>1 DEF JobPaths
  <2>2. CASE i <= n
    <3>1. i \in 1..n /\ front[i] = q[i]  BY <2>2, <1>1, <1>2
    <3>2. QED  BY <3>1, <2>1, <1>4 DEF JobPaths
  <2>3. CASE i > n
    <3>1. i - n \in 1..(Len(q) - n)  BY <2>3, <1>1
    <3>2. back[i - n] = q[n + (i - n)]  BY <3>1, <1>3
    <3>3. n + (i - n) = i  BY <1>1
    <3>4. QED  BY <3>1, <3>2, <3>3, <2>1, <1>4 DEF JobPaths
  <2>4. QED  BY <2>2, <2>3, <1>1
<1>6. ASSUME NEW x \in JobPaths(front) PROVE x \in JobPaths(q)
  BY <1>1, <1>2, <1>4, <1>6 DEF JobPaths
<1>7. ASSUME NEW x \in JobPaths(back) PROVE x \in JobPaths(q)
  <2>1. PICK i \in 1..(Len(q) - n) : x = back[i].path
    BY <1>4, <1>7 DEF JobPaths
  <2>2. n + i \in 1..Len(q) /\ x = q[n + i].path
    <3>1. n + i \in 1..Len(q)  BY <1>1
    <3>2. back[i] = q[n + i]  BY <1>3
    <3>3. QED  BY <2>1, <3>1, <3>2
  <2>3. QED  BY <2>2, <1>1 DEF JobPaths
<1>8. QED  BY <1>2, <1>3, <1>5, <1>6, <1>7

\* Dropping every job of one path keeps the jobs of every other path.
LEMMA CancelledPaths ==
  ASSUME NEW q \in Seq(Job), NEW path,
         NEW at \in Ordered(OthersIn(q, path))
  PROVE  /\ Picked(q, at) \in Seq(Job)
         /\ Len(Picked(q, at)) <= Len(q)
         /\ JobPaths(Picked(q, at)) = JobPaths(q) \ {path}
<1> DEFINE S    == {i \in DOMAIN q : q[i].path # path}
           n    == Cardinality(S)
           kept == [i \in DOMAIN at |-> q[at[i]]]
<1>1. Len(q) \in Nat /\ DOMAIN q = 1..Len(q) /\ \A i \in 1..Len(q) : q[i] \in Job
  BY LenProperties, ElementOfSeq
<1>2. IsFiniteSet(1..Len(q)) /\ Cardinality(1..Len(q)) = Len(q)
  <2>1. /\ IsFiniteSet(1..Len(q))
        /\ Cardinality(1..Len(q)) = IF 1 > Len(q) THEN 0 ELSE Len(q) - 1 + 1
    BY <1>1, FS_Interval
  <2>2. QED  BY <2>1, <1>1
<1>3. S \in SUBSET (1..Len(q))  BY <1>1
<1>4. IsFiniteSet(S) /\ n <= Len(q)
  BY <1>2, <1>3, FS_Subset
<1>5. n \in Nat  BY <1>4, FS_CardinalityType
<1>6. /\ at \in [1..n -> S]
      /\ \A k \in S : \E i \in 1..n : at[i] = k
  BY DEF Ordered, OthersIn
<1>7. DOMAIN at = 1..n  BY <1>6
<1>8. kept \in [1..n -> Job]
  BY <1>1, <1>3, <1>6, <1>7
<1>9. kept \in Seq(Job) /\ Len(kept) = n
  <2> HIDE DEF kept, n
  <2>1. kept \in Seq(Job)  BY <1>5, <1>8, SeqDef
  <2>2. Len(kept) \in Nat /\ DOMAIN kept = 1..Len(kept)  BY <2>1, LenProperties
  <2>3. DOMAIN kept = 1..n  BY <1>8
  <2>4. 1..Len(kept) = 1..n  BY <2>2, <2>3
  <2>5. \A i, j \in Nat : 1..i = 1..j => i = j  OBVIOUS
  <2>6. QED  BY <2>1, <2>2, <2>4, <2>5, <1>5
<1>10. ASSUME NEW x \in JobPaths(kept) PROVE x \in JobPaths(q) \ {path}
  <2>1. PICK i \in 1..n : x = q[at[i]].path
    BY <1>7, <1>10 DEF JobPaths
  <2>2. at[i] \in S  BY <1>6
  <2>3. QED  BY <2>1, <2>2 DEF JobPaths
<1>11. ASSUME NEW x \in JobPaths(q) \ {path} PROVE x \in JobPaths(kept)
  <2>1. PICK k \in DOMAIN q : x = q[k].path
    BY <1>11 DEF JobPaths
  <2>2. k \in S  BY <2>1, <1>11
  <2>3. PICK i \in 1..n : at[i] = k  BY <2>2, <1>6
  <2>4. kept[i].path = x /\ i \in DOMAIN kept  BY <2>1, <2>3, <1>7
  <2>5. QED  BY <2>4 DEF JobPaths
<1>12. Picked(q, at) = kept  BY DEF Picked
<1> HIDE DEF kept, n
<1>13. QED  BY <1>4, <1>9, <1>10, <1>11, <1>12

-----------------------------------------------------------------------------
(* Type correctness.                                                       *)

LEMMA SatSubType == \A a, b \in Nat : SatSub(a, b) \in Nat
  BY DEF SatSub

LEMMA RowsAreNat ==
  ASSUME listing \in Listings, NEW row \in DOMAIN listing
  PROVE  row \in Nat /\ listing[row] \in Media \cup Plain
<1>1. listing \in Seq(Media \cup Plain)  BY PoolAssumption
<1>2. DOMAIN listing = 1..Len(listing) /\ Len(listing) \in Nat
  BY <1>1, LenProperties
<1>3. QED  BY <1>1, <1>2, ElementOfSeq

\* The rows a set of lines names, one line per mapped path.
LEMMA RowsOfLines ==
  ASSUME NEW m, NEW paths, NEW g
  PROVE  RowsOf(LinesFor(m, paths, g)) = {m[p] : p \in {q \in paths : m[q] # NoRow}}
<1> DEFINE mapped == {q \in paths : m[q] # NoRow}
<1>1. ASSUME NEW p \in mapped PROVE m[p] \in RowsOf(LinesFor(m, paths, g))
  <2>1. Line(m[p], p, g) \in LinesFor(m, paths, g)  BY DEF LinesFor
  <2>2. Line(m[p], p, g).row = m[p]  BY DEF Line
  <2>3. QED  BY <2>1, <2>2 DEF RowsOf
<1>2. ASSUME NEW x \in RowsOf(LinesFor(m, paths, g)) PROVE \E p \in mapped : x = m[p]
  <2>1. PICK a \in LinesFor(m, paths, g) : x = a.row  BY <1>2 DEF RowsOf
  <2>2. PICK p \in mapped : a = Line(m[p], p, g)  BY DEF LinesFor
  <2>3. QED  BY <2>1, <2>2 DEF Line
<1>3. QED  BY <1>1, <1>2

\* Every step that maps a subset of the rows keeps the map well typed.
LEMMA UnmappedType ==
  \A m \in [Media -> Nat] : \A ps : Unmapped(m, ps) \in [Media -> Nat]
  BY DEF Unmapped, NoRow

\* The queue never passes MAX_QUEUE and every variable keeps its range,
\* whatever the client, the workers and the clock do.
THEOREM TypeCorrect == Spec => []TypeOK
<1>1. Init => TypeOK
  BY PoolAssumption DEF Init, TypeOK, NoRow, Job
<1>2. TypeOK /\ [Next]_vars => TypeOK'
  <2> SUFFICES ASSUME TypeOK, [Next]_vars PROVE TypeOK'
    OBVIOUS
  <2>0. /\ listing \in Listings /\ asked \in [Media -> Nat] /\ outstanding \in Nat
        /\ queue \in Seq(Job) /\ Len(queue) <= MaxQueue /\ Len(queue) \in Nat
        /\ running \in [Workers -> Job \cup {NoJob}] /\ done \in Seq(Job)
        /\ gen \in Nat /\ waiting \subseteq Nat
        /\ MaxQueue \in Nat \ {0}
    BY LenProperties, PoolAssumption DEF TypeOK
  <2>e. <<>> \in Seq(Job) /\ Len(<<>>) = 0
    BY EmptySeq
  <2>m. [p \in Media |-> NoRow] \in [Media -> Nat]
    BY DEF NoRow
  <2>1. ASSUME NEW l \in Listings, Relist(l) PROVE TypeOK'
    <3>1. outstanding' \in Nat
      BY <2>0, <2>1, SatSubType DEF Relist, ForgetRows
    <3>2. queue' \in Seq(Job) /\ Len(queue') <= MaxQueue
      BY <2>0, <2>e, <2>1 DEF Relist, ForgetRows
    <3>3. asked' \in [Media -> Nat]
      BY <2>m, <2>1 DEF Relist, ForgetRows
    <3>4. QED
      BY <2>0, <2>1, <3>1, <3>2, <3>3 DEF TypeOK, Relist
  <2>2. ASSUME NEW e \in Media \cup Plain, SearchMatch(e) PROVE TypeOK'
    BY <2>0, <2>2 DEF TypeOK, SearchMatch
  <2>3. ASSUME NEW row \in DOMAIN listing, AnswerNow(row) PROVE TypeOK'
    <3>1. row \in Nat  BY <2>0, RowsAreNat
    <3>2. \A a \in out' : a.row \in Nat
      BY <2>3, <3>1 DEF AnswerNow, Line
    <3>3. QED  BY <2>0, <2>3, <3>2 DEF TypeOK, AnswerNow
  <2>4. ASSUME NEW row \in DOMAIN listing, QueueRow(row) PROVE TypeOK'
    <3>1. row \in Nat /\ listing[row] \in Media
      BY <2>0, <2>4, RowsAreNat DEF QueueRow
    <3> DEFINE mapped == [asked EXCEPT ![listing[row]] = row]
               kept   == SubSeq(queue, Overflow + 1, Len(queue))
               job    == [path |-> listing[row], gen |-> gen]
    <3>2. Overflow \in 0..Len(queue) /\ Len(queue) - Overflow < MaxQueue
      BY <2>0 DEF Overflow
    <3>3. kept \in Seq(Job) /\ Len(kept) = Len(queue) - Overflow
      BY <2>0, <3>2, CutPaths
    <3>4. job \in Job
      BY <2>0, <3>1 DEF Job
    <3>5. Append(kept, job) \in Seq(Job) /\ Len(Append(kept, job)) = Len(kept) + 1
      BY <3>3, <3>4, AppendPaths
    <3>6. queue' \in Seq(Job) /\ Len(queue') <= MaxQueue
      BY <2>0, <2>4, <3>2, <3>3, <3>5 DEF QueueRow
    <3>7. mapped \in [Media -> Nat]
      BY <2>0, <3>1
    <3>8. asked' \in [Media -> Nat]
      BY <2>4, <3>7, UnmappedType DEF QueueRow
    <3>9. outstanding' \in Nat
      BY <2>0, <2>4, <3>2, SatSubType DEF QueueRow
    <3>10. \A a \in out' : a.row \in Nat
      <4> DEFINE dropped == JobPaths(SubSeq(queue, 1, Overflow))
      <4>1. dropped \subseteq Media
        <5>1. SubSeq(queue, 1, Overflow) \in Seq(Job)
          BY <2>0, <3>2, CutPaths
        <5>2. QED  BY <5>1, PathsAreMedia
      <4>2. out' = LinesFor(mapped, dropped, gen)
        BY <2>4 DEF QueueRow
      <4> HIDE DEF dropped, mapped
      <4>3. QED  BY <4>1, <4>2, <3>7 DEF LinesFor, Line
    <3>11. waiting' \subseteq Nat
      BY <2>0, <2>4, <3>1 DEF QueueRow
    <3>12. UNCHANGED <<listing, running, done, phase, gen>>
      BY <2>4 DEF QueueRow
    <3>13. QED  BY <3>6, <3>8, <3>9, <3>10, <3>11, <3>12 DEF TypeOK
  <2>5. ASSUME NEW row \in DOMAIN listing, AlreadyAsked(row) PROVE TypeOK'
    BY <2>0, <2>5, RowsAreNat DEF TypeOK, AlreadyAsked
  <2>6. ASSUME NEW row \in waiting, CancelRow(row) PROVE TypeOK'
    <3>1. CASE UNCHANGED <<queue, outstanding, asked>>
      BY <2>0, <2>6, <3>1 DEF TypeOK, CancelRow
    <3>2. CASE \E path \in Media : CancelPath(path) /\ asked' = Unmapped(asked, {path})
      <4>1. PICK path \in Media : CancelPath(path) /\ asked' = Unmapped(asked, {path})
        BY <3>2
      <4>2. PICK at \in Ordered(OthersIn(queue, path)) :
              /\ queue' = Picked(queue, at)
              /\ outstanding' = SatSub(outstanding, Len(queue) - Len(queue'))
        BY <4>1 DEF CancelPath
      <4>3. queue' \in Seq(Job) /\ Len(queue') <= Len(queue)
        BY <2>0, <4>2, CancelledPaths
      <4>4. Len(queue') \in Nat
        BY <4>3, LenProperties
      <4>5. outstanding' \in Nat
        BY <2>0, <4>2, <4>3, <4>4, SatSubType
      <4>6. asked' \in [Media -> Nat]
        BY <2>0, <4>1, UnmappedType
      <4>7. QED
        BY <2>0, <2>6, <4>3, <4>4, <4>5, <4>6 DEF TypeOK, CancelRow
    <3>3. QED  BY <2>6, <3>1, <3>2 DEF CancelRow
  <2>7. CASE CancelAll
    <3>1. outstanding' \in Nat
      BY <2>0, <2>7, SatSubType DEF CancelAll
    <3>2. queue' \in Seq(Job) /\ Len(queue') <= MaxQueue
      BY <2>0, <2>e, <2>7 DEF CancelAll
    <3>3. asked' \in [Media -> Nat]
      BY <2>0, <2>7, UnmappedType DEF CancelAll
    <3>4. QED
      BY <2>0, <2>7, <3>1, <3>2, <3>3 DEF TypeOK, CancelAll
  <2>8. CASE Quit
    BY <2>0, <2>8 DEF TypeOK, Quit
  <2>9. CASE ReportDone
    <3>1. Tail(done) \in Seq(Job) /\ Head(done) \in Job
      BY <2>0, <2>9, PopPaths DEF ReportDone
    <3>2. Head(done).path \in Media  BY <3>1 DEF Job
    <3>3. asked' \in [Media -> Nat]
      BY <2>0, <2>9, UnmappedType DEF ReportDone
    <3>4. outstanding' \in Nat
      BY <2>0, <2>9, SatSubType DEF ReportDone
    <3>5. \A a \in out' : a.row \in Nat
      BY <2>0, <2>9, <3>2 DEF ReportDone, Line
    <3>6. QED
      BY <2>0, <2>9, <3>1, <3>3, <3>4, <3>5 DEF TypeOK, ReportDone
  <2>10. ASSUME NEW w \in Workers, WorkerTake(w) PROVE TypeOK'
    BY <2>0, <2>10, PopPaths DEF TypeOK, WorkerTake
  <2>11. ASSUME NEW w \in Workers, WorkerFinish(w) PROVE TypeOK'
    <3>1. running[w] \in Job  BY <2>0, <2>11 DEF WorkerFinish
    <3>2. done' \in Seq(Job)  BY <2>0, <2>11, <3>1, AppendPaths DEF WorkerFinish
    <3>3. QED  BY <2>0, <2>11, <3>2 DEF TypeOK, WorkerFinish
  <2>12. CASE Close
    <3>1. queue' \in Seq(Job) /\ Len(queue') <= MaxQueue
      BY <2>0, <2>e, <2>12 DEF Close
    <3>2. \A a \in out' : a.row \in Nat
      BY <2>0, <2>12 DEF Close, LinesFor, Line
    <3>3. waiting' \subseteq Nat
      BY <2>0, <2>12 DEF Close
    <3>4. QED
      BY <2>0, <2>m, <2>12, <3>1, <3>2, <3>3 DEF TypeOK, Close
  <2>13. CASE UNCHANGED vars
    BY <2>13 DEF TypeOK, vars, JobPaths
  <2>14. QED
    BY <2>1, <2>2, <2>3, <2>4, <2>5, <2>6, <2>7, <2>8, <2>9, <2>10, <2>11, <2>12, <2>13
       DEF Next, Client, Thumb, Worker, Drain, DrainDone, DrainDeadline
<1>3. QED  BY <1>1, <1>2, PTL DEF Spec

-----------------------------------------------------------------------------
(* The count of work in flight.                                            *)

LEMMA BusyFinite == IsFiniteSet(Busy) /\ Cardinality(Busy) \in Nat
<1>1. Busy \in SUBSET Workers  BY DEF Busy
<1>2. IsFiniteSet(Busy)  BY <1>1, PoolAssumption, FS_Subset
<1>3. QED  BY <1>2, FS_CardinalityType

LEMMA OverflowFits ==
  ASSUME TypeOK
  PROVE  Overflow \in 0..Len(queue) /\ Len(queue) \in Nat
<1>1. Len(queue) \in Nat  BY LenProperties DEF TypeOK
<1>2. QED  BY <1>1, PoolAssumption DEF TypeOK, Overflow

\* What a cancel naming a path leaves, and what it takes off the count.
LEMMA CancelledQueue ==
  ASSUME TypeOK, NEW path \in Media, CancelPath(path)
  PROVE  /\ queue' \in Seq(Job)
         /\ Len(queue') \in 0..Len(queue)
         /\ JobPaths(queue') = JobPaths(queue) \ {path}
         /\ outstanding' = SatSub(outstanding, Len(queue) - Len(queue'))
<1>1. queue \in Seq(Job) /\ Len(queue) \in Nat
  BY LenProperties DEF TypeOK
<1>2. PICK at \in Ordered(OthersIn(queue, path)) :
        /\ queue' = Picked(queue, at)
        /\ outstanding' = SatSub(outstanding, Len(queue) - Len(queue'))
  BY DEF CancelPath
<1>3. /\ queue' \in Seq(Job)
      /\ Len(queue') <= Len(queue)
      /\ JobPaths(queue') = JobPaths(queue) \ {path}
  BY <1>1, <1>2, CancelledPaths
<1>4. Len(queue') \in Nat  BY <1>3, LenProperties
<1>5. QED  BY <1>1, <1>2, <1>3, <1>4

\* A closed process takes no further step.
LEMMA ClosedStays ==
  ASSUME [Next]_vars, phase = "closed"
  PROVE  UNCHANGED vars
<1>1. ~Client
  BY DEF Client, Relist, SearchMatch, Thumb, AnswerNow, QueueRow, AlreadyAsked,
         CancelRow, CancelAll, Quit
<1>2. ~ReportDone /\ ~Drain
  BY DEF ReportDone, Drain, DrainDone, DrainDeadline
<1>3. \A w \in Workers : ~Worker(w)
  BY DEF Worker, WorkerTake, WorkerFinish
<1>4. QED  BY <1>1, <1>2, <1>3 DEF Next

\* outstanding counts exactly the jobs queued, running or reported and not
\* yet handled, in every order of requests, pops, finishes and drops.
THEOREM CountIsExact == Spec => []OutstandingExact
<1>1. Init => OutstandingExact
  <2>1. SUFFICES ASSUME Init PROVE OutstandingExact  OBVIOUS
  <2>2. Busy = {}  BY <2>1 DEF Init, Busy
  <2>3. Len(queue) = 0 /\ Len(done) = 0 /\ outstanding = 0
    BY <2>1, EmptySeq DEF Init
  <2>4. QED  BY <2>2, <2>3, FS_EmptySet DEF OutstandingExact
<1>2. TypeOK /\ TypeOK' /\ OutstandingExact /\ [Next]_vars => OutstandingExact'
  <2> SUFFICES ASSUME TypeOK, TypeOK', OutstandingExact, [Next]_vars
               PROVE  OutstandingExact'
    OBVIOUS
  <2>c. phase = "closed" => phase' = "closed"
    <3>1. phase = "closed" => UNCHANGED vars  BY ClosedStays
    <3>2. QED  BY <3>1 DEF vars
  <2> SUFFICES ASSUME phase' # "closed"
               PROVE  outstanding' = Len(queue') + Cardinality(Busy)' + Len(done')
    BY DEF OutstandingExact
  <2> DEFINE busy == Cardinality(Busy)
  <2>0. /\ Len(queue) \in Nat /\ Len(done) \in Nat /\ busy \in Nat
        /\ outstanding \in Nat
        /\ outstanding = Len(queue) + busy + Len(done)
        /\ queue \in Seq(Job) /\ done \in Seq(Job)
    BY <2>c, LenProperties, BusyFinite DEF TypeOK, OutstandingExact
  <2>b. running' = running => Cardinality(Busy)' = busy
    BY DEF Busy
  <2>e. Len(<<>>) = 0  BY EmptySeq
  <2> HIDE DEF busy
  <2>1. ASSUME UNCHANGED <<queue, running, done, outstanding>>
        PROVE  outstanding' = Len(queue') + Cardinality(Busy)' + Len(done')
    BY <2>0, <2>b, <2>1
  <2>2. ASSUME queue' = <<>>, outstanding' = SatSub(outstanding, Len(queue)),
               UNCHANGED <<running, done>>
        PROVE  outstanding' = Len(queue') + Cardinality(Busy)' + Len(done')
    <3>1. outstanding' = busy + Len(done)
      BY <2>0, <2>2 DEF SatSub
    <3>2. QED  BY <2>0, <2>b, <2>e, <2>2, <3>1
  <2>3. ASSUME NEW row \in DOMAIN listing, QueueRow(row)
        PROVE  outstanding' = Len(queue') + Cardinality(Busy)' + Len(done')
    <3>1. Overflow \in 0..Len(queue)  BY OverflowFits
    <3> DEFINE kept == SubSeq(queue, Overflow + 1, Len(queue))
               job  == [path |-> listing[row], gen |-> gen]
    <3>2. kept \in Seq(Job) /\ Len(kept) = Len(queue) - Overflow
      BY <2>0, <3>1, CutPaths
    <3>3. job \in Job
      BY <2>3 DEF TypeOK, QueueRow, Job
    <3>4. Len(Append(kept, job)) = Len(kept) + 1
      BY <3>2, <3>3, AppendPaths
    <3>5. Len(queue') = Len(queue) - Overflow + 1
      BY <2>3, <3>2, <3>4 DEF QueueRow
    <3>6. outstanding' = outstanding + 1 - Overflow
      BY <2>0, <2>3, <3>1 DEF QueueRow, SatSub
    <3>7. UNCHANGED <<running, done>>  BY <2>3 DEF QueueRow
    <3>8. QED  BY <2>0, <2>b, <3>1, <3>5, <3>6, <3>7
  <2>4. ASSUME NEW path \in Media, CancelPath(path), UNCHANGED <<running, done>>
        PROVE  outstanding' = Len(queue') + Cardinality(Busy)' + Len(done')
    <3>1. /\ Len(queue') \in 0..Len(queue)
          /\ outstanding' = SatSub(outstanding, Len(queue) - Len(queue'))
      BY <2>4, CancelledQueue
    <3>2. outstanding' = outstanding - (Len(queue) - Len(queue'))
      BY <2>0, <3>1 DEF SatSub
    <3>3. QED  BY <2>0, <2>b, <2>4, <3>1, <3>2
  <2>5. CASE ReportDone
    <3>1. Len(Tail(done)) = Len(done) - 1 /\ Len(done) \in Nat \ {0}
      BY <2>0, <2>5, PopPaths DEF ReportDone
    <3>2. outstanding' = outstanding - 1
      BY <2>0, <2>5, <3>1 DEF ReportDone, SatSub
    <3>3. done' = Tail(done) /\ UNCHANGED <<queue, running>>
      BY <2>5 DEF ReportDone
    <3>4. QED  BY <2>0, <2>b, <3>1, <3>2, <3>3
  <2>6. ASSUME NEW w \in Workers, WorkerTake(w)
        PROVE  outstanding' = Len(queue') + Cardinality(Busy)' + Len(done')
    <3>1. Head(queue) \in Job /\ Len(Tail(queue)) = Len(queue) - 1
      BY <2>0, <2>6, PopPaths DEF WorkerTake
    <3>2. Busy' = Busy \cup {w} /\ w \notin Busy
      BY <2>6, <3>1, PoolAssumption DEF WorkerTake, Busy, TypeOK
    <3>3. Cardinality(Busy)' = busy + 1
      BY <3>2, BusyFinite, FS_AddElement DEF busy
    <3>4. Len(queue') = Len(queue) - 1
      BY <2>6, <3>1 DEF WorkerTake
    <3>5. UNCHANGED <<done, outstanding>>
      BY <2>6 DEF WorkerTake
    <3>6. Len(queue) - 1 + (busy + 1) + Len(done) = Len(queue) + busy + Len(done)
      BY <2>0
    <3>7. QED  BY <2>0, <3>3, <3>4, <3>5, <3>6
  <2>7. ASSUME NEW w \in Workers, WorkerFinish(w)
        PROVE  outstanding' = Len(queue') + Cardinality(Busy)' + Len(done')
    <3>1. running[w] \in Job  BY <2>7 DEF WorkerFinish, TypeOK
    <3>2. Len(done') = Len(done) + 1
      BY <2>0, <2>7, <3>1, AppendPaths DEF WorkerFinish
    <3>3. Busy' = Busy \ {w} /\ w \in Busy
      BY <2>7 DEF WorkerFinish, Busy, TypeOK
    <3>4. Cardinality(Busy)' = busy - 1
      BY <3>3, BusyFinite, FS_RemoveElement DEF busy
    <3>5. UNCHANGED <<queue, outstanding>>
      BY <2>7 DEF WorkerFinish
    <3>6. QED  BY <2>0, <3>2, <3>4, <3>5
  <2>8. CASE Client
    <3>1. CASE \E l \in Listings : Relist(l)
      BY <2>2, <3>1 DEF Relist, ForgetRows
    <3>2. CASE \E e \in Media \cup Plain : SearchMatch(e)
      BY <2>1, <3>2 DEF SearchMatch
    <3>3. CASE \E row \in DOMAIN listing : Thumb(row)
      BY <2>1, <2>3, <3>3 DEF Thumb, AnswerNow, AlreadyAsked
    <3>4. CASE \E row \in waiting : CancelRow(row)
      BY <2>1, <2>4, <3>4 DEF CancelRow
    <3>5. CASE CancelAll
      BY <2>2, <3>5 DEF CancelAll
    <3>6. CASE Quit
      BY <2>1, <3>6 DEF Quit
    <3>7. QED  BY <2>8, <3>1, <3>2, <3>3, <3>4, <3>5, <3>6 DEF Client
  <2>9. CASE Drain
    BY <2>9 DEF Drain, DrainDone, DrainDeadline, Close
  <2>10. CASE UNCHANGED vars
    BY <2>1, <2>10 DEF vars
  <2>11. QED  BY <2>5, <2>6, <2>7, <2>8, <2>9, <2>10 DEF Next, Worker
<1>3. QED  BY <1>1, <1>2, TypeCorrect, PTL DEF Spec

-----------------------------------------------------------------------------
(* The map of asked rows: what it names, and what will still report.       *)

\* The paths queue_row leaves queued, and the ones it gives up.
LEMMA QueuedPaths ==
  ASSUME TypeOK, NEW row \in DOMAIN listing, QueueRow(row)
  PROVE  /\ JobPaths(queue') \cup JobPaths(SubSeq(queue, 1, Overflow))
              = JobPaths(queue) \cup {listing[row]}
                  \cup JobPaths(SubSeq(queue, 1, Overflow))
         /\ JobPaths(SubSeq(queue, 1, Overflow)) \subseteq Media
<1> DEFINE front == SubSeq(queue, 1, Overflow)
           back  == SubSeq(queue, Overflow + 1, Len(queue))
           job   == [path |-> listing[row], gen |-> gen]
<1>1. queue \in Seq(Job) /\ Overflow \in 0..Len(queue)
  BY OverflowFits DEF TypeOK
<1>2. /\ front \in Seq(Job) /\ back \in Seq(Job)
      /\ JobPaths(queue) = JobPaths(front) \cup JobPaths(back)
  BY <1>1, CutPaths
<1>3. job \in Job /\ job.path = listing[row]
  BY DEF TypeOK, QueueRow, Job
<1>4. JobPaths(queue') = JobPaths(back) \cup {listing[row]}
  <2>1. queue' = Append(back, job)  BY DEF QueueRow
  <2>2. JobPaths(Append(back, job)) = JobPaths(back) \cup {job.path}
    BY <1>2, <1>3, AppendPaths
  <2>3. QED  BY <2>1, <2>2, <1>3
<1>5. JobPaths(front) \subseteq Media  BY <1>2, PathsAreMedia
<1>6. QED  BY <1>2, <1>4, <1>5

\* Every mapped path has a job that will still report.
THEOREM NoRowIsStranded == Spec => []AskedHasJob
<1>1. Init => AskedHasJob
  BY DEF Init, AskedHasJob
<1>2. TypeOK /\ AskedHasJob /\ [Next]_vars => AskedHasJob'
  <2> SUFFICES ASSUME TypeOK, AskedHasJob, [Next]_vars, NEW p \in Media,
                      asked'[p] # NoRow
               PROVE  \/ p \in JobPaths(queue')
                      \/ \E w \in Busy' : running'[w].path = p
                      \/ p \in JobPaths(done')
    BY DEF AskedHasJob
  <2> DEFINE Goal == \/ p \in JobPaths(queue')
                     \/ \E w \in Busy' : running'[w].path = p
                     \/ p \in JobPaths(done')
  <2>b. UNCHANGED running => Busy' = Busy  BY DEF Busy
  <2>1. CASE UNCHANGED <<asked, queue, running, done>>
    BY <2>1, <2>b DEF AskedHasJob
  <2>2. CASE asked' = [q \in Media |-> NoRow]
    BY <2>2
  <2>3. ASSUME NEW row \in DOMAIN listing, QueueRow(row) PROVE Goal
    <3> DEFINE dropped == JobPaths(SubSeq(queue, 1, Overflow))
               mapped  == [asked EXCEPT ![listing[row]] = row]
    <3>1. p \notin dropped /\ mapped[p] # NoRow
      BY <2>3 DEF QueueRow, Unmapped
    <3>2. JobPaths(queue') \cup dropped = JobPaths(queue) \cup {listing[row]} \cup dropped
      BY <2>3, QueuedPaths
    <3>3. CASE p = listing[row]
      BY <3>1, <3>2, <3>3
    <3>4. CASE p # listing[row]
      <4>1. asked[p] # NoRow  BY <3>1, <3>4 DEF TypeOK
      <4>2. UNCHANGED <<running, done>>  BY <2>3 DEF QueueRow
      <4> HIDE DEF dropped
      <4>3. QED  BY <3>1, <3>2, <4>1, <4>2, <2>b DEF AskedHasJob
    <3>5. QED  BY <3>3, <3>4
  <2>4. ASSUME NEW path \in Media, CancelPath(path), asked' = Unmapped(asked, {path}),
               UNCHANGED <<running, done>>
        PROVE  Goal
    <3>1. p # path /\ asked[p] # NoRow
      BY <2>4 DEF Unmapped
    <3>2. JobPaths(queue') = JobPaths(queue) \ {path}
      BY <2>4, CancelledQueue
    <3>3. QED  BY <2>4, <2>b, <3>1, <3>2 DEF AskedHasJob
  <2>5. CASE CancelAll
    <3>1. p \notin JobPaths(queue) /\ asked[p] # NoRow
      BY <2>5 DEF CancelAll, Unmapped
    <3>2. QED  BY <2>5, <2>b, <3>1 DEF AskedHasJob, CancelAll
  <2>6. CASE ReportDone
    <3>1. JobPaths(done) = {Head(done).path} \cup JobPaths(done')
      BY <2>6, PopPaths DEF ReportDone, TypeOK
    <3>2. p # Head(done).path /\ asked[p] # NoRow
      BY <2>6 DEF ReportDone, Unmapped
    <3>3. UNCHANGED <<queue, running>>  BY <2>6 DEF ReportDone
    <3>4. QED  BY <2>b, <3>1, <3>2, <3>3 DEF AskedHasJob
  <2>7. ASSUME NEW w \in Workers, WorkerTake(w) PROVE Goal
    <3>1. /\ Head(queue) \in Job
          /\ JobPaths(queue) = {Head(queue).path} \cup JobPaths(Tail(queue))
      BY <2>7, PopPaths DEF WorkerTake, TypeOK
    <3>2. /\ w \in Busy' /\ running'[w] = Head(queue) /\ Busy \subseteq Busy'
          /\ \A v \in Busy : running'[v] = running[v]
      BY <2>7, <3>1, PoolAssumption DEF WorkerTake, Busy, TypeOK
    <3>3. queue' = Tail(queue) /\ UNCHANGED <<asked, done>>
      BY <2>7 DEF WorkerTake
    <3>4. JobPaths(queue') = JobPaths(Tail(queue))  BY <3>3
    <3>5. QED  BY <3>1, <3>2, <3>3, <3>4 DEF AskedHasJob
  <2>8. ASSUME NEW w \in Workers, WorkerFinish(w) PROVE Goal
    <3>1. running[w] \in Job  BY <2>8 DEF WorkerFinish, TypeOK
    <3>2. JobPaths(done') = JobPaths(done) \cup {running[w].path}
      BY <2>8, <3>1, AppendPaths DEF WorkerFinish, TypeOK
    <3>3. \A v \in Busy \ {w} : v \in Busy' /\ running'[v] = running[v]
      BY <2>8 DEF WorkerFinish, Busy, TypeOK
    <3>4. UNCHANGED <<asked, queue>>  BY <2>8 DEF WorkerFinish
    <3>5. QED  BY <3>2, <3>3, <3>4 DEF AskedHasJob
  <2>9. CASE Client
    <3>1. CASE \E l \in Listings : Relist(l)
      BY <2>2, <3>1 DEF Relist, ForgetRows
    <3>2. CASE \E e \in Media \cup Plain : SearchMatch(e)
      BY <2>1, <3>2 DEF SearchMatch
    <3>3. CASE \E row \in DOMAIN listing : Thumb(row)
      BY <2>1, <2>3, <3>3 DEF Thumb, AnswerNow, AlreadyAsked
    <3>4. CASE \E row \in waiting : CancelRow(row)
      BY <2>1, <2>4, <3>4 DEF CancelRow
    <3>5. CASE CancelAll  BY <2>5, <3>5
    <3>6. CASE Quit  BY <2>1, <3>6 DEF Quit
    <3>7. QED  BY <2>9, <3>1, <3>2, <3>3, <3>4, <3>5, <3>6 DEF Client
  <2>10. CASE Drain
    BY <2>2, <2>10 DEF Drain, DrainDone, DrainDeadline, Close
  <2>11. CASE UNCHANGED vars
    BY <2>1, <2>11 DEF vars
  <2>12. QED  BY <2>6, <2>7, <2>8, <2>9, <2>10, <2>11 DEF Next, Worker
<1>3. QED  BY <1>1, <1>2, TypeCorrect, PTL DEF Spec

\* A drain that sees nothing outstanding has nothing left behind it: the
\* count being exact and the map having its jobs, no path is still mapped.
THEOREM DrainLeavesNothing == Spec => []DrainComplete
<1>1. TypeOK /\ OutstandingExact /\ AskedHasJob => DrainComplete
  <2> SUFFICES ASSUME TypeOK, OutstandingExact, AskedHasJob,
                      phase = "draining", outstanding = 0
               PROVE  /\ queue = <<>> /\ Busy = {} /\ done = <<>>
                      /\ \A p \in Media : asked[p] = NoRow
    BY DEF DrainComplete
  <2>1. Len(queue) \in Nat /\ Len(done) \in Nat
    BY LenProperties DEF TypeOK
  <2>2. Len(queue) = 0 /\ Cardinality(Busy) = 0 /\ Len(done) = 0
    BY <2>1, BusyFinite DEF OutstandingExact
  <2>3. queue = <<>> /\ done = <<>>
    BY <2>2, EmptySeq DEF TypeOK
  <2>4. Busy = {}  BY <2>2, BusyFinite, FS_EmptySet
  <2>5. JobPaths(queue) = {} /\ JobPaths(done) = {}
    BY <2>3 DEF JobPaths
  <2>6. QED  BY <2>3, <2>4, <2>5 DEF AskedHasJob
<1>2. QED  BY <1>1, TypeCorrect, CountIsExact, NoRowIsStranded, PTL

-----------------------------------------------------------------------------
(* Rows: what the map and the answers name.                                *)

\* A listing that only grows keeps every row it had.
LEMMA GrownListing ==
  ASSUME NEW l \in Seq(Media \cup Plain), NEW e \in Media \cup Plain
  PROVE  \A i \in DOMAIN l : i \in DOMAIN Append(l, e) /\ Append(l, e)[i] = l[i]
<1>1. /\ Append(l, e) \in Seq(Media \cup Plain)
      /\ Len(Append(l, e)) = Len(l) + 1
      /\ \A i \in 1..Len(l) : Append(l, e)[i] = l[i]
  BY AppendProperties
<1>2. DOMAIN l = 1..Len(l) /\ Len(l) \in Nat /\ DOMAIN Append(l, e) = 1..(Len(l) + 1)
  BY <1>1, LenProperties
<1>3. QED  BY <1>1, <1>2

LEMMA RowZero ==
  ASSUME TypeOK PROVE \A r \in DOMAIN listing : r # NoRow
<1>1. listing \in Seq(Media \cup Plain)  BY TypedListing
<1>2. DOMAIN listing = 1..Len(listing) /\ Len(listing) \in Nat
  BY <1>1, LenProperties
<1>3. QED  BY <1>2 DEF NoRow

\* No handler leaves an index of an old row order in the map.
THEOREM MapNamesListing == Spec => []AskedNamesListing
<1>1. Init => AskedNamesListing
  BY DEF Init, AskedNamesListing
<1>2. TypeOK /\ AskedNamesListing /\ [Next]_vars => AskedNamesListing'
  <2> SUFFICES ASSUME TypeOK, AskedNamesListing, [Next]_vars, NEW p \in Media,
                      asked'[p] # NoRow
               PROVE  asked'[p] \in DOMAIN listing' /\ listing'[asked'[p]] = p
    BY DEF AskedNamesListing
  <2> DEFINE Goal == asked'[p] \in DOMAIN listing' /\ listing'[asked'[p]] = p
  <2>1. ASSUME asked'[p] = asked[p], listing' = listing PROVE Goal
    BY <2>1 DEF AskedNamesListing
  <2>2. ASSUME NEW ps, asked' = Unmapped(asked, ps), listing' = listing PROVE Goal
    <3>1. asked'[p] = asked[p]  BY <2>2 DEF Unmapped
    <3>2. QED  BY <2>1, <2>2, <3>1
  <2>3. CASE asked' = [q \in Media |-> NoRow]
    BY <2>3
  <2>4. ASSUME NEW e \in Media \cup Plain, SearchMatch(e) PROVE Goal
    <3>1. listing \in Seq(Media \cup Plain)  BY TypedListing
    <3>2. asked' = asked /\ listing' = Append(listing, e)
      BY <2>4 DEF SearchMatch
    <3>3. asked[p] \in DOMAIN listing /\ listing[asked[p]] = p
      BY <3>2 DEF AskedNamesListing
    <3>4. QED  BY <2>4, <3>1, <3>2, <3>3, GrownListing
  <2>5. ASSUME NEW row \in DOMAIN listing, QueueRow(row) PROVE Goal
    <3> DEFINE mapped == [asked EXCEPT ![listing[row]] = row]
    <3>1. asked'[p] = mapped[p] /\ listing' = listing
      BY <2>5 DEF QueueRow, Unmapped
    <3>2. CASE p = listing[row]  BY <2>5, <3>1, <3>2 DEF TypeOK
    <3>3. CASE p # listing[row]
      <4>1. asked'[p] = asked[p]  BY <3>1, <3>3 DEF TypeOK
      <4>2. QED  BY <2>1, <3>1, <4>1
    <3>4. QED  BY <3>2, <3>3
  <2>6. CASE Client
    <3>1. CASE \E l \in Listings : Relist(l)
      BY <2>3, <3>1 DEF Relist, ForgetRows
    <3>2. CASE \E e \in Media \cup Plain : SearchMatch(e)
      BY <2>4, <3>2
    <3>3. CASE \E row \in DOMAIN listing : Thumb(row)
      BY <2>1, <2>5, <3>3 DEF Thumb, AnswerNow, AlreadyAsked
    <3>4. CASE \E row \in waiting : CancelRow(row)
      BY <2>1, <2>2, <3>4 DEF CancelRow
    <3>5. CASE CancelAll  BY <2>2, <3>5 DEF CancelAll
    <3>6. CASE Quit  BY <2>1, <3>6 DEF Quit
    <3>7. QED  BY <2>6, <3>1, <3>2, <3>3, <3>4, <3>5, <3>6 DEF Client
  <2>7. CASE ReportDone
    BY <2>2, <2>7 DEF ReportDone
  <2>8. CASE \E w \in Workers : Worker(w)
    BY <2>1, <2>8 DEF Worker, WorkerTake, WorkerFinish
  <2>9. CASE Drain
    BY <2>3, <2>9 DEF Drain, DrainDone, DrainDeadline, Close
  <2>10. CASE UNCHANGED vars
    BY <2>1, <2>10 DEF vars
  <2>11. QED  BY <2>6, <2>7, <2>8, <2>9, <2>10 DEF Next
<1>3. QED  BY <1>1, <1>2, TypeCorrect, PTL DEF Spec

\* The line a step writes names a row that shows the job's own path.
THEOREM AnswersAreForTheirRow == Spec => []AnswersNameTheirRow
<1>1. Init => AnswersNameTheirRow
  BY DEF Init, AnswersNameTheirRow
<1>2. TypeOK /\ AskedNamesListing /\ AnswersNameTheirRow /\ [Next]_vars
        => AnswersNameTheirRow'
  <2> SUFFICES ASSUME TypeOK, AskedNamesListing, AnswersNameTheirRow, [Next]_vars
               PROVE  AnswersNameTheirRow'
    OBVIOUS
  <2>1. CASE out' = {}
    BY <2>1 DEF AnswersNameTheirRow
  <2>2. ASSUME NEW row \in DOMAIN listing, AnswerNow(row) PROVE AnswersNameTheirRow'
    BY <2>2 DEF AnswerNow, AnswersNameTheirRow, Line
  <2>3. ASSUME NEW row \in DOMAIN listing, QueueRow(row) PROVE AnswersNameTheirRow'
    <3> DEFINE dropped == JobPaths(SubSeq(queue, 1, Overflow))
               mapped  == [asked EXCEPT ![listing[row]] = row]
    <3>1. dropped \subseteq Media  BY <2>3, QueuedPaths
    <3>2. /\ out' = LinesFor(mapped, dropped, gen)
          /\ listing' = listing
      BY <2>3 DEF QueueRow
    <3>3. \A p \in Media : mapped[p] # NoRow =>
            mapped[p] \in DOMAIN listing /\ listing[mapped[p]] = p
      BY DEF AskedNamesListing, TypeOK
    <3> HIDE DEF dropped, mapped
    <3>4. QED  BY <3>1, <3>2, <3>3 DEF AnswersNameTheirRow, LinesFor, Line
  <2>4. CASE ReportDone
    <3>1. Head(done).path \in Media
      BY <2>4, PopPaths DEF ReportDone, TypeOK, Job
    <3>2. QED  BY <2>4, <3>1 DEF ReportDone, AnswersNameTheirRow, AskedNamesListing, Line
  <2>5. CASE Close
    BY <2>5 DEF Close, AnswersNameTheirRow, AskedNamesListing, LinesFor, Line
  <2>6. CASE Client
    <3>1. CASE \E l \in Listings : Relist(l)  BY <2>1, <3>1 DEF Relist
    <3>2. CASE \E e \in Media \cup Plain : SearchMatch(e)  BY <2>1, <3>2 DEF SearchMatch
    <3>3. CASE \E row \in DOMAIN listing : Thumb(row)
      BY <2>1, <2>2, <2>3, <3>3 DEF Thumb, AlreadyAsked
    <3>4. CASE \E row \in waiting : CancelRow(row)  BY <2>1, <3>4 DEF CancelRow
    <3>5. CASE CancelAll \/ Quit  BY <2>1, <3>5 DEF CancelAll, Quit
    <3>6. QED  BY <2>6, <3>1, <3>2, <3>3, <3>4, <3>5 DEF Client
  <2>7. CASE \E w \in Workers : Worker(w)
    BY <2>1, <2>7 DEF Worker, WorkerTake, WorkerFinish
  <2>8. CASE UNCHANGED vars
    BY <2>8 DEF vars, AnswersNameTheirRow
  <2>9. QED  BY <2>4, <2>5, <2>6, <2>7, <2>8 DEF Next, Drain, DrainDone, DrainDeadline
<1>3. QED  BY <1>1, <1>2, TypeCorrect, MapNamesListing, PTL DEF Spec

-----------------------------------------------------------------------------
(* The client's side of the map.                                           *)

\* WaitingIsAsked, with the range of waiting it needs to be inductive.
WaitInv ==
  \A r \in waiting :
    r \in DOMAIN listing /\ listing[r] \in Media /\ asked[listing[r]] = r

\* When no listing names a path twice, a row the client waits on is mapped,
\* so (NoRowIsStranded) a job is on its way to answer it.
THEOREM NoRowIsForgotten == Distinct => (Spec => []WaitingIsAsked)
<1> SUFFICES ASSUME Distinct PROVE Spec => []WaitingIsAsked
  OBVIOUS
<1>1. Init => WaitInv
  BY DEF Init, WaitInv
<1>2. TypeOK /\ AskedNamesListing /\ WaitInv /\ [Next]_vars => WaitInv'
  <2> SUFFICES ASSUME TypeOK, AskedNamesListing, WaitInv, [Next]_vars
               PROVE  WaitInv'
    OBVIOUS
  <2>1. ASSUME waiting' \subseteq waiting, UNCHANGED <<listing, asked>> PROVE WaitInv'
    BY <2>1 DEF WaitInv
  <2>2. CASE waiting' = {}
    BY <2>2 DEF WaitInv
  <2>3. ASSUME NEW e \in Media \cup Plain, SearchMatch(e) PROVE WaitInv'
    <3>1. listing \in Seq(Media \cup Plain)  BY TypedListing
    <3>2. UNCHANGED <<asked, waiting>> /\ listing' = Append(listing, e)
      BY <2>3 DEF SearchMatch
    <3>3. QED  BY <3>1, <3>2, GrownListing DEF WaitInv
  <2>4. ASSUME NEW row \in DOMAIN listing, QueueRow(row) PROVE WaitInv'
    <3> DEFINE dropped == JobPaths(SubSeq(queue, 1, Overflow))
               mapped  == [asked EXCEPT ![listing[row]] = row]
               lines   == LinesFor(mapped, dropped, gen)
    <3>1. /\ listing' = listing /\ asked' = Unmapped(mapped, dropped)
          /\ waiting' = (waiting \cup {row}) \ RowsOf(lines)
          /\ listing[row] \in Media
      BY <2>4 DEF QueueRow
    <3>2. \A p \in dropped : mapped[p] # NoRow => mapped[p] \in RowsOf(lines)
      BY RowsOfLines, ZenonT(60)
    <3> HIDE DEF dropped, lines
    <3>3. ASSUME NEW r \in waiting'
          PROVE  r \in DOMAIN listing /\ listing[r] \in Media /\ asked'[listing[r]] = r
      <4>1. r \in DOMAIN listing /\ listing[r] \in Media /\ mapped[listing[r]] = r
        <5>1. CASE r = row  BY <3>1, <5>1 DEF TypeOK
        <5>2. CASE r # row
          <6>1. r \in DOMAIN listing /\ listing[r] \in Media /\ asked[listing[r]] = r
            BY <3>1, <3>3, <5>2 DEF WaitInv
          <6>2. listing[r] # listing[row]
            BY <6>1, <5>2 DEF Distinct, TypeOK
          <6>3. QED  BY <6>1, <6>2 DEF TypeOK
        <5>3. QED  BY <5>1, <5>2
      <4>2. r # NoRow  BY <4>1, RowZero
      <4>3. listing[r] \notin dropped  BY <3>1, <3>2, <3>3, <4>1, <4>2
      <4>4. QED  BY <3>1, <4>1, <4>3 DEF Unmapped
    <3>4. QED  BY <3>1, <3>3 DEF WaitInv
  <2>5. ASSUME NEW row \in DOMAIN listing, AlreadyAsked(row) PROVE WaitInv'
    <3>1. /\ UNCHANGED <<listing, asked>> /\ waiting' = waiting \cup {row}
          /\ listing[row] \in Media /\ asked[listing[row]] # NoRow
      BY <2>5 DEF AlreadyAsked
    <3>2. asked[listing[row]] \in DOMAIN listing
          /\ listing[asked[listing[row]]] = listing[row]
      BY <3>1 DEF AskedNamesListing
    <3>3. asked[listing[row]] = row
      BY <3>2 DEF Distinct, TypeOK
    <3>4. QED  BY <3>1, <3>3 DEF WaitInv
  <2>6. ASSUME NEW row \in waiting, CancelRow(row) PROVE WaitInv'
    <3>1. waiting' = waiting \ {row} /\ listing' = listing
      BY <2>6 DEF CancelRow
    <3>2. CASE asked' = asked  BY <2>1, <3>1, <3>2
    <3>3. ASSUME NEW path \in Media, asked[path] = row, asked' = Unmapped(asked, {path})
          PROVE  WaitInv'
      BY <3>1, <3>3 DEF WaitInv, Unmapped
    <3>4. QED  BY <2>6, <3>2, <3>3 DEF CancelRow
  <2>7. CASE ReportDone
    <3> DEFINE d == Head(done)
    <3>1. d.path \in Media
      BY <2>7, PopPaths DEF ReportDone, TypeOK, Job
    <3>2. CASE asked[d.path] = NoRow
      <4>1. \A q \in Media : asked'[q] = asked[q]
        BY <2>7, <3>2 DEF ReportDone, Unmapped
      <4>2. waiting' \subseteq waiting /\ listing' = listing
        BY <2>7 DEF ReportDone
      <4>3. QED  BY <4>1, <4>2 DEF WaitInv
    <3>3. CASE asked[d.path] # NoRow
      <4>1. waiting' = waiting \ {asked[d.path]} /\ listing' = listing
        BY <2>7, <3>3 DEF ReportDone, RowsOf, Line
      <4>2. \A q \in Media \ {d.path} : asked'[q] = asked[q]
        BY <2>7 DEF ReportDone, Unmapped
      <4>3. QED  BY <4>1, <4>2 DEF WaitInv
    <3>4. QED  BY <3>2, <3>3
  <2>8. CASE Close
    <3>1. waiting' = waiting \ RowsOf(out')
      BY <2>8 DEF Close
    <3>2. \A p \in Media : asked[p] # NoRow => asked[p] \in RowsOf(out')
      BY <2>8, RowsOfLines DEF Close
    <3>3. \A r \in waiting : r \in RowsOf(out')
      BY <3>2, RowZero DEF WaitInv
    <3>4. QED  BY <2>2, <3>1, <3>3
  <2>9. CASE Client
    <3>1. CASE \E l \in Listings : Relist(l)  BY <2>2, <3>1 DEF Relist
    <3>2. CASE \E e \in Media \cup Plain : SearchMatch(e)  BY <2>3, <3>2
    <3>3. CASE \E row \in DOMAIN listing : Thumb(row)
      BY <2>1, <2>4, <2>5, <3>3 DEF Thumb, AnswerNow
    <3>4. CASE \E row \in waiting : CancelRow(row)  BY <2>6, <3>4
    <3>5. CASE CancelAll  BY <2>2, <3>5 DEF CancelAll
    <3>6. CASE Quit  BY <2>1, <3>6 DEF Quit
    <3>7. QED  BY <2>9, <3>1, <3>2, <3>3, <3>4, <3>5, <3>6 DEF Client
  <2>10. CASE \E w \in Workers : Worker(w)
    BY <2>1, <2>10 DEF Worker, WorkerTake, WorkerFinish
  <2>11. CASE UNCHANGED vars
    BY <2>1, <2>11 DEF vars
  <2>12. QED
    BY <2>7, <2>8, <2>9, <2>10, <2>11 DEF Next, Drain, DrainDone, DrainDeadline
<1>3. WaitInv => WaitingIsAsked
  BY DEF WaitInv, WaitingIsAsked
<1>4. QED  BY <1>1, <1>2, <1>3, TypeCorrect, MapNamesListing, PTL DEF Spec

-----------------------------------------------------------------------------
(* The pool implements what a client of thumb is promised.                 *)

OpenRows == {asked[p] : p \in {q \in Media : asked[q] # NoRow}}

\* Every step of the pool, the workers and the drain is a step of
\* RowPromise, or none at all, when the mapped rows are read as open.
THEOREM PoolKeepsPromise == Spec => KeepsPromise
<1> DEFINE rows == UNION {DOMAIN l : l \in Listings}
<1>1. Init => Promise!Init
  BY DEF Init, Promise!Init, RowsOf
<1>2. TypeOK /\ AskedNamesListing /\ [Next]_vars => [Promise!Next]_(Promise!vars)
  <2> SUFFICES ASSUME TypeOK, AskedNamesListing, [Next]_vars
               PROVE  Promise!Next \/ UNCHANGED Promise!vars
    OBVIOUS
  <2> USE DEF OpenRows
  <2>0. \A row \in DOMAIN listing : row \in rows
    BY DEF TypeOK
  <2>t. Promise!Withdraw =>  Promise!Next
    BY DEF Promise!Next
  <2>w. ASSUME phase # "closed", phase' # "closed", out' = {},
               OpenRows' \subseteq OpenRows
        PROVE  Promise!Next
    <3>1. OpenRows' = OpenRows \ (OpenRows \ OpenRows')  BY <2>w
    <3>2. OpenRows \ OpenRows' \in SUBSET OpenRows  OBVIOUS
    <3>3. RowsOf(out') = {}  BY <2>w DEF RowsOf
    <3>4. Promise!Withdraw
      BY <2>w, <3>1, <3>2, <3>3 DEF Promise!Withdraw
    <3>5. QED  BY <3>4, <2>t
  <2>u. ASSUME NEW ps, asked' = Unmapped(asked, ps) PROVE OpenRows' \subseteq OpenRows
    BY <2>u DEF Unmapped
  <2>1. ASSUME NEW row \in DOMAIN listing, AnswerNow(row) PROVE Promise!Next
    <3>1. Promise!TellAtOnce(row)
      BY <2>1 DEF AnswerNow, Promise!TellAtOnce, RowsOf, Line
    <3>2. QED  BY <2>0, <3>1 DEF Promise!Next
  <2>2. ASSUME NEW row \in DOMAIN listing, QueueRow(row) PROVE Promise!Next
    <3> DEFINE dropped == JobPaths(SubSeq(queue, 1, Overflow))
               path    == listing[row]
               mapped  == [asked EXCEPT ![path] = row]
               given   == {mapped[p] : p \in {d \in dropped : mapped[d] # NoRow}}
    <3>1. /\ asked' = Unmapped(mapped, dropped)
          /\ out' = LinesFor(mapped, dropped, gen)
          /\ phase' = phase /\ phase = "serving" /\ path \in Media
          /\ asked[path] = NoRow
      BY <2>2 DEF QueueRow
    <3>2. dropped \subseteq Media  BY <2>2, QueuedPaths
    <3>3. RowsOf(out') = given
      BY <3>1, RowsOfLines
    <3>4. row # NoRow  BY RowZero
    <3>5. \A p \in Media : mapped[p] = IF p = path THEN row ELSE asked[p]
      BY DEF TypeOK
    <3> HIDE DEF mapped, dropped
    <3>6. {mapped[p] : p \in {q \in Media : mapped[q] # NoRow}} = OpenRows \cup {row}
      BY <3>1, <3>4, <3>5
    <3>7. \A p, q \in Media : mapped[p] # NoRow /\ mapped[p] = mapped[q] => p = q
      BY <3>5 DEF AskedNamesListing
    <3>8. given \in SUBSET (OpenRows \cup {row})
      BY <3>2, <3>6
    <3>9. OpenRows' = (OpenRows \cup {row}) \ given
      <4>1. \A p \in Media : asked'[p] = IF p \in dropped THEN NoRow ELSE mapped[p]
        BY <3>1 DEF Unmapped
      <4>2. ASSUME NEW x \in OpenRows' PROVE x \in (OpenRows \cup {row}) \ given
        <5>1. PICK p \in Media : asked'[p] # NoRow /\ x = asked'[p]
          OBVIOUS
        <5>2. p \notin dropped /\ x = mapped[p] /\ mapped[p] # NoRow
          BY <4>1, <5>1
        <5>3. x \notin given  BY <3>2, <3>7, <5>2
        <5>4. QED  BY <3>6, <5>2, <5>3
      <4>3. ASSUME NEW x \in (OpenRows \cup {row}) \ given PROVE x \in OpenRows'
        <5>1. PICK p \in Media : mapped[p] # NoRow /\ x = mapped[p]
          BY <3>6, <4>3
        <5>2. p \notin dropped  BY <4>3, <5>1
        <5>3. asked'[p] = x /\ asked'[p] # NoRow  BY <4>1, <5>1, <5>2
        <5>4. QED  BY <5>3
      <4>4. QED  BY <4>2, <4>3
    <3>10. Promise!Ask(row)
      BY <3>1, <3>3, <3>8, <3>9 DEF Promise!Ask
    <3>11. QED  BY <2>0, <3>10 DEF Promise!Next
  <2>3. CASE ReportDone
    <3> DEFINE d == Head(done)
               r == asked[d.path]
    <3>1. d.path \in Media
      BY <2>3, PopPaths DEF ReportDone, TypeOK, Job
    <3>2. /\ phase # "closed" /\ phase' # "closed"
          /\ asked' = Unmapped(asked, {d.path})
          /\ out' = IF r = NoRow THEN {} ELSE {Line(r, d.path, d.gen)}
      BY <2>3 DEF ReportDone
    <3> HIDE DEF d
    <3>3. CASE r = NoRow
      BY <2>u, <2>w, <3>2, <3>3
    <3>4. CASE r # NoRow
      <4>1. r \in OpenRows  BY <3>1, <3>4
      <4>2. \A p \in Media : asked[p] = r => p = d.path
        BY <3>1, <3>4 DEF AskedNamesListing
      <4>3. \A p \in Media : asked'[p] = IF p = d.path THEN NoRow ELSE asked[p]
        BY <3>2 DEF Unmapped
      <4>4. OpenRows' = OpenRows \ {r}
        BY <3>4, <4>2, <4>3
      <4>5. RowsOf(out') = {r}
        BY <3>2, <3>4 DEF RowsOf, Line
      <4>6. r \in rows
        BY <2>0, <3>1, <3>4 DEF AskedNamesListing
      <4>7. PICK row \in rows : row = r  BY <4>6
      <4>8. Promise!Settle(row)
        BY <3>2, <4>1, <4>4, <4>5, <4>7 DEF Promise!Settle
      <4>9. QED  BY <4>8 DEF Promise!Next
    <3>5. QED  BY <3>3, <3>4
  <2>4. CASE Drain
    <3>1. phase # "closed" /\ phase' = "closed"
      BY <2>4 DEF Drain, DrainDone, DrainDeadline, Close
    <3>2. OpenRows' = {}
      BY <2>4 DEF Drain, DrainDone, DrainDeadline, Close
    <3>3. RowsOf(out') = OpenRows
      BY <2>4, RowsOfLines DEF Drain, DrainDone, DrainDeadline, Close
    <3>4. Promise!Close
      BY <3>1, <3>2, <3>3 DEF Promise!Close
    <3>5. QED  BY <3>4 DEF Promise!Next
  <2>5. CASE Client
    <3>1. CASE \E l \in Listings : Relist(l)
      BY <2>w, <3>1 DEF Relist, ForgetRows
    <3>2. CASE \E e \in Media \cup Plain : SearchMatch(e)
      BY <2>w, <3>2 DEF SearchMatch
    <3>3. CASE \E row \in DOMAIN listing : Thumb(row)
      BY <2>w, <2>1, <2>2, <3>3 DEF Thumb, AlreadyAsked
    <3>4. CASE \E row \in waiting : CancelRow(row)
      BY <2>u, <2>w, <3>4 DEF CancelRow
    <3>5. CASE CancelAll
      BY <2>u, <2>w, <3>5 DEF CancelAll
    <3>6. CASE Quit
      BY <2>w, <3>6 DEF Quit
    <3>7. QED  BY <2>5, <3>1, <3>2, <3>3, <3>4, <3>5, <3>6 DEF Client
  <2>6. CASE \E w \in Workers : Worker(w)
    BY <2>w, <2>6 DEF Worker, WorkerTake, WorkerFinish
  <2>7. CASE UNCHANGED vars
    BY <2>7 DEF vars, Promise!vars
  <2>8. QED  BY <2>3, <2>4, <2>5, <2>6, <2>7 DEF Next
<1>3. QED
  BY <1>1, <1>2, TypeCorrect, MapNamesListing, PTL DEF Spec, KeepsPromise, Promise!Spec

=============================================================================
