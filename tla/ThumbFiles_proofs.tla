-------------------------- MODULE ThumbFiles_proofs --------------------------
(***************************************************************************)
(* What is proved of the shared thumbnail cache, whatever the files, the   *)
(* workers and the processes are.                                          *)
(*                                                                         *)
(* Temporaries: one is removed by the step that takes its worker out of    *)
(* the part of the job that knows of it; each step is shown to disturb its *)
(* own worker's temporaries only.                                          *)
(*                                                                         *)
(* Entries: no two paths have one key (the key can be read back, byte by   *)
(* byte), a stamped PNG carries each stamp once and shows what it showed,  *)
(* and every picture and every verdict, in a job or in the cache, is of    *)
(* the file whose time it carries or of one that is gone for good.         *)
(*                                                                         *)
(* Thumbnailers: reading one file, sorting a directory, putting the        *)
(* directories one after the other and filling the table are each shown by *)
(* induction to come to what the property says in one sentence.            *)
(***************************************************************************)
EXTENDS ThumbFiles, FiniteSetTheorems, WellFoundedInduction, TLAPS

Holding == {"child", "discard", "stamp", "publish", "mark", "marking"}

Types ==
  /\ temps \subseteq Workers \X {"large", "fail"}
  /\ DOMAIN job = Workers
  /\ \A w \in Workers : "pc" \in DOMAIN job[w]

IInv == Types /\ TempsAreHeld

-----------------------------------------------------------------------------
\* The steps that end a job, and those that only move it on.
LEMMA GoesIs ==
  ASSUME Types, NEW w \in Workers, NEW pc, Goes(w, pc)
  PROVE  /\ job'[w].pc = pc
         /\ \A v \in Workers : v # w => job'[v] = job[v]
         /\ DOMAIN job' = Workers
         /\ \A v \in Workers : "pc" \in DOMAIN job'[v]
  BY DEF Types, Goes

LEMMA EndsIs ==
  ASSUME Types, NEW w \in Workers, Ends(w)
  PROVE  /\ job'[w].pc = "idle"
         /\ \A v \in Workers : v # w => job'[v] = job[v]
         /\ DOMAIN job' = Workers
         /\ \A v \in Workers : "pc" \in DOMAIN job'[v]
  BY DEF Types, Ends, Idle

LEMMA DiscardIs ==
  ASSUME Types, NEW w \in Workers, Discard(w)
  PROVE  /\ temps' \subseteq temps
         /\ \A t \in temps' : t[1] = w => t[2] = "fail"
  BY DEF Types, Discard

\* An ended job leaves nothing when it held no marker's temporary and its own
\* was discarded.
LEMMA EndedLeavesNothing ==
  ASSUME IInv, NEW w \in Workers, job[w].pc # "marking", Discard(w), Ends(w)
  PROVE  IInv'
<1>1. temps' \subseteq temps /\ \A t \in temps' : t[1] = w => t[2] = "fail"
  BY DiscardIs DEF IInv
<1>2. \A t \in temps' : t[1] # w
  BY <1>1 DEF IInv, Types, TempsAreHeld
<1>3. QED  BY <1>1, <1>2, EndsIs DEF IInv, Types, TempsAreHeld

\* A job that moves on inside the part that knows its temporary keeps it.
LEMMA MovingOnHolds ==
  ASSUME IInv, NEW w \in Workers, NEW pc \in Holding, Goes(w, pc),
         job[w].pc # "marking", UNCHANGED temps
  PROVE  IInv'
<1>1. \A t \in temps : t[1] = w => t[2] = "large"
  BY DEF IInv, Types, TempsAreHeld
<1>2. QED  BY <1>1, GoesIs DEF IInv, Types, TempsAreHeld, Holding

LEMMA InitHolds == Init => IInv
  BY DEF Init, IInv, Types, TempsAreHeld, Idle

LEMMA AskKeeps ==
  ASSUME IInv, NEW w \in Workers, NEW path \in Paths, Ask(w, path)
  PROVE  IInv'
<1>1. \A t \in temps : t[1] # w
  BY DEF IInv, Types, TempsAreHeld, Ask, Idle
<1>2. /\ \A v \in Workers : v # w => job'[v] = job[v]
      /\ DOMAIN job' = Workers
      /\ \A v \in Workers : "pc" \in DOMAIN job'[v]
  BY DEF IInv, Types, Ask
<1>3. temps' = temps  BY DEF Ask
<1>4. QED  BY <1>1, <1>2, <1>3 DEF IInv, Types, TempsAreHeld

LEMMA PrepareKeeps ==
  ASSUME IInv, NEW w \in Workers, Prepare(w)
  PROVE  IInv'
<1>1. job[w].pc = "temp"  BY DEF Prepare, At
<1>2. CASE Goes(w, "child") /\ temps' = temps \cup {<<w, "large">>}
  <2>1. \A t \in temps : t[1] # w  BY <1>1 DEF IInv, Types, TempsAreHeld
  <2>2. QED  BY <1>2, <2>1, GoesIs DEF IInv, Types, TempsAreHeld
<1>3. CASE Discard(w) /\ Ends(w)  BY <1>1, <1>3, EndedLeavesNothing
<1>4. QED  BY <1>2, <1>3 DEF Prepare

LEMMA RunChildKeeps ==
  ASSUME IInv, NEW w \in Workers, RunChild(w)
  PROVE  IInv'
<1>1. job[w].pc = "child" /\ temps' = temps  BY DEF RunChild, At
<1>2. PICK o \in Outcomes(job[w].path) :
        job' = [job EXCEPT ![w].pc = Verdict(w, o), ![w].png = o.png]
  BY DEF RunChild
<1>3. Verdict(w, o) \in Holding  BY DEF Verdict, Holding
<1>4. /\ job'[w].pc = Verdict(w, o)
      /\ \A v \in Workers : v # w => job'[v] = job[v]
      /\ DOMAIN job' = Workers
      /\ \A v \in Workers : "pc" \in DOMAIN job'[v]
  BY <1>2 DEF IInv, Types
<1>5. \A t \in temps : t[1] = w => t[2] = "large"
  BY <1>1 DEF IInv, Types, TempsAreHeld
<1>6. QED  BY <1>1, <1>3, <1>4, <1>5 DEF IInv, Types, TempsAreHeld, Holding

LEMMA GiveUpKeeps ==
  ASSUME IInv, NEW w \in Workers, GiveUp(w)
  PROVE  IInv'
  BY EndedLeavesNothing DEF GiveUp, At

LEMMA StampKeeps ==
  ASSUME IInv, NEW w \in Workers, Stamp(w)
  PROVE  IInv'
<1>1. job[w].pc = "stamp"  BY DEF Stamp, At
<1>2. CASE /\ job' = [job EXCEPT ![w].pc = "publish",
                                 ![w].png = Stamped(@, Uri(w), StampTime(w))]
           /\ UNCHANGED temps
  <2>1. /\ job'[w].pc = "publish"
        /\ \A v \in Workers : v # w => job'[v] = job[v]
        /\ DOMAIN job' = Workers
        /\ \A v \in Workers : "pc" \in DOMAIN job'[v]
    BY <1>2 DEF IInv, Types
  <2>2. \A t \in temps : t[1] = w => t[2] = "large"
    BY <1>1 DEF IInv, Types, TempsAreHeld
  <2>3. QED  BY <1>2, <2>1, <2>2 DEF IInv, Types, TempsAreHeld
<1>3. CASE Discard(w) /\ Ends(w)  BY <1>1, <1>3, EndedLeavesNothing
<1>4. QED  BY <1>2, <1>3 DEF Stamp

LEMMA PublishKeeps ==
  ASSUME IInv, NEW w \in Workers, Publish(w)
  PROVE  IInv'
  BY EndedLeavesNothing DEF Publish, At

LEMMA MarkTempKeeps ==
  ASSUME IInv, NEW w \in Workers, MarkTemp(w)
  PROVE  IInv'
<1>1. job[w].pc = "mark"  BY DEF MarkTemp, At
<1>2. CASE temps' = temps \cup {<<w, "fail">>} /\ Goes(w, "marking")
  BY <1>2, GoesIs DEF IInv, Types, TempsAreHeld
<1>3. CASE UNCHANGED temps /\ Goes(w, "discard")
  BY <1>1, <1>3, MovingOnHolds DEF Holding
<1>4. QED  BY <1>2, <1>3 DEF MarkTemp

LEMMA MarkKeeps ==
  ASSUME IInv, NEW w \in Workers, Mark(w)
  PROVE  IInv'
<1>1. Goes(w, "discard") /\ temps' = temps \ {<<w, "fail">>}  BY DEF Mark
<1>2. \A t \in temps' : t[1] = w => t[2] = "large"
  BY <1>1 DEF IInv, Types
<1>3. QED  BY <1>1, <1>2, GoesIs DEF IInv, Types, TempsAreHeld

LEMMA WorkKeeps ==
  ASSUME IInv, NEW w \in Workers, Work(w)
  PROVE  IInv'
<1>1. CASE Prepare(w)  BY <1>1, PrepareKeeps
<1>2. CASE RunChild(w)  BY <1>2, RunChildKeeps
<1>3. CASE GiveUp(w)  BY <1>3, GiveUpKeeps
<1>4. CASE Stamp(w)  BY <1>4, StampKeeps
<1>5. CASE Publish(w)  BY <1>5, PublishKeeps
<1>6. CASE MarkTemp(w)  BY <1>6, MarkTempKeeps
<1>7. CASE Mark(w)  BY <1>7, MarkKeeps
<1>8. QED  BY <1>1, <1>2, <1>3, <1>4, <1>5, <1>6, <1>7 DEF Work

\* A process that ends, swept or killed, and what other programs do.
LEMMA OutsideKeeps ==
  ASSUME IInv, \/ \E p \in Procs : Drained(p) \/ Sweep(p) \/ Exit(p)
               \/ \E path \in Paths : Change(path)
               \/ UNCHANGED vars
  PROVE  IInv'
<1>1. temps' \subseteq temps /\ job' = job
  BY DEF Drained, Sweep, Exit, Change, Write, Delete, Others, vars
<1>2. QED  BY <1>1 DEF IInv, Types, TempsAreHeld

LEMMA StepKeeps == IInv /\ [Next]_vars => IInv'
<1> SUFFICES ASSUME IInv, [Next]_vars PROVE IInv'  OBVIOUS
<1>1. CASE \E w \in Workers : (\E path \in Paths : Ask(w, path)) \/ Work(w)
  BY <1>1, AskKeeps, WorkKeeps
<1>2. CASE \/ \E p \in Procs : Drained(p) \/ Sweep(p) \/ Exit(p)
           \/ \E path \in Paths : Change(path)
           \/ UNCHANGED vars
  BY <1>2, OutsideKeeps
<1>3. QED  BY <1>1, <1>2 DEF Next

\* Whatever a job meets, and whenever its process sweeps or is killed, a
\* temporary beside the entries has a worker inside the part of its job that
\* removes or publishes it, and one beside the markers a worker that is making
\* a marker (thumbs.rs run_one, thumbwrite.rs record_failure, discard).
THEOREM NoTempIsForgotten == Spec => []TempsAreHeld
<1>1. IInv => TempsAreHeld  BY DEF IInv
<1>2. QED  BY <1>1, InitHolds, StepKeeps, PTL DEF Spec

-----------------------------------------------------------------------------
(* Sequences. A set of numbers that is not empty has a least one, and that *)
(* is the induction of this module.                                        *)

LEMMA Least ==
  ASSUME NEW T \in SUBSET Nat, T # {}
  PROVE  \E n \in T : \A m \in T : n <= m
<1> DEFINE R == OpToRel(<, Nat)
<1>1. IsWellFoundedOn(R, Nat)  BY NatLessThanWellFounded
<1>2. \A x, y \in Nat : x < y => <<x, y>> \in R  BY DEF OpToRel
<1> HIDE DEF R
<1>3. PICK x \in T : \A y \in T : ~(<<y, x>> \in R)  BY <1>1, WFMin
<1>4. \A y \in T : x <= y
  <2> TAKE y \in T
  <2>1. ~(<<y, x>> \in R)  BY <1>3
  <2>2. y \in Nat /\ x \in Nat  OBVIOUS
  <2>3. ~(y < x)  BY <1>2, <2>1, <2>2, Zenon
  <2>4. QED  BY <2>2, <2>3
<1>5. QED  BY <1>4

\* f[i] is the first i parts, one after the other.
Flattens(f, s, n) == f = [i \in 1..n |-> IF i = 1 THEN s[i] ELSE f[i - 1] \o s[i]]

LEMMA FlattenExists ==
  ASSUME NEW s, NEW n \in Nat
  PROVE  \E f : Flattens(f, s, n)
<1> DEFINE T == {k \in Nat : ~\E f : Flattens(f, s, k)}
<1> SUFFICES ASSUME T # {} PROVE FALSE  OBVIOUS
<1>1. PICK m \in T : \A k \in T : m <= k
  <2>1. T \in SUBSET Nat  OBVIOUS
  <2> HIDE DEF T
  <2>2. QED  BY <2>1, Least
<1>2. m \in Nat /\ ~\E f : Flattens(f, s, m)  OBVIOUS
<1>3. CASE m = 0
  <2> DEFINE f == [i \in 1..m |-> <<>>]
  <2>1. Flattens(f, s, m)  BY <1>3 DEF Flattens
  <2>2. QED  BY <1>2, <2>1
<1>4. CASE m # 0
  <2>1. m - 1 \in Nat /\ m - 1 \notin T  BY <1>1, <1>2, <1>4
  <2>2. PICK g : Flattens(g, s, m - 1)  BY <2>1
  <2>3. \A i \in 1..(m - 1) : g[i] = IF i = 1 THEN s[i] ELSE g[i - 1] \o s[i]
    BY <2>2 DEF Flattens
  <2> DEFINE last == IF m = 1 THEN s[m] ELSE g[m - 1] \o s[m]
             f == [i \in 1..m |-> IF i = m THEN last ELSE g[i]]
             h == [i \in 1..m |-> IF i = 1 THEN s[i] ELSE f[i - 1] \o s[i]]
  <2>4. \A i \in 1..m : f[i] = h[i]
    <3> TAKE i \in 1..m
    <3>1. CASE i \in 1..(m - 1)
      <4>1. f[i] = g[i] /\ (i # 1 => f[i - 1] = g[i - 1])  BY <1>2, <3>1
      <4>2. QED  BY <2>3, <3>1, <4>1
    <3>2. CASE i = m
      <4>1. m # 1 => f[m - 1] = g[m - 1]  BY <1>2, <1>4
      <4>2. QED  BY <3>2, <4>1
    <3>3. QED  BY <1>2, <3>1, <3>2
  <2>5. f = h
    <3> HIDE DEF last
    <3>1. f = [i \in 1..m |-> f[i]]  OBVIOUS
    <3> HIDE DEF f
    <3>2. h = [i \in 1..m |-> h[i]]  OBVIOUS
    <3> HIDE DEF h
    <3>3. QED  BY <2>4, <3>1, <3>2
  <2>6. Flattens(f, s, m)  BY <2>5 DEF Flattens
  <2>7. QED  BY <1>2, <2>6
<1>5. QED  BY <1>3, <1>4

LEMMA FlattensBy ==
  ASSUME NEW s, NEW n \in Nat, NEW f, Flattens(f, s, n)
  PROVE  \A i \in 1..n : f[i] = IF i = 1 THEN s[i] ELSE f[i - 1] \o s[i]
  BY DEF Flattens

LEMMA FlattenIs ==
  ASSUME NEW S, NEW s \in Seq(Seq(S)), s # <<>>
  PROVE  \E f : /\ FlattenSeq(s) = f[Len(s)]
                /\ \A i \in 1..Len(s) : f[i] \in Seq(S)
                /\ f[1] = s[1]
                /\ \A i \in 2..Len(s) : f[i] = f[i - 1] \o s[i]
<1> DEFINE N == Len(s)
           f == CHOOSE f : f = [i \in 1..N |-> IF i = 1 THEN s[i] ELSE f[i - 1] \o s[i]]
<1>1. N \in Nat /\ N > 0  OBVIOUS
<1>2. \E g : g = [i \in 1..N |-> IF i = 1 THEN s[i] ELSE g[i - 1] \o s[i]]
  BY <1>1, FlattenExists DEF Flattens
<1>3. f = [i \in 1..N |-> IF i = 1 THEN s[i] ELSE f[i - 1] \o s[i]]  BY <1>2
<1>4. FlattenSeq(s) = f[N]
  <2>1. N # 0  BY <1>1
  <2>2. QED  BY <2>1, Zenon DEF FlattenSeq
<1> HIDE DEF f
<1>5. f[1] = s[1] /\ \A i \in 2..N : f[i] = f[i - 1] \o s[i]
  <2>1. \A i \in 1..N : f[i] = IF i = 1 THEN s[i] ELSE f[i - 1] \o s[i]
    <3>1. Flattens(f, s, N)  BY <1>3 DEF Flattens
    <3>2. QED  BY <1>1, <3>1, FlattensBy
  <2>2. f[1] = s[1]
    <3>1. 1 \in 1..N  BY <1>1
    <3>2. QED  BY <2>1, <3>1, Zenon
  <2>3. ASSUME NEW i \in 2..N  PROVE f[i] = f[i - 1] \o s[i]
    <3>1. i \in 1..N /\ i # 1  BY <1>1
    <3>2. QED  BY <2>1, <3>1, Zenon
  <2>4. QED  BY <2>2, <2>3
<1>6. \A i \in 1..N : s[i] \in Seq(S)  OBVIOUS
<1>7. \A i \in 1..N : f[i] \in Seq(S)
  <2> DEFINE T == {i \in 1..N : f[i] \notin Seq(S)}
  <2> SUFFICES ASSUME T # {} PROVE FALSE  OBVIOUS
  <2>1. PICK m \in T : \A k \in T : m <= k
    <3>1. T \in SUBSET Nat  OBVIOUS
    <3> HIDE DEF T
    <3>2. QED  BY <3>1, Least
  <2>2. m \in 1..N /\ f[m] \notin Seq(S)  OBVIOUS
  <2>3. CASE m = 1  BY <1>5, <1>6, <2>2, <2>3
  <2>4. CASE m # 1
    <3>1. m \in 2..N /\ m - 1 \in 1..N /\ m - 1 \notin T  BY <1>1, <2>1, <2>2, <2>4
    <3>2. f[m - 1] \in Seq(S)  BY <3>1
    <3>3. s[m] \in Seq(S)  BY <1>6, <2>2
    <3>5. f[m - 1] \o s[m] \in Seq(S)  BY <3>2, <3>3
    <3>4. QED  BY <1>5, <2>2, <3>1, <3>5
  <2>5. QED  BY <2>3, <2>4
<1>8. QED  BY <1>4, <1>5, <1>7
\* Where each part of the whole ends.
Cuts(e, s, whole) ==
  /\ e \in [0..Len(s) -> Nat]
  /\ e[0] = 0 /\ e[Len(s)] = Len(whole)
  /\ \A i \in 1..Len(s) : /\ e[i] = e[i - 1] + Len(s[i])
                          /\ e[i] <= Len(whole)
                          /\ \A k \in 1..Len(s[i]) : whole[e[i - 1] + k] = s[i][k]

LEMMA ConcatIs ==
  ASSUME NEW S, NEW a \in Seq(S), NEW b \in Seq(S)
  PROVE  /\ a \o b \in Seq(S)
         /\ Len(a \o b) = Len(a) + Len(b)
         /\ \A k \in 1..Len(a) : (a \o b)[k] = a[k]
         /\ \A k \in 1..Len(b) : (a \o b)[Len(a) + k] = b[k]
  OBVIOUS

LEMMA FlattenCuts ==
  ASSUME NEW S, NEW s \in Seq(Seq(S))
  PROVE  /\ FlattenSeq(s) \in Seq(S)
         /\ \E e : Cuts(e, s, FlattenSeq(s))
<1>1. CASE s = <<>>
  <2>1. FlattenSeq(s) = <<>>  BY <1>1 DEF FlattenSeq
  <2> DEFINE e == [i \in 0..Len(s) |-> 0]
  <2>2. Cuts(e, s, FlattenSeq(s))  BY <1>1, <2>1 DEF Cuts
  <2>3. QED  BY <2>1, <2>2
<1>2. CASE s # <<>>
  <2> DEFINE N == Len(s)
  <2>1. N \in Nat /\ N > 0  BY <1>2
  <2>2. PICK f : /\ FlattenSeq(s) = f[Len(s)]
                 /\ \A i \in 1..Len(s) : f[i] \in Seq(S)
                 /\ f[1] = s[1]
                 /\ \A i \in 2..Len(s) : f[i] = f[i - 1] \o s[i]
    BY <1>2, FlattenIs
  <2>3. \A i \in 1..N : s[i] \in Seq(S) /\ Len(s[i]) \in Nat /\ Len(f[i]) \in Nat
    BY <2>2
  <2>4. \A i \in 2..N : /\ i \in 1..N /\ i - 1 \in 1..N
                        /\ Len(f[i]) = Len(f[i - 1]) + Len(s[i])
                        /\ \A k \in 1..Len(f[i - 1]) : f[i][k] = f[i - 1][k]
                        /\ \A k \in 1..Len(s[i]) : f[i][Len(f[i - 1]) + k] = s[i][k]
    <3> TAKE i \in 2..N
    <3>1. i \in 1..N /\ i - 1 \in 1..N  BY <2>1
    <3>2. f[i - 1] \in Seq(S) /\ s[i] \in Seq(S) /\ f[i] = f[i - 1] \o s[i]
      BY <2>2, <2>3, <3>1
    <3> DEFINE a == f[i - 1]
               b == s[i]
    <3>3. a \in Seq(S) /\ b \in Seq(S) /\ f[i] = a \o b  BY <3>2
    <3> HIDE DEF a, b
    <3>4. /\ Len(f[i]) = Len(a) + Len(b)
          /\ \A k \in 1..Len(a) : f[i][k] = a[k]
          /\ \A k \in 1..Len(b) : f[i][Len(a) + k] = b[k]
      BY <3>3
    <3> USE DEF a, b
    <3>5. QED  BY <3>1, <3>4
  <2> HIDE DEF N
  \* What stands after n parts is what stands at the end.
  <2> DEFINE Begins(n) == \A i \in 1..n : /\ Len(f[i]) <= Len(f[n])
                                          /\ \A k \in 1..Len(f[i]) : f[n][k] = f[i][k]
  <2>5. \A n \in 1..N : Begins(n)
    <3> DEFINE T == {n \in 1..N : ~Begins(n)}
    <3> SUFFICES ASSUME T # {} PROVE FALSE  OBVIOUS
    <3>1. PICK m \in T : \A k \in T : m <= k
      <4>1. T \in SUBSET Nat  BY <2>1
      <4> HIDE DEF T
      <4>2. QED  BY <4>1, Least
    <3>2. m \in 1..N /\ ~Begins(m)  OBVIOUS
    <3>3. CASE m = 1  BY <2>3, <3>2, <3>3
    <3>4. CASE m # 1
      <4>1. m \in 2..N /\ m - 1 \in 1..N /\ m - 1 \notin T  BY <2>1, <3>1, <3>2, <3>4
      <4>2. Begins(m - 1)  BY <4>1
      <4>3. /\ Len(f[m]) = Len(f[m - 1]) + Len(s[m])
            /\ \A k \in 1..Len(f[m - 1]) : f[m][k] = f[m - 1][k]
        BY <2>4, <4>1
      <4>4. ASSUME NEW i \in 1..m
            PROVE  /\ Len(f[i]) <= Len(f[m])
                   /\ \A k \in 1..Len(f[i]) : f[m][k] = f[i][k]
        <5>1. CASE i = m  BY <2>3, <3>2, <5>1
        <5>2. CASE i # m
          <6>1. i \in 1..(m - 1) /\ i \in 1..N  BY <2>1, <3>2, <5>2
          <6>2. /\ Len(f[i]) <= Len(f[m - 1])
                /\ \A k \in 1..Len(f[i]) : f[m - 1][k] = f[i][k]
            BY <4>2, <6>1
          <6>3. Len(f[i]) \in Nat /\ Len(f[m - 1]) \in Nat /\ Len(s[m]) \in Nat
            BY <2>3, <3>2, <4>1, <6>1
          <6>4. Len(f[i]) <= Len(f[m])
            <7> DEFINE a == Len(f[i])
                       b == Len(f[m - 1])
                       c == Len(s[m])
                       d == Len(f[m])
            <7>1. a \in Nat /\ b \in Nat /\ c \in Nat /\ a <= b /\ d = b + c
              BY <4>3, <6>2, <6>3, Zenon
            <7> HIDE DEF a, b, c, d
            <7>2. a <= d  BY <7>1
            <7> USE DEF a, b, c, d
            <7>3. QED  BY <7>2, Zenon
          <6>5. ASSUME NEW k \in 1..Len(f[i])  PROVE f[m][k] = f[i][k]
            <7>1. k \in 1..Len(f[m - 1])  BY <6>2, <6>3
            <7>2. f[m][k] = f[m - 1][k]  BY <4>3, <7>1, Zenon
            <7>3. f[m - 1][k] = f[i][k]  BY <6>2, Zenon
            <7>4. QED  BY <7>2, <7>3, Zenon
          <6>6. QED  BY <6>4, <6>5
        <5>3. QED  BY <5>1, <5>2
      <4>5. QED  BY <3>2, <4>4
    <3>5. QED  BY <3>3, <3>4
  <2> DEFINE e == [i \in 0..N |-> IF i = 0 THEN 0 ELSE Len(f[i])]
             whole == f[N]
  <2>6. e \in [0..N -> Nat] /\ e[0] = 0 /\ e[N] = Len(whole)  BY <2>1, <2>3
  <2>7. ASSUME NEW i \in 1..N
        PROVE  /\ e[i] = e[i - 1] + Len(s[i])
               /\ e[i] <= Len(whole)
               /\ \A k \in 1..Len(s[i]) : whole[e[i - 1] + k] = s[i][k]
    <3>1. e[i] = Len(f[i])  BY <2>1
    <3>2. N \in 1..N  BY <2>1
    <3>3. Len(f[i]) <= Len(whole) /\ \A k \in 1..Len(f[i]) : whole[k] = f[i][k]
      BY <2>5, <3>2
    <3>4. CASE i = 1
      <4>1. e[i - 1] = 0  BY <2>1, <3>4
      <4>2. f[i] = s[i] /\ Len(s[i]) \in Nat  BY <2>2, <2>3, <3>4
      <4>3. Len(f[i]) = Len(s[i])  BY <4>2
      <4> HIDE DEF e, whole
      <4>4. ASSUME NEW k \in 1..Len(s[i])  PROVE whole[e[i - 1] + k] = s[i][k]
        <5>1. e[i - 1] + k = k /\ k \in 1..Len(f[i])  BY <4>1, <4>2, <4>3
        <5>2. whole[k] = f[i][k]  BY <3>3, <5>1
        <5>3. QED  BY <4>2, <5>1, <5>2, Zenon
      <4>5. QED  BY <3>1, <3>3, <4>1, <4>2, <4>3, <4>4
    <3>5. CASE i # 1
      <4>1. i \in 2..N /\ i - 1 \in 1..N  BY <2>1, <3>5
      <4>2. e[i - 1] = Len(f[i - 1])  BY <2>1, <4>1
      <4>3. /\ Len(f[i]) = Len(f[i - 1]) + Len(s[i])
            /\ \A k \in 1..Len(s[i]) : f[i][Len(f[i - 1]) + k] = s[i][k]
        BY <2>4, <4>1
      <4>4. Len(f[i - 1]) \in Nat /\ Len(s[i]) \in Nat  BY <2>3, <4>1
      <4> HIDE DEF e, whole
      <4>5. ASSUME NEW k \in 1..Len(s[i])  PROVE whole[e[i - 1] + k] = s[i][k]
        <5> DEFINE a == Len(f[i - 1])
                   b == Len(s[i])
                   c == Len(f[i])
        <5>1. a \in Nat /\ b \in Nat /\ c = a + b /\ k \in 1..b  BY <4>3, <4>4
        <5> HIDE DEF a, b, c
        <5>2. a + k \in 1..c  BY <5>1
        <5> USE DEF a, b, c
        <5>3. whole[a + k] = f[i][a + k]  BY <3>3, <5>2, Zenon
        <5>4. f[i][a + k] = s[i][k]  BY <4>3, Zenon
        <5>5. e[i - 1] + k = a + k  BY <4>2, Zenon
        <5>6. QED  BY <5>3, <5>4, <5>5, Zenon
      <4>6. QED  BY <3>1, <3>3, <4>2, <4>3, <4>5
    <3>6. QED  BY <3>4, <3>5
  <2>8. FlattenSeq(s) = whole /\ whole \in Seq(S)  BY <2>1, <2>2 DEF N
  <2> HIDE DEF e, whole
  <2>9. Cuts(e, s, whole)  BY <2>6, <2>7 DEF Cuts, N
  <2>10. QED  BY <2>8, <2>9
<1>3. QED  BY <1>1, <1>2

LEMMA EscapedIs ==
  ASSUME NEW a \in 0..255
  PROVE  /\ Escaped(a) \in Seq(Nat)
         /\ Len(Escaped(a)) > 0
  BY DEF Escaped, Hex

\* The first byte says if it stands for itself, and the two digits which it is.
LEMMA EscapedTellsApart ==
  ASSUME NEW a \in 0..255, NEW b \in 0..255,
         \A k \in 1..Len(Escaped(a)) : k \in 1..Len(Escaped(b)) =>
           Escaped(a)[k] = Escaped(b)[k]
  PROVE  a = b
<1> DEFINE Plain(x) == IsAlphanumeric(x) \/ x \in Literal
<1>1. \A x \in 0..255 : Plain(x) => x # 37  BY DEF IsAlphanumeric, Literal
<1>2. Plain(a) => Escaped(a) = <<a>>  BY DEF Escaped
<1>3. ~Plain(a) => Escaped(a) = <<37, Hex(a \div 16), Hex(a % 16)>>  BY DEF Escaped
<1>4. Plain(b) => Escaped(b) = <<b>>  BY DEF Escaped
<1>5. ~Plain(b) => Escaped(b) = <<37, Hex(b \div 16), Hex(b % 16)>>  BY DEF Escaped
<1> HIDE DEF Plain
<1>6. Escaped(a)[1] = Escaped(b)[1]  BY <1>2, <1>3, <1>4, <1>5
<1>7. CASE Plain(a) \/ Plain(b)  BY <1>1, <1>2, <1>3, <1>4, <1>5, <1>6, <1>7
<1>8. CASE ~Plain(a) /\ ~Plain(b)
  <2>1. Hex(a \div 16) = Hex(b \div 16) /\ Hex(a % 16) = Hex(b % 16)
    BY <1>3, <1>5, <1>8
  <2>2. \A c, d \in 0..15 : Hex(c) = Hex(d) => c = d  BY DEF Hex
  <2>3. a \div 16 \in 0..15 /\ b \div 16 \in 0..15  OBVIOUS
  <2>4. a % 16 \in 0..15 /\ b % 16 \in 0..15  OBVIOUS
  <2>5. a \div 16 = b \div 16  BY <2>1, <2>2, <2>3, ZenonT(60)
  <2>6. a % 16 = b % 16  BY <2>1, <2>2, <2>4, ZenonT(60)
  <2>7. \A x, y \in Int : x \div 16 = y \div 16 /\ x % 16 = y % 16 => x = y  OBVIOUS
  <2>8. a \in Int /\ b \in Int  OBVIOUS
  <2>9. QED  BY <2>5, <2>6, <2>7, <2>8
<1>9. QED  BY <1>7, <1>8

-----------------------------------------------------------------------------
(* The cache key.                                                          *)

Byte == 0..255

LEMMA SeqIs ==
  ASSUME NEW S, NEW s \in Seq(S)
  PROVE  /\ Len(s) \in Nat
         /\ DOMAIN s = 1..Len(s)
         /\ \A i \in 1..Len(s) : s[i] \in S
         /\ s = [i \in 1..Len(s) |-> s[i]]
  OBVIOUS

LEMMA SeqMade ==
  ASSUME NEW S, NEW n \in Nat, NEW s, s = [i \in 1..n |-> s[i]], \A i \in 1..n : s[i] \in S
  PROVE  s \in Seq(S) /\ Len(s) = n
  OBVIOUS

LEMMA EscapedAll ==
  ASSUME NEW p \in Seq(Byte), NEW s, s = [i \in DOMAIN p |-> Escaped(p[i])]
  PROVE  /\ s \in Seq(Seq(Nat)) /\ Len(s) = Len(p)
         /\ \A i \in 1..Len(p) : s[i] = Escaped(p[i]) /\ Len(s[i]) \in Nat /\ Len(s[i]) > 0
<1>1. /\ Len(p) \in Nat /\ DOMAIN p = 1..Len(p)
      /\ \A i \in 1..Len(p) : p[i] \in Byte
  BY SeqIs
<1>2. \A i \in 1..Len(p) : s[i] = Escaped(p[i])  BY <1>1
<1>3. \A i \in 1..Len(p) : s[i] \in Seq(Nat) /\ Len(s[i]) > 0
  BY <1>1, <1>2, EscapedIs DEF Byte
<1>4. s = [i \in 1..Len(p) |-> s[i]]  BY <1>1
<1>5. s \in Seq(Seq(Nat)) /\ Len(s) = Len(p)
  <2> DEFINE n == Len(p)
             S == Seq(Nat)
  <2>1. n \in Nat /\ s = [i \in 1..n |-> s[i]] /\ \A i \in 1..n : s[i] \in S
    BY <1>1, <1>3, <1>4, Zenon
  <2> HIDE DEF n, S
  <2>2. s \in Seq(S) /\ Len(s) = n  BY <2>1, SeqMade
  <2>3. QED  BY <2>2, Zenon DEF n, S
<1>6. \A i \in 1..Len(p) : Len(s[i]) \in Nat  BY <1>3, SeqIs
<1>7. QED  BY <1>2, <1>3, <1>5, <1>6, Zenon

\* No two paths have one key: the key can be read back, byte by byte.
LEMMA UriTellsApart ==
  ASSUME NEW p \in Seq(Byte), NEW q \in Seq(Byte), UriFor(p) = UriFor(q)
  PROVE  p = q
<1> DEFINE s == [i \in DOMAIN p |-> Escaped(p[i])]
           t == [i \in DOMAIN q |-> Escaped(q[i])]
           whole == UriFor(p)
           M == Len(p)
           N == Len(q)
<1>1. /\ M \in Nat /\ N \in Nat
      /\ \A i \in 1..M : p[i] \in Byte
      /\ \A i \in 1..N : q[i] \in Byte
  BY SeqIs, Zenon
<1>2. s \in Seq(Seq(Nat)) /\ Len(s) = M /\ \A i \in 1..M : s[i] = Escaped(p[i])
  BY EscapedAll, Zenon
<1>3. t \in Seq(Seq(Nat)) /\ Len(t) = N /\ \A i \in 1..N : t[i] = Escaped(q[i])
  BY EscapedAll, Zenon
<1>4. whole = FlattenSeq(s) /\ whole = FlattenSeq(t)  BY DEF UriFor
<1>7. \A i \in 1..M : Len(s[i]) \in Nat /\ Len(s[i]) > 0  BY EscapedAll, Zenon
<1>8. \A i \in 1..N : Len(t[i]) \in Nat /\ Len(t[i]) > 0  BY EscapedAll, Zenon
<1> HIDE DEF s, t, whole
<1>5. PICK e : Cuts(e, s, whole)  BY <1>2, <1>4, FlattenCuts
<1>6. PICK d : Cuts(d, t, whole)  BY <1>3, <1>4, FlattenCuts
<1> HIDE DEF M, N
<1>9. /\ e \in [0..M -> Nat] /\ e[0] = 0 /\ e[M] = Len(whole)
      /\ \A i \in 1..M : /\ e[i] = e[i - 1] + Len(s[i])
                         /\ e[i] <= Len(whole)
                         /\ \A k \in 1..Len(s[i]) : whole[e[i - 1] + k] = s[i][k]
  BY <1>2, <1>5, Zenon DEF Cuts
<1>10. /\ d \in [0..N -> Nat] /\ d[0] = 0 /\ d[N] = Len(whole)
       /\ \A i \in 1..N : /\ d[i] = d[i - 1] + Len(t[i])
                          /\ d[i] <= Len(whole)
                          /\ \A k \in 1..Len(t[i]) : whole[d[i - 1] + k] = t[i][k]
  BY <1>3, <1>6, Zenon DEF Cuts
<1> DEFINE Agree(i) == p[i] = q[i] /\ e[i] = d[i]
<1>11. \A i \in 1..M : i \in 1..N => Agree(i)
  <2> DEFINE T == {i \in 1..M : i \in 1..N /\ ~Agree(i)}
  <2> SUFFICES ASSUME T # {} PROVE FALSE  OBVIOUS
  <2>1. PICK m \in T : \A k \in T : m <= k
    <3>1. T \in SUBSET Nat  BY <1>1
    <3> HIDE DEF T
    <3>2. QED  BY <3>1, Least
  <2>2. m \in 1..M /\ m \in 1..N /\ ~Agree(m)  OBVIOUS
  <2>3. e[m - 1] = d[m - 1]
    <3>1. CASE m = 1  BY <1>9, <1>10, <3>1
    <3>2. CASE m # 1
      <4>1. m - 1 \in 1..M /\ m - 1 \in 1..N /\ m - 1 \notin T
        BY <1>1, <2>1, <2>2, <3>2, SMTT(30)
      <4>2. QED  BY <4>1
    <3>3. QED  BY <3>1, <3>2
  <2> HIDE DEF T
  <2>4. \A k \in 1..Len(s[m]) : k \in 1..Len(t[m]) => s[m][k] = t[m][k]
    <3> TAKE k \in 1..Len(s[m])
    <3> HAVE k \in 1..Len(t[m])
    <3>1. whole[e[m - 1] + k] = s[m][k]  BY <1>9, <2>2, Zenon
    <3>2. whole[d[m - 1] + k] = t[m][k]  BY <1>10, <2>2, Zenon
    <3>3. QED  BY <2>3, <3>1, <3>2, Zenon
  <2>5. p[m] = q[m]
    <3>1. s[m] = Escaped(p[m]) /\ t[m] = Escaped(q[m])  BY <1>2, <1>3, <2>2, Zenon
    <3>2. \A k \in 1..Len(Escaped(p[m])) : k \in 1..Len(Escaped(q[m])) =>
            Escaped(p[m])[k] = Escaped(q[m])[k]
      BY <2>4, <3>1, Zenon
    <3>3. p[m] \in Byte /\ q[m] \in Byte  BY <1>1, <2>2, Zenon
    <3>4. QED  BY <3>2, <3>3, EscapedTellsApart DEF Byte
  <2>6. s[m] = t[m]  BY <1>2, <1>3, <2>2, <2>5, Zenon
  <2>7. e[m] = d[m]
    <3>1. e[m] = e[m - 1] + Len(s[m])  BY <1>9, <2>2, Zenon
    <3>2. d[m] = d[m - 1] + Len(t[m])  BY <1>10, <2>2, Zenon
    <3>3. QED  BY <2>3, <2>6, <3>1, <3>2, Zenon
  <2>8. QED  BY <2>2, <2>5, <2>7
<1>12. M = N
  <2> DEFINE L == Len(whole)
  <2> HIDE DEF L
  <2>1. CASE M < N
    <3>1. M \in 0..N /\ M + 1 \in 1..N /\ (M + 1) - 1 = M  BY <1>1, <2>1
    <3>2. d[M] = Len(whole)
      <4>1. CASE M = 0  BY <1>9, <1>10, <4>1
      <4>2. CASE M # 0
        <5>1. M \in 1..M /\ M \in 1..N  BY <1>1, <2>1, <4>2
        <5>2. QED  BY <1>9, <1>11, <5>1
      <4>3. QED  BY <4>1, <4>2
    <3>3. d[M + 1] = d[M] + Len(t[M + 1]) /\ d[M + 1] <= Len(whole)
      BY <1>10, <3>1
    <3>4. d[M] \in Nat /\ Len(t[M + 1]) \in Nat /\ Len(t[M + 1]) > 0  BY <1>8, <1>10, <3>1
    <3> DEFINE x == d[M]
               y == Len(t[M + 1])
               z == d[M + 1]
    <3>5. x \in Nat /\ y \in Nat /\ y > 0 /\ z = x + y /\ z <= x  BY <3>2, <3>3, <3>4, Zenon
    <3> HIDE DEF x, y, z
    <3>6. QED  BY <3>5
  <2>2. CASE N < M
    <3>1. N \in 0..M /\ N + 1 \in 1..M /\ (N + 1) - 1 = N  BY <1>1, <2>2
    <3>2. e[N] = Len(whole)
      <4>1. CASE N = 0  BY <1>9, <1>10, <4>1
      <4>2. CASE N # 0
        <5>1. N \in 1..N /\ N \in 1..M  BY <1>1, <2>2, <4>2
        <5>2. QED  BY <1>10, <1>11, <5>1
      <4>3. QED  BY <4>1, <4>2
    <3>3. e[N + 1] = e[N] + Len(s[N + 1]) /\ e[N + 1] <= Len(whole)
      BY <1>9, <3>1
    <3>4. e[N] \in Nat /\ Len(s[N + 1]) \in Nat /\ Len(s[N + 1]) > 0  BY <1>7, <1>9, <3>1
    <3> DEFINE x == e[N]
               y == Len(s[N + 1])
               z == e[N + 1]
    <3>5. x \in Nat /\ y \in Nat /\ y > 0 /\ z = x + y /\ z <= x  BY <3>2, <3>3, <3>4, Zenon
    <3> HIDE DEF x, y, z
    <3>6. QED  BY <3>5
  <2>3. QED  BY <1>1, <2>1, <2>2
<1>13. QED
  <2>1. Len(p) = Len(q) /\ \A i \in 1..Len(p) : p[i] = q[i]  BY <1>11, <1>12 DEF M, N
  <2>2. /\ p = [i \in 1..Len(p) |-> p[i]]
        /\ q = [i \in 1..Len(q) |-> q[i]]
    BY SeqIs, Zenon
  <2>3. QED  BY <2>1, <2>2

-----------------------------------------------------------------------------
\* Every element of the whole is in one of its parts.
Within(j, e, s) == \E i \in 1..Len(s) : \E k \in 1..Len(s[i]) : j = e[i - 1] + k

LEMMA CutsCover ==
  ASSUME NEW S, NEW s \in Seq(Seq(S)), NEW whole \in Seq(S), NEW e, Cuts(e, s, whole),
         NEW j \in 1..Len(whole)
  PROVE  Within(j, e, s)
<1> DEFINE N == Len(s)
           T == {i \in 0..N : j <= e[i]}
<1>1. N \in Nat /\ e \in [0..N -> Nat] /\ e[0] = 0 /\ j <= e[N]
  BY DEF Cuts
<1>2. \A i \in 1..N : e[i] = e[i - 1] + Len(s[i])  BY DEF Cuts
<1>3. \A i \in 1..N : Len(s[i]) \in Nat  OBVIOUS
<1> HIDE DEF N
<1>4. PICK m \in T : \A k \in T : m <= k
  <2>1. T \in SUBSET Nat  BY <1>1
  <2>2. N \in T  BY <1>1
  <2> HIDE DEF T
  <2>3. QED  BY <2>1, <2>2, Least
<1>5. m \in 0..N /\ j <= e[m]  OBVIOUS
<1>6. m # 0  BY <1>1, <1>5
<1>7. m \in 1..N /\ m - 1 \in 0..N /\ m - 1 \notin T  BY <1>1, <1>4, <1>5, <1>6
<1>8. ~(j <= e[m - 1])  BY <1>7
<1> DEFINE a == e[m - 1]
           b == Len(s[m])
<1>9. a \in Nat /\ b \in Nat /\ j <= a + b /\ ~(j <= a) /\ j \in Nat
  BY <1>1, <1>2, <1>3, <1>5, <1>7, <1>8
<1>10. m \in 1..Len(s)  BY <1>7 DEF N
<1> HIDE DEF a, b
<1>11. j - a \in 1..b /\ j = a + (j - a)  BY <1>9
<1> USE DEF a, b
<1>12. QED  BY <1>10, <1>11, Zenon DEF Within

\* What is left when a PNG's stamps are taken out.
LEMMA KeptIs ==
  ASSUME NEW S, NEW png \in Seq(S)
  PROVE  /\ WithoutTextKeys(png) \in Seq(S)
         /\ \A j \in 1..Len(WithoutTextKeys(png)) : \E i \in 1..Len(png) :
              WithoutTextKeys(png)[j] = png[i] /\ ~IsStamp(png[i])
         /\ \A i \in 1..Len(png) : ~IsStamp(png[i]) =>
              \E j \in 1..Len(WithoutTextKeys(png)) : WithoutTextKeys(png)[j] = png[i]
         /\ Len(png) > 0 /\ ~IsStamp(png[1]) =>
              Len(WithoutTextKeys(png)) > 0 /\ WithoutTextKeys(png)[1] = png[1]
<1> DEFINE N == Len(png)
           K == WithoutTextKeys(png)
           s == [i \in DOMAIN png |-> IF IsStamp(png[i]) THEN <<>> ELSE <<png[i]>>]
<1>1. N \in Nat /\ DOMAIN png = 1..N /\ \A i \in 1..N : png[i] \in S
  BY SeqIs
<1>2. K = FlattenSeq(s)  BY DEF WithoutTextKeys
<1>3. \A i \in 1..N : s[i] = IF IsStamp(png[i]) THEN <<>> ELSE <<png[i]>>  BY <1>1
<1>4. s = [i \in 1..N |-> s[i]]  BY <1>1
<1> HIDE DEF s, K, N
<1>5. \A i \in 1..N : /\ s[i] \in Seq(S)
                       /\ (IsStamp(png[i]) => Len(s[i]) = 0)
                       /\ (~IsStamp(png[i]) => Len(s[i]) = 1 /\ s[i][1] = png[i])
  <2> TAKE i \in 1..N
  <2>1. png[i] \in S  BY <1>1
  <2> DEFINE c == png[i]
             part == s[i]
  <2>2. CASE IsStamp(png[i])
    <3>1. part = <<>>  BY <1>3, <2>2, Zenon
    <3> HIDE DEF part
    <3>2. part \in Seq(S) /\ Len(part) = 0  BY <3>1
    <3>3. QED  BY <2>2, <3>2, Zenon DEF part
  <2>3. CASE ~IsStamp(png[i])
    <3>1. part = <<c>>  BY <1>3, <2>3, Zenon
    <3>2. c \in S  BY <2>1
    <3> HIDE DEF part, c
    <3>3. part \in Seq(S) /\ Len(part) = 1 /\ part[1] = c  BY <3>1, <3>2
    <3>4. QED  BY <2>3, <3>3, Zenon DEF part, c
  <2>4. QED  BY <2>2, <2>3
<1>6. s \in Seq(Seq(S)) /\ Len(s) = N
  <2> DEFINE Q == Seq(S)
  <2>1. \A i \in 1..N : s[i] \in Q  BY <1>5, Zenon
  <2> HIDE DEF Q
  <2>2. s \in Seq(Q) /\ Len(s) = N  BY <1>1, <1>4, <2>1, SeqMade
  <2>3. QED  BY <2>2, Zenon DEF Q
<1>7. K \in Seq(S) /\ \E e : Cuts(e, s, K)  BY <1>2, <1>6, FlattenCuts
<1>8. PICK e : Cuts(e, s, K)  BY <1>7
<1>9. /\ e \in [0..N -> Nat] /\ e[0] = 0
      /\ \A i \in 1..N : /\ e[i] = e[i - 1] + Len(s[i])
                         /\ e[i] <= Len(K)
                         /\ \A k \in 1..Len(s[i]) : K[e[i - 1] + k] = s[i][k]
  BY <1>6, <1>8, Zenon DEF Cuts
<1>10. ASSUME NEW i \in 1..N, ~IsStamp(png[i])
       PROVE  e[i - 1] + 1 \in 1..Len(K) /\ K[e[i - 1] + 1] = png[i]
  <2>1. Len(s[i]) = 1 /\ s[i][1] = png[i]  BY <1>5, <1>10, Zenon
  <2>2. i - 1 \in 0..N /\ e[i - 1] \in Nat  BY <1>1, <1>9
  <2>3. e[i] = e[i - 1] + 1 /\ e[i] <= Len(K) /\ K[e[i - 1] + 1] = s[i][1]
    <3>1. 1 \in 1..Len(s[i])  BY <2>1
    <3>2. QED  BY <1>9, <2>1, <3>1, Zenon
  <2>4. Len(K) \in Nat  BY <1>7
  <2> DEFINE a == e[i - 1]
             b == Len(K)
  <2>5. a \in Nat /\ b \in Nat /\ a + 1 <= b  BY <2>2, <2>3, <2>4, Zenon
  <2> HIDE DEF a, b
  <2>6. a + 1 \in 1..b  BY <2>5
  <2> USE DEF a, b
  <2>7. QED  BY <2>1, <2>3, <2>6, Zenon
<1>11. ASSUME NEW j \in 1..Len(K)
       PROVE  \E i \in 1..N : K[j] = png[i] /\ ~IsStamp(png[i])
  <2>1. Within(j, e, s)
    <3>1. s \in Seq(Seq(S)) /\ K \in Seq(S) /\ Cuts(e, s, K)  BY <1>6, <1>7, <1>8, Zenon
    <3>2. QED  BY <3>1, CutsCover, Zenon
  <2>2. PICK i \in 1..N : \E k \in 1..Len(s[i]) : j = e[i - 1] + k
    BY <1>6, <2>1, Zenon DEF Within
  <2>3. PICK k \in 1..Len(s[i]) : j = e[i - 1] + k  BY <2>2, Zenon
  <2>4. K[j] = s[i][k]  BY <1>9, <2>3, Zenon
  <2>5. ~IsStamp(png[i])
    <3>1. Len(s[i]) # 0  BY <2>3
    <3>2. QED  BY <1>5, <3>1, Zenon
  <2>6. Len(s[i]) = 1 /\ s[i][1] = png[i]  BY <1>5, <2>5, Zenon
  <2>7. k = 1  BY <2>3, <2>6
  <2>8. QED  BY <2>4, <2>5, <2>6, <2>7, Zenon
<1>12. N > 0 /\ ~IsStamp(png[1]) => Len(K) > 0 /\ K[1] = png[1]
  <2> SUFFICES ASSUME N > 0, ~IsStamp(png[1])  PROVE Len(K) > 0 /\ K[1] = png[1]
    OBVIOUS
  <2>1. 1 \in 1..N /\ e[1 - 1] + 1 = 1  BY <1>1, <1>9
  <2>2. 1 \in 1..Len(K) /\ K[1] = png[1]  BY <1>10, <2>1
  <2>3. QED  BY <1>7, <2>2
<1>13. QED  BY <1>7, <1>10, <1>11, <1>12 DEF K, N

\* Where the pieces of a stamped PNG stand.
LEMMA InsertedAt ==
  ASSUME NEW S, NEW k \in Seq(S), Len(k) > 0, NEW a \in S, NEW b \in S, NEW c \in S
  PROVE  /\ InsertAfterIhdr(k, <<a, b, c>>) \in Seq(S)
         /\ Len(InsertAfterIhdr(k, <<a, b, c>>)) = Len(k) + 3
         /\ InsertAfterIhdr(k, <<a, b, c>>)[1] = k[1]
         /\ InsertAfterIhdr(k, <<a, b, c>>)[2] = a
         /\ InsertAfterIhdr(k, <<a, b, c>>)[3] = b
         /\ InsertAfterIhdr(k, <<a, b, c>>)[4] = c
         /\ \A i \in 2..Len(k) : InsertAfterIhdr(k, <<a, b, c>>)[i + 3] = k[i]
<1> DEFINE head == <<k[1]>>
           abc == <<a, b, c>>
           tail == Tail(k)
           N == Len(k)
<1>1. N \in Nat /\ N > 0 /\ k[1] \in S  BY SeqIs
<1>2. head \in Seq(S) /\ Len(head) = 1 /\ head[1] = k[1]  BY <1>1
<1>3. abc \in Seq(S) /\ Len(abc) = 3 /\ abc[1] = a /\ abc[2] = b /\ abc[3] = c  OBVIOUS
<1>4. tail \in Seq(S) /\ Len(tail) = N - 1 /\ \A i \in 1..(N - 1) : tail[i] = k[i + 1]
  BY <1>1
<1>5. InsertAfterIhdr(k, <<a, b, c>>) = head \o abc \o tail  BY DEF InsertAfterIhdr
<1> HIDE DEF head, abc, tail, N
<1>6. /\ head \o abc \in Seq(S) /\ Len(head \o abc) = 4
      /\ (head \o abc)[1] = k[1] /\ (head \o abc)[2] = a
      /\ (head \o abc)[3] = b /\ (head \o abc)[4] = c
  <2>1. /\ head \o abc \in Seq(S) /\ Len(head \o abc) = Len(head) + Len(abc)
        /\ \A i \in 1..Len(head) : (head \o abc)[i] = head[i]
        /\ \A i \in 1..Len(abc) : (head \o abc)[Len(head) + i] = abc[i]
    <3>1. head \in Seq(S) /\ abc \in Seq(S)  BY <1>2, <1>3, Zenon
    <3>2. QED  BY <3>1
  <2>2. /\ \A i \in 1..1 : (head \o abc)[i] = head[i]
        /\ \A i \in 1..3 : (head \o abc)[1 + i] = abc[i]
    BY <1>2, <1>3, <2>1, Zenon
  <2>3. /\ 1 \in 1..1 /\ 1 \in 1..3 /\ 2 \in 1..3 /\ 3 \in 1..3
        /\ 1 + 1 = 2 /\ 1 + 2 = 3 /\ 1 + 3 = 4
    OBVIOUS
  <2>4. (head \o abc)[1 + 1] = a /\ (head \o abc)[1 + 2] = b /\ (head \o abc)[1 + 3] = c
    BY <1>3, <2>2, <2>3, Zenon
  <2>5. QED  BY <1>2, <1>3, <2>1, <2>2, <2>3, <2>4
<1> DEFINE four == head \o abc
<1> HIDE DEF four
<1>7. four \in Seq(S) /\ Len(four) = 4  BY <1>6 DEF four
<1>8. /\ four \o tail \in Seq(S) /\ Len(four \o tail) = N + 3
      /\ \A i \in 1..4 : (four \o tail)[i] = four[i]
      /\ \A i \in 1..(N - 1) : (four \o tail)[4 + i] = tail[i]
  <2>1. /\ four \o tail \in Seq(S) /\ Len(four \o tail) = Len(four) + Len(tail)
        /\ \A i \in 1..Len(four) : (four \o tail)[i] = four[i]
        /\ \A i \in 1..Len(tail) : (four \o tail)[Len(four) + i] = tail[i]
    <3>1. four \in Seq(S) /\ tail \in Seq(S)  BY <1>4, <1>7, Zenon
    <3>2. QED  BY <3>1
  <2>2. Len(four) + Len(tail) = N + 3  BY <1>1, <1>4, <1>7
  <2>3. QED  BY <1>4, <1>7, <2>1, <2>2, Zenon
<1>9. \A i \in 2..N : (four \o tail)[i + 3] = k[i]
  <2> TAKE i \in 2..N
  <2>1. i - 1 \in 1..(N - 1) /\ 4 + (i - 1) = i + 3 /\ (i - 1) + 1 = i  BY <1>1
  <2>2. (four \o tail)[4 + (i - 1)] = tail[i - 1] /\ tail[i - 1] = k[(i - 1) + 1]
    BY <1>4, <1>8, <2>1
  <2>3. QED  BY <2>1, <2>2
<1>10. \A i \in 1..4 : (four \o tail)[i] = (head \o abc)[i]  BY <1>8 DEF four
<1>11. /\ (four \o tail)[1] = k[1] /\ (four \o tail)[2] = a
       /\ (four \o tail)[3] = b /\ (four \o tail)[4] = c
  <2>1. 1 \in 1..4 /\ 2 \in 1..4 /\ 3 \in 1..4 /\ 4 \in 1..4  OBVIOUS
  <2>2. QED  BY <1>6, <1>10, <2>1, Zenon
<1>12. InsertAfterIhdr(k, <<a, b, c>>) = four \o tail  BY <1>5 DEF four
<1>13. QED  BY <1>8, <1>9, <1>11, <1>12, Zenon DEF N

\* An entry of the path, stamped with that time.
StampedAs(png, u, m) == IsEntryOf(png, u) /\ PngText(png, "Thumb::MTime") = <<m>>

\* Stamping makes an entry of any PNG, whatever texts it came with, and the
\* picture stays what it was.
LEMMA StampedIs ==
  ASSUME NEW S, NEW png \in Seq(S), IsPng(png), NEW u, NEW m
  PROVE  /\ StampedAs(Stamped(png, u, m), u, m)
         /\ Shows(Stamped(png, u, m)) = Shows(png)
<1> DEFINE K == WithoutTextKeys(png)
           a == Text("Thumb::URI", u)
           b == Text("Thumb::MTime", m)
           c == Text("Software", "philemon")
           W == S \cup {a, b, c}
           st == Stamped(png, u, m)
           N == Len(png)
           L == Len(K)
<1>1. N \in Nat /\ DOMAIN png = 1..N /\ N > 0 /\ png[1].t = "IHDR"
  BY SeqIs DEF IsPng
<1>2. ~IsStamp(png[1])  BY <1>1 DEF IsStamp
<1>3. /\ K \in Seq(S)
      /\ \A j \in 1..L : \E i \in 1..N : K[j] = png[i] /\ ~IsStamp(png[i])
      /\ \A i \in 1..N : ~IsStamp(png[i]) => \E j \in 1..L : K[j] = png[i]
      /\ L > 0 /\ K[1] = png[1]
  BY <1>1, <1>2, KeptIs
<1>4. L \in Nat  BY <1>3
<1>5. /\ a.t = "tEXt" /\ a.key = "Thumb::URI" /\ a.v = u
      /\ b.t = "tEXt" /\ b.key = "Thumb::MTime" /\ b.v = m
      /\ c.t = "tEXt" /\ c.key = "Software"
  BY DEF Text
<1>6. st = InsertAfterIhdr(K, <<a, b, c>>)  BY DEF Stamped
<1> HIDE DEF a, b, c, K, st, N, L
<1>7. /\ st \in Seq(W) /\ Len(st) = L + 3
      /\ st[1] = K[1] /\ st[2] = a /\ st[3] = b /\ st[4] = c
      /\ \A i \in 2..L : st[i + 3] = K[i]
  <2>1. Seq(S) \subseteq Seq(W)  OBVIOUS
  <2>2. K \in Seq(W) /\ Len(K) > 0 /\ a \in W /\ b \in W /\ c \in W  BY <1>3, <2>1 DEF L
  <2> HIDE DEF W
  <2>3. QED  BY <1>6, <2>2, InsertedAt DEF L
<1>8. DOMAIN st = 1..(L + 3)  BY <1>7, SeqIs
<1>9. \A i \in 1..(L + 3) : i > 4 => i - 3 \in 2..L /\ st[i] = K[i - 3]
  <2> TAKE i \in 1..(L + 3)
  <2> HAVE i > 4
  <2>1. i - 3 \in 2..L /\ (i - 3) + 3 = i  BY <1>4
  <2>2. QED  BY <1>7, <2>1
<1>10. \A j \in 1..L : ~IsStamp(K[j])  BY <1>3
<1>11. \A i \in 1..(L + 3) : i > 4 => ~IsStamp(st[i])
  <2> TAKE i \in 1..(L + 3)
  <2> HAVE i > 4
  <2>1. i - 3 \in 1..L /\ st[i] = K[i - 3]  BY <1>4, <1>9
  <2>2. QED  BY <1>10, <2>1
<1>12. st[1].t = "IHDR"  BY <1>1, <1>3, <1>7
<1>13. 1 \in 1..(L + 3) /\ 2 \in 1..(L + 3) /\ 3 \in 1..(L + 3) /\ 4 \in 1..(L + 3)
  BY <1>3, <1>4
<1>14. /\ st[2].t = "tEXt" /\ st[2].key = "Thumb::URI" /\ st[2].v = u
       /\ st[3].t = "tEXt" /\ st[3].key = "Thumb::MTime" /\ st[3].v = m
       /\ st[4].t = "tEXt" /\ st[4].key = "Software"
  BY <1>5, <1>7
<1>15. \A i \in 1..(L + 3) : i > 4 \/ i = 1 \/ i = 2 \/ i = 3 \/ i = 4  BY <1>4
<1>16. ASSUME NEW i \in 1..(L + 3), NEW key \in StampedKeys, st[i].t = "tEXt", st[i].key = key
       PROVE  \/ i = 2 /\ key = "Thumb::URI"
              \/ i = 3 /\ key = "Thumb::MTime"
              \/ i = 4 /\ key = "Software"
  <2>1. ~(i > 4)  BY <1>11, <1>16 DEF IsStamp
  <2>2. i # 1  BY <1>12, <1>16
  <2>3. QED  BY <1>14, <1>15, <1>16, <2>1, <2>2
<1>17. /\ Texts(st, "Thumb::URI") = {2}
       /\ Texts(st, "Thumb::MTime") = {3}
       /\ Texts(st, "Software") = {4}
  <2>1. Texts(st, "Thumb::URI") = {2}
    BY <1>8, <1>13, <1>14, <1>16 DEF Texts, StampedKeys
  <2>2. Texts(st, "Thumb::MTime") = {3}
    BY <1>8, <1>13, <1>14, <1>16 DEF Texts, StampedKeys
  <2>3. Texts(st, "Software") = {4}
    BY <1>8, <1>13, <1>14, <1>16 DEF Texts, StampedKeys
  <2>4. QED  BY <2>1, <2>2, <2>3
<1>18. \A key \in StampedKeys : \E i \in DOMAIN st : Texts(st, key) = {i}
  BY <1>8, <1>13, <1>17 DEF StampedKeys
<1>19. st # <<>> /\ Head(st) = st[1]
  <2>1. Len(st) # 0  BY <1>4, <1>7
  <2>2. QED  BY <1>7, <2>1
<1>20. IsPng(st)  BY <1>12, <1>19 DEF IsPng
<1>21. \A j \in DOMAIN st : st[j].t = "IDAT" => j \in Int /\ j > 4
  BY <1>4, <1>8, <1>12, <1>14, <1>15
<1>22. ASSUME NEW key, NEW n \in {2, 3}, Texts(st, key) = {n}
       PROVE  PngText(st, key) = <<st[n].v>>
  <2> DEFINE pixels == {i \in DOMAIN st : st[i].t = "IDAT"}
             at == {i \in Texts(st, key) : \A j \in pixels : i < j}
             first == CHOOSE i \in at : \A j \in at : i <= j
  <2>1. at = {n}  BY <1>21, <1>22
  <2>2. first = n  BY <2>1
  <2>3. PngText(st, key) = IF ~IsPng(st) \/ at = {} THEN <<>> ELSE <<st[first].v>>
    BY DEF PngText
  <2> HIDE DEF at, first
  <2>4. QED  BY <1>20, <2>1, <2>2, <2>3
<1>23. PngText(st, "Thumb::URI") = <<u>> /\ PngText(st, "Thumb::MTime") = <<m>>
  <2>1. PngText(st, "Thumb::URI") = <<st[2].v>>  BY <1>17, <1>22
  <2>2. PngText(st, "Thumb::MTime") = <<st[3].v>>  BY <1>17, <1>22
  <2>3. QED  BY <1>14, <2>1, <2>2
<1>24. Shows(st) = Shows(png)
  <2>1. ASSUME NEW x \in Shows(st)  PROVE x \in Shows(png)
    <3>1. PICK i \in DOMAIN st : st[i].t = "IDAT" /\ x = st[i].of  BY <2>1 DEF Shows
    <3>2. i \in 1..(L + 3) /\ i > 4  BY <1>8, <1>21, <3>1
    <3>3. st[i] = K[i - 3] /\ i - 3 \in 1..L  BY <1>4, <1>9, <3>2
    <3>4. PICK j \in 1..N : K[i - 3] = png[j]  BY <1>3, <3>3
    <3>5. QED  BY <1>1, <3>1, <3>3, <3>4 DEF Shows
  <2>2. ASSUME NEW x \in Shows(png)  PROVE x \in Shows(st)
    <3>1. PICK i \in DOMAIN png : png[i].t = "IDAT" /\ x = png[i].of  BY <2>2 DEF Shows
    <3>2. ~IsStamp(png[i])  BY <3>1 DEF IsStamp
    <3>3. PICK j \in 1..L : K[j] = png[i]  BY <1>1, <1>3, <3>1, <3>2
    <3>4. j # 1  BY <1>1, <1>3, <3>1, <3>3
    <3>5. j \in 2..L /\ j + 3 \in 1..(L + 3)  BY <1>4, <3>4
    <3>6. st[j + 3] = png[i]  BY <1>7, <3>3, <3>5
    <3>7. QED  BY <1>8, <3>1, <3>5, <3>6 DEF Shows
  <2>3. QED  BY <2>1, <2>2
<1>25. QED  BY <1>18, <1>20, <1>23, <1>24 DEF StampedAs, IsEntryOf, st

-----------------------------------------------------------------------------
(* What a lookup answers with. A file is known by its mtime: other         *)
(* programs never give one twice, so a time that is not the file's now     *)
(* never comes back.                                                       *)

Gone(p, m) == file[p] # <<>> => file[p][1].mtime # m
Pictures(p, m, png) == Shows(png) = {m} \/ Gone(p, m)
Deserved(p, m) == m \in judged \/ Gone(p, m)

FilesRight ==
  /\ made \in 1..MaxFiles /\ DOMAIN file = Paths
  /\ \A p \in Paths : file[p] # <<>> =>
       file[p][1].mtime \in 1..made /\ file[p][1].of = file[p][1].mtime

Shaped ==
  /\ DOMAIN large = Uris /\ DOMAIN fail = Uris /\ DOMAIN job = Workers
  /\ \A w \in Workers : DOMAIN job[w] = {"pc", "path", "mtime", "png"}

\* A worker's time is of a file its path has had; the picture it holds, and
\* the verdict it brings, are of that file or of one that is gone.
JobRight(w) ==
  /\ job[w].pc # "idle" => job[w].path \in Paths /\ job[w].mtime \in 1..made
  /\ job[w].pc = "stamp" /\ IsPng(job[w].png) =>
       /\ job[w].png \in Seq(ToSet(job[w].png))
       /\ Pictures(job[w].path, job[w].mtime, job[w].png)
  /\ job[w].pc = "publish" =>
       /\ StampedAs(job[w].png, UriFor(job[w].path), job[w].mtime)
       /\ Pictures(job[w].path, job[w].mtime, job[w].png)
  /\ job[w].pc \in {"mark", "marking"} => Deserved(job[w].path, job[w].mtime)

EntryRight(p) ==
  large[UriFor(p)] # <<>> =>
    \E m \in 1..made : StampedAs(large[UriFor(p)], UriFor(p), m)
                       /\ Pictures(p, m, large[UriFor(p)])

MarkRight(p) ==
  fail[UriFor(p)] # <<>> =>
    \E m \in 1..made : StampedAs(fail[UriFor(p)], UriFor(p), m) /\ Deserved(p, m)

CInv ==
  /\ FilesRight /\ Shaped
  /\ \A w \in Workers : JobRight(w)
  /\ \A p \in Paths : EntryRight(p) /\ MarkRight(p)

LEMMA OneUri ==
  ASSUME NEW p \in Paths, NEW q \in Paths, UriFor(p) = UriFor(q)
  PROVE  p = q
<1>1. p \in Seq(Byte) /\ q \in Seq(Byte)  BY ThumbFilesAssumption DEF Byte
<1>2. QED  BY <1>1, UriTellsApart

\* What a step leaves alone stays right: more is judged, and no file changed.
LEMMA JobStays ==
  ASSUME NEW w, JobRight(w), UNCHANGED <<file, made>>, judged \subseteq judged',
         job'[w] = job[w]
  PROVE  JobRight(w)'
  BY DEF JobRight, Pictures, Deserved, Gone

LEMMA EntryStays ==
  ASSUME NEW p, EntryRight(p), UNCHANGED <<file, made>>,
         large'[UriFor(p)] = large[UriFor(p)]
  PROVE  EntryRight(p)'
  BY DEF EntryRight, Pictures, Gone

LEMMA MarkStays ==
  ASSUME NEW p, MarkRight(p), UNCHANGED <<file, made>>, judged \subseteq judged',
         fail'[UriFor(p)] = fail[UriFor(p)]
  PROVE  MarkRight(p)'
  BY DEF MarkRight, Deserved, Gone

\* A step of one worker that publishes nothing has only its own job to answer for.
LEMMA OwnJob ==
  ASSUME CInv, NEW w \in Workers, UNCHANGED <<file, made, large, fail>>,
         judged \subseteq judged', DOMAIN job' = Workers,
         \A v \in Workers : v # w => job'[v] = job[v],
         DOMAIN job'[w] = {"pc", "path", "mtime", "png"}, JobRight(w)'
  PROVE  CInv'
<1>1. FilesRight'  BY DEF CInv, FilesRight
<1>2. Shaped'  BY DEF CInv, Shaped
<1>3. ASSUME NEW v \in Workers  PROVE JobRight(v)'
  BY JobStays DEF CInv
<1>4. ASSUME NEW p \in Paths  PROVE EntryRight(p)' /\ MarkRight(p)'
  BY EntryStays, MarkStays DEF CInv
<1>5. QED  BY <1>1, <1>2, <1>3, <1>4 DEF CInv

\* A job that ends, and one that moves on with what it has.
LEMMA EndsRight ==
  ASSUME CInv, NEW w \in Workers, Ends(w)
  PROVE  /\ DOMAIN job' = Workers
         /\ \A v \in Workers : v # w => job'[v] = job[v]
         /\ DOMAIN job'[w] = {"pc", "path", "mtime", "png"}
         /\ JobRight(w)'
<1>1. job' = [job EXCEPT ![w] = Idle] /\ DOMAIN job = Workers  BY DEF Ends, CInv, Shaped
<1>2. job'[w] = Idle  BY <1>1
<1>3. job'[w].pc = "idle" /\ DOMAIN job'[w] = {"pc", "path", "mtime", "png"}
  BY <1>2 DEF Idle
<1>4. JobRight(w)'  BY <1>3 DEF JobRight
<1>5. QED  BY <1>1, <1>3, <1>4

LEMMA GoesRight ==
  ASSUME CInv, NEW w \in Workers, NEW pc, Goes(w, pc)
  PROVE  /\ DOMAIN job' = Workers
         /\ \A v \in Workers : v # w => job'[v] = job[v]
         /\ DOMAIN job'[w] = {"pc", "path", "mtime", "png"}
         /\ job'[w].pc = pc /\ job'[w].path = job[w].path
         /\ job'[w].mtime = job[w].mtime /\ job'[w].png = job[w].png
  BY DEF Goes, CInv, Shaped

\* In the parts of a job that hold neither a picture nor a verdict.
LEMMA GoesPlainly ==
  ASSUME CInv, NEW w \in Workers, NEW pc \in {"child", "discard"}, Goes(w, pc),
         job[w].pc # "idle", UNCHANGED <<file, made, large, fail>>, judged \subseteq judged'
  PROVE  CInv'
<1>1. JobRight(w)
  BY DEF CInv
<1>2. JobRight(w)'
  BY <1>1, GoesRight DEF JobRight
<1>3. QED  BY <1>2, GoesRight, OwnJob

LEMMA EndsKeeps ==
  ASSUME CInv, NEW w \in Workers, Ends(w), UNCHANGED <<file, made, large, fail>>,
         judged \subseteq judged'
  PROVE  CInv'
  BY EndsRight, OwnJob

LEMMA InitRight == Init => CInv
<1> SUFFICES ASSUME Init PROVE CInv  OBVIOUS
<1>1. FilesRight
  <2>1. made = 1 /\ 1 \in 1..MaxFiles /\ DOMAIN file = Paths  BY ThumbFilesAssumption DEF Init
  <2>2. ASSUME NEW p \in Paths  PROVE file[p][1].mtime = 1 /\ file[p][1].of = 1
    BY DEF Init
  <2>3. QED  BY <2>1, <2>2 DEF FilesRight
<1>2. Shaped  BY DEF Init, Shaped, Idle
<1>3. \A w \in Workers : JobRight(w)  BY DEF Init, JobRight, Idle
<1>4. \A p \in Paths : EntryRight(p) /\ MarkRight(p)
  BY DEF Init, EntryRight, MarkRight, Uris
<1>5. QED  BY <1>1, <1>2, <1>3, <1>4 DEF CInv

LEMMA AskRight ==
  ASSUME CInv, NEW w \in Workers, NEW path \in Paths, Ask(w, path)
  PROVE  CInv'
<1> DEFINE new == [pc |-> "temp", path |-> path, mtime |-> file[path][1].mtime, png |-> <<>>]
<1>1. /\ UNCHANGED <<file, made, large, fail, judged>>
      /\ job' = [job EXCEPT ![w] = new] /\ file[path] # <<>>
  BY DEF Ask
<1>2. DOMAIN job = Workers /\ file[path][1].mtime \in 1..made
  BY <1>1 DEF CInv, Shaped, FilesRight
<1>3. /\ DOMAIN job' = Workers /\ job'[w] = new
      /\ \A v \in Workers : v # w => job'[v] = job[v]
  BY <1>1, <1>2
<1>4. /\ DOMAIN new = {"pc", "path", "mtime", "png"} /\ new.pc = "temp"
      /\ new.path = path /\ new.mtime = file[path][1].mtime
  OBVIOUS
<1> HIDE DEF new
<1>5. JobRight(w)'  BY <1>1, <1>2, <1>3, <1>4 DEF JobRight
<1>6. QED  BY <1>1, <1>3, <1>4, <1>5, OwnJob

LEMMA PrepareRight ==
  ASSUME CInv, NEW w \in Workers, Prepare(w)
  PROVE  CInv'
<1>1. job[w].pc = "temp" /\ UNCHANGED <<file, made, large, fail, judged>>
  BY DEF Prepare, At
<1>2. CASE Goes(w, "child")  BY <1>1, <1>2, GoesPlainly
<1>3. CASE Ends(w)  BY <1>1, <1>3, EndsKeeps
<1>4. QED  BY <1>2, <1>3 DEF Prepare

\* What a child that succeeded left is what its thumbnailer draws of the file.
LEMMA DrewTheFile ==
  ASSUME NEW p, NEW o \in Outcomes(p), o.ran = "succeeded", o.png # <<>>
  PROVE  file[p] # <<>> /\ o.png \in Drawn[file[p][1].of]
<1> DEFINE drawn == IF file[p][1].good THEN Drawn[file[p][1].of] ELSE {<<>>}
           fine == {[ran |-> "succeeded", png |-> d] : d \in drawn}
           empty == {[ran |-> r, png |-> <<>>] : r \in {"not started", "failed"}}
<1>1. \A x \in empty : x.ran # "succeeded"
  <2> TAKE x \in empty
  <2>1. PICK r \in {"not started", "failed"} : x = [ran |-> r, png |-> <<>>]  OBVIOUS
  <2>2. QED  BY <2>1
<1>2. o \in empty \/ (file[p] # <<>> /\ o \in fine)  BY DEF Outcomes
<1>3. file[p] # <<>> /\ o \in fine
  <2> HIDE DEF empty, fine
  <2>1. QED  BY <1>1, <1>2
<1>4. o.png \in drawn  BY <1>3
<1>5. QED  BY <1>3, <1>4

\* The child ran on what the path named then: it drew the file the job is for,
\* or got nothing for it, or that file is gone.
LEMMA RunChildRight ==
  ASSUME CInv, NEW w \in Workers, RunChild(w)
  PROVE  CInv'
<1> PICK p, m : p = job[w].path /\ m = job[w].mtime  OBVIOUS
<1>1. /\ job[w].pc = "child" /\ UNCHANGED <<file, made, large, fail>>
  BY DEF RunChild, At
<1>2. PICK o \in Outcomes(p) :
        /\ job' = [job EXCEPT ![w].pc = Verdict(w, o), ![w].png = o.png]
        /\ judged' = IF o.ran # "not started" /\ ~WroteSomething(w, o) /\ file[p] # <<>>
                       THEN judged \cup {file[p][1].of} ELSE judged
  BY DEF RunChild
<1>3. p \in Paths /\ m \in 1..made  BY <1>1 DEF CInv, JobRight
<1>4. judged \subseteq judged'  BY <1>2
<1>5. /\ DOMAIN job' = Workers
      /\ \A v \in Workers : v # w => job'[v] = job[v]
      /\ DOMAIN job'[w] = {"pc", "path", "mtime", "png"}
      /\ job'[w].pc = Verdict(w, o) /\ job'[w].png = o.png
      /\ job'[w].path = p /\ job'[w].mtime = m
  BY <1>2 DEF CInv, Shaped
<1>6. file[p] # <<>> => file[p][1].mtime \in 1..made /\ file[p][1].of = file[p][1].mtime
  BY <1>3 DEF CInv, FilesRight
<1>7. CASE ~WroteSomething(w, o) /\ o.ran = "not started"
  <2>1. Verdict(w, o) = "discard"  BY <1>7 DEF Verdict
  <2>2. JobRight(w)'  BY <1>1, <1>3, <1>5, <2>1 DEF JobRight
  <2>3. QED  BY <1>1, <1>4, <1>5, <2>2, OwnJob
<1>8. CASE ~WroteSomething(w, o) /\ o.ran # "not started"
  <2>1. Verdict(w, o) = "mark"  BY <1>8 DEF Verdict
  <2>2. Deserved(p, m)'
    BY <1>1, <1>2, <1>6, <1>8 DEF Deserved, Gone
  <2>3. JobRight(w)'  BY <1>1, <1>3, <1>5, <2>1, <2>2 DEF JobRight
  <2>4. QED  BY <1>1, <1>4, <1>5, <2>3, OwnJob
<1>9. CASE WroteSomething(w, o)
  <2>1. Verdict(w, o) = "stamp"  BY <1>9 DEF Verdict
  <2>2. file[p] # <<>> /\ o.png \in Drawn[file[p][1].of]
    <3>1. o.ran = "succeeded" /\ o.png # <<>>  BY <1>9 DEF WroteSomething
    <3>2. QED  BY <3>1, DrewTheFile
  <2>3. file[p][1].of \in 1..MaxFiles
    <3>1. made \in 1..MaxFiles /\ MaxFiles \in Nat
      BY ThumbFilesAssumption DEF CInv, FilesRight
    <3> DEFINE f == file[p][1].of
    <3>2. f \in 1..made  BY <1>6, <2>2
    <3> HIDE DEF f
    <3>3. f \in 1..MaxFiles  BY <3>1, <3>2
    <3>4. QED  BY <3>3 DEF f
  <2>4. /\ o.png \in Seq(ToSet(o.png))
        /\ IsPng(o.png) => Shows(o.png) = {file[p][1].of}
    BY <2>2, <2>3, ThumbFilesAssumption, Zenon
  <2>5. IsPng(o.png) => Pictures(p, m, o.png)'
    BY <1>1, <1>6, <2>2, <2>4 DEF Pictures, Gone
  <2>6. JobRight(w)'  BY <1>1, <1>3, <1>5, <2>1, <2>4, <2>5 DEF JobRight
  <2>7. QED  BY <1>1, <1>4, <1>5, <2>6, OwnJob
<1>10. QED  BY <1>7, <1>8, <1>9

LEMMA GiveUpRight ==
  ASSUME CInv, NEW w \in Workers, GiveUp(w)
  PROVE  CInv'
  BY EndsKeeps DEF GiveUp

LEMMA StampRight ==
  ASSUME CInv, NEW w \in Workers, Stamp(w)
  PROVE  CInv'
<1>1. job[w].pc = "stamp" /\ UNCHANGED <<file, made, large, fail, judged>>
  BY DEF Stamp, At
<1>2. CASE Ends(w)  BY <1>1, <1>2, EndsKeeps
<1>3. CASE /\ IsPng(job[w].png)
           /\ job' = [job EXCEPT ![w].pc = "publish",
                                 ![w].png = Stamped(@, Uri(w), StampTime(w))]
  <2> PICK p, m, png : p = job[w].path /\ m = job[w].mtime /\ png = job[w].png  OBVIOUS
  <2> DEFINE st == Stamped(png, UriFor(p), m)
  <2>1. /\ p \in Paths /\ m \in 1..made
        /\ png \in Seq(ToSet(png)) /\ IsPng(png) /\ Pictures(p, m, png)
    BY <1>1, <1>3 DEF CInv, JobRight
  <2>2. /\ DOMAIN job' = Workers
        /\ \A v \in Workers : v # w => job'[v] = job[v]
        /\ DOMAIN job'[w] = {"pc", "path", "mtime", "png"}
        /\ job'[w].pc = "publish" /\ job'[w].png = st
        /\ job'[w].path = p /\ job'[w].mtime = m
    BY <1>3 DEF CInv, Shaped, Uri, StampTime
  <2>3. StampedAs(st, UriFor(p), m) /\ Shows(st) = Shows(png)  BY <2>1, StampedIs
  <2> HIDE DEF st
  <2>4. Pictures(p, m, st)'  BY <1>1, <2>1, <2>3 DEF Pictures, Gone
  <2>5. JobRight(w)'  BY <1>1, <2>1, <2>2, <2>3, <2>4 DEF JobRight
  <2>6. QED  BY <1>1, <2>2, <2>5, OwnJob
<1>4. QED  BY <1>2, <1>3 DEF Stamp

\* An entry is published under the one path's name it is stamped with.
LEMMA PublishRight ==
  ASSUME CInv, NEW w \in Workers, Publish(w)
  PROVE  CInv'
<1> PICK p, m, png : p = job[w].path /\ m = job[w].mtime /\ png = job[w].png  OBVIOUS
<1>1. /\ job[w].pc = "publish" /\ UNCHANGED <<file, made, fail, judged>> /\ Ends(w)
      /\ large' = [large EXCEPT ![UriFor(p)] = png] \/ large' = large
  BY DEF Publish, At, Uri
<1>2. /\ p \in Paths /\ m \in 1..made
      /\ StampedAs(png, UriFor(p), m) /\ Pictures(p, m, png)
  BY <1>1 DEF CInv, JobRight
<1>3. CASE large' = large  BY <1>1, <1>3, EndsKeeps
<1>4. CASE large' = [large EXCEPT ![UriFor(p)] = png]
  <2>1. FilesRight'  BY <1>1 DEF CInv, FilesRight
  <2>2. /\ DOMAIN job' = Workers
        /\ \A v \in Workers : v # w => job'[v] = job[v]
        /\ DOMAIN job'[w] = {"pc", "path", "mtime", "png"}
        /\ JobRight(w)'
    BY <1>1, EndsRight
  <2>3. Shaped'  BY <1>1, <1>4, <2>2 DEF CInv, Shaped
  <2>4. ASSUME NEW v \in Workers  PROVE JobRight(v)'
    BY <1>1, <2>2, JobStays DEF CInv
  <2>5. ASSUME NEW q \in Paths  PROVE MarkRight(q)'
    BY <1>1, MarkStays DEF CInv
  <2>6. UriFor(p) \in DOMAIN large  BY <1>2 DEF CInv, Shaped, Uris
  <2>7. ASSUME NEW q \in Paths  PROVE EntryRight(q)'
    <3>1. CASE q = p
      <4>1. large'[UriFor(p)] = png  BY <1>4, <2>6
      <4>2. Pictures(p, m, png)'  BY <1>1, <1>2 DEF Pictures, Gone
      <4>3. QED  BY <1>1, <1>2, <3>1, <4>1, <4>2 DEF EntryRight
    <3>2. CASE q # p
      <4>1. UriFor(q) # UriFor(p)  BY <1>2, <3>2, OneUri
      <4>2. UriFor(q) \in DOMAIN large  BY DEF CInv, Shaped, Uris
      <4>3. large'[UriFor(q)] = large[UriFor(q)]  BY <1>4, <4>1, <4>2
      <4>4. QED  BY <1>1, <4>3, EntryStays DEF CInv
    <3>3. QED  BY <3>1, <3>2
  <2>8. QED  BY <2>1, <2>3, <2>4, <2>5, <2>7 DEF CInv
<1>5. QED  BY <1>1, <1>3, <1>4

LEMMA MarkTempRight ==
  ASSUME CInv, NEW w \in Workers, MarkTemp(w)
  PROVE  CInv'
<1>1. job[w].pc = "mark" /\ UNCHANGED <<file, made, large, fail, judged>>
  BY DEF MarkTemp, At
<1>2. CASE Goes(w, "discard")  BY <1>1, <1>2, GoesPlainly
<1>3. CASE Goes(w, "marking")
  <2>1. JobRight(w)  BY DEF CInv
  <2>2. JobRight(w)'
    BY <1>1, <1>3, <2>1, GoesRight DEF JobRight, Deserved, Gone
  <2>3. QED  BY <1>1, <1>3, <2>2, GoesRight, OwnJob
<1>4. QED  BY <1>2, <1>3 DEF MarkTemp

LEMMA OnePixelIs ==
  /\ OnePixel \in Seq({[t |-> "IHDR"], Pixels(0)})
  /\ IsPng(OnePixel)
  BY DEF OnePixel, IsPng

LEMMA MarkRightly ==
  ASSUME CInv, NEW w \in Workers, Mark(w)
  PROVE  CInv'
<1> PICK p, m : p = job[w].path /\ m = job[w].mtime  OBVIOUS
<1> DEFINE png == Stamped(OnePixel, UriFor(p), m)
<1>1. /\ job[w].pc = "marking" /\ UNCHANGED <<file, made, large, judged>>
      /\ Goes(w, "discard")
      /\ fail' = [fail EXCEPT ![UriFor(p)] = png] \/ fail' = fail
  BY DEF Mark, At, Uri
<1>2. p \in Paths /\ m \in 1..made /\ Deserved(p, m)
  BY <1>1 DEF CInv, JobRight
<1>3. CASE fail' = fail  BY <1>1, <1>3, GoesPlainly
<1>4. CASE fail' = [fail EXCEPT ![UriFor(p)] = png]
  <2>1. FilesRight'  BY <1>1 DEF CInv, FilesRight
  <2>2. /\ DOMAIN job' = Workers
        /\ \A v \in Workers : v # w => job'[v] = job[v]
        /\ DOMAIN job'[w] = {"pc", "path", "mtime", "png"}
        /\ job'[w].pc = "discard" /\ job'[w].path = p /\ job'[w].mtime = m
    BY <1>1, GoesRight
  <2>3. StampedAs(png, UriFor(p), m)  BY OnePixelIs, StampedIs
  <2> HIDE DEF png
  <2>4. Shaped'  BY <1>1, <1>4, <2>2 DEF CInv, Shaped
  <2>5. JobRight(w)'  BY <1>1, <1>2, <2>2 DEF JobRight
  <2>6. ASSUME NEW v \in Workers  PROVE JobRight(v)'
    BY <1>1, <2>2, <2>5, JobStays DEF CInv
  <2>7. ASSUME NEW q \in Paths  PROVE EntryRight(q)'
    BY <1>1, EntryStays DEF CInv
  <2>8. UriFor(p) \in DOMAIN fail  BY <1>2 DEF CInv, Shaped, Uris
  <2>9. ASSUME NEW q \in Paths  PROVE MarkRight(q)'
    <3>1. CASE q = p
      <4>1. fail'[UriFor(p)] = png  BY <1>4, <2>8
      <4>2. Deserved(p, m)'  BY <1>1, <1>2 DEF Deserved, Gone
      <4>3. QED  BY <1>1, <1>2, <2>3, <3>1, <4>1, <4>2 DEF MarkRight
    <3>2. CASE q # p
      <4>1. UriFor(q) # UriFor(p)  BY <1>2, <3>2, OneUri
      <4>2. UriFor(q) \in DOMAIN fail  BY DEF CInv, Shaped, Uris
      <4>3. fail'[UriFor(q)] = fail[UriFor(q)]  BY <1>4, <4>1, <4>2
      <4>4. QED  BY <1>1, <4>3, MarkStays DEF CInv
    <3>3. QED  BY <3>1, <3>2
  <2>10. QED  BY <2>1, <2>4, <2>6, <2>7, <2>9 DEF CInv
<1>5. QED  BY <1>1, <1>3, <1>4

\* Other programs: what is gone stays gone, as a new file has a new time.
LEMMA FilesChange ==
  ASSUME CInv, NEW path \in Paths, Change(path)
  PROVE  CInv'
<1>1. UNCHANGED <<large, fail, job, judged>>  BY DEF Change, Write, Delete, Others
<1>2. /\ made' \in 1..MaxFiles /\ made \in Nat /\ made' \in Nat /\ made <= made'
      /\ \/ made' = made + 1 /\ \E good \in BOOLEAN :
              file' = [file EXCEPT ![path] = <<[of |-> made', mtime |-> made', good |-> good]>>]
         \/ made' = made /\ file' = [file EXCEPT ![path] = <<>>]
  <2>1. made \in 1..MaxFiles /\ MaxFiles \in Nat  BY ThumbFilesAssumption DEF CInv, FilesRight
  <2>2. QED  BY <2>1 DEF Change, Write, Delete
<1>3. DOMAIN file = Paths  BY DEF CInv, FilesRight
<1>4. DOMAIN file' = Paths /\ \A p \in Paths : p # path => file'[p] = file[p]
  BY <1>2, <1>3
<1>5. file'[path] # <<>> =>
        made' = made + 1 /\ file'[path][1].mtime = made' /\ file'[path][1].of = made'
  BY <1>2, <1>3
<1>6. ASSUME NEW p \in Paths, NEW m \in 1..made, Gone(p, m)  PROVE Gone(p, m)'
  <2>1. CASE p = path  BY <1>2, <1>5, <1>6, <2>1 DEF Gone
  <2>2. CASE p # path  BY <1>4, <1>6, <2>2 DEF Gone
  <2>3. QED  BY <2>1, <2>2
<1>7. 1..made \subseteq 1..made'  BY <1>2
<1>8. FilesRight'
  <2>1. ASSUME NEW p \in Paths, file'[p] # <<>>
        PROVE  file'[p][1].mtime \in 1..made' /\ file'[p][1].of = file'[p][1].mtime
    <3>1. CASE p = path  BY <1>2, <1>5, <2>1, <3>1
    <3>2. CASE p # path  BY <1>4, <1>7, <2>1, <3>2 DEF CInv, FilesRight
    <3>3. QED  BY <3>1, <3>2
  <2>2. QED  BY <1>2, <1>4, <2>1 DEF FilesRight
<1>9. Shaped'  BY <1>1 DEF CInv, Shaped
<1>10. ASSUME NEW w \in Workers  PROVE JobRight(w)'
  <2>1. JobRight(w)  BY DEF CInv
  <2>2. QED  BY <1>1, <1>6, <1>7, <2>1 DEF JobRight, Pictures, Deserved
<1>11. ASSUME NEW p \in Paths  PROVE EntryRight(p)' /\ MarkRight(p)'
  <2>1. EntryRight(p) /\ MarkRight(p)  BY DEF CInv
  <2>2. EntryRight(p)'  BY <1>1, <1>6, <1>7, <2>1 DEF EntryRight, Pictures
  <2>3. MarkRight(p)'  BY <1>1, <1>6, <1>7, <2>1 DEF MarkRight, Deserved
  <2>4. QED  BY <2>2, <2>3
<1>12. QED  BY <1>8, <1>9, <1>10, <1>11 DEF CInv

LEMMA WorkRight ==
  ASSUME CInv, NEW w \in Workers, Work(w)
  PROVE  CInv'
<1>1. CASE Prepare(w)  BY <1>1, PrepareRight
<1>2. CASE RunChild(w)  BY <1>2, RunChildRight
<1>3. CASE GiveUp(w)  BY <1>3, GiveUpRight
<1>4. CASE Stamp(w)  BY <1>4, StampRight
<1>5. CASE Publish(w)  BY <1>5, PublishRight
<1>6. CASE MarkTemp(w)  BY <1>6, MarkTempRight
<1>7. CASE Mark(w)  BY <1>7, MarkRightly
<1>8. QED  BY <1>1, <1>2, <1>3, <1>4, <1>5, <1>6, <1>7 DEF Work

LEMMA StepRight == CInv /\ [Next]_vars => CInv'
<1> SUFFICES ASSUME CInv, [Next]_vars PROVE CInv'  OBVIOUS
<1>1. CASE \E w \in Workers : (\E path \in Paths : Ask(w, path)) \/ Work(w)
  BY <1>1, AskRight, WorkRight
<1>2. CASE (\E p \in Procs : Drained(p) \/ Sweep(p) \/ Exit(p)) \/ UNCHANGED vars
  <2>1. UNCHANGED <<file, large, fail, job, made, judged>>
    BY <1>2 DEF Drained, Sweep, Exit, vars
  <2>2. FilesRight' /\ Shaped'  BY <2>1 DEF CInv, FilesRight, Shaped
  <2>3. ASSUME NEW w \in Workers  PROVE JobRight(w)'  BY <2>1, JobStays DEF CInv
  <2>4. ASSUME NEW p \in Paths  PROVE EntryRight(p)' /\ MarkRight(p)'
    BY <2>1, EntryStays, MarkStays DEF CInv
  <2>5. QED  BY <2>2, <2>3, <2>4 DEF CInv
<1>3. CASE \E path \in Paths : Change(path)  BY <1>3, FilesChange
<1>4. QED  BY <1>1, <1>2, <1>3 DEF Next

\* A time stamped on an entry is the time a lookup must ask for.
LEMMA StampedForIs ==
  ASSUME NEW png, NEW m, StampedFor(png, m)
  PROVE  /\ png # <<>>
         /\ \A u, n : StampedAs(png, u, n) => n = m
<1>1. PngText(png, "Thumb::MTime") = <<m>>  BY DEF StampedFor
<1>2. png # <<>>
  <2>1. png = <<>> => PngText(png, "Thumb::MTime") = <<>>  BY DEF PngText, IsPng
  <2>2. QED  BY <1>1, <2>1
<1>3. QED  BY <1>1, <1>2 DEF StampedAs

LEMMA RightIsCurrent == CInv => HitIsCurrent
<1> SUFFICES ASSUME CInv PROVE HitIsCurrent  OBVIOUS
<1>1. ASSUME NEW p \in Paths, file[p] # <<>>, Lookup(p, file[p][1].mtime) = "ready"
      PROVE  Shows(large[UriFor(p)]) = {file[p][1].of}
  <2> DEFINE t == file[p][1].mtime
             png == large[UriFor(p)]
  <2>1. StampedFor(png, t)  BY <1>1 DEF Lookup
  <2>2. png # <<>>  BY <2>1, StampedForIs
  <2>3. PICK m \in 1..made : StampedAs(png, UriFor(p), m) /\ Pictures(p, m, png)
    BY <2>2 DEF CInv, EntryRight
  <2>4. m = t  BY <2>1, <2>3, StampedForIs
  <2>5. file[p][1].of = t  BY <1>1 DEF CInv, FilesRight
  <2>6. QED  BY <1>1, <2>3, <2>4, <2>5 DEF Pictures, Gone
<1>2. ASSUME NEW u \in Uris, NEW png \in {large[u], fail[u]}, png # <<>>
      PROVE  IsEntryOf(png, u)
  <2>1. PICK p \in Paths : u = UriFor(p)  BY DEF Uris
  <2>2. EntryRight(p) /\ MarkRight(p)  BY DEF CInv
  <2>3. QED  BY <1>2, <2>1, <2>2 DEF EntryRight, MarkRight, StampedAs
<1>3. QED  BY <1>1, <1>2 DEF HitIsCurrent

LEMMA RightIsOfItsBytes == CInv => MarkIsOfItsBytes
<1> SUFFICES ASSUME CInv, NEW p \in Paths, file[p] # <<>>,
                    Lookup(p, file[p][1].mtime) = "failed"
             PROVE  file[p][1].of \in judged
  BY DEF MarkIsOfItsBytes
<1> DEFINE t == file[p][1].mtime
           png == fail[UriFor(p)]
<1>1. StampedFor(png, t)  BY DEF Lookup
<1>2. png # <<>>  BY <1>1, StampedForIs
<1>3. PICK m \in 1..made : StampedAs(png, UriFor(p), m) /\ Deserved(p, m)
  BY <1>2 DEF CInv, MarkRight
<1>4. m = t  BY <1>1, <1>3, StampedForIs
<1>5. file[p][1].of = t  BY DEF CInv, FilesRight
<1>6. QED  BY <1>3, <1>4, <1>5 DEF Deserved, Gone

\* However workers and processes race for one entry, and whenever the file is
\* rewritten or removed under them, a lookup that hits answers with a picture
\* of the file that is there now, and whatever is published is a whole PNG
\* that names the one path its name stands for (thumbs.rs run_one,
\* thumbcache.rs lookup, uri_for, thumbwrite.rs write_stamped).
THEOREM HitsAreCurrent == Spec => []HitIsCurrent
  BY InitRight, StepRight, RightIsCurrent, PTL DEF Spec

\* A file a lookup calls failed is one a child was run on and got nothing for:
\* however files are rewritten and jobs race, no child that never started, no
\* input that could not be resolved and no run on another version of the file
\* is held against the bytes that are there now (thumbs.rs run_one,
\* record_failure). What made that run come to nothing, the bytes or the
\* machine, is not told.
THEOREM MarksAreOfTheirBytes == Spec => []MarkIsOfItsBytes
  BY InitRight, StepRight, RightIsOfItsBytes, PTL DEF Spec

-----------------------------------------------------------------------------
(* Which thumbnailer serves a type. A file is read, and the table filled,  *)
(* by a fold: what it has come to after the first n elements.              *)

FieldStep(f, l) ==
  IF l.k = "group" THEN [f EXCEPT !.in = l.v]
  ELSE IF ~f.in THEN f
  ELSE IF l.k = "Exec" THEN [f EXCEPT !.exec = <<l.v>>]
  ELSE IF l.k = "TryExec" THEN [f EXCEPT !.tried = <<l.v>>]
  ELSE [f EXCEPT !.mimes = @ \o l.v]
NoFields == [in |-> FALSE, exec |-> <<>>, tried |-> <<>>, mimes |-> <<>>]

\* The types a file is put in the table for.
Runs(f) == f.exec # <<>> /\ \A x \in ToSet(f.exec \o f.tried) : IsRunnable(x)
TypesOf(f) == IF Runs(f) THEN {Canonical[m] : m \in ToSet(f.mimes)} ELSE {}
TableStep(table, e) ==
  [t \in DOMAIN table \cup TypesOf(Fields(e.lines)) |->
     IF t \in DOMAIN table THEN table[t] ELSE Fields(e.lines).exec[1]]

Base(what) == IF what = "fields" THEN NoFields ELSE [t \in {} |-> {}]
StepOf(what, x, e) == IF what = "fields" THEN FieldStep(x, e) ELSE TableStep(x, e)

\* The function of sets the folds of the library are defined by.
Folding(g, what, n, seq) ==
  g = [s \in SUBSET (1..n) |->
         IF s = {} THEN Base(what) ELSE StepOf(what, g[s \ {Max(s)}], seq[Max(s)])]

LEMMA MaxIs ==
  ASSUME NEW n \in Nat, NEW s \in SUBSET (1..n), s # {}
  PROVE  Max(s) \in s /\ \A k \in s : k <= Max(s)
<1> DEFINE T == {n - k : k \in s}
<1>1. PICK m \in T : \A k \in T : m <= k
  <2>1. \A k \in s : n - k \in Nat  OBVIOUS
  <2>2. T \in SUBSET Nat /\ T # {}  BY <2>1
  <2> HIDE DEF T
  <2>3. QED  BY <2>2, Least
<1>2. PICK x \in s : m = n - x  BY <1>1
<1>3. \A k \in s : x >= k
  <2> TAKE k \in s
  <2>1. m <= n - k  BY <1>1
  <2>2. QED  BY <1>2, <2>1
<1>4. Max(s) \in s /\ \A k \in s : Max(s) >= k  BY <1>3 DEF Max
<1>5. QED  BY <1>4

LEMMA FoldingExists ==
  ASSUME NEW what, NEW seq, NEW n \in Nat
  PROVE  \E g : Folding(g, what, n, seq)
<1> DEFINE T == {k \in Nat : ~\E g : Folding(g, what, k, seq)}
<1> SUFFICES ASSUME T # {} PROVE FALSE  OBVIOUS
<1>1. PICK m \in T : \A k \in T : m <= k
  <2>1. T \in SUBSET Nat  OBVIOUS
  <2> HIDE DEF T
  <2>2. QED  BY <2>1, Least
<1>2. m \in Nat /\ ~\E g : Folding(g, what, m, seq)  OBVIOUS
<1>3. CASE m = 0
  <2>1. 1..m = {}  BY <1>3
  <2> DEFINE g == [s \in SUBSET (1..m) |-> Base(what)]
  <2>2. Folding(g, what, m, seq)  BY <2>1 DEF Folding
  <2>3. QED  BY <1>2, <2>2
<1>4. CASE m # 0
  <2>1. m - 1 \in Nat /\ m - 1 \notin T  BY <1>1, <1>2, <1>4
  <2>2. PICK g : Folding(g, what, m - 1, seq)  BY <2>1
  <2>3. 1..m = (1..(m - 1)) \cup {m} /\ m \notin 1..(m - 1)  BY <1>2, <1>4
  <2> DEFINE f == [s \in SUBSET (1..m) |-> IF m \in s THEN StepOf(what, g[s \ {m}], seq[m]) ELSE g[s]]
             h == [s \in SUBSET (1..m) |->
                     IF s = {} THEN Base(what) ELSE StepOf(what, f[s \ {Max(s)}], seq[Max(s)])]
  <2>4. \A s \in SUBSET (1..m) : f[s] = h[s]
    <3> TAKE s \in SUBSET (1..m)
    <3>1. CASE s = {}
      <4>1. g[s] = Base(what)  BY <2>2, <3>1 DEF Folding
      <4>2. QED  BY <3>1, <4>1
    <3>2. CASE s # {} /\ m \notin s
      <4>1. s \in SUBSET (1..(m - 1)) /\ s \ {Max(s)} \in SUBSET (1..(m - 1))  BY <2>3, <3>2
      <4>2. g[s] = StepOf(what, g[s \ {Max(s)}], seq[Max(s)])  BY <2>2, <3>2, <4>1 DEF Folding
      <4>3. f[s] = g[s] /\ f[s \ {Max(s)}] = g[s \ {Max(s)}]  BY <2>3, <3>2, <4>1
      <4>4. QED  BY <3>2, <4>2, <4>3
    <3>3. CASE m \in s
      <4>1. Max(s) \in s /\ \A k \in s : k <= Max(s)  BY <1>2, <3>3, MaxIs
      <4>2. Max(s) = m
        <5>1. Max(s) \in 1..m /\ m <= Max(s)  BY <3>3, <4>1
        <5>2. QED  BY <1>2, <5>1
      <4>3. f[s \ {m}] = g[s \ {m}]  OBVIOUS
      <4>4. f[s] = StepOf(what, g[s \ {m}], seq[m])  BY <3>3
      <4>5. h[s] = StepOf(what, f[s \ {m}], seq[m])  BY <3>3, <4>2
      <4>6. QED  BY <4>3, <4>4, <4>5
    <3>4. QED  BY <3>1, <3>2, <3>3
  <2>5. f = h
    <3>1. f = [s \in SUBSET (1..m) |-> f[s]] /\ h = [s \in SUBSET (1..m) |-> h[s]]  OBVIOUS
    <3> HIDE DEF f, h
    <3>2. QED  BY <2>4, <3>1
  <2>6. Folding(f, what, m, seq)  BY <2>5 DEF Folding
  <2>7. QED  BY <1>2, <2>6
<1>5. QED  BY <1>3, <1>4

\* h[n] is what the first n elements come to.
FoldsTo(h, what, N, seq) ==
  /\ h[0] = Base(what)
  /\ \A n \in 1..N : h[n] = StepOf(what, h[n - 1], seq[n])

LEMMA FoldingGoes ==
  ASSUME NEW what, NEW seq, NEW N \in Nat, NEW g, Folding(g, what, N, seq)
  PROVE  \E h : FoldsTo(h, what, N, seq) /\ h[N] = g[1..N]
<1> DEFINE h == [n \in 0..N |-> g[1..n]]
<1>1. h[0] = Base(what)
  <2>1. {} \in SUBSET (1..N) /\ 1..0 = {}  OBVIOUS
  <2>2. g[{}] = Base(what)  BY <2>1 DEF Folding
  <2>3. QED  BY <2>1, <2>2
<1>2. ASSUME NEW n \in 1..N PROVE h[n] = StepOf(what, h[n - 1], seq[n])
  <2> DEFINE s == 1..n
  <2>1. s \in SUBSET (1..N) /\ s # {} /\ n \in s /\ s \ {n} = 1..(n - 1) /\ n - 1 \in 0..N
    OBVIOUS
  <2>2. h[n] = g[1..n] /\ h[n - 1] = g[1..(n - 1)]  BY <2>1
  <2>3. h[n] = g[s] /\ h[n - 1] = g[s \ {n}]  BY <2>1, <2>2
  <2>4. Max(s) \in s /\ \A k \in s : k <= Max(s)
    <3>1. n \in Nat /\ s \in SUBSET (1..n)  OBVIOUS
    <3> HIDE DEF s
    <3>2. QED  BY <2>1, <3>1, MaxIs
  <2>5. Max(s) = n
    <3>1. Max(s) \in 1..n /\ n <= Max(s)  BY <2>1, <2>4
    <3>2. QED  BY <3>1
  <2> HIDE DEF s, h
  <2>6. g[s] = StepOf(what, g[s \ {Max(s)}], seq[Max(s)])  BY <2>1 DEF Folding
  <2>7. QED  BY <2>3, <2>5, <2>6
<1>3. h[N] = g[1..N]  OBVIOUS
<1>4. FoldsTo(h, what, N, seq)  BY <1>1, <1>2 DEF FoldsTo
<1>5. QED  BY <1>3, <1>4

LEMMA FieldsGoes ==
  ASSUME NEW S, NEW lines \in Seq(S)
  PROVE  \E h : FoldsTo(h, "fields", Len(lines), lines) /\ h[Len(lines)] = Fields(lines)
<1> DEFINE Iter(g) == g = [s \in SUBSET (DOMAIN lines) |->
                             IF s = {} THEN NoFields ELSE FieldStep(g[s \ {Max(s)}], lines[Max(s)])]
           chosen == CHOOSE g : Iter(g)
<1>1. PICK N \in Nat : N = Len(lines) /\ DOMAIN lines = 1..N  OBVIOUS
<1>2. Fields(lines) = chosen[DOMAIN lines]
  BY DEF Fields, FoldLeft, MapThenFoldSet, FieldStep, NoFields
<1>3. \A g : Iter(g) <=> Folding(g, "fields", N, lines)  BY <1>1 DEF Folding, Base, StepOf
<1>4. \E g : Iter(g)  BY <1>3, FoldingExists
<1>5. Iter(chosen)  BY <1>4
<1> HIDE DEF Iter, chosen
<1>6. Folding(chosen, "fields", N, lines)  BY <1>3, <1>5
<1>7. QED  BY <1>1, <1>2, <1>6, FoldingGoes

LEMMA TableGoes ==
  ASSUME NEW S, NEW seq \in Seq(S), seq = Entries
  PROVE  \E h : FoldsTo(h, "table", Len(seq), seq) /\ h[Len(seq)] = ByMime
<1> DEFINE Iter(g) == g = [s \in SUBSET (DOMAIN seq) |->
                             IF s = {} THEN [t \in {} |-> {}]
                             ELSE TableStep(g[s \ {Max(s)}], seq[Max(s)])]
           chosen == CHOOSE g : Iter(g)
<1>1. PICK N \in Nat : N = Len(seq) /\ DOMAIN seq = 1..N  OBVIOUS
<1>2. ByMime = chosen[DOMAIN seq]
  BY DEF ByMime, FoldLeft, MapThenFoldSet, TableStep, TypesOf, Runs
<1>3. \A g : Iter(g) <=> Folding(g, "table", N, seq)  BY <1>1 DEF Folding, Base, StepOf
<1>4. \E g : Iter(g)  BY <1>3, FoldingExists
<1>5. Iter(chosen)  BY <1>4
<1> HIDE DEF Iter, chosen
<1>6. Folding(chosen, "table", N, seq)  BY <1>3, <1>5
<1>7. QED  BY <1>1, <1>2, <1>6, FoldingGoes

-----------------------------------------------------------------------------
(* What a thumbnailer file declares.                                       *)

Kinds == {"group", "Exec", "TryExec", "MimeType"}

LEMMA EntryIs ==
  ASSUME NEW lines, IsEntry(lines)
  PROVE  /\ lines \in Seq(ToSet(lines)) /\ Len(lines) \in Nat /\ DOMAIN lines = 1..Len(lines)
         /\ \A i \in 1..Len(lines) :
              /\ lines[i] = [k |-> lines[i].k, v |-> lines[i].v] /\ lines[i].k \in Kinds
              /\ lines[i].k = "group" => lines[i].v \in BOOLEAN
              /\ lines[i].k = "MimeType" => lines[i].v \in Seq(DOMAIN Canonical)
<1>1. lines \in Seq(ToSet(lines)) /\ Len(lines) \in Nat /\ DOMAIN lines = 1..Len(lines)
  BY DEF IsEntry
<1>2. ASSUME NEW i \in 1..Len(lines)
      PROVE  /\ lines[i] = [k |-> lines[i].k, v |-> lines[i].v] /\ lines[i].k \in Kinds
             /\ lines[i].k = "group" => lines[i].v \in BOOLEAN
             /\ lines[i].k = "MimeType" => lines[i].v \in Seq(DOMAIN Canonical)
  <2>1. lines[i] \in ToSet(lines)  BY <1>1
  <2>2. PICK l : l = lines[i]  OBVIOUS
  <2>3. l \in [k : {"group"}, v : BOOLEAN] \cup [k : {"Exec", "TryExec"}, v : {l.v}]
              \cup [k : {"MimeType"}, v : Seq(DOMAIN Canonical)]
    BY <2>1, <2>2 DEF IsEntry
  <2>4. l = [k |-> l.k, v |-> l.v] /\ l.k \in Kinds  BY <2>3 DEF Kinds
  <2>5. (l.k = "group" => l.v \in BOOLEAN) /\ (l.k = "MimeType" => l.v \in Seq(DOMAIN Canonical))
    BY <2>3
  <2>6. QED  BY <2>2, <2>4, <2>5
<1>3. QED  BY <1>1, <1>2

\* Line n is in the group that counts, and what stands so under a key.
InAt(lines, n) ==
  \E g \in 1..n : lines[g] = [k |-> "group", v |-> TRUE] /\ \A j \in g + 1..n : lines[j].k # "group"
NamedTo(lines, k, n) == {i \in 1..n : InAt(lines, i) /\ lines[i].k = k}
LastIs(x, lines, k, n) ==
  \/ x = <<>> /\ NamedTo(lines, k, n) = {}
  \/ \E m \in NamedTo(lines, k, n) : x = <<lines[m].v>> /\ \A j \in NamedTo(lines, k, n) : j <= m

\* What has been read of the first n lines is what they say.
Fit(f, lines, n) ==
  /\ f = [in |-> f.in, exec |-> f.exec, tried |-> f.tried, mimes |-> f.mimes]
  /\ f.in \in BOOLEAN /\ (f.in <=> InAt(lines, n))
  /\ LastIs(f.exec, lines, "Exec", n) /\ LastIs(f.tried, lines, "TryExec", n)
  /\ f.mimes \in Seq(DOMAIN Canonical)
  /\ \A x : x \in ToSet(f.mimes) <=>
              \E i \in NamedTo(lines, "MimeType", n) : x \in ToSet(lines[i].v)

LEMMA InNext ==
  ASSUME NEW lines, IsEntry(lines), NEW n \in 1..Len(lines)
  PROVE  /\ lines[n].k = "group" => (InAt(lines, n) <=> lines[n].v)
         /\ lines[n].k # "group" => (InAt(lines, n) <=> InAt(lines, n - 1))
<1>1. /\ Len(lines) \in Nat /\ lines[n] = [k |-> lines[n].k, v |-> lines[n].v]
      /\ lines[n].k = "group" => lines[n].v \in BOOLEAN
  BY EntryIs
<1>2. CASE lines[n].k = "group"
  <2>1. lines[n].v => InAt(lines, n)
    <3>1. lines[n].v => lines[n] = [k |-> "group", v |-> TRUE]  BY <1>1, <1>2
    <3>2. n \in 1..n /\ n + 1..n = {}  BY <1>1
    <3>3. QED  BY <3>1, <3>2 DEF InAt
  <2>2. InAt(lines, n) => lines[n].v
    <3> SUFFICES ASSUME InAt(lines, n) PROVE lines[n].v  OBVIOUS
    <3>1. PICK g \in 1..n : /\ lines[g] = [k |-> "group", v |-> TRUE]
                            /\ \A j \in g + 1..n : lines[j].k # "group"
      BY DEF InAt
    <3>2. g = n
      <4>1. n \notin g + 1..n  BY <1>2, <3>1
      <4>2. QED  BY <1>1, <3>1, <4>1
    <3>3. QED  BY <3>1, <3>2
  <2>3. QED  BY <1>2, <2>1, <2>2
<1>3. CASE lines[n].k # "group"
  <2>1. ASSUME InAt(lines, n) PROVE InAt(lines, n - 1)
    <3>1. PICK g \in 1..n : /\ lines[g] = [k |-> "group", v |-> TRUE]
                            /\ \A j \in g + 1..n : lines[j].k # "group"
      BY <2>1 DEF InAt
    <3>2. g # n  BY <1>3, <3>1
    <3>3. g \in 1..n - 1 /\ g + 1..n - 1 \subseteq g + 1..n  BY <1>1, <3>2
    <3>4. QED  BY <3>1, <3>3 DEF InAt
  <2>2. ASSUME InAt(lines, n - 1) PROVE InAt(lines, n)
    <3>1. PICK g \in 1..n - 1 : /\ lines[g] = [k |-> "group", v |-> TRUE]
                                /\ \A j \in g + 1..n - 1 : lines[j].k # "group"
      BY <2>2 DEF InAt
    <3>2. \A j \in g + 1..n : j = n \/ j \in g + 1..n - 1  BY <1>1
    <3>3. \A j \in g + 1..n : lines[j].k # "group"  BY <1>3, <3>1, <3>2
    <3>4. g \in 1..n  BY <1>1
    <3>5. QED  BY <3>1, <3>3, <3>4 DEF InAt
  <2>3. QED  BY <1>3, <2>1, <2>2
<1>4. QED  BY <1>2, <1>3

LEMMA NamedNext ==
  ASSUME NEW lines, NEW n \in Nat, n > 0, NEW k
  PROVE  NamedTo(lines, k, n) =
           IF lines[n].k = k /\ InAt(lines, n) THEN NamedTo(lines, k, n - 1) \cup {n}
           ELSE NamedTo(lines, k, n - 1)
<1>1. 1..n = (1..n - 1) \cup {n}  OBVIOUS
<1>2. QED  BY <1>1 DEF NamedTo

LEMMA LastNext ==
  ASSUME NEW lines, NEW n \in Nat, n > 0, NEW k, NEW x, NEW y, LastIs(x, lines, k, n - 1),
         y = IF lines[n].k = k /\ InAt(lines, n) THEN <<lines[n].v>> ELSE x
  PROVE  LastIs(y, lines, k, n)
<1>1. CASE lines[n].k = k /\ InAt(lines, n)
  <2>1. y = <<lines[n].v>> /\ n \in NamedTo(lines, k, n)  BY <1>1 DEF NamedTo
  <2>2. \A j \in NamedTo(lines, k, n) : j <= n  BY DEF NamedTo
  <2>3. QED  BY <2>1, <2>2 DEF LastIs
<1>2. CASE ~(lines[n].k = k /\ InAt(lines, n))
  <2>1. y = x /\ NamedTo(lines, k, n) = NamedTo(lines, k, n - 1)  BY <1>2, NamedNext
  <2>2. QED  BY <2>1 DEF LastIs
<1>3. QED  BY <1>1, <1>2

\* The members of two sequences joined are the members of the one and of the other.
LEMMA ToSetJoined ==
  ASSUME NEW S, NEW a \in Seq(S), NEW b \in Seq(S)
  PROVE  a \o b \in Seq(S) /\ ToSet(a \o b) = ToSet(a) \cup ToSet(b)
<1>1. a \o b \in Seq(S) /\ Len(a \o b) = Len(a) + Len(b)  OBVIOUS
<1>2. ToSet(a \o b) = {(a \o b)[i] : i \in 1..Len(a \o b)}  BY DEF ToSet
<1>3. ToSet(a) = {a[i] : i \in 1..Len(a)} /\ ToSet(b) = {b[i] : i \in 1..Len(b)}  BY DEF ToSet
<1>4. ASSUME NEW i \in 1..Len(a)  PROVE i \in 1..Len(a \o b) /\ (a \o b)[i] = a[i]  BY <1>1
<1>5. ASSUME NEW i \in 1..Len(b)
      PROVE  Len(a) + i \in 1..Len(a \o b) /\ (a \o b)[Len(a) + i] = b[i]
  BY <1>1
<1>6. ASSUME NEW i \in 1..Len(a \o b)
      PROVE  i \in 1..Len(a) \/ (i - Len(a) \in 1..Len(b) /\ (a \o b)[i] = b[i - Len(a)])
  BY <1>1
<1>7. \A x : x \in ToSet(a \o b) => x \in ToSet(a) \cup ToSet(b)
  <2> SUFFICES ASSUME NEW i \in 1..Len(a \o b)
               PROVE  (a \o b)[i] \in ToSet(a) \cup ToSet(b)
    BY <1>2
  <2>1. CASE i \in 1..Len(a)  BY <1>3, <1>4, <2>1
  <2>2. CASE i - Len(a) \in 1..Len(b) /\ (a \o b)[i] = b[i - Len(a)]  BY <1>3, <2>2
  <2>3. QED  BY <1>6, <2>1, <2>2
<1>8. \A x : x \in ToSet(a) => x \in ToSet(a \o b)  BY <1>2, <1>3, <1>4
<1>9. \A x : x \in ToSet(b) => x \in ToSet(a \o b)  BY <1>2, <1>3, <1>5
<1>10. QED  BY <1>1, <1>7, <1>8, <1>9

LEMMA StepFits ==
  ASSUME NEW lines, IsEntry(lines), NEW n \in 1..Len(lines), NEW f, Fit(f, lines, n - 1),
         NEW l, l = lines[n], NEW g, g = FieldStep(f, l)
  PROVE  Fit(g, lines, n)
<1>1. /\ Len(lines) \in Nat /\ n \in Nat /\ n > 0 /\ l.k \in Kinds
      /\ l.k = "group" => l.v \in BOOLEAN
      /\ l.k = "MimeType" => l.v \in Seq(DOMAIN Canonical)
  <2>1. Len(lines) \in Nat  BY EntryIs
  <2>2. n \in Nat /\ n > 0  BY <2>1
  <2>3. /\ lines[n].k \in Kinds
        /\ lines[n].k = "group" => lines[n].v \in BOOLEAN
        /\ lines[n].k = "MimeType" => lines[n].v \in Seq(DOMAIN Canonical)
    BY EntryIs
  <2>4. QED  BY <2>1, <2>2, <2>3
<1>2. f = [in |-> f.in, exec |-> f.exec, tried |-> f.tried, mimes |-> f.mimes] /\ f.in \in BOOLEAN
  BY DEF Fit
<1>3. InAt(lines, n) <=> IF l.k = "group" THEN l.v ELSE f.in
  BY InNext DEF Fit
<1>4. /\ g = [in |-> g.in, exec |-> g.exec, tried |-> g.tried, mimes |-> g.mimes]
      /\ g.in = IF l.k = "group" THEN l.v ELSE f.in
  BY <1>1, <1>2 DEF FieldStep, Kinds
<1>5. /\ g.exec = IF l.k = "Exec" /\ InAt(lines, n) THEN <<l.v>> ELSE f.exec
      /\ g.tried = IF l.k = "TryExec" /\ InAt(lines, n) THEN <<l.v>> ELSE f.tried
      /\ g.mimes = IF l.k = "MimeType" /\ InAt(lines, n) THEN f.mimes \o l.v ELSE f.mimes
  BY <1>1, <1>2, <1>3 DEF FieldStep, Kinds
<1>6. LastIs(g.exec, lines, "Exec", n) /\ LastIs(g.tried, lines, "TryExec", n)
  BY <1>1, <1>5, LastNext DEF Fit
<1>7. /\ g.mimes \in Seq(DOMAIN Canonical)
      /\ \A x : x \in ToSet(g.mimes) <=>
                  \E i \in NamedTo(lines, "MimeType", n) : x \in ToSet(lines[i].v)
  <2>1. /\ f.mimes \in Seq(DOMAIN Canonical)
        /\ \A x : x \in ToSet(f.mimes) <=>
                    \E i \in NamedTo(lines, "MimeType", n - 1) : x \in ToSet(lines[i].v)
    BY DEF Fit
  <2>2. CASE l.k = "MimeType" /\ InAt(lines, n)
    <3>1. PICK a, b \in Seq(DOMAIN Canonical) : a = f.mimes /\ b = l.v  BY <1>1, <2>1, <2>2
    <3>2. g.mimes = a \o b  BY <1>5, <2>2, <3>1
    <3>3. a \o b \in Seq(DOMAIN Canonical) /\ ToSet(a \o b) = ToSet(a) \cup ToSet(b)
      BY ToSetJoined
    <3>4. NamedTo(lines, "MimeType", n) = NamedTo(lines, "MimeType", n - 1) \cup {n}
      BY <1>1, <2>2, NamedNext
    <3>5. QED  BY <2>1, <3>1, <3>2, <3>3, <3>4
  <2>3. CASE ~(l.k = "MimeType" /\ InAt(lines, n))
    <3>1. NamedTo(lines, "MimeType", n) = NamedTo(lines, "MimeType", n - 1)
      BY <1>1, <2>3, NamedNext
    <3>2. QED  BY <1>5, <2>1, <2>3, <3>1
  <2>4. QED  BY <2>2, <2>3
<1>8. QED  BY <1>1, <1>2, <1>3, <1>4, <1>6, <1>7 DEF Fit

LEMMA FieldsFit ==
  ASSUME NEW lines, IsEntry(lines)
  PROVE  Fit(Fields(lines), lines, Len(lines))
<1>1. PICK N \in Nat : N = Len(lines) /\ lines \in Seq(ToSet(lines))  BY EntryIs
<1>2. PICK h : FoldsTo(h, "fields", N, lines) /\ h[N] = Fields(lines)  BY <1>1, FieldsGoes
<1>3. h[0] = NoFields /\ \A n \in 1..N : h[n] = FieldStep(h[n - 1], lines[n])
  BY <1>2 DEF FoldsTo, Base, StepOf
<1> DEFINE T == {n \in 0..N : ~Fit(h[n], lines, n)}
<1>4. T = {}
  <2> SUFFICES ASSUME T # {} PROVE FALSE  OBVIOUS
  <2>1. PICK m \in T : \A n \in T : m <= n
    <3>1. T \in SUBSET Nat  OBVIOUS
    <3> HIDE DEF T
    <3>2. QED  BY <3>1, Least
  <2>2. m \in 0..N /\ ~Fit(h[m], lines, m)  OBVIOUS
  <2>3. CASE m = 0
    <3>1. PICK f : f = h[0] /\ f = NoFields  BY <1>3
    <3>2. 1..0 = {} /\ ToSet(<<>>) = {} /\ <<>> \in Seq(DOMAIN Canonical)  BY DEF ToSet
    <3>3. ~InAt(lines, 0) /\ \A k : NamedTo(lines, k, 0) = {}  BY <3>2 DEF InAt, NamedTo
    <3>4. Fit(f, lines, 0)  BY <3>1, <3>2, <3>3 DEF Fit, LastIs, NoFields
    <3>5. QED  BY <2>2, <2>3, <3>1, <3>4
  <2>4. CASE m # 0
    <3>1. m \in 1..Len(lines) /\ m - 1 \in 0..N /\ m - 1 \notin T  BY <1>1, <2>1, <2>2, <2>4
    <3>2. PICK f, g, l : f = h[m - 1] /\ g = h[m] /\ l = lines[m]  OBVIOUS
    <3>3. Fit(f, lines, m - 1) /\ g = FieldStep(f, l)  BY <1>1, <1>3, <3>1, <3>2
    <3>4. Fit(g, lines, m)  BY <3>1, <3>2, <3>3, StepFits
    <3>5. QED  BY <2>2, <3>2, <3>4
  <2>5. QED  BY <2>3, <2>4
<1>5. N \in 0..N /\ N \notin T  BY <1>4
<1>6. QED  BY <1>1, <1>2, <1>5

\* The value of the last line under a key, if there is one.
FinalOf(lines, k) ==
  {lines[i].v : i \in {j \in NamedTo(lines, k, Len(lines)) :
                          \A n \in NamedTo(lines, k, Len(lines)) : n <= j}}

\* A MimeType line lists one that stands for this type.
Lists(lines, type) ==
  \E i \in NamedTo(lines, "MimeType", Len(lines)) :
    \E m \in ToSet(lines[i].v) : Canonical[m] = type

LEMMA FinalIs ==
  ASSUME NEW lines, IsEntry(lines), NEW x, NEW k, LastIs(x, lines, k, Len(lines))
  PROVE  /\ (x = <<>> /\ FinalOf(lines, k) = {}) \/ (\E v : x = <<v>> /\ FinalOf(lines, k) = {v})
         /\ x # <<>> => \E i \in NamedTo(lines, k, Len(lines)) : x = <<lines[i].v>>
<1> DEFINE N == NamedTo(lines, k, Len(lines))
<1>1. Len(lines) \in Nat  BY EntryIs
<1>2. N \subseteq Nat  BY <1>1 DEF NamedTo
<1>3. (x = <<>> /\ N = {}) \/ (\E m \in N : x = <<lines[m].v>> /\ \A j \in N : j <= m)
  BY DEF LastIs
<1>4. FinalOf(lines, k) = {lines[i].v : i \in {j \in N : \A n \in N : n <= j}}  BY DEF FinalOf
<1> HIDE DEF N
<1>5. CASE x = <<>> /\ N = {}  BY <1>4, <1>5
<1>6. CASE \E m \in N : x = <<lines[m].v>> /\ \A j \in N : j <= m
  <2>1. PICK m \in N : x = <<lines[m].v>> /\ \A j \in N : j <= m  BY <1>6
  <2>2. \A i \in N : (\A n \in N : n <= i) => i = m
    <3> SUFFICES ASSUME NEW i \in N, \A n \in N : n <= i PROVE i = m  OBVIOUS
    <3>1. m <= i /\ i <= m /\ i \in Nat /\ m \in Nat  BY <1>2, <2>1
    <3>2. QED  BY <3>1
  <2>3. {j \in N : \A n \in N : n <= j} = {m}  BY <2>1, <2>2
  <2>4. FinalOf(lines, k) = {lines[m].v}  BY <1>4, <2>3
  <2>5. QED  BY <2>1, <2>4 DEF N
<1>7. QED  BY <1>3, <1>5, <1>6

\* The keys a file is read for are the ones the property asks of it.
LEMMA ServesIs ==
  ASSUME NEW lines, IsEntry(lines), NEW f, f = Fields(lines), NEW type
  PROVE  /\ Runs(f) <=> /\ FinalOf(lines, "Exec") # {}
                        /\ FinalOf(lines, "Exec") \cup FinalOf(lines, "TryExec") \subseteq Runnable
         /\ Runs(f) => \E i \in DOMAIN lines : lines[i] = [k |-> "Exec", v |-> f.exec[1]]
         /\ type \in {Canonical[m] : m \in ToSet(f.mimes)} <=> Lists(lines, type)
<1>1. Fit(f, lines, Len(lines))  BY FieldsFit
<1>2. PICK a, b : a = f.exec /\ b = f.tried  OBVIOUS
<1>3. LastIs(a, lines, "Exec", Len(lines)) /\ LastIs(b, lines, "TryExec", Len(lines))
  BY <1>1, <1>2 DEF Fit
<1> DEFINE E == FinalOf(lines, "Exec")
           T == FinalOf(lines, "TryExec")
<1>4. /\ (a = <<>> /\ E = {}) \/ (\E v : a = <<v>> /\ E = {v})
      /\ (b = <<>> /\ T = {}) \/ (\E v : b = <<v>> /\ T = {v})
  BY <1>3, FinalIs
<1>5. a # <<>> => \E i \in NamedTo(lines, "Exec", Len(lines)) : a = <<lines[i].v>>
  BY <1>3, FinalIs
<1> HIDE DEF E, T
<1>6. ToSet(a \o b) = E \cup T
  <2>1. CASE a = <<>> /\ b = <<>>
    <3>1. a \o b = <<>> /\ ToSet(<<>>) = {} /\ E = {} /\ T = {}  BY <1>4, <2>1 DEF ToSet
    <3>2. QED  BY <3>1
  <2>2. CASE a = <<>> /\ b # <<>>
    <3>1. PICK v : b = <<v>> /\ T = {v} /\ E = {}  BY <1>4, <2>2
    <3>2. a \o b = <<v>> /\ ToSet(<<v>>) = {v}  BY <2>2, <3>1 DEF ToSet
    <3>3. QED  BY <3>1, <3>2
  <2>3. CASE a # <<>> /\ b = <<>>
    <3>1. PICK v : a = <<v>> /\ E = {v} /\ T = {}  BY <1>4, <2>3
    <3>2. a \o b = <<v>> /\ ToSet(<<v>>) = {v}  BY <2>3, <3>1 DEF ToSet
    <3>3. QED  BY <3>1, <3>2
  <2>4. CASE a # <<>> /\ b # <<>>
    <3>1. PICK v, u : a = <<v>> /\ E = {v} /\ b = <<u>> /\ T = {u}  BY <1>4, <2>4
    <3>2. ToSet(a \o b) = {v, u}
      <4>1. PICK S : v \in S /\ u \in S
        <5>1. v \in {v, u} /\ u \in {v, u}  OBVIOUS
        <5>2. QED  BY <5>1
      <4>2. a \in Seq(S) /\ b \in Seq(S) /\ Len(a) = 1 /\ Len(b) = 1 /\ a[1] = v /\ b[1] = u
        BY <3>1, <4>1
      <4>3. /\ a \o b \in Seq(S) /\ Len(a \o b) = Len(a) + Len(b)
            /\ \A k \in 1..Len(a) : (a \o b)[k] = a[k]
            /\ \A k \in 1..Len(b) : (a \o b)[Len(a) + k] = b[k]
        BY <4>2, ConcatIs
      <4>6. (a \o b)[1] = v /\ (a \o b)[2] = u /\ Len(a \o b) = 2
        <5>1. 1 \in 1..Len(a) /\ 1 \in 1..Len(b) /\ Len(a) + 1 = 2  BY <4>2
        <5>2. QED  BY <4>2, <4>3, <5>1
      <4>7. DOMAIN (a \o b) = {1, 2}  BY <4>3, <4>6
      <4>8. QED  BY <4>6, <4>7 DEF ToSet
    <3>3. QED  BY <3>1, <3>2
  <2>5. QED  BY <2>1, <2>2, <2>3, <2>4
<1>7. Runs(f) <=> E # {} /\ E \cup T \subseteq Runnable
  <2>1. a # <<>> <=> E # {}
    <3>1. \A v : <<v>> # <<>>  OBVIOUS
    <3>2. QED  BY <1>4, <3>1
  <2>2. Runs(f) <=> a # <<>> /\ \A x \in ToSet(a \o b) : x \in Runnable
    BY <1>2 DEF Runs, IsRunnable
  <2>3. QED  BY <1>6, <2>1, <2>2
<1>8. Runs(f) => \E i \in DOMAIN lines : lines[i] = [k |-> "Exec", v |-> f.exec[1]]
  <2> SUFFICES ASSUME Runs(f)
               PROVE  \E i \in DOMAIN lines : lines[i] = [k |-> "Exec", v |-> f.exec[1]]
    OBVIOUS
  <2>1. PICK i \in NamedTo(lines, "Exec", Len(lines)) : a = <<lines[i].v>>
    BY <1>2, <1>5 DEF Runs
  <2>2. i \in 1..Len(lines) /\ lines[i].k = "Exec"  BY DEF NamedTo
  <2>3. lines[i] = [k |-> lines[i].k, v |-> lines[i].v] /\ DOMAIN lines = 1..Len(lines)
    BY <2>2, EntryIs
  <2>4. f.exec[1] = lines[i].v  BY <1>2, <2>1
  <2>5. QED  BY <2>2, <2>3, <2>4
<1>9. \A x : x \in ToSet(f.mimes) <=>
               \E i \in NamedTo(lines, "MimeType", Len(lines)) : x \in ToSet(lines[i].v)
  BY <1>1 DEF Fit
<1>10. type \in {Canonical[m] : m \in ToSet(f.mimes)} <=> Lists(lines, type)  BY <1>9 DEF Lists
<1>11. QED  BY <1>7, <1>8, <1>10 DEF E, T

LEMMA OffersIs ==
  ASSUME NEW d, NEW e, IsEntry(e.lines), NEW type
  PROVE  Offers(d, e, type) <=> e \in installed[d] /\ type \in TypesOf(Fields(e.lines))
<1>1. PICK lines : lines = e.lines  OBVIOUS
<1>2. IsEntry(lines) /\ DOMAIN lines = 1..Len(lines)  BY <1>1, EntryIs
<1> DEFINE E == FinalOf(lines, "Exec")
           T == FinalOf(lines, "TryExec")
           M == Lists(lines, type)
<1>3. Offers(d, e, type) <=> /\ e \in installed[d]
                             /\ E # {} /\ E \cup T \subseteq Runnable /\ M
  BY <1>1, <1>2 DEF Offers, Lists, FinalOf, NamedTo, InAt
<1>4. PICK f : f = Fields(lines)  OBVIOUS
<1>5. (Runs(f) <=> E # {} /\ E \cup T \subseteq Runnable)
      /\ (type \in {Canonical[m] : m \in ToSet(f.mimes)} <=> M)
  <2>1. Runs(f) <=> E # {} /\ E \cup T \subseteq Runnable  BY <1>2, <1>4, ServesIs
  <2>2. type \in {Canonical[m] : m \in ToSet(f.mimes)} <=> M  BY <1>2, <1>4, ServesIs, Zenon
  <2>3. QED  BY <2>1, <2>2
<1> HIDE DEF E, T, M
<1>6. type \in TypesOf(f) <=> E # {} /\ E \cup T \subseteq Runnable /\ M  BY <1>5 DEF TypesOf
<1>7. QED  BY <1>1, <1>3, <1>4, <1>6
-----------------------------------------------------------------------------
(* The files of a directory in path order.                                 *)

\* By induction on the number of files, the last of them taken off.
LEMMA HighestExists ==
  ASSUME NEW D, IsFiniteSet(D), D # {}, \A e \in D : e.name \in Int
  PROVE  \E x \in D : \A e \in D : e.name <= x.name
<1> DEFINE Lacks(B) == B # {} /\ ~\E x \in B : \A e \in B : e.name <= x.name
           T == {n \in Nat : \E B \in SUBSET D : Cardinality(B) = n /\ Lacks(B)}
<1> SUFFICES ASSUME Lacks(D) PROVE FALSE  OBVIOUS
<1>1. Cardinality(D) \in T  BY FS_CardinalityType
<1>2. PICK m \in T : \A n \in T : m <= n
  <2>1. T \in SUBSET Nat  OBVIOUS
  <2> HIDE DEF T
  <2>2. QED  BY <1>1, <2>1, Least
<1>3. PICK B \in SUBSET D : Cardinality(B) = m /\ Lacks(B)  OBVIOUS
<1>4. IsFiniteSet(B)  BY FS_Subset
<1>5. PICK x \in B : TRUE  BY <1>3
<1>6. Cardinality(B \ {x}) = m - 1 /\ IsFiniteSet(B \ {x})  BY <1>3, <1>4, FS_RemoveElement
<1>7. m \in Nat /\ m - 1 \in Nat  BY <1>6, FS_CardinalityType
<1>8. ~Lacks(B \ {x})
  <2>1. m - 1 \notin T
    <3>1. ~(m <= m - 1)  BY <1>7
    <3> HIDE DEF T
    <3>2. QED  BY <1>2, <3>1
  <2>2. QED  BY <1>6, <1>7, <2>1
<1>9. CASE B \ {x} = {}
  <2>1. \A e \in B : e = x  BY <1>9
  <2>2. x.name <= x.name  BY <1>5
  <2>3. QED  BY <1>3, <2>1, <2>2
<1>10. CASE B \ {x} # {}
  <2>1. PICK y \in B \ {x} : \A e \in B \ {x} : e.name <= y.name  BY <1>8, <1>10
  <2>2. CASE x.name <= y.name
    <3>1. \A e \in B : e.name <= y.name  BY <2>1, <2>2
    <3>2. QED  BY <1>3, <3>1
  <2>3. CASE ~(x.name <= y.name)
    <3>1. ASSUME NEW e \in B PROVE e.name <= x.name
      <4>1. e.name \in Int /\ x.name \in Int /\ y.name \in Int  OBVIOUS
      <4>2. e = x \/ e.name <= y.name  BY <2>1
      <4>3. QED  BY <2>3, <4>1, <4>2
    <3>2. QED  BY <1>3, <3>1
  <2>4. QED  BY <2>2, <2>3
<1>11. QED  BY <1>9, <1>10

Sorts(s, n, D) ==
  s \in [1..n -> D] /\ \A i, j \in 1..n : i < j => s[i].name <= s[j].name /\ s[i] # s[j]

LEMMA SortExists ==
  ASSUME NEW D, IsFiniteSet(D), \A e \in D : e.name \in Int
  PROVE  \E s : Sorts(s, Cardinality(D), D)
<1> DEFINE Lacks(B) == ~\E s : Sorts(s, Cardinality(B), B)
           T == {n \in Nat : \E B \in SUBSET D : Cardinality(B) = n /\ Lacks(B)}
<1> SUFFICES ASSUME Lacks(D) PROVE FALSE  OBVIOUS
<1>1. Cardinality(D) \in T  BY FS_CardinalityType
<1>2. PICK m \in T : \A n \in T : m <= n
  <2>1. T \in SUBSET Nat  OBVIOUS
  <2> HIDE DEF T
  <2>2. QED  BY <1>1, <2>1, Least
<1>3. PICK B \in SUBSET D : Cardinality(B) = m /\ Lacks(B)  OBVIOUS
<1>4. IsFiniteSet(B) /\ m \in Nat  BY FS_Subset
<1>5. CASE B = {}
  <2>1. m = 0 /\ 1..0 = {}  BY <1>3, <1>5, FS_EmptySet
  <2>2. PICK s : s = [i \in 1..0 |-> {}]  OBVIOUS
  <2>3. Sorts(s, 0, B)  BY <2>1, <2>2 DEF Sorts
  <2>4. QED  BY <1>3, <2>1, <2>3
<1>6. CASE B # {}
  <2>1. PICK x \in B : \A e \in B : e.name <= x.name  BY <1>4, <1>6, HighestExists
  <2>2. Cardinality(B \ {x}) = m - 1 /\ IsFiniteSet(B \ {x})  BY <1>3, <1>4, FS_RemoveElement
  <2>3. m - 1 \in Nat  BY <2>2, FS_CardinalityType
  <2>4. m - 1 \notin T  BY <1>2, <1>4, <2>3
  <2>5. PICK s : Sorts(s, m - 1, B \ {x})  BY <2>2, <2>3, <2>4
  <2>6. PICK q : q = [i \in 1..m |-> IF i = m THEN x ELSE s[i]]  OBVIOUS
  <2>7. \A i \in 1..m - 1 : s[i] \in B \ {x} /\ i \in 1..m /\ q[i] = s[i]
    BY <1>4, <2>5, <2>6 DEF Sorts
  <2>8. q[m] = x  BY <1>4, <2>3, <2>6
  <2>9. \A i \in 1..m : i = m \/ i \in 1..m - 1  BY <1>4
  <2>10. q \in [1..m -> B]  BY <2>6, <2>7, <2>8, <2>9
  <2>11. ASSUME NEW i \in 1..m, NEW j \in 1..m, i < j 
             PROVE  q[i].name <= q[j].name /\ q[i] # q[j]
    <3>1. i \in 1..m - 1  BY <1>4, <2>11
    <3>2. CASE j = m
      <4>1. PICK a : a = q[i] /\ a \in B \ {x}  BY <2>7, <3>1
      <4>2. a.name <= x.name /\ a # x
        BY <2>1, <4>1
      <4>3. QED  BY <2>8, <3>2, <4>1, <4>2
    <3>3. CASE j \in 1..m - 1
      <4>1. s[i].name <= s[j].name /\ s[i] # s[j]  BY <2>5, <2>11, <3>1, <3>3 DEF Sorts
      <4>2. QED  BY <2>7, <3>1, <3>3, <4>1
    <3>4. QED  BY <2>9, <3>2, <3>3
  <2>12. Sorts(q, m, B)  BY <2>10, <2>11 DEF Sorts
  <2>13. QED  BY <1>3, <2>12
<1>7. QED  BY <1>5, <1>6

\* What is sorted without repeating itself leaves no file out.
LEMMA SortedIs ==
  ASSUME NEW D, IsFiniteSet(D), \A e \in D : e.name \in Int
  PROVE  \E s, n : /\ n \in Nat /\ Sorts(s, n, D) /\ s = SortedByPath(D)
                   /\ \A e \in D : \E i \in 1..n : s[i] = e
<1>1. PICK n \in Nat : n = Cardinality(D)  BY FS_CardinalityType
<1>2. PICK q : Sorts(q, n, D)  BY <1>1, SortExists
<1> DEFINE Good(s) == \A i, j \in DOMAIN s : i < j => s[i].name <= s[j].name /\ s[i] # s[j]
           s == CHOOSE s \in [1..n -> D] : Good(s)
<1>3. q \in [1..n -> D] /\ Good(q)  BY <1>2 DEF Sorts
<1>4. s \in [1..n -> D] /\ Good(s)  BY <1>3
<1>5. s = SortedByPath(D)  BY <1>1 DEF SortedByPath
<1> HIDE DEF s
<1>6. Sorts(s, n, D)  BY <1>4 DEF Sorts
<1>7. ASSUME NEW i \in 1..n, NEW j \in 1..n, s[i] = s[j] PROVE i = j
  <2>1. ~(i < j) /\ ~(j < i)  BY <1>6, <1>7 DEF Sorts
  <2>2. QED  BY <2>1
<1>8. s \in Injection(1..n, D)  BY <1>4, <1>7 DEF Injection, IsInjective
<1>9. Cardinality(1..n) = n  BY FS_Interval
<1>10. s \in Surjection(1..n, D)  BY <1>1, <1>8, <1>9, FS_Injection
<1>11. \A e \in D : \E i \in 1..n : s[i] = e  BY <1>10 DEF Surjection
<1>12. QED  BY <1>5, <1>6, <1>11

\* A directory's files as the scan takes them.
InOrder(q, D) ==
  /\ q \in Seq(D) /\ Len(q) \in Nat /\ \A i \in 1..Len(q) : q[i] \in D
  /\ \A i, j \in 1..Len(q) : i < j => q[i].name <= q[j].name
  /\ \A e \in D : \E i \in 1..Len(q) : q[i] = e

LEMMA ScannedInOrder ==
  ASSUME NEW D, IsFiniteSet(D), \A e \in D : e.name \in Int, NEW q, q = SortedByPath(D)
  PROVE  InOrder(q, D)
<1>1. PICK s, n : /\ n \in Nat /\ Sorts(s, n, D) /\ s = SortedByPath(D)
                  /\ \A e \in D : \E i \in 1..n : s[i] = e
  BY SortedIs
<1>2. q \in [1..n -> D] /\ \A i, j \in 1..n : i < j => q[i].name <= q[j].name
  BY <1>1 DEF Sorts
<1>3. q = [i \in 1..n |-> q[i]] /\ \A i \in 1..n : q[i] \in D  BY <1>2
<1>4. q \in Seq(D) /\ Len(q) = n  BY <1>1, <1>3, SeqMade
<1>5. QED  BY <1>1, <1>2, <1>3, <1>4 DEF InOrder

LEMMA CutsGrow ==
  ASSUME NEW S, NEW s \in Seq(Seq(S)), NEW whole, NEW e, Cuts(e, s, whole),
         NEW a \in 0..Len(s), NEW b \in 0..Len(s), a <= b
  PROVE  e[a] <= e[b]
<1> DEFINE N == Len(s)
           T == {i \in a..N : ~(e[a] <= e[i])}
<1>1. N \in Nat /\ e \in [0..N -> Nat]  BY DEF Cuts
<1>2. \A i \in 1..N : e[i] = e[i - 1] + Len(s[i])  BY DEF Cuts
<1>3. \A i \in 1..N : Len(s[i]) \in Nat  OBVIOUS
<1>4. a \in 0..N /\ b \in 0..N  OBVIOUS
<1> HIDE DEF N
<1> SUFFICES ASSUME T # {} PROVE FALSE
  <2>1. b \in a..N  BY <1>1, <1>4
  <2>2. QED  BY <2>1
<1>5. PICK m \in T : \A k \in T : m <= k
  <2>1. T \in SUBSET Nat  BY <1>1, <1>4
  <2> HIDE DEF T
  <2>2. QED  BY <2>1, Least
<1>6. m \in a..N /\ ~(e[a] <= e[m])  OBVIOUS
<1>7. e[a] \in Nat /\ e[m] \in Nat /\ m \in Nat  BY <1>1, <1>4, <1>6
<1>8. m # a  BY <1>6, <1>7
<1>9. m - 1 \in a..N /\ m \in 1..N /\ m - 1 \in 0..N  BY <1>1, <1>4, <1>6, <1>8
<1>10. e[a] <= e[m - 1]
  <2>1. ~(m <= m - 1)  BY <1>7
  <2>2. m - 1 \notin T
    <3> HIDE DEF T
    <3>1. QED  BY <1>5, <2>1
  <2>3. QED  BY <1>9, <2>2
<1>11. e[m] = e[m - 1] + Len(s[m]) /\ Len(s[m]) \in Nat /\ e[m - 1] \in Nat
  BY <1>1, <1>2, <1>3, <1>9
<1>12. QED  BY <1>6, <1>7, <1>10, <1>11, SMTT(30)

\* The file at j is one of directory dir[j], and the files stand directory by
\* directory, in path order in each.
Placed(dir, seq, dirs) ==
  /\ dir \in [1..Len(seq) -> DOMAIN dirs]
  /\ \A j \in 1..Len(seq) : seq[j] \in dirs[dir[j]]
  /\ \A d \in DOMAIN dirs : \A x \in dirs[d] : \E j \in 1..Len(seq) : dir[j] = d /\ seq[j] = x
  /\ \A i, j \in 1..Len(seq) :
       i < j => dir[i] < dir[j] \/ (dir[i] = dir[j] /\ seq[i].name <= seq[j].name)

LEMMA ScannedPlaced ==
  ASSUME NEW dirs, IsInstall(dirs), NEW s, s = [d \in DOMAIN dirs |-> SortedByPath(dirs[d])],
         NEW seq, seq = FlattenSeq(s)
  PROVE  \E S, dir : seq \in Seq(S) /\ Placed(dir, seq, dirs)
<1>1. PICK N \in Nat : N = Len(dirs) /\ DOMAIN dirs = 1..N  BY DEF IsInstall
<1>2. PICK U : \A d \in 1..N : dirs[d] \subseteq U
  <2>1. \A d \in 1..N : dirs[d] \subseteq UNION {dirs[i] : i \in 1..N}  OBVIOUS
  <2>2. QED  BY <2>1
<1>3. \A d \in 1..N : InOrder(s[d], dirs[d])
  <2> TAKE d \in 1..N
  <2>1. /\ IsFiniteSet(dirs[d]) /\ \A e \in dirs[d] : e.name \in Int
    BY <1>1 DEF IsInstall
  <2>2. s[d] = SortedByPath(dirs[d])  BY <1>1
  <2>3. PICK D, q : D = dirs[d] /\ q = s[d]  OBVIOUS
  <2>4. InOrder(q, D)  BY <2>1, <2>2, <2>3, ScannedInOrder
  <2>5. QED  BY <2>3, <2>4
<1>4. \A d \in 1..N : s[d] \in Seq(U)
  <2> TAKE d \in 1..N
  <2>1. PICK q, D : q = s[d] /\ D = dirs[d]  OBVIOUS
  <2>2. q \in Seq(D) /\ D \subseteq U  BY <1>2, <1>3, <2>1 DEF InOrder
  <2>3. q \in Seq(U)  BY <2>2
  <2>4. QED  BY <2>1, <2>3
<1>5. s \in Seq(Seq(U)) /\ Len(s) = N
  <2> DEFINE Q == Seq(U)
  <2>1. s = [d \in 1..N |-> s[d]] /\ \A d \in 1..N : s[d] \in Q  BY <1>1, <1>4
  <2> HIDE DEF Q
  <2>2. s \in Seq(Q) /\ Len(s) = N  BY <2>1, SeqMade
  <2>3. QED  BY <2>2 DEF Q
<1>6. seq \in Seq(U) /\ \E e : Cuts(e, s, seq)  BY <1>5, FlattenCuts
<1>7. PICK e : Cuts(e, s, seq)  BY <1>6
<1>8. PICK L \in Nat : L = Len(seq)  BY <1>6
<1>9. /\ e \in [0..N -> Nat]
      /\ \A d \in 1..N : /\ e[d] = e[d - 1] + Len(s[d]) /\ e[d] <= L
                         /\ \A k \in 1..Len(s[d]) : seq[e[d - 1] + k] = s[d][k]
  BY <1>5, <1>7, <1>8 DEF Cuts
<1> DEFINE Spot(j, d) == d \in 1..N /\ \E k \in 1..Len(s[d]) : j = e[d - 1] + k
<1>10. ASSUME NEW j \in 1..L PROVE \E d \in 1..N : Spot(j, d)
  <2>1. Within(j, e, s)  BY <1>5, <1>6, <1>7, <1>8, CutsCover
  <2>2. QED  BY <1>5, <2>1 DEF Within
<1> DEFINE dir == [j \in 1..L |-> CHOOSE d \in 1..N : Spot(j, d)]
<1>11. \A j \in 1..L : dir[j] \in 1..N /\ Spot(j, dir[j])  BY <1>10
<1>12. \A d \in 1..N : Len(s[d]) \in Nat /\ e[d - 1] \in Nat /\ e[d] \in Nat
  <2> TAKE d \in 1..N
  <2>1. Len(s[d]) \in Nat  BY <1>3 DEF InOrder
  <2>2. d - 1 \in 0..N /\ d \in 0..N  BY <1>1
  <2>3. QED  BY <1>9, <2>1, <2>2
<1>13. ASSUME NEW j, NEW d, Spot(j, d)
       PROVE  /\ j \in 1..L /\ d \in 1..N /\ e[d - 1] < j /\ j <= e[d]
              /\ j - e[d - 1] \in 1..Len(s[d]) /\ seq[j] = s[d][j - e[d - 1]]
  <2>1. PICK k \in 1..Len(s[d]) : j = e[d - 1] + k  BY <1>13
  <2>2. d \in 1..N  BY <1>13
  <2>3. PICK a, b, c : a = e[d - 1] /\ b = e[d] /\ c = Len(s[d])  OBVIOUS
  <2>4. a \in Nat /\ b \in Nat /\ c \in Nat /\ b = a + c /\ b <= L  BY <1>9, <1>12, <2>2, <2>3
  <2>5. k \in 1..c /\ j = a + k  BY <2>1, <2>3
  <2>6. j \in 1..L /\ a < j /\ j <= b /\ j - a = k  BY <1>8, <2>4, <2>5
  <2>7. seq[e[d - 1] + k] = s[d][k]  BY <1>9, <2>1, <2>2
  <2>8. QED  BY <2>1, <2>2, <2>3, <2>5, <2>6, <2>7
<1>14. ASSUME NEW i, NEW j, NEW c, NEW d, Spot(i, c), Spot(j, d), i <= j PROVE c <= d
  <2> SUFFICES ASSUME ~(c <= d) PROVE FALSE  OBVIOUS
  <2>1. c \in 1..N /\ d \in 1..N /\ i \in 1..L /\ j \in 1..L /\ e[c - 1] < i /\ j <= e[d]
    BY <1>13, <1>14
  <2>2. d \in 0..Len(s) /\ c - 1 \in 0..Len(s) /\ d <= c - 1  BY <1>1, <1>5, <2>1
  <2>3. PICK x : x = c - 1  OBVIOUS
  <2>4. e[d] <= e[x]  BY <1>5, <1>7, <2>2, <2>3, CutsGrow
  <2>5. e[d] \in Nat /\ e[x] \in Nat /\ i \in Nat /\ j \in Nat
    <3>1. e[d] \in Nat /\ e[c - 1] \in Nat  BY <1>12, <2>1
    <3>2. i \in Nat /\ j \in Nat  BY <2>1
    <3>3. QED  BY <2>3, <3>1, <3>2
  <2>6. e[x] < i /\ j <= e[d] /\ i <= j  BY <1>14, <2>1, <2>3
  <2>7. QED  BY <2>4, <2>5, <2>6
<1> HIDE DEF Spot, dir
<1>15. dir \in [1..L -> DOMAIN dirs]  BY <1>1, <1>11 DEF dir
<1>16. ASSUME NEW j \in 1..L PROVE seq[j] \in dirs[dir[j]]
  <2>1. PICK d : d = dir[j]  OBVIOUS
  <2>2. Spot(j, d)  BY <1>11, <2>1
  <2>3. d \in 1..N /\ j - e[d - 1] \in 1..Len(s[d]) /\ seq[j] = s[d][j - e[d - 1]]
    BY <1>13, <2>2
  <2>4. \A k \in 1..Len(s[d]) : s[d][k] \in dirs[d]  BY <1>3, <2>3 DEF InOrder
  <2>5. seq[j] \in dirs[d]  BY <2>3, <2>4
  <2>6. QED  BY <2>1, <2>5
<1>17. ASSUME NEW d \in 1..N, NEW x \in dirs[d] PROVE \E j \in 1..L : dir[j] = d /\ seq[j] = x
  <2>1. PICK k \in 1..Len(s[d]) : s[d][k] = x  BY <1>3 DEF InOrder
  <2>2. PICK j : j = e[d - 1] + k  OBVIOUS
  <2>3. Spot(j, d)  BY <2>1, <2>2 DEF Spot
  <2>4. j \in 1..L /\ seq[j] = x
    <3>1. seq[e[d - 1] + k] = s[d][k]  BY <1>9, <2>1
    <3>2. QED  BY <1>13, <2>1, <2>2, <2>3, <3>1
  <2>5. Spot(j, dir[j]) /\ dir[j] \in 1..N  BY <1>11, <2>4
  <2>6. j <= j  BY <2>4
  <2>7. dir[j] <= d /\ d <= dir[j]  BY <1>14, <2>3, <2>5, <2>6
  <2>8. dir[j] = d  BY <2>5, <2>7
  <2>9. QED  BY <2>4, <2>8
<1>18. ASSUME NEW i \in 1..L, NEW j \in 1..L, i < j
       PROVE  dir[i] < dir[j] \/ (dir[i] = dir[j] /\ seq[i].name <= seq[j].name)
  <2>1. PICK c, d : c = dir[i] /\ d = dir[j]  OBVIOUS
  <2>2. Spot(i, c) /\ Spot(j, d) /\ c \in 1..N /\ d \in 1..N /\ i <= j  BY <1>11, <1>18, <2>1
  <2>3. c <= d  BY <1>14, <2>2
  <2>4. CASE c = d
    <3>1. PICK a : a = e[d - 1] /\ a \in Nat  BY <1>12, <2>2
    <3>2. /\ i - a \in 1..Len(s[d]) /\ seq[i] = s[d][i - a]
          /\ j - a \in 1..Len(s[d]) /\ seq[j] = s[d][j - a]
      <4>1. i - e[d - 1] \in 1..Len(s[d]) /\ seq[i] = s[d][i - e[d - 1]]
        BY <1>13, <2>2, <2>4
      <4>2. j - e[d - 1] \in 1..Len(s[d]) /\ seq[j] = s[d][j - e[d - 1]]
        BY <1>13, <2>2
      <4>3. QED  BY <3>1, <4>1, <4>2
    <3>3. i - a < j - a  BY <1>18, <3>1
    <3>4. \A m, n \in 1..Len(s[d]) : m < n => s[d][m].name <= s[d][n].name
      BY <1>3, <2>2 DEF InOrder
    <3>5. s[d][i - a].name <= s[d][j - a].name  BY <3>2, <3>3, <3>4
    <3>6. QED  BY <2>1, <2>4, <3>2, <3>5
  <2>5. CASE c # d
    <3>1. c < d  BY <2>2, <2>3, <2>5
    <3>2. QED  BY <2>1, <3>1
  <2>6. QED  BY <2>4, <2>5
<1>19. Placed(dir, seq, dirs)  
  <2>1. \A d \in DOMAIN dirs : \A x \in dirs[d] : \E j \in 1..L : dir[j] = d /\ seq[j] = x
    BY <1>1, <1>17
  <2>2. \A i, j \in 1..L :
          i < j => dir[i] < dir[j] \/ (dir[i] = dir[j] /\ seq[i].name <= seq[j].name)
    BY <1>18
  <2>3. QED  BY <1>8, <1>15, <1>16, <2>1, <2>2 DEF Placed
<1>20. QED  BY <1>6, <1>19

-----------------------------------------------------------------------------
\* What the table holds of the first n files: every type one of them serves,
\* with the program of the first that does.
Serving(seq, n, type) == {j \in 1..n : type \in TypesOf(Fields(seq[j].lines))}
FirstOf(table, seq, n) ==
  /\ \A type : type \in DOMAIN table <=> Serving(seq, n, type) # {}
  /\ \A type \in DOMAIN table : \E j \in Serving(seq, n, type) :
       /\ \A i \in Serving(seq, n, type) : j <= i
       /\ table[type] = Fields(seq[j].lines).exec[1]

LEMMA TableStepFirst ==
  ASSUME NEW seq, NEW n \in Nat, n > 0, NEW table, FirstOf(table, seq, n - 1),
         NEW next, next = TableStep(table, seq[n])
  PROVE  FirstOf(next, seq, n)
<1>1. PICK f : f = Fields(seq[n].lines)  OBVIOUS
<1>2. /\ DOMAIN next = DOMAIN table \cup TypesOf(f)
      /\ \A t \in DOMAIN next : next[t] = IF t \in DOMAIN table THEN table[t] ELSE f.exec[1]
  BY <1>1 DEF TableStep
<1>3. 1..n = (1..n - 1) \cup {n} /\ n \notin 1..n - 1 /\ \A j \in 1..n - 1 : j <= n
  OBVIOUS
<1>4. ASSUME NEW type
      PROVE  Serving(seq, n, type) =
               IF type \in TypesOf(f) THEN Serving(seq, n - 1, type) \cup {n}
               ELSE Serving(seq, n - 1, type)
  BY <1>1, <1>3 DEF Serving
<1>5. ASSUME NEW type PROVE type \in DOMAIN next <=> Serving(seq, n, type) # {}
  <2>1. type \in DOMAIN table <=> Serving(seq, n - 1, type) # {}  BY DEF FirstOf
  <2>2. QED  BY <1>2, <1>4, <2>1
<1>6. ASSUME NEW type \in DOMAIN next
      PROVE  \E j \in Serving(seq, n, type) :
               /\ \A i \in Serving(seq, n, type) : j <= i
               /\ next[type] = Fields(seq[j].lines).exec[1]
  <2> DEFINE A == Serving(seq, n - 1, type)
             B == Serving(seq, n, type)
  <2>1. A \subseteq 1..n - 1  BY DEF Serving
  <2>2. B = IF type \in TypesOf(f) THEN A \cup {n} ELSE A  BY <1>4
  <2>3. type \in DOMAIN table <=> A # {}  BY DEF FirstOf
  <2>4. type \in DOMAIN table => \E j \in A : /\ \A i \in A : j <= i
                                              /\ table[type] = Fields(seq[j].lines).exec[1]
    BY DEF FirstOf
  <2> HIDE DEF A, B
  <2>5. CASE type \in DOMAIN table
    <3>1. PICK j \in A : (\A i \in A : j <= i) /\ table[type] = Fields(seq[j].lines).exec[1]
      BY <2>4, <2>5
    <3>2. j \in B /\ \A i \in B : j <= i  BY <1>3, <2>1, <2>2, <3>1
    <3>3. next[type] = table[type]  BY <1>2, <2>5
    <3>4. QED  BY <3>1, <3>2, <3>3 DEF B
  <2>6. CASE type \notin DOMAIN table
    <3>1. A = {} /\ type \in TypesOf(f)  BY <1>2, <2>3, <2>6
    <3>2. B = {n}  BY <2>2, <3>1
    <3>3. next[type] = f.exec[1]  BY <1>2, <2>6
    <3>4. n <= n  OBVIOUS
    <3>5. QED  BY <1>1, <3>2, <3>3, <3>4 DEF B
  <2>7. QED  BY <2>5, <2>6
<1>7. QED  BY <1>5, <1>6 DEF FirstOf

LEMMA TableFirst ==
  ASSUME NEW S, NEW seq \in Seq(S), NEW h, FoldsTo(h, "table", Len(seq), seq)
  PROVE  FirstOf(h[Len(seq)], seq, Len(seq))
<1>1. PICK N \in Nat : N = Len(seq)  OBVIOUS
<1>2. h[0] = [t \in {} |-> {}] /\ \A n \in 1..N : h[n] = TableStep(h[n - 1], seq[n])
  BY <1>1 DEF FoldsTo, Base, StepOf
<1> DEFINE T == {n \in 0..N : ~FirstOf(h[n], seq, n)}
<1>3. T = {}
  <2> SUFFICES ASSUME T # {} PROVE FALSE  OBVIOUS
  <2>1. PICK m \in T : \A n \in T : m <= n
    <3>1. T \in SUBSET Nat  OBVIOUS
    <3> HIDE DEF T
    <3>2. QED  BY <3>1, Least
  <2>2. m \in 0..N /\ ~FirstOf(h[m], seq, m)  OBVIOUS
  <2>3. CASE m = 0
    <3>1. PICK table : table = h[0]  OBVIOUS
    <3>2. DOMAIN table = {}  BY <1>2, <3>1
    <3>3. \A type : Serving(seq, 0, type) = {}  BY DEF Serving
    <3>4. FirstOf(table, seq, 0)  BY <3>2, <3>3 DEF FirstOf
    <3>5. QED  BY <2>2, <2>3, <3>1, <3>4
  <2>4. CASE m # 0
    <3>1. m \in Nat /\ m > 0 /\ m \in 1..N /\ m - 1 \in 0..N /\ ~(m <= m - 1)
      BY <1>1, <2>2, <2>4
    <3>2. m - 1 \notin T
      <4> HIDE DEF T
      <4>1. QED  BY <2>1, <3>1
    <3>3. PICK a, b : a = h[m - 1] /\ b = h[m]  OBVIOUS
    <3>4. FirstOf(a, seq, m - 1) /\ b = TableStep(a, seq[m])  BY <1>2, <3>1, <3>2, <3>3
    <3>5. FirstOf(b, seq, m)  BY <3>1, <3>4, TableStepFirst
    <3>6. QED  BY <2>2, <3>3, <3>5
  <2>5. QED  BY <2>3, <2>4
<1>4. N \in 0..N /\ N \notin T  BY <1>3
<1>5. QED  BY <1>1, <1>4

\* A file and its directory serve a type just when an entry of the scan does.
LEMMA InstalledServes == IsInstall(installed) => FirstServes
<1> SUFFICES ASSUME IsInstall(installed) PROVE FirstServes  OBVIOUS
<1>1. PICK dirs : dirs = installed  OBVIOUS
<1>2. PICK s : s = [d \in DOMAIN dirs |-> SortedByPath(dirs[d])]  OBVIOUS
<1>3. PICK seq : seq = FlattenSeq(s)  OBVIOUS
<1>4. seq = Entries  BY <1>1, <1>2, <1>3 DEF Entries
<1>5. PICK S, dir : seq \in Seq(S) /\ Placed(dir, seq, dirs)
  BY <1>1, <1>2, <1>3, ScannedPlaced
<1>6. PICK h : FoldsTo(h, "table", Len(seq), seq) /\ h[Len(seq)] = ByMime  BY <1>4, <1>5, TableGoes
<1>7. PICK table, L : table = ByMime /\ L = Len(seq) /\ L \in Nat  BY <1>5
<1>8. FirstOf(table, seq, L)  BY <1>5, <1>6, <1>7, TableFirst
<1>9. \A d \in DOMAIN dirs : \A e \in dirs[d] : IsEntry(e.lines) /\ e.name \in Int
  BY <1>1 DEF IsInstall
<1>10. dirs \in Seq(ToSet(dirs)) /\ DOMAIN dirs \subseteq Nat  BY <1>1 DEF IsInstall
<1>11. ASSUME NEW type
       PROVE  LET all == {c \in (DOMAIN installed) \X (UNION ToSet(installed)) :
                            Offers(c[1], c[2], type)}
                  Ahead(a, b) == a[1] < b[1] \/ (a[1] = b[1] /\ a[2].name <= b[2].name)
              IN IF all = {} THEN type \notin DOMAIN ByMime
                 ELSE \E a \in all : /\ type \in DOMAIN ByMime
                                     /\ \A b \in all : Ahead(a, b)
                                     /\ \E i \in DOMAIN a[2].lines :
                                          a[2].lines[i] = [k |-> "Exec", v |-> ByMime[type]]
  <2> DEFINE all == {c \in (DOMAIN dirs) \X (UNION ToSet(dirs)) : Offers(c[1], c[2], type)}
             W == Serving(seq, L, type)
  <2>1. ASSUME NEW j \in W
        PROVE  <<dir[j], seq[j]>> \in all /\ dir[j] \in DOMAIN dirs /\ seq[j] \in dirs[dir[j]]
    <3>1. j \in 1..L /\ type \in TypesOf(Fields(seq[j].lines))  BY <2>1 DEF Serving
    <3>2. PICK d, e : d = dir[j] /\ e = seq[j]  OBVIOUS
    <3>3. d \in DOMAIN dirs /\ e \in dirs[d]  BY <1>5, <1>7, <3>1, <3>2 DEF Placed
    <3>4. Offers(d, e, type)  BY <1>1, <1>9, <3>1, <3>2, <3>3, OffersIs
    <3>5. e \in UNION ToSet(dirs)  BY <3>3 DEF ToSet
    <3>6. PICK c : c = <<d, e>>  OBVIOUS
    <3>7. c \in (DOMAIN dirs) \X (UNION ToSet(dirs)) /\ Offers(c[1], c[2], type)
      BY <3>3, <3>4, <3>5, <3>6
    <3>8. c \in all  BY <3>7
    <3>9. QED  BY <3>2, <3>3, <3>6, <3>8
  <2>2. ASSUME NEW c \in all
        PROVE  \E j \in W : c = <<dir[j], seq[j]>>
    <3>1. PICK d \in DOMAIN dirs, e \in UNION ToSet(dirs) : c = <<d, e>>  OBVIOUS
    <3>2. Offers(d, e, type)  BY <3>1
    <3>3. e \in dirs[d]  BY <1>1, <3>2 DEF Offers
    <3>4. type \in TypesOf(Fields(e.lines))  BY <1>9, <3>2, <3>3, OffersIs
    <3>5. PICK j \in 1..L : dir[j] = d /\ seq[j] = e  BY <1>5, <1>7, <3>3 DEF Placed
    <3>6. j \in W  BY <3>4, <3>5 DEF Serving
    <3>7. QED  BY <3>1, <3>5, <3>6
  <2>3. type \in DOMAIN table <=> W # {}  BY <1>8 DEF FirstOf
  <2>4. CASE all = {}
    <3>1. W = {}
      <4> HIDE DEF all, W
      <4>1. QED  BY <2>1, <2>4
    <3>2. type \notin DOMAIN ByMime  BY <1>7, <2>3, <3>1
    <3>3. QED  BY <1>1, <2>4, <3>2
  <2>5. CASE all # {}
    <3>1. W # {}
      <4> HIDE DEF all, W
      <4>1. QED  BY <2>2, <2>5
    <3>2. PICK j \in W : /\ \A i \in W : j <= i
                         /\ table[type] = Fields(seq[j].lines).exec[1]
      BY <1>8, <2>3, <3>1 DEF FirstOf
    <3>3. PICK a : a = <<dir[j], seq[j]>>  OBVIOUS
    <3>4. a \in all /\ dir[j] \in DOMAIN dirs /\ seq[j] \in dirs[dir[j]]
      <4> HIDE DEF all, W
      <4>1. QED  BY <2>1, <3>3
    <3>5. ASSUME NEW b \in all
          PROVE  a[1] < b[1] \/ (a[1] = b[1] /\ a[2].name <= b[2].name)
      <4>1. PICK i \in W : b = <<dir[i], seq[i]>>
        <5> HIDE DEF all, W
        <5>1. QED  BY <2>2
      <4>2. j <= i /\ i \in 1..L /\ j \in 1..L  BY <3>2 DEF Serving
      <4>3. a[1] = dir[j] /\ a[2] = seq[j] /\ b[1] = dir[i] /\ b[2] = seq[i]  BY <3>3, <4>1
      <4>4. CASE j = i
        <5>1. seq[j].name \in Int  BY <1>9, <3>4
        <5>2. QED  BY <4>3, <4>4, <5>1
      <4>5. CASE j # i
        <5>1. j < i  BY <1>7, <4>2, <4>5
        <5>2. dir[j] < dir[i] \/ (dir[j] = dir[i] /\ seq[j].name <= seq[i].name)
          BY <1>5, <1>7, <4>2, <5>1 DEF Placed
        <5>3. seq[j].name \in Int /\ seq[i].name \in Int
          <6>1. dir[i] \in DOMAIN dirs /\ seq[i] \in dirs[dir[i]]
            BY <1>5, <1>7, <4>2 DEF Placed
          <6>2. QED  BY <1>9, <3>4, <6>1
        <5>4. QED  BY <4>3, <5>2, <5>3
      <4>6. QED  BY <4>4, <4>5
    <3>6. \E i \in DOMAIN a[2].lines : a[2].lines[i] = [k |-> "Exec", v |-> ByMime[type]]
      <4>1. PICK lines, f : lines = seq[j].lines /\ f = Fields(lines)  OBVIOUS
      <4>2. IsEntry(lines)  BY <1>9, <3>4, <4>1
      <4>3. type \in TypesOf(f)  BY <4>1 DEF Serving
      <4>4. Runs(f)  BY <4>3 DEF TypesOf
      <4>5. \E i \in DOMAIN lines : lines[i] = [k |-> "Exec", v |-> f.exec[1]]
        BY <4>1, <4>2, <4>4, ServesIs
      <4>6. f.exec[1] = ByMime[type] /\ a[2].lines = lines  BY <1>7, <3>2, <3>3, <4>1
      <4>7. QED  BY <4>5, <4>6
    <3>7. type \in DOMAIN ByMime  BY <1>7, <2>3, <3>1
    <3>8. QED  BY <1>1, <2>5, <3>4, <3>5, <3>6, <3>7
  <2>6. QED  BY <2>4, <2>5
<1>12. QED  BY <1>11 DEF FirstServes

\* A type is served by the first file of the search path that declares it and
\* can be run, and no program is run that the [Thumbnailer Entry] group of an
\* installed file does not name: reading the groups and keys, sorting each
\* directory and folding the files into the table come to that for whatever is
\* installed (thumbspec.rs).
THEOREM FirstOnesServe == Spec => []FirstServes
<1>1. Init => IsInstall(installed)  BY ThumbFilesAssumption DEF Init
<1>2. IsInstall(installed) /\ [Next]_vars => IsInstall(installed)'
  <2> SUFFICES ASSUME IsInstall(installed), [Next]_vars PROVE installed' = installed
    BY DEF IsInstall
  <2>1. CASE Next
    BY <2>1 DEF Next, Ask, Work, Prepare, RunChild, GiveUp, Stamp, Publish, MarkTemp, Mark,
                Drained, Sweep, Exit, Change, Write, Delete, Others
  <2>2. CASE UNCHANGED vars  BY <2>2 DEF vars
  <2>3. QED  BY <2>1, <2>2
<1>3. QED  BY <1>1, <1>2, InstalledServes, PTL DEF Spec
=============================================================================
