---------------------------- MODULE Desktop_proofs ----------------------------
(***************************************************************************)
(* Four results about --default and --picker, for any number of commands   *)
(* at once, any edits and any upgrades: a claim never leaves Hyprland on a *)
(* config that does not load, a claim that says it took has taken, what    *)
(* the user and other programs wrote in the four files stands, and a       *)
(* release that ran alone leaves nothing of what it releases.              *)
(***************************************************************************)
EXTENDS Desktop, TLAPS, SequenceTheorems, WellFoundedInduction

-----------------------------------------------------------------------------
(* The inductive invariant.                                                *)

Stages == {"idle", "next", "write", "rename", "reload", "check", "ended"}
CmdOf(V) ==
  [pc : Stages, kind : {"default", "picker"}, on : BOOLEAN, todo : V, failed : BOOLEAN,
   next : V, seen : V, back : BOOLEAN, lost : BOOLEAN, sound : BOOLEAN, alone : BOOLEAN]

Shaped == \E V : cmd \in [Commands -> CmdOf(V)]

\* The files as far as they are looked into here.
Sequence(lines) == \E S : lines \in Seq(S)

\* No comment anywhere quotes the text "[preferred]", which chooser.rs:154
\* would take for the group.
Quote == <<"note", TRUE>>
Unquoted ==
  /\ \A s \in Scenarios :
       s.files["conf"] # <<>> => Quote \notin ToSet(s.files["conf"][1])
  /\ \A e \in Edits : e.file = "conf" => Quote \notin ToSet(e.lines)
Keyed(lines) == \E S : lines \in Seq(S) /\ (Unquoted => Quote \notin S)

Texts ==
  /\ DOMAIN disk = FileNames
  /\ Sequence(Content(disk, "bindings")) /\ Keyed(Content(disk, "conf"))

\* The line of the claim stands in its group.
Taken(lines) ==
  \E i \in Held(lines, "preferred", "chooser") : lines[i] = ChooserLine

\* What a command has with it at each of its stages.
Stage(p) ==
  /\ cmd[p].pc = "next" => ~cmd[p].back
  /\ cmd[p].back => FileOf(p) = "bindings"
  /\ cmd[p].pc \in {"reload", "check"} => FileOf(p) = "bindings"
  /\ cmd[p].pc = "check" => cmd[p].on
  /\ cmd[p].pc \in {"idle", "ended"} => cmd[p].todo = <<>>
  /\ cmd[p].pc \in {"write", "rename"} /\ FileOf(p) = "bindings" => Sequence(cmd[p].next)
  /\ cmd[p].pc \in {"write", "rename", "reload", "check"} /\ cmd[p].on /\ FileOf(p) = "bindings" =>
       Sequence(cmd[p].seen)
  /\ cmd[p].pc \in {"write", "rename"} /\ FileOf(p) = "conf" =>
       Keyed(cmd[p].next) /\ (cmd[p].on /\ Unquoted => Taken(cmd[p].next))

\* Who ran alone so far leaves room for nobody else.
Alone == \A p, q \in Commands : p # q /\ cmd[p].alone => ~Busy(q)

\* The config that loads: the one in force, or while a claim's block is tried
\* the text read before it.
Loads(lines) == ~Refused(lines)
Fine(p) ==
  /\ cmd[p].pc \in {"next", "ended"} => Loads(loaded) /\ Loads(Content(disk, "bindings"))
  /\ cmd[p].pc \in {"write", "rename"} /\ ~cmd[p].back =>
       /\ Loads(loaded) /\ Loads(Content(disk, "bindings"))
       /\ FileOf(p) = "bindings" => /\ cmd[p].on => Loads(cmd[p].seen)
                                    /\ ~cmd[p].on => Loads(cmd[p].next)
  /\ cmd[p].pc \in {"write", "rename"} /\ cmd[p].back => Loads(cmd[p].next)
  /\ cmd[p].pc = "reload" =>
       /\ cmd[p].on /\ ~cmd[p].back => Loads(cmd[p].seen)
       /\ ~cmd[p].on \/ cmd[p].back => Loads(Content(disk, "bindings"))
  /\ cmd[p].pc = "check" => Loads(cmd[p].seen) /\ loaded = Content(disk, "bindings")

Counts(p) == cmd[p].alone /\ cmd[p].sound /\ ~cmd[p].lost /\ reach

IInv ==
  /\ Shaped /\ Texts /\ Alone
  /\ \A p \in Commands : Stage(p) /\ (Busy(p) /\ Counts(p) => Fine(p))

-----------------------------------------------------------------------------
(* What a step of a command does to its record.                            *)

LEMMA Wider ==
  ASSUME NEW V, NEW W, V \subseteq W, cmd \in [Commands -> CmdOf(V)]
  PROVE  cmd \in [Commands -> CmdOf(W)]
<1> SUFFICES ASSUME NEW p \in Commands PROVE cmd[p] \in CmdOf(W)  OBVIOUS
<1>1. cmd[p] \in CmdOf(V)  OBVIOUS
<1>2. QED  BY <1>1 DEF CmdOf

\* What every step of a command p leaves as it was.
Moves(p) ==
  /\ Shaped' /\ \A q \in Commands \ {p} : cmd'[q] = cmd[q]
  /\ cmd'[p].on = cmd[p].on /\ cmd'[p].alone = cmd[p].alone /\ cmd'[p].sound = cmd[p].sound
  /\ cmd'[p].kind = cmd[p].kind

LEMMA SetIs ==
  ASSUME NEW W, cmd \in [Commands -> CmdOf(W)], NEW p \in Commands, NEW s \in CmdOf(W),
         cmd' = [cmd EXCEPT ![p] = s], s.on = cmd[p].on, s.alone = cmd[p].alone,
         s.sound = cmd[p].sound, s.kind = cmd[p].kind
  PROVE  Moves(p) /\ cmd'[p] = s
<1>1. cmd'[p] = s /\ \A q \in Commands \ {p} : cmd'[q] = cmd[q]  OBVIOUS
<1>2. cmd' \in [Commands -> CmdOf(W)]  OBVIOUS
<1>3. QED  BY <1>1, <1>2, Zenon DEF Moves, Shaped

\* A half is over.
LEMMA DoneIs ==
  ASSUME Shaped, NEW p \in Commands, NEW ok \in BOOLEAN, Done(p, ok)
  PROVE  /\ Moves(p)
         /\ cmd'[p].pc = IF Tail(cmd[p].todo) = <<>> THEN "ended" ELSE "next"
         /\ cmd'[p].todo = Tail(cmd[p].todo)
         /\ cmd'[p].failed = (cmd[p].failed \/ ~ok)
         /\ cmd'[p].next = cmd[p].next
         /\ cmd'[p].seen = cmd[p].seen
         /\ cmd'[p].back = FALSE
         /\ cmd'[p].lost = cmd[p].lost
<1>1. PICK V : cmd \in [Commands -> CmdOf(V)]  BY DEF Shaped
<1> DEFINE W == V \cup {Tail(cmd[p].todo)}
<1>2. cmd \in [Commands -> CmdOf(W)]  BY <1>1, Wider
<1>3. Tail(cmd[p].todo) \in W  OBVIOUS
<1> HIDE DEF W
<1> DEFINE r == cmd[p]
           todoN == Tail(r.todo)
           pcN == IF todoN = <<>> THEN "ended" ELSE "next"
           failedN == r.failed \/ ~ok
           backN == FALSE
<1>4. r \in CmdOf(W) /\ pcN \in Stages /\ todoN \in W /\ failedN \in BOOLEAN /\ backN \in BOOLEAN
  BY <1>2, <1>3 DEF CmdOf, Stages
<1>5. cmd' = [cmd EXCEPT ![p].todo = todoN, ![p].pc = pcN, ![p].failed = failedN, ![p].back = backN]
  BY DEF Done
<1> HIDE DEF r, todoN, pcN, failedN, backN
<1> DEFINE s == [r EXCEPT !.todo = todoN, !.pc = pcN, !.failed = failedN, !.back = backN]
<1>6. s \in CmdOf(W)  BY <1>4 DEF CmdOf
<1>7. /\ s.on = r.on
      /\ s.alone = r.alone
      /\ s.sound = r.sound
      /\ s.kind = r.kind
  BY <1>4 DEF CmdOf
<1>8. /\ s.next = r.next
      /\ s.seen = r.seen
      /\ s.lost = r.lost
  BY <1>4 DEF CmdOf
<1>9. s.todo = todoN /\ s.pc = pcN /\ s.failed = failedN /\ s.back = backN
  BY <1>4 DEF CmdOf
<1>10. cmd' = [cmd EXCEPT ![p] = s]  BY <1>5, <1>2 DEF r
<1> HIDE DEF s
<1>11. Moves(p) /\ cmd'[p] = s  BY <1>2, <1>6, <1>7, <1>10, SetIs DEF r
<1>12. QED  BY <1>8, <1>9, <1>11, Zenon DEF r, todoN, pcN, failedN, backN

\* A file is to be written.
LEMMA ReplacesIs ==
  ASSUME Shaped, NEW p \in Commands, NEW lines, Replaces(p, lines)
  PROVE  /\ Moves(p)
         /\ cmd'[p].pc = "write"
         /\ cmd'[p].todo = cmd[p].todo
         /\ cmd'[p].failed = cmd[p].failed
         /\ cmd'[p].next = lines
         /\ cmd'[p].seen = cmd[p].seen
         /\ cmd'[p].back = cmd[p].back
         /\ cmd'[p].lost = cmd[p].lost
<1>1. PICK V : cmd \in [Commands -> CmdOf(V)]  BY DEF Shaped
<1> DEFINE W == V \cup {lines}
<1>2. cmd \in [Commands -> CmdOf(W)]  BY <1>1, Wider
<1>3. lines \in W  OBVIOUS
<1> HIDE DEF W
<1> DEFINE r == cmd[p]
           pcN == "write"
           nextN == lines
<1>4. r \in CmdOf(W) /\ pcN \in Stages /\ nextN \in W
  BY <1>2, <1>3 DEF CmdOf, Stages
<1>5. cmd' = [cmd EXCEPT ![p].pc = pcN, ![p].next = nextN]
  BY DEF Replaces
<1> HIDE DEF r, pcN, nextN
<1> DEFINE s == [r EXCEPT !.pc = pcN, !.next = nextN]
<1>6. s \in CmdOf(W)  BY <1>4 DEF CmdOf
<1>7. /\ s.on = r.on
      /\ s.alone = r.alone
      /\ s.sound = r.sound
      /\ s.kind = r.kind
  BY <1>4 DEF CmdOf
<1>8. /\ s.todo = r.todo
      /\ s.failed = r.failed
      /\ s.seen = r.seen
      /\ s.back = r.back
      /\ s.lost = r.lost
  BY <1>4 DEF CmdOf
<1>9. s.pc = pcN /\ s.next = nextN
  BY <1>4 DEF CmdOf
<1>10. cmd' = [cmd EXCEPT ![p] = s]  BY <1>5, <1>2 DEF r
<1> HIDE DEF s
<1>11. Moves(p) /\ cmd'[p] = s  BY <1>2, <1>6, <1>7, <1>10, SetIs DEF r
<1>12. QED  BY <1>8, <1>9, <1>11, Zenon DEF r, pcN, nextN

\* A block is to be written, with the text before it kept.
LEMMA ClaimsIs ==
  ASSUME Shaped, NEW p \in Commands, NEW lines, NEW text,
         cmd' = [cmd EXCEPT ![p].pc = "write", ![p].seen = text, ![p].next = lines]
  PROVE  /\ Moves(p)
         /\ cmd'[p].pc = "write"
         /\ cmd'[p].todo = cmd[p].todo
         /\ cmd'[p].failed = cmd[p].failed
         /\ cmd'[p].next = lines
         /\ cmd'[p].seen = text
         /\ cmd'[p].back = cmd[p].back
         /\ cmd'[p].lost = cmd[p].lost
<1>1. PICK V : cmd \in [Commands -> CmdOf(V)]  BY DEF Shaped
<1> DEFINE W == V \cup {lines, text}
<1>2. cmd \in [Commands -> CmdOf(W)]  BY <1>1, Wider
<1>3. lines \in W /\ text \in W  OBVIOUS
<1> HIDE DEF W
<1> DEFINE r == cmd[p]
           pcN == "write"
           nextN == lines
           seenN == text
<1>4. r \in CmdOf(W) /\ pcN \in Stages /\ nextN \in W /\ seenN \in W
  BY <1>2, <1>3 DEF CmdOf, Stages
<1>5. cmd' = [cmd EXCEPT ![p].pc = pcN, ![p].seen = seenN, ![p].next = nextN]
  OBVIOUS
<1> HIDE DEF r, pcN, nextN, seenN
<1> DEFINE s == [r EXCEPT !.pc = pcN, !.seen = seenN, !.next = nextN]
<1>6. s \in CmdOf(W)  BY <1>4 DEF CmdOf
<1>7. /\ s.on = r.on
      /\ s.alone = r.alone
      /\ s.sound = r.sound
      /\ s.kind = r.kind
  BY <1>4 DEF CmdOf
<1>8. /\ s.todo = r.todo
      /\ s.failed = r.failed
      /\ s.back = r.back
      /\ s.lost = r.lost
  BY <1>4 DEF CmdOf
<1>9. s.pc = pcN /\ s.seen = seenN /\ s.next = nextN
  BY <1>4 DEF CmdOf
<1>10. cmd' = [cmd EXCEPT ![p] = s]  BY <1>5, <1>2 DEF r
<1> HIDE DEF s
<1>11. Moves(p) /\ cmd'[p] = s  BY <1>2, <1>6, <1>7, <1>10, SetIs DEF r
<1>12. QED  BY <1>8, <1>9, <1>11, Zenon DEF r, pcN, nextN, seenN

\* The text before the block is to be written.
LEMMA PutBackIs ==
  ASSUME Shaped, NEW p \in Commands, PutBack(p)
  PROVE  /\ Moves(p)
         /\ cmd'[p].pc = "write"
         /\ cmd'[p].todo = cmd[p].todo
         /\ cmd'[p].failed = cmd[p].failed
         /\ cmd'[p].next = cmd[p].seen
         /\ cmd'[p].seen = cmd[p].seen
         /\ cmd'[p].back = TRUE
         /\ cmd'[p].lost = cmd[p].lost
<1>1. PICK V : cmd \in [Commands -> CmdOf(V)]  BY DEF Shaped
<1> DEFINE W == V \cup {cmd[p].seen}
<1>2. cmd \in [Commands -> CmdOf(W)]  BY <1>1, Wider
<1>3. cmd[p].seen \in W  OBVIOUS
<1> HIDE DEF W
<1> DEFINE r == cmd[p]
           pcN == "write"
           nextN == r.seen
           backN == TRUE
<1>4. r \in CmdOf(W) /\ pcN \in Stages /\ nextN \in W /\ backN \in BOOLEAN
  BY <1>2, <1>3 DEF CmdOf, Stages
<1>5. cmd' = [cmd EXCEPT ![p].pc = pcN, ![p].next = nextN, ![p].back = backN]
  BY DEF PutBack
<1> HIDE DEF r, pcN, nextN, backN
<1> DEFINE s == [r EXCEPT !.pc = pcN, !.next = nextN, !.back = backN]
<1>6. s \in CmdOf(W)  BY <1>4 DEF CmdOf
<1>7. /\ s.on = r.on
      /\ s.alone = r.alone
      /\ s.sound = r.sound
      /\ s.kind = r.kind
  BY <1>4 DEF CmdOf
<1>8. /\ s.todo = r.todo
      /\ s.failed = r.failed
      /\ s.seen = r.seen
      /\ s.lost = r.lost
  BY <1>4 DEF CmdOf
<1>9. s.pc = pcN /\ s.next = nextN /\ s.back = backN
  BY <1>4 DEF CmdOf
<1>10. cmd' = [cmd EXCEPT ![p] = s]  BY <1>5, <1>2 DEF r
<1> HIDE DEF s
<1>11. Moves(p) /\ cmd'[p] = s  BY <1>2, <1>6, <1>7, <1>10, SetIs DEF r
<1>12. QED  BY <1>8, <1>9, <1>11, Zenon DEF r, pcN, nextN, backN

\* Nothing but the stage changes.
LEMMA GoesIs ==
  ASSUME Shaped, NEW p \in Commands, NEW stage \in Stages,
         cmd' = [cmd EXCEPT ![p].pc = stage]
  PROVE  /\ Moves(p)
         /\ cmd'[p].pc = stage
         /\ cmd'[p].todo = cmd[p].todo
         /\ cmd'[p].failed = cmd[p].failed
         /\ cmd'[p].next = cmd[p].next
         /\ cmd'[p].seen = cmd[p].seen
         /\ cmd'[p].back = cmd[p].back
         /\ cmd'[p].lost = cmd[p].lost
<1>1. PICK V : cmd \in [Commands -> CmdOf(V)]  BY DEF Shaped
<1> DEFINE r == cmd[p]
           pcN == stage
<1>2. r \in CmdOf(V) /\ pcN \in Stages
  BY <1>1 DEF CmdOf, Stages
<1>3. cmd' = [cmd EXCEPT ![p].pc = pcN]
  OBVIOUS
<1> HIDE DEF r, pcN
<1> DEFINE s == [r EXCEPT !.pc = pcN]
<1>4. s \in CmdOf(V)  BY <1>2 DEF CmdOf
<1>5. /\ s.on = r.on
      /\ s.alone = r.alone
      /\ s.sound = r.sound
      /\ s.kind = r.kind
  BY <1>2 DEF CmdOf
<1>6. /\ s.todo = r.todo
      /\ s.failed = r.failed
      /\ s.next = r.next
      /\ s.seen = r.seen
      /\ s.back = r.back
      /\ s.lost = r.lost
  BY <1>2 DEF CmdOf
<1>7. s.pc = pcN
  BY <1>2 DEF CmdOf
<1>8. cmd' = [cmd EXCEPT ![p] = s]  BY <1>3, <1>1 DEF r
<1> HIDE DEF s
<1>9. Moves(p) /\ cmd'[p] = s  BY <1>1, <1>4, <1>5, <1>8, SetIs DEF r
<1>10. QED  BY <1>6, <1>7, <1>9, Zenon DEF r, pcN

\* claim_both gives up.
LEMMA EndsIs ==
  ASSUME Shaped, NEW p \in Commands, cmd' = [cmd EXCEPT ![p].todo = <<>>, ![p].pc = "ended"]
  PROVE  /\ Moves(p)
         /\ cmd'[p].pc = "ended"
         /\ cmd'[p].todo = <<>>
         /\ cmd'[p].failed = cmd[p].failed
         /\ cmd'[p].next = cmd[p].next
         /\ cmd'[p].seen = cmd[p].seen
         /\ cmd'[p].back = cmd[p].back
         /\ cmd'[p].lost = cmd[p].lost
<1>1. PICK V : cmd \in [Commands -> CmdOf(V)]  BY DEF Shaped
<1> DEFINE W == V \cup {<<>>}
<1>2. cmd \in [Commands -> CmdOf(W)]  BY <1>1, Wider
<1>3. <<>> \in W  OBVIOUS
<1> HIDE DEF W
<1> DEFINE r == cmd[p]
           todoN == <<>>
           pcN == "ended"
<1>4. r \in CmdOf(W) /\ pcN \in Stages /\ todoN \in W
  BY <1>2, <1>3 DEF CmdOf, Stages
<1>5. cmd' = [cmd EXCEPT ![p].todo = todoN, ![p].pc = pcN]
  OBVIOUS
<1> HIDE DEF r, todoN, pcN
<1> DEFINE s == [r EXCEPT !.todo = todoN, !.pc = pcN]
<1>6. s \in CmdOf(W)  BY <1>4 DEF CmdOf
<1>7. /\ s.on = r.on
      /\ s.alone = r.alone
      /\ s.sound = r.sound
      /\ s.kind = r.kind
  BY <1>4 DEF CmdOf
<1>8. /\ s.failed = r.failed
      /\ s.next = r.next
      /\ s.seen = r.seen
      /\ s.back = r.back
      /\ s.lost = r.lost
  BY <1>4 DEF CmdOf
<1>9. s.todo = todoN /\ s.pc = pcN
  BY <1>4 DEF CmdOf
<1>10. cmd' = [cmd EXCEPT ![p] = s]  BY <1>5, <1>2 DEF r
<1> HIDE DEF s
<1>11. Moves(p) /\ cmd'[p] = s  BY <1>2, <1>6, <1>7, <1>10, SetIs DEF r
<1>12. QED  BY <1>8, <1>9, <1>11, Zenon DEF r, todoN, pcN

\* A write failed.
LEMMA FailsIs ==
  ASSUME Shaped, NEW p \in Commands, WriteFails(p)
  PROVE  /\ Moves(p)
         /\ cmd'[p].pc = IF Tail(cmd[p].todo) = <<>> THEN "ended" ELSE "next"
         /\ cmd'[p].todo = Tail(cmd[p].todo)
         /\ cmd'[p].failed = TRUE
         /\ cmd'[p].next = cmd[p].next
         /\ cmd'[p].seen = cmd[p].seen
         /\ cmd'[p].back = FALSE
         /\ cmd'[p].lost = (cmd[p].lost \/ cmd[p].back)
<1>1. PICK V : cmd \in [Commands -> CmdOf(V)]  BY DEF Shaped
<1> DEFINE W == V \cup {Tail(cmd[p].todo)}
<1>2. cmd \in [Commands -> CmdOf(W)]  BY <1>1, Wider
<1>3. Tail(cmd[p].todo) \in W  OBVIOUS
<1> HIDE DEF W
<1> DEFINE r == cmd[p]
           todoN == Tail(r.todo)
           pcN == IF todoN = <<>> THEN "ended" ELSE "next"
           failedN == TRUE
           backN == FALSE
           lostN == r.lost \/ r.back
<1>4. /\ r \in CmdOf(W) /\ pcN \in Stages /\ todoN \in W
      /\ failedN \in BOOLEAN /\ backN \in BOOLEAN /\ lostN \in BOOLEAN
  BY <1>2, <1>3 DEF CmdOf, Stages
<1>5. cmd' = [cmd EXCEPT ![p].todo = todoN, ![p].failed = failedN, ![p].back = backN,
                         ![p].pc = pcN, ![p].lost = lostN]
  BY DEF WriteFails
<1> HIDE DEF r, todoN, pcN, failedN, backN, lostN
<1> DEFINE s == [r EXCEPT !.todo = todoN, !.failed = failedN, !.back = backN, !.pc = pcN, !.lost = lostN]
<1>6. s \in CmdOf(W)  BY <1>4 DEF CmdOf
<1>7. /\ s.on = r.on
      /\ s.alone = r.alone
      /\ s.sound = r.sound
      /\ s.kind = r.kind
  BY <1>4 DEF CmdOf
<1>8. /\ s.next = r.next
      /\ s.seen = r.seen
  BY <1>4 DEF CmdOf
<1>9. s.todo = todoN /\ s.failed = failedN /\ s.back = backN /\ s.pc = pcN /\ s.lost = lostN
  BY <1>4 DEF CmdOf
<1>10. cmd' = [cmd EXCEPT ![p] = s]  BY <1>5, <1>2 DEF r
<1> HIDE DEF s
<1>11. Moves(p) /\ cmd'[p] = s  BY <1>2, <1>6, <1>7, <1>10, SetIs DEF r
<1>12. QED  BY <1>8, <1>9, <1>11, Zenon DEF r, todoN, pcN, failedN, backN, lostN

-----------------------------------------------------------------------------
(* The edits of the bindings as far as Hyprland refuses what they make.    *)

LEMMA AppendedIs ==
  ASSUME NEW lines, Sequence(lines), NEW b
  PROVE  Sequence(Appended(lines, b))
<1>1. PICK S : lines \in Seq(S)  BY DEF Sequence
<1> DEFINE T == S \cup {<<"blank">>, <<"begin", b>>, <<"body", b>>, <<"end", b>>}
<1>2. lines \in Seq(T)  BY <1>1, SeqMonotonic
<1>3. Block(b) \in Seq(T)
  <2>1. <<"blank">> \in T /\ <<"begin", b>> \in T /\ <<"body", b>> \in T /\ <<"end", b>> \in T
    OBVIOUS
  <2> HIDE DEF T
  <2>2. QED  BY <2>1 DEF Block
<1> HIDE DEF T
<1>4. lines \o Block(b) \in Seq(T)  BY <1>2, <1>3, ConcatProperties
<1>5. QED  BY <1>4 DEF Sequence, Appended

LEMMA LeastOf ==
  ASSUME NEW T \in SUBSET Nat, T # {}
  PROVE  Min(T) \in T /\ \A m \in T : Min(T) <= m
<1> DEFINE R == OpToRel(<, Nat)
<1>1. IsWellFoundedOn(R, Nat)  BY NatLessThanWellFounded
<1>2. \A x, y \in Nat : x < y => <<x, y>> \in R  BY DEF OpToRel
<1> HIDE DEF R
<1>3. PICK x \in T : \A y \in T : ~(<<y, x>> \in R)  BY <1>1, WFMin
<1>4. \A y \in T : x <= y
  <2> TAKE y \in T
  <2>1. ~(<<y, x>> \in R)  BY <1>3
  <2>2. y \in Nat /\ x \in Nat  OBVIOUS
  <2>3. ~(y < x)  BY <1>2, <2>1, <2>2, Zenon
  <2>4. QED  BY <2>2, <2>3
<1>5. QED  BY <1>3, <1>4 DEF Min

LEMMA GreatestOf ==
  ASSUME NEW n \in Nat, NEW T \in SUBSET (1..n), T # {}
  PROVE  Max(T) \in T /\ \A m \in T : Max(T) >= m
<1> DEFINE U == {n - m : m \in T}
<1>1. \A m \in T : m \in Nat /\ n - m \in Nat  OBVIOUS
<1>2. U \in SUBSET Nat /\ U # {}  BY <1>1
<1>3. \A u \in U : \E m \in T : u = n - m  OBVIOUS
<1>4. \A m \in T : n - m \in U  OBVIOUS
<1> HIDE DEF U
<1>5. Min(U) \in U /\ \A u \in U : Min(U) <= u  BY <1>2, LeastOf
<1>6. PICK x \in T : Min(U) = n - x  BY <1>3, <1>5
<1>7. \A m \in T : n - x <= n - m  BY <1>4, <1>5, <1>6
<1>8. \A m \in T : x >= m  BY <1>1, <1>7
<1>9. QED  BY <1>8 DEF Max

\* What a cut leaves are lines that were there.
LEMMA CutIs ==
  ASSUME NEW lines, Sequence(lines), NEW b, HasBlock(lines, b), Cuttable(lines, b)
  PROVE  /\ Sequence(Cut(lines, b))
         /\ \A i \in DOMAIN Cut(lines, b) : \E k \in DOMAIN lines : Cut(lines, b)[i] = lines[k]
<1>1. PICK S : lines \in Seq(S)  BY DEF Sequence
<1> DEFINE begin == Min(Begins(lines, b))
           end == Min(Ends(lines, b))
           from == IF begin > 1 /\ lines[begin - 1] = <<"blank">> THEN begin - 1 ELSE begin
           T == {lines[k] : k \in DOMAIN lines}
<1>2. DOMAIN lines = 1..Len(lines) /\ Len(lines) \in Nat  BY <1>1, LenProperties
<1>3. begin \in 1..Len(lines)
  BY <1>2, LeastOf DEF HasBlock, Begins
<1>4. end \in 1..Len(lines)
  <2> DEFINE E == Ends(lines, b)
  <2>1. E \in SUBSET (1..Len(lines))  BY <1>2 DEF Ends
  <2>2. E # {}  BY DEF Cuttable
  <2> HIDE DEF E
  <2>3. E \in SUBSET Nat  BY <2>1
  <2>4. Min(E) \in E  BY <2>2, <2>3, LeastOf
  <2>5. QED  BY <2>1, <2>4 DEF E
<1>5. \A i \in 1..Len(lines) : lines[i] \in T  BY <1>2
<1>6. from \in 1..Len(lines)  BY <1>2, <1>3
<1> DEFINE u == SubSeq(lines, 1, from - 1)
           v == SubSeq(lines, end + 1, Len(lines))
<1>7. Cut(lines, b) = u \o v  BY DEF Cut
<1> HIDE DEF from, end, begin, T
<1>8. u \in Seq(T)
  <2>1. \A i \in 1..(from - 1) : lines[i] \in T  BY <1>2, <1>5, <1>6
  <2>2. QED  BY <1>6, <2>1, SubSeqProperties
<1>9. v \in Seq(T)
  <2>1. \A i \in (end + 1)..Len(lines) : lines[i] \in T  BY <1>2, <1>4, <1>5
  <2>2. QED  BY <1>2, <1>4, <2>1, SubSeqProperties
<1> HIDE DEF u, v
<1>10. Cut(lines, b) \in Seq(T)  BY <1>7, <1>8, <1>9, ConcatProperties
<1>11. \A i \in DOMAIN Cut(lines, b) : Cut(lines, b)[i] \in T
  BY <1>10, LenProperties, ElementOfSeq
<1>12. QED  BY <1>10, <1>11 DEF Sequence, T

\* Hyprland refuses nothing in what a cut leaves that it did not refuse before.
LEMMA CutLoads ==
  ASSUME NEW lines, Sequence(lines), NEW b, HasBlock(lines, b), Cuttable(lines, b), Loads(lines)
  PROVE  Loads(Cut(lines, b))
<1> DEFINE cut == Cut(lines, b)
<1>1. \A i \in DOMAIN cut : \E k \in DOMAIN lines : cut[i] = lines[k]  BY CutIs
<1> HIDE DEF cut
<1>2. ~Refused(cut)
  BY <1>1, ZenonT(60) DEF Loads, Refused
<1>3. QED  BY <1>2 DEF Loads, cut

-----------------------------------------------------------------------------
(* Each step of a command keeps what is its own.                           *)

Good(p) ==
  /\ Moves(p) /\ box' = box /\ reach' = reach /\ Texts' /\ Stage(p)'
  /\ Busy(p) /\ Counts(p)' => Fine(p)'

LEMMA CountsBefore ==
  ASSUME NEW p \in Commands, Moves(p), reach' = reach, cmd[p].lost => cmd'[p].lost, Counts(p)'
  PROVE  Counts(p)
  BY DEF Moves, Counts

\* A half that ends with the bindings as they were.
LEMMA DoneGood ==
  ASSUME IInv, NEW p \in Commands, NEW ok \in BOOLEAN, Done(p, ok), cmd[p].pc = "next",
         Texts', Content(disk', "bindings") = Content(disk, "bindings"),
         loaded' = loaded, box' = box, reach' = reach
  PROVE  Good(p)
<1>1. Shaped  BY DEF IInv
<1>2. /\ Moves(p) /\ cmd'[p].lost = cmd[p].lost /\ cmd'[p].back = FALSE
      /\ cmd'[p].todo = Tail(cmd[p].todo)
      /\ cmd'[p].pc = IF Tail(cmd[p].todo) = <<>> THEN "ended" ELSE "next"
  BY <1>1, DoneIs
<1>3. Stage(p)'  BY <1>2 DEF Stage
<1>4. ASSUME Busy(p), Counts(p)' PROVE Fine(p)'
  <2>1. Fine(p)  BY <1>2, <1>4, CountsBefore DEF IInv
  <2>2. QED  BY <1>2, <2>1 DEF Fine, Loads, Refused
<1>5. QED  BY <1>2, <1>3, <1>4 DEF Good

\* A file is to be replaced.
LEMMA ReplacesGood ==
  ASSUME IInv, NEW p \in Commands, NEW lines, Replaces(p, lines), cmd[p].pc = "next",
         FileOf(p) = "bindings" =>
           /\ Sequence(lines) /\ ~cmd[p].on
           /\ Loads(Content(disk, "bindings")) => Loads(lines),
         FileOf(p) = "conf" => Keyed(lines) /\ (cmd[p].on /\ Unquoted => Taken(lines)),
         Quiet
  PROVE  Good(p)
<1>1. Shaped  BY DEF IInv
<1>2. /\ Moves(p) /\ cmd'[p].lost = cmd[p].lost /\ cmd'[p].back = cmd[p].back
      /\ cmd'[p].todo = cmd[p].todo /\ cmd'[p].pc = "write" /\ cmd'[p].next = lines
  BY <1>1, ReplacesIs
<1>3. FileOf(p)' = FileOf(p)  BY <1>2 DEF FileOf
<1>4. Stage(p) /\ ~cmd[p].back  BY DEF IInv, Stage
<1>5. Stage(p)'  BY <1>2, <1>3, <1>4 DEF Stage, Moves
<1>6. Texts'  BY DEF IInv, Texts, Quiet, Content
<1>7. ASSUME Busy(p), Counts(p)' PROVE Fine(p)'
  <2>1. Fine(p)  BY <1>2, <1>7, CountsBefore DEF IInv, Quiet, Calm
  <2>2. Loads(loaded) /\ Loads(Content(disk, "bindings"))  BY <2>1 DEF Fine
  <2>3. box' = box /\ loaded' = loaded /\ disk' = disk  BY DEF Quiet, Calm
  <2>4. QED  BY <1>2, <1>3, <1>4, <2>2, <2>3 DEF Fine, Loads, Refused, Moves
<1>8. QED  BY <1>2, <1>5, <1>6, <1>7 DEF Good, Quiet, Calm

LEMMA QuietTexts ==
  ASSUME IInv, Quiet
  PROVE  /\ Texts' /\ Content(disk', "bindings") = Content(disk, "bindings")
         /\ loaded' = loaded /\ box' = box /\ reach' = reach
  BY DEF IInv, Texts, Quiet, Calm, Content

LEMMA FailGood ==
  ASSUME IInv, NEW p \in Commands, WriteFails(p), cmd[p].pc \in {"write", "rename"},
         UNCHANGED loaded, Calm
  PROVE  Good(p)
<1>1. Shaped  BY DEF IInv
<1>2. /\ Moves(p) /\ cmd'[p].lost = (cmd[p].lost \/ cmd[p].back) /\ cmd'[p].back = FALSE
      /\ cmd'[p].todo = Tail(cmd[p].todo)
      /\ cmd'[p].pc = IF Tail(cmd[p].todo) = <<>> THEN "ended" ELSE "next"
  BY <1>1, FailsIs
<1>3. Stage(p)'  BY <1>2 DEF Stage
<1>4. disk' = disk  BY DEF WriteFails
<1>5. Texts'  BY <1>4 DEF IInv, Texts, Content
<1>6. ASSUME Busy(p), Counts(p)' PROVE Fine(p)'
  <2>1. ~cmd[p].back /\ ~cmd[p].lost  BY <1>2, <1>6 DEF Counts
  <2>2. Fine(p)  BY <1>2, <1>6, <2>1, CountsBefore DEF IInv, Calm
  <2>3. box' = box /\ loaded' = loaded  BY DEF Calm
  <2>4. QED  BY <1>2, <1>4, <2>1, <2>2, <2>3 DEF Fine, Loads, Refused
<1>7. QED  BY <1>2, <1>3, <1>5, <1>6 DEF Good, Calm

LEMMA AtBindings ==
  ASSUME NEW p \in Commands, Half(p, "keys") \/ Half(p, "window")
  PROVE  FileOf(p) = "bindings" /\ cmd[p].pc = "next"
  BY DEF Half, FileOf

LEMMA BothGood ==
  ASSUME IInv, NEW p \in Commands, Both(p)
  PROVE  Good(p)
<1>1. Quiet /\ cmd[p].pc = "next"  BY DEF Both, Half
<1>2. CASE Done(p, TRUE)  BY <1>1, <1>2, QuietTexts, DoneGood
<1>3. CASE cmd' = [cmd EXCEPT ![p].todo = <<>>, ![p].pc = "ended"]
  <2>1. Shaped  BY DEF IInv
  <2>2. /\ Moves(p) /\ cmd'[p].lost = cmd[p].lost /\ cmd'[p].back = cmd[p].back
        /\ cmd'[p].todo = <<>> /\ cmd'[p].pc = "ended"
    BY <1>3, <2>1, EndsIs
  <2>3. Stage(p)'  BY <1>1, <2>2 DEF Stage, IInv
  <2>4. ASSUME Busy(p), Counts(p)' PROVE Fine(p)'
    <3>1. Fine(p)  BY <2>2, <2>4, <1>1, QuietTexts, CountsBefore DEF IInv
    <3>2. QED  BY <1>1, <2>2, <3>1, QuietTexts DEF Fine, Loads, Refused
  <2>5. QED  BY <1>1, <2>2, <2>3, <2>4, QuietTexts DEF Good
<1>4. QED  BY <1>2, <1>3 DEF Both

LEMMA ReadFailsGood ==
  ASSUME IInv, NEW p \in Commands, ReadFails(p)
  PROVE  Good(p)
<1>1. Quiet /\ cmd[p].pc = "next" /\ Done(p, FALSE)  BY DEF ReadFails
<1>2. QED  BY <1>1, QuietTexts, DoneGood

\* The claim of a block: refused while the config does not load, and else with
\* the text before it kept.
LEMMA ClaimsGood ==
  ASSUME IInv, NEW p \in Commands, Quiet, cmd[p].pc = "next", FileOf(p) = "bindings",
         cmd[p].on, NEW b, NEW seen, NEW next, seen = Text(p), next = Appended(seen, b),
         cmd' = [cmd EXCEPT ![p].pc = "write", ![p].seen = seen, ![p].next = next]
  PROVE  Good(p)
<1>1. Shaped  BY DEF IInv
<1>2. /\ Moves(p) /\ cmd'[p].lost = cmd[p].lost /\ cmd'[p].back = cmd[p].back
      /\ cmd'[p].todo = cmd[p].todo /\ cmd'[p].pc = "write" /\ cmd'[p].seen = seen
      /\ cmd'[p].next = next
  <2>1. Moves(p) /\ cmd'[p].lost = cmd[p].lost /\ cmd'[p].back = cmd[p].back
    BY <1>1, ClaimsIs
  <2>2. PICK V : cmd \in [Commands -> CmdOf(V)]  BY <1>1 DEF Shaped
  <2>3. /\ cmd'[p].todo = cmd[p].todo /\ cmd'[p].pc = "write" /\ cmd'[p].seen = seen
        /\ cmd'[p].next = next
    BY <2>2 DEF CmdOf
  <2>4. QED  BY <2>1, <2>3
<1>3. FileOf(p)' = "bindings"  BY <1>2 DEF FileOf
<1>4. Text(p) = Content(disk, "bindings")  BY DEF Text
<1>5. Sequence(seen) /\ Sequence(next)
  BY <1>4, AppendedIs DEF IInv, Texts
<1>6. ~cmd[p].back  BY DEF IInv, Stage
<1>7. Stage(p)'  BY <1>2, <1>3, <1>5, <1>6 DEF Stage
<1>8. ASSUME Busy(p), Counts(p)' PROVE Fine(p)'
  <2>1. Fine(p)  BY <1>2, <1>8, QuietTexts, CountsBefore DEF IInv
  <2>2. Loads(loaded) /\ Loads(Content(disk, "bindings"))  BY <2>1 DEF Fine
  <2>3. Loads(loaded)' /\ Loads(Content(disk, "bindings"))' /\ Loads(cmd[p].seen)'
    BY <1>2, <1>4, <2>2, QuietTexts DEF Loads, Refused
  <2>4. QED  BY <1>2, <1>6, <2>3 DEF Fine, Moves
<1>9. QED  BY <1>2, <1>7, <1>8, QuietTexts DEF Good

LEMMA BindingsGood ==
  ASSUME IInv, NEW p \in Commands, Bindings(p)
  PROVE  Good(p)
<1>1. Quiet /\ FileOf(p) = "bindings" /\ cmd[p].pc = "next"  BY AtBindings DEF Bindings
<1> DEFINE lines == Text(p)
           b == BlockOf(p)
<1>2. lines = Content(disk, "bindings") /\ Sequence(lines)  BY <1>1 DEF Text, IInv, Texts
<1>3. CASE Done(p, TRUE)  BY <1>1, <1>3, QuietTexts, DoneGood
<1>4. CASE Done(p, FALSE)  BY <1>1, <1>4, QuietTexts, DoneGood
<1>5. CASE /\ On(p)
           /\ cmd' = [cmd EXCEPT ![p].pc = "write", ![p].seen = lines, ![p].next = Appended(lines, b)]
  <2>1. PICK seen : seen = lines  OBVIOUS
  <2>2. PICK next : next = Appended(seen, b)  OBVIOUS
  <2>3. /\ cmd[p].on
        /\ cmd' = [cmd EXCEPT ![p].pc = "write", ![p].seen = seen, ![p].next = next]
    BY <1>5, <2>1, <2>2 DEF On
  <2> HIDE DEF b
  <2>4. QED  BY <1>1, <2>1, <2>2, <2>3, ClaimsGood
<1>6. CASE ~On(p) /\ HasBlock(lines, b) /\ Cuttable(lines, b) /\ Replaces(p, Cut(lines, b))
  <2> DEFINE cut == Cut(lines, b)
  <2>1. Sequence(cut)  BY <1>2, <1>6, CutIs
  <2>2. Loads(Content(disk, "bindings")) => Loads(cut)  BY <1>2, <1>6, CutLoads
  <2>3. Replaces(p, cut) /\ ~cmd[p].on  BY <1>6 DEF On
  <2> HIDE DEF cut
  <2>4. QED  BY <1>1, <2>1, <2>2, <2>3, ReplacesGood
<1>7. QED
  <2> HIDE DEF lines, b
  <2> USE DEF lines, b
  <2>1. \/ Done(p, TRUE) \/ Done(p, FALSE)
        \/ /\ On(p)
           /\ cmd' = [cmd EXCEPT ![p].pc = "write", ![p].seen = lines, ![p].next = Appended(lines, b)]
        \/ ~On(p) /\ HasBlock(lines, b) /\ Cuttable(lines, b) /\ Replaces(p, Cut(lines, b))
    BY DEF Bindings
  <2>2. QED  BY <2>1, <1>3, <1>4, <1>5, <1>6

LEMMA ReloadGood ==
  ASSUME IInv, NEW p \in Commands, Reload(p)
  PROVE  Good(p)
<1>1. Shaped /\ cmd[p].pc = "reload" /\ FileOf(p) = "bindings"  BY DEF IInv, Reload, Stage
<1>2. disk' = disk /\ box' = box /\ reach' = reach
  BY DEF Reload, Calm
<1>3. Texts'  BY <1>2 DEF IInv, Texts, Content
<1>4. ASSUME NEW ok \in BOOLEAN, Done(p, ok), cmd[p].back \/ ~(reach /\ cmd[p].on) PROVE Good(p)
  <2>1. /\ Moves(p) /\ cmd'[p].lost = cmd[p].lost /\ cmd'[p].back = FALSE
        /\ cmd'[p].todo = Tail(cmd[p].todo)
        /\ cmd'[p].pc = IF Tail(cmd[p].todo) = <<>> THEN "ended" ELSE "next"
    BY <1>1, <1>4, DoneIs
  <2>2. Stage(p)'  BY <2>1 DEF Stage
  <2>3. ASSUME Busy(p), Counts(p)' PROVE Fine(p)'
    <3>1. Fine(p) /\ reach  BY <1>2, <2>1, <2>3, CountsBefore DEF IInv, Counts
    <3>2. Loads(Content(disk, "bindings"))  BY <1>1, <1>4, <3>1 DEF Fine
    <3>3. loaded' = Content(disk, "bindings")  BY <3>1 DEF Reload
    <3>4. Loads(loaded)' /\ Loads(Content(disk, "bindings"))'
      BY <1>2, <3>2, <3>3 DEF Loads, Refused
    <3>5. QED  BY <2>1, <3>4 DEF Fine
  <2>4. QED  BY <1>2, <1>3, <2>1, <2>2, <2>3 DEF Good
<1>5. CASE ~cmd[p].back /\ reach /\ On(p) /\ cmd' = [cmd EXCEPT ![p].pc = "check"]
  <2>1. /\ Moves(p) /\ cmd'[p].lost = cmd[p].lost /\ cmd'[p].back = cmd[p].back
        /\ cmd'[p].todo = cmd[p].todo /\ cmd'[p].pc = "check" /\ cmd'[p].next = cmd[p].next
        /\ cmd'[p].seen = cmd[p].seen
    BY <1>1, <1>5, GoesIs DEF Stages
  <2>2. FileOf(p)' = "bindings"  BY <1>1, <2>1 DEF FileOf
  <2>3. Stage(p)  BY DEF IInv
  <2>4. Stage(p)'  BY <1>1, <1>5, <2>1, <2>2, <2>3 DEF Stage, Moves, On
  <2>5. ASSUME Busy(p), Counts(p)' PROVE Fine(p)'
    <3>1. Fine(p)  BY <1>2, <2>1, <2>5, CountsBefore DEF IInv, Counts
    <3>2. Loads(cmd[p].seen)  BY <1>1, <1>5, <3>1 DEF Fine, On
    <3>3. loaded' = Content(disk, "bindings")  BY <1>5 DEF Reload
    <3>4. Loads(cmd[p].seen)'  BY <1>2, <2>1, <3>2 DEF Loads, Refused
    <3>5. QED  BY <1>2, <2>1, <3>3, <3>4 DEF Fine
  <2>6. QED  BY <1>2, <1>3, <2>1, <2>4, <2>5 DEF Good
<1>6. QED
  <2>1. \/ cmd[p].back /\ Done(p, FALSE)
        \/ ~cmd[p].back /\ reach /\ On(p) /\ cmd' = [cmd EXCEPT ![p].pc = "check"]
        \/ ~(reach /\ cmd[p].on) /\ Done(p, TRUE)
    BY DEF Reload, On
  <2>2. QED  BY <2>1, <1>4, <1>5

LEMMA CheckGood ==
  ASSUME IInv, NEW p \in Commands, Check(p)
  PROVE  Good(p)
<1>1. /\ Shaped /\ cmd[p].pc = "check" /\ FileOf(p) = "bindings" /\ cmd[p].on
      /\ Sequence(cmd[p].seen) /\ Quiet
  BY DEF IInv, Check, Stage
<1>2. CASE ConfigErrors /\ PutBack(p)
  <2>1. /\ Moves(p) /\ cmd'[p].lost = cmd[p].lost /\ cmd'[p].back = TRUE
        /\ cmd'[p].todo = cmd[p].todo /\ cmd'[p].pc = "write" /\ cmd'[p].next = cmd[p].seen
        /\ cmd'[p].seen = cmd[p].seen
    BY <1>1, <1>2, PutBackIs
  <2>2. FileOf(p)' = "bindings"  BY <1>1, <2>1 DEF FileOf
  <2>3. Stage(p)'  BY <1>1, <2>1, <2>2 DEF Stage
  <2>4. ASSUME Busy(p), Counts(p)' PROVE Fine(p)'
    <3>1. Fine(p)  BY <1>1, <2>1, <2>4, QuietTexts, CountsBefore DEF IInv
    <3>2. Loads(cmd[p].next)'  BY <1>1, <2>1, <3>1, QuietTexts DEF Fine, Loads, Refused
    <3>3. QED  BY <2>1, <3>2 DEF Fine
  <2>5. QED  BY <1>1, <2>1, <2>3, <2>4, QuietTexts DEF Good
<1>3. CASE ~ConfigErrors /\ Done(p, TRUE)
  <2>1. /\ Moves(p) /\ cmd'[p].lost = cmd[p].lost /\ cmd'[p].back = FALSE
        /\ cmd'[p].todo = Tail(cmd[p].todo)
        /\ cmd'[p].pc = IF Tail(cmd[p].todo) = <<>> THEN "ended" ELSE "next"
    BY <1>1, <1>3, DoneIs
  <2>2. Stage(p)'  BY <2>1 DEF Stage
  <2>3. ASSUME Busy(p), Counts(p)' PROVE Fine(p)'
    <3>1. Fine(p) /\ reach  BY <1>1, <2>1, <2>3, QuietTexts, CountsBefore DEF IInv, Counts
    <3>2. Loads(loaded) /\ Loads(Content(disk, "bindings"))
      BY <1>1, <1>3, <3>1 DEF Fine, ConfigErrors, Loads
    <3>3. Loads(loaded)' /\ Loads(Content(disk, "bindings"))'
      BY <1>1, <3>2, QuietTexts DEF Loads, Refused
    <3>4. QED  BY <2>1, <3>3 DEF Fine
  <2>4. QED  BY <1>1, <2>1, <2>2, <2>3, QuietTexts DEF Good
<1>4. QED  BY <1>2, <1>3 DEF Check

-----------------------------------------------------------------------------
(* The key files and the registration.                                     *)

\* A file beside the bindings is written or goes.
LEMMA OtherFile ==
  ASSUME IInv, NEW name \in FileNames \ {"bindings"}, NEW file,
         disk' = [disk EXCEPT ![name] = file],
         name = "conf" => Keyed(Content(disk', "conf"))
  PROVE  Texts' /\ Content(disk', "bindings") = Content(disk, "bindings")
<1>1. DOMAIN disk = FileNames /\ "bindings" \in FileNames /\ "conf" \in FileNames
  BY DEF IInv, Texts, FileNames
<1>2. disk'["bindings"] = disk["bindings"] /\ (name # "conf" => disk'["conf"] = disk["conf"])
  BY <1>1
<1>3. QED  BY <1>1, <1>2 DEF Texts, Content, IInv

LEMMA SameFiles ==
  ASSUME IInv, UNCHANGED disk
  PROVE  Texts' /\ Content(disk', "bindings") = Content(disk, "bindings")
  BY DEF IInv, Texts, Content

LEMMA MimeGood ==
  ASSUME IInv, NEW p \in Commands, ClaimMime(p) \/ ReleaseMime(p)
  PROVE  Good(p)
<1>1. cmd[p].pc = "next" /\ FileOf(p) = "mime"  BY DEF ClaimMime, ReleaseMime, Half, FileOf
<1>2. CASE ClaimMime(p)
  <2>1. loaded' = loaded /\ box' = box /\ reach' = reach  BY <1>2 DEF ClaimMime
  <2>2. Texts' /\ Content(disk', "bindings") = Content(disk, "bindings")
    <3> DEFINE file == <<XdgDefault(Content(disk, "mime"))>>
    <3>1. UNCHANGED disk \/ disk' = [disk EXCEPT !["mime"] = file]  BY <1>2 DEF ClaimMime
    <3> HIDE DEF file
    <3>2. QED  BY <3>1, SameFiles, OtherFile DEF FileNames
  <2>3. PICK ok \in BOOLEAN : Done(p, ok)
    <3>1. \/ Done(p, TRUE)
          \/ \E answers \in BOOLEAN :
               Done(p, answers /\ QueryDefault(XdgDefault(Content(disk, "mime"))) = Own)
      BY <1>2 DEF ClaimMime
    <3>2. ASSUME NEW answers \in BOOLEAN,
                 Done(p, answers /\ QueryDefault(XdgDefault(Content(disk, "mime"))) = Own)
          PROVE  \E ok \in BOOLEAN : Done(p, ok)
      <4> DEFINE ok == answers /\ QueryDefault(XdgDefault(Content(disk, "mime"))) = Own
      <4>1. ok \in BOOLEAN /\ Done(p, ok)  BY <3>2
      <4>2. QED  BY <4>1, Zenon
    <3>3. QED  BY <3>1, <3>2
  <2>4. QED  BY <1>1, <2>1, <2>2, <2>3, DoneGood
<1>3. CASE ReleaseMime(p)
  <2> DEFINE lines == DropDefault(Text(p))
  <2>1. Quiet /\ (Done(p, TRUE) \/ Replaces(p, lines))  BY <1>3 DEF ReleaseMime
  <2> HIDE DEF lines
  <2>2. QED  BY <1>1, <2>1, QuietTexts, DoneGood, ReplacesGood
<1>4. QED  BY <1>2, <1>3

LEMMA ServiceGood ==
  ASSUME IInv, NEW p \in Commands, ClaimService(p) \/ ReleaseService(p)
  PROVE  Good(p)
<1>1. cmd[p].pc = "next" /\ FileOf(p) = "service"
  BY DEF ClaimService, ReleaseService, Half, FileOf
<1> DEFINE lines == ServiceOf(exec)
<1>2. /\ UNCHANGED <<temps, loaded>> /\ Calm
      /\ \/ Creates(p, lines) \/ Removes(p)
         \/ UNCHANGED disk /\ (Replaces(p, lines) \/ \E ok \in BOOLEAN : Done(p, ok))
  BY DEF ClaimService, ReleaseService
<1> HIDE DEF lines
<1>3. loaded' = loaded /\ box' = box /\ reach' = reach  BY <1>2 DEF Calm
<1>4. CASE UNCHANGED disk /\ Replaces(p, lines)
  BY <1>1, <1>2, <1>4, ReplacesGood DEF Quiet
<1>5. CASE UNCHANGED disk /\ \E ok \in BOOLEAN : Done(p, ok)
  BY <1>1, <1>3, <1>5, SameFiles, DoneGood
<1>6. CASE Creates(p, lines) \/ Removes(p)
  <2>1. \/ disk' = [disk EXCEPT !["service"] = <<lines>>] /\ Done(p, TRUE)
        \/ disk' = [disk EXCEPT !["service"] = <<>>] /\ Done(p, TRUE)
        \/ UNCHANGED disk /\ Done(p, FALSE)
    BY <1>1, <1>6 DEF Creates, Removes
  <2>2. Texts' /\ Content(disk', "bindings") = Content(disk, "bindings")
    BY <2>1, SameFiles, OtherFile DEF FileNames
  <2>3. QED  BY <1>1, <1>3, <2>1, <2>2, DoneGood
<1>7. QED  BY <1>2, <1>4, <1>5, <1>6

-----------------------------------------------------------------------------
(* Flattening, and what Without leaves.                                    *)

\* FlattenSeq by what its recursion computes at each part.
LEMMA FlattenIs ==
  ASSUME NEW S, NEW ss \in Seq(Seq(S)), Len(ss) # 0
  PROVE  \E fl : /\ FlattenSeq(ss) = fl[Len(ss)]
                 /\ \A i \in 1..Len(ss) :
                      fl[i] \in Seq(S) /\ fl[i] = IF i = 1 THEN ss[i] ELSE fl[i - 1] \o ss[i]
<1> DEFINE n == Len(ss)
           Body(f, k) == [i \in 1..k |-> IF i = 1 THEN ss[i] ELSE f[i - 1] \o ss[i]]
           flatten == CHOOSE f : f = Body(f, n)
<1>1. n \in Nat /\ \A i \in 1..n : ss[i] \in Seq(S)  BY LenProperties, ElementOfSeq
<1>2. FlattenSeq(ss) = flatten[n]
  BY DEF FlattenSeq
<1> HIDE DEF Body
<1>3. \A k \in Nat : \E f : f = Body(f, k)
  <2> DEFINE Bad == {k \in Nat : ~\E f : f = Body(f, k)}
  <2>1. SUFFICES ASSUME Bad # {} PROVE FALSE  BY Zenon
  <2>2. PICK k \in Bad : \A j \in Bad : k <= j
    <3>1. Min(Bad) \in Bad /\ \A j \in Bad : Min(Bad) <= j  BY <2>1, LeastOf
    <3>2. QED  BY <3>1, Zenon
  <2>3. k \in Nat /\ ~\E f : f = Body(f, k)  OBVIOUS
  <2>4. k # 0
    <3>1. <<>> = Body(<<>>, 0)  BY DEF Body
    <3>2. QED  BY <2>3, <3>1
  <2>5. k - 1 \in Nat /\ ~(k <= k - 1)  BY <2>3, <2>4
  <2>6. PICK f : f = Body(f, k - 1)  BY <2>2, <2>5
  <2> DEFINE g == [i \in 1..k |-> IF i = k THEN IF k = 1 THEN ss[k] ELSE f[k - 1] \o ss[k] ELSE f[i]]
  <2>7. \A i \in 1..k : g[i] = IF i = 1 THEN ss[i] ELSE g[i - 1] \o ss[i]
    <3> TAKE i \in 1..k
    <3>1. CASE i = k
      <4>1. g[i] = IF k = 1 THEN ss[k] ELSE f[k - 1] \o ss[k]  BY <3>1
      <4>2. k # 1 => k - 1 \in 1..k /\ k - 1 # k  BY <2>3, <2>4
      <4>3. k # 1 => g[k - 1] = f[k - 1]  BY <4>2
      <4> HIDE DEF g
      <4>4. QED  BY <3>1, <4>1, <4>3
    <3>2. CASE i # k
      <4>1. i \in 1..(k - 1) /\ g[i] = f[i]  BY <2>3, <3>2
      <4>2. f[i] = IF i = 1 THEN ss[i] ELSE f[i - 1] \o ss[i]
        <5> DEFINE h == Body(f, k - 1)
        <5>1. h[i] = IF i = 1 THEN ss[i] ELSE f[i - 1] \o ss[i]  BY <4>1 DEF Body
        <5> HIDE DEF h
        <5>2. f = h  BY <2>6 DEF h
        <5>3. QED  BY <5>1, <5>2
      <4>3. i # 1 => i - 1 \in 1..k /\ i - 1 # k  BY <2>3
      <4>4. i # 1 => g[i - 1] = f[i - 1]  BY <4>3
      <4> HIDE DEF g
      <4>5. QED  BY <4>1, <4>2, <4>4
    <3>3. QED  BY <3>1, <3>2
  <2>8. g = Body(g, k)
    <3>1. g = [i \in 1..k |-> g[i]]  OBVIOUS
    <3> HIDE DEF g
    <3>2. QED  BY <2>7, <3>1 DEF Body
  <2>9. QED  BY <2>3, <2>8, Zenon
<1>4. flatten = Body(flatten, n)  BY <1>1, <1>3
<1> HIDE DEF flatten
<1>5. \A i \in 1..n : flatten[i] = IF i = 1 THEN ss[i] ELSE flatten[i - 1] \o ss[i]
  <2> TAKE i \in 1..n
  <2> DEFINE h == Body(flatten, n)
  <2>1. h[i] = IF i = 1 THEN ss[i] ELSE flatten[i - 1] \o ss[i]  BY DEF Body
  <2> HIDE DEF h
  <2>2. flatten = h  BY <1>4 DEF h
  <2>3. QED  BY <2>1, <2>2
<1>6. \A i \in 1..n : flatten[i] \in Seq(S)
  <2> DEFINE Bad == {i \in 1..n : flatten[i] \notin Seq(S)}
  <2>1. SUFFICES ASSUME Bad # {} PROVE FALSE  BY Zenon
  <2>2. Bad \in SUBSET Nat  BY <1>1
  <2>3. PICK i \in Bad : \A j \in Bad : i <= j
    <3>1. Min(Bad) \in Bad /\ \A j \in Bad : Min(Bad) <= j  BY <2>1, <2>2, LeastOf
    <3>2. QED  BY <3>1, Zenon
  <2>4. i \in 1..n /\ flatten[i] \notin Seq(S)  OBVIOUS
  <2>5. i # 1  BY <1>1, <1>5, <2>4
  <2>6. i - 1 \in 1..n /\ ~(i <= i - 1)  BY <1>1, <2>4, <2>5
  <2>7. flatten[i - 1] \in Seq(S)  BY <2>3, <2>6
  <2>8. flatten[i] = flatten[i - 1] \o ss[i]  BY <1>5, <2>4, <2>5
  <2>9. ss[i] \in Seq(S)  BY <1>1, <2>4
  <2>10. QED  BY <2>4, <2>7, <2>8, <2>9, ConcatProperties
<1>7. QED  BY <1>2, <1>2, <1>5, <1>6, Zenon

LEMMA Flattens ==
  ASSUME NEW S, NEW ss \in Seq(Seq(S))
  PROVE  FlattenSeq(ss) \in Seq(S)
<1>1. CASE Len(ss) = 0
  <2>1. ss = <<>>  BY <1>1, EmptySeq
  <2>2. <<>> \in Seq(S)  BY EmptySeq
  <2>3. QED  BY <1>1, <2>1, <2>2 DEF FlattenSeq
<1>2. CASE Len(ss) # 0
  <2>1. Len(ss) \in 1..Len(ss)  BY <1>2, LenProperties
  <2>2. QED  BY <1>2, <2>1, FlattenIs
<1>3. QED  BY <1>1, <1>2

\* The parts of a sequence of parts that are not empty, in their order, are
\* the elements of another: f says which part an element comes from.
Picks(f, out, ss, n) ==
  /\ f \in [1..Len(out) -> 1..n]
  /\ \A i, j \in 1..Len(out) : i < j => f[i] < f[j]
  /\ \A i \in 1..Len(out) : ss[f[i]] = <<out[i]>>
  /\ \A k \in 1..n : ss[k] # <<>> => \E i \in 1..Len(out) : f[i] = k

\* One part more: nothing, or one element.
LEMMA PicksMore ==
  ASSUME NEW S, NEW ss, NEW k \in Nat, k # 0, NEW u \in Seq(S), NEW f, Picks(f, u, ss, k - 1),
         NEW x \in Seq(S), x = ss[k], Len(x) <= 1
  PROVE  \E g : Picks(g, u \o x, ss, k)
<1>1. Len(u) \in Nat /\ Len(x) \in Nat  BY LenProperties
<1>2. CASE x = <<>>
  <2>1. u \o x = u  BY <1>2, ConcatEmptySeq
  <2>2. Picks(f, u, ss, k)
    <3>1. \A i \in 1..k : i # k => i \in 1..(k - 1)  OBVIOUS
    <3>2. f \in [1..Len(u) -> 1..k]  BY DEF Picks
    <3>3. \A i \in 1..k : ss[i] # <<>> => \E j \in 1..Len(u) : f[j] = i
      BY <1>2, <3>1 DEF Picks
    <3>4. QED  BY <3>2, <3>3 DEF Picks
  <2>3. QED  BY <2>1, <2>2
<1>3. CASE x # <<>>
  <2> DEFINE m == Len(u)
             out == u \o x
             g == [i \in 1..(m + 1) |-> IF i = m + 1 THEN k ELSE f[i]]
  <2>1. Len(x) = 1
    <3>1. Len(x) \in Nat \ {0} /\ Len(x) <= 1  BY <1>3, EmptySeq
    <3>2. \A l \in Nat \ {0} : l <= 1 => l = 1  OBVIOUS
    <3>3. QED  BY <3>1, <3>2, Zenon
  <2>2. x = <<x[1]>>
    <3>1. x[1] \in S  BY <2>1, ElementOfSeq
    <3>2. <<x[1]>> \in Seq(S) /\ Len(<<x[1]>>) = 1  BY <3>1
    <3>3. QED  BY <2>1, <3>2, SeqEqual
  <2>3. /\ Len(out) = m + 1 /\ out[m + 1] = x[1]
        /\ \A i \in 1..m : out[i] = u[i]
    <3>1. /\ Len(out) = Len(u) + Len(x)
          /\ \A i \in 1..(Len(u) + Len(x)) : out[i] = IF i <= Len(u) THEN u[i] ELSE x[i - Len(u)]
      BY ConcatProperties, Zenon
    <3> HIDE DEF out
    <3>2. out[m + 1] = x[(m + 1) - m]  BY <1>1, <2>1, <3>1
    <3>3. (m + 1) - m = 1  BY <1>1
    <3>4. \A i \in 1..m : out[i] = u[i]  BY <1>1, <2>1, <3>1
    <3>5. QED  BY <2>1, <3>1, <3>2, <3>3, <3>4
  <2>4. /\ f \in [1..m -> 1..(k - 1)]
        /\ \A i, j \in 1..m : i < j => f[i] < f[j]
        /\ \A i \in 1..m : ss[f[i]] = <<u[i]>>
        /\ \A j \in 1..(k - 1) : ss[j] # <<>> => \E i \in 1..m : f[i] = j
    BY DEF Picks
  <2>5. /\ \A i \in 1..m : g[i] = f[i]
        /\ g[m + 1] = k
    BY <1>1
  <2>6. g \in [1..(m + 1) -> 1..k]
    <3>1. \A i \in 1..(m + 1) : (IF i = m + 1 THEN k ELSE f[i]) \in 1..k  BY <1>1, <2>4
    <3>2. QED  BY <3>1
  <2> HIDE DEF g, out
  <2>7. \A i, j \in 1..(m + 1) : i < j => g[i] < g[j]
    <3> SUFFICES ASSUME NEW i \in 1..(m + 1), NEW j \in 1..(m + 1), i < j PROVE g[i] < g[j]
      OBVIOUS
    <3>1. i \in 1..m  BY <1>1
    <3>2. f[i] \in 1..(k - 1) /\ g[i] = f[i]  BY <2>4, <2>5, <3>1
    <3>3. CASE j = m + 1  BY <2>5, <3>2, <3>3
    <3>4. CASE j # m + 1
      <4>1. j \in 1..m  BY <1>1, <3>4
      <4>2. QED  BY <2>4, <2>5, <3>1, <3>2, <4>1
    <3>5. QED  BY <3>3, <3>4
  <2>8. \A i \in 1..(m + 1) : ss[g[i]] = <<out[i]>>
    <3> TAKE i \in 1..(m + 1)
    <3>1. CASE i = m + 1  BY <2>2, <2>3, <2>5, <3>1
    <3>2. CASE i # m + 1
      <4>1. i \in 1..m  BY <1>1, <3>2
      <4>2. QED  BY <2>3, <2>4, <2>5, <4>1
    <3>3. QED  BY <3>1, <3>2
  <2>9. \A j \in 1..k : ss[j] # <<>> => \E i \in 1..(m + 1) : g[i] = j
    <3> SUFFICES ASSUME NEW j \in 1..k, ss[j] # <<>> PROVE \E i \in 1..(m + 1) : g[i] = j
      OBVIOUS
    <3>1. CASE j = k
      <4>1. m + 1 \in 1..(m + 1)  BY <1>1
      <4>2. QED  BY <2>5, <3>1, <4>1
    <3>2. CASE j # k
      <4>1. j \in 1..(k - 1)  BY <3>2
      <4>2. PICK i \in 1..m : f[i] = j  BY <2>4, <4>1
      <4>3. i \in 1..(m + 1) /\ g[i] = j  BY <1>1, <2>5, <4>2
      <4>4. QED  BY <4>3
    <3>3. QED  BY <3>1, <3>2
  <2>10. Picks(g, out, ss, k)  BY <2>3, <2>6, <2>7, <2>8, <2>9 DEF Picks
  <2>11. QED  BY <2>10 DEF out
<1>4. QED  BY <1>2, <1>3

LEMMA Thins ==
  ASSUME NEW S, NEW ss \in Seq(Seq(S)), \A i \in 1..Len(ss) : Len(ss[i]) <= 1
  PROVE  \E f : Picks(f, FlattenSeq(ss), ss, Len(ss))
<1> DEFINE n == Len(ss)
<1>1. n \in Nat /\ \A i \in 1..n : ss[i] \in Seq(S)  BY LenProperties, ElementOfSeq
<1>2. <<>> \in Seq(S) /\ Len(<<>>) = 0  BY EmptySeq
<1>3. Picks(<<>>, <<>>, ss, 0)
  <2>1. 1..0 = {}  OBVIOUS
  <2>2. <<>> \in [1..0 -> 1..0]  BY <2>1
  <2>3. QED  BY <1>2, <2>1, <2>2 DEF Picks
<1>4. CASE n = 0
  <2>1. FlattenSeq(ss) = <<>>  BY <1>4, EmptySeq DEF FlattenSeq
  <2>2. QED  BY <1>3, <1>4, <2>1
<1>5. CASE n # 0
  <2>1. PICK fl : /\ FlattenSeq(ss) = fl[n]
                  /\ \A i \in 1..n :
                       fl[i] \in Seq(S) /\ fl[i] = IF i = 1 THEN ss[i] ELSE fl[i - 1] \o ss[i]
    BY <1>5, FlattenIs
  <2>2. \A k \in 1..n : \E f : Picks(f, fl[k], ss, k)
    <3> DEFINE Bad == {k \in 1..n : ~\E f : Picks(f, fl[k], ss, k)}
    <3>1. SUFFICES ASSUME Bad # {} PROVE FALSE  BY Zenon
    <3>2. Bad \in SUBSET Nat  BY <1>1
    <3>3. PICK k \in Bad : \A j \in Bad : k <= j
      <4>1. Min(Bad) \in Bad /\ \A j \in Bad : Min(Bad) <= j  BY <3>1, <3>2, LeastOf
      <4>2. QED  BY <4>1, Zenon
    <3>4. k \in 1..n /\ k \in Nat /\ k # 0 /\ ~\E f : Picks(f, fl[k], ss, k)  BY <1>1
    <3>5. PICK x : x = ss[k]  OBVIOUS
    <3>6. x \in Seq(S) /\ Len(x) <= 1  BY <1>1, <3>4, <3>5
    <3>7. CASE k = 1
      <4>1. fl[k] = <<>> \o x
        <5>1. fl[k] = x  BY <2>1, <3>4, <3>5, <3>7
        <5>2. QED  BY <3>6, <5>1, ConcatEmptySeq
      <4>2. Picks(<<>>, <<>>, ss, k - 1)  BY <1>3, <3>7
      <4>3. \E g : Picks(g, <<>> \o x, ss, k)
        <5>1. PICK e : e = <<>>  OBVIOUS
        <5>2. e \in Seq(S) /\ Picks(e, e, ss, k - 1)  BY <1>2, <4>2, <5>1
        <5>3. \E g : Picks(g, e \o x, ss, k)  BY <3>4, <3>5, <3>6, <5>2, PicksMore
        <5>4. QED  BY <5>1, <5>3
      <4>4. QED  BY <3>4, <4>1, <4>3
    <3>8. CASE k # 1
      <4>1. k - 1 \in 1..n /\ ~(k <= k - 1)  BY <1>1, <3>4, <3>8
      <4>2. PICK f : Picks(f, fl[k - 1], ss, k - 1)  BY <3>3, <4>1
      <4>3. PICK u : u = fl[k - 1]  OBVIOUS
      <4>4. fl[k] = u \o x  BY <2>1, <3>4, <3>5, <3>8, <4>3
      <4>5. u \in Seq(S) /\ Picks(f, u, ss, k - 1)  BY <2>1, <4>1, <4>2, <4>3
      <4>6. \E g : Picks(g, u \o x, ss, k)  BY <3>4, <3>5, <3>6, <4>5, PicksMore
      <4>7. QED  BY <3>4, <4>4, <4>6
    <3>9. QED  BY <3>7, <3>8
  <2>3. n \in 1..n  BY <1>1, <1>5
  <2>4. QED  BY <2>1, <2>2, <2>3
<1>6. QED  BY <1>4, <1>5

\* Without keeps the other elements, in their order.
Skips(f, out, seq, places) ==
  /\ f \in [1..Len(out) -> 1..Len(seq)]
  /\ \A i, j \in 1..Len(out) : i < j => f[i] < f[j]
  /\ \A i \in 1..Len(out) : out[i] = seq[f[i]] /\ f[i] \notin places
  /\ \A k \in 1..Len(seq) : k \notin places => \E i \in 1..Len(out) : f[i] = k

Part(seq, places, i) == IF i \in places THEN <<>> ELSE <<seq[i]>>
Parts(seq, places) == [i \in DOMAIN seq |-> Part(seq, places, i)]

LEMMA PartsAre ==
  ASSUME NEW S, NEW seq \in Seq(S), NEW places
  PROVE  /\ Parts(seq, places) \in Seq(Seq(S))
         /\ Len(Parts(seq, places)) = Len(seq)
         /\ \A i \in 1..Len(seq) : /\ Parts(seq, places)[i] = Part(seq, places, i)
                                   /\ Len(Part(seq, places, i)) <= 1
         /\ Without(seq, places) = FlattenSeq(Parts(seq, places))
<1>1. DOMAIN seq = 1..Len(seq) /\ Len(seq) \in Nat /\ \A i \in 1..Len(seq) : seq[i] \in S
  BY LenProperties, ElementOfSeq
<1>2. ASSUME NEW i \in 1..Len(seq)
      PROVE  Part(seq, places, i) \in Seq(S) /\ Len(Part(seq, places, i)) <= 1
  <2>1. PICK x \in S : x = seq[i]  BY <1>1
  <2>2. <<x>> \in Seq(S) /\ Len(<<x>>) <= 1  OBVIOUS
  <2>3. <<>> \in Seq(S) /\ Len(<<>>) <= 1  BY EmptySeq
  <2>4. Part(seq, places, i) = <<>> \/ Part(seq, places, i) = <<x>>  BY <2>1 DEF Part
  <2>5. QED  BY <2>2, <2>3, <2>4, Zenon
<1>3. Parts(seq, places) \in [1..Len(seq) -> Seq(S)]
  <2>1. \A i \in 1..Len(seq) : Part(seq, places, i) \in Seq(S)  BY <1>2
  <2>2. QED  BY <1>1, <2>1 DEF Parts
<1>4. Without(seq, places) = FlattenSeq(Parts(seq, places))
  BY DEF Without, Parts, Part
<1>5. \A i \in 1..Len(seq) : Parts(seq, places)[i] = Part(seq, places, i)
  BY <1>1 DEF Parts
<1>6. QED  BY <1>1, <1>2, <1>3, <1>4, <1>5

LEMMA WithoutIs ==
  ASSUME NEW S, NEW seq \in Seq(S), NEW places
  PROVE  Without(seq, places) \in Seq(S) /\ \E f : Skips(f, Without(seq, places), seq, places)
<1> DEFINE parts == Parts(seq, places)
           out == FlattenSeq(parts)
<1> HIDE DEF parts
<1>1. /\ parts \in Seq(Seq(S)) /\ Len(parts) = Len(seq) /\ Without(seq, places) = out
      /\ \A i \in 1..Len(seq) : parts[i] = Part(seq, places, i) /\ Len(parts[i]) <= 1
  <2>1. /\ parts \in Seq(Seq(S)) /\ Len(parts) = Len(seq) /\ Without(seq, places) = out
        /\ \A i \in 1..Len(seq) : parts[i] = Part(seq, places, i) /\ Len(Part(seq, places, i)) <= 1
    BY PartsAre, Zenon DEF parts
  <2>2. QED  BY <2>1, Zenon
<1>2. out \in Seq(S)  BY <1>1, Flattens
<1>3. PICK f : Picks(f, out, parts, Len(seq))  BY <1>1, Thins
<1> HIDE DEF out
<1>4. ASSUME NEW k \in 1..Len(seq), NEW x, Part(seq, places, k) = <<x>>
      PROVE  k \notin places /\ x = seq[k]
  <2>1. <<x>> # <<>>  OBVIOUS
  <2>2. k \notin places  BY <1>4, <2>1 DEF Part
  <2>3. <<x>> = <<seq[k]>>  BY <1>4, <2>2 DEF Part
  <2>4. QED  BY <2>2, <2>3
<1>5. f \in [1..Len(out) -> 1..Len(seq)] /\ \A i, j \in 1..Len(out) : i < j => f[i] < f[j]
  BY <1>3 DEF Picks
<1>6. ASSUME NEW i \in 1..Len(out) PROVE out[i] = seq[f[i]] /\ f[i] \notin places
  <2>1. parts[f[i]] = <<out[i]>> /\ f[i] \in 1..Len(seq)  BY <1>3, <1>5 DEF Picks
  <2>2. Part(seq, places, f[i]) = <<out[i]>>  BY <1>1, <2>1
  <2>3. QED  BY <1>4, <2>1, <2>2
<1>7. ASSUME NEW k \in 1..Len(seq), k \notin places PROVE \E i \in 1..Len(out) : f[i] = k
  <2>1. parts[k] = <<seq[k]>>  BY <1>1, <1>7 DEF Part
  <2>2. parts[k] # <<>>  BY <2>1
  <2>3. QED  BY <1>3, <2>2 DEF Picks
<1>8. Skips(f, out, seq, places)  BY <1>5, <1>6, <1>7 DEF Skips
<1>9. QED  BY <1>1, <1>2, <1>8

\* Without every element: nothing.
LEMMA WithoutAll ==
  ASSUME NEW S, NEW seq \in Seq(S), NEW places, 1..Len(seq) \subseteq places
  PROVE  Without(seq, places) = <<>>
<1> DEFINE out == Without(seq, places)
<1>1. out \in Seq(S) /\ \E f : Skips(f, out, seq, places)  BY WithoutIs
<1> HIDE DEF out
<1>2. PICK f : Skips(f, out, seq, places)  BY <1>1
<1>3. \A i \in 1..Len(out) : FALSE  BY <1>2 DEF Skips
<1>4. Len(out) \in Nat  BY <1>1, LenProperties
<1>5. Len(out) = 0  BY <1>3, <1>4
<1>6. out = <<>>  BY <1>1, <1>5, EmptySeq
<1>7. QED  BY <1>6 DEF out

LEMMA Joins ==
  ASSUME NEW S, NEW s, NEW t, NEW u, s \in Seq(S), t \in Seq(S), u \in Seq(S)
  PROVE  (s \o t) \o u = s \o (t \o u)
BY ConcatAssociative

\* Flattening part by part.
LEMMA FlattenConcat ==
  ASSUME NEW S, NEW a \in Seq(Seq(S)), NEW b \in Seq(Seq(S))
  PROVE  FlattenSeq(a \o b) = FlattenSeq(a) \o FlattenSeq(b)
<1> DEFINE la == Len(a)
           lb == Len(b)
           c == a \o b
<1>1. la \in Nat /\ lb \in Nat  BY LenProperties
<1>2. FlattenSeq(a) \in Seq(S) /\ FlattenSeq(b) \in Seq(S)  BY Flattens
<1>3. FlattenSeq(<<>>) = <<>>  BY DEF FlattenSeq
<1>4. CASE a = <<>>  BY <1>2, <1>3, <1>4, ConcatEmptySeq
<1>5. CASE b = <<>>  BY <1>2, <1>3, <1>5, ConcatEmptySeq
<1>6. CASE a # <<>> /\ b # <<>>
  <2>1. la # 0 /\ lb # 0
    <3>1. la \in Nat \ {0} /\ lb \in Nat \ {0}  BY <1>6, EmptySeq
    <3>2. QED  BY <3>1
  <2>2. /\ c \in Seq(Seq(S)) /\ Len(c) = la + lb
        /\ \A i \in 1..(la + lb) : c[i] = IF i <= la THEN a[i] ELSE b[i - la]
    BY ConcatProperties, Zenon
  <2> HIDE DEF c
  <2>3. PICK fa : /\ FlattenSeq(a) = fa[la]
                  /\ \A i \in 1..la : fa[i] \in Seq(S) /\ fa[i] = IF i = 1 THEN a[i] ELSE fa[i - 1] \o a[i]
    BY <2>1, FlattenIs
  <2>4. PICK fb : /\ FlattenSeq(b) = fb[lb]
                  /\ \A i \in 1..lb : fb[i] \in Seq(S) /\ fb[i] = IF i = 1 THEN b[i] ELSE fb[i - 1] \o b[i]
    BY <2>1, FlattenIs
  <2>5. la + lb # 0  BY <1>1, <2>1
  <2>6. PICK fc : /\ FlattenSeq(c) = fc[la + lb]
                  /\ \A i \in 1..(la + lb) :
                       fc[i] \in Seq(S) /\ fc[i] = IF i = 1 THEN c[i] ELSE fc[i - 1] \o c[i]
    <3>1. c \in Seq(Seq(S)) /\ Len(c) # 0  BY <2>2, <2>5
    <3>2. \E fl : /\ FlattenSeq(c) = fl[Len(c)]
                  /\ \A i \in 1..Len(c) :
                       fl[i] \in Seq(S) /\ fl[i] = IF i = 1 THEN c[i] ELSE fl[i - 1] \o c[i]
      BY <3>1, FlattenIs
    <3>3. QED  BY <2>2, <3>2, Zenon
  <2>7. \A i \in 1..la : fc[i] = fa[i]
    <3> DEFINE Bad == {i \in 1..la : fc[i] # fa[i]}
    <3>1. SUFFICES ASSUME Bad # {} PROVE FALSE  BY Zenon
    <3>2. Bad \in SUBSET Nat  BY <1>1
    <3>3. PICK i \in Bad : \A j \in Bad : i <= j
      <4>1. Min(Bad) \in Bad /\ \A j \in Bad : Min(Bad) <= j  BY <3>1, <3>2, LeastOf
      <4>2. QED  BY <4>1, Zenon
    <3>4. i \in 1..la /\ i \in 1..(la + lb) /\ i <= la /\ fc[i] # fa[i]  BY <1>1
    <3>5. c[i] = a[i]  BY <2>2, <3>4
    <3>6. i # 1  BY <2>3, <2>6, <3>4, <3>5
    <3>7. i - 1 \in 1..la /\ ~(i <= i - 1)  BY <1>1, <3>4, <3>6
    <3>8. fc[i - 1] = fa[i - 1]  BY <3>3, <3>7
    <3>9. QED  BY <2>3, <2>6, <3>4, <3>5, <3>6, <3>8
  <2> DEFINE flat == fa[la]
  <2>8. flat \in Seq(S)  BY <1>2, <2>3
  <2>f. flat = fa[la]  OBVIOUS
  <2> HIDE DEF flat
  <2>9. \A i \in 1..lb : fc[la + i] = flat \o fb[i]
    <3> DEFINE Bad == {i \in 1..lb : fc[la + i] # flat \o fb[i]}
    <3>1. SUFFICES ASSUME Bad # {} PROVE FALSE  BY Zenon
    <3>2. Bad \in SUBSET Nat  BY <1>1
    <3>3. PICK i \in Bad : \A j \in Bad : i <= j
      <4>1. Min(Bad) \in Bad /\ \A j \in Bad : Min(Bad) <= j  BY <3>1, <3>2, LeastOf
      <4>2. QED  BY <4>1, Zenon
    <3>4. i \in 1..lb /\ fc[la + i] # flat \o fb[i]  OBVIOUS
    <3> HIDE DEF Bad
    <3>5. /\ la + i \in 1..(la + lb) /\ ~(la + i <= la) /\ la + i # 1
          /\ (la + i) - la = i /\ (la + i) - 1 = la + (i - 1)
      BY <1>1, <2>1, <3>4
    <3>6. c[la + i] = b[i]  BY <2>2, <3>5
    <3>7. fc[la + i] = fc[la + (i - 1)] \o b[i]  BY <2>6, <3>5, <3>6
    <3>8. CASE i = 1
      <4>1. fc[la + (i - 1)] = flat
        <5>1. la + (i - 1) = la /\ la \in 1..la  BY <1>1, <2>1, <3>8
        <5>2. QED  BY <2>7, <2>f, <5>1
      <4>2. fb[i] = b[i]  BY <2>4, <3>4, <3>8
      <4>3. QED  BY <3>4, <3>7, <4>1, <4>2
    <3>9. CASE i # 1
      <4>1. i - 1 \in 1..lb /\ ~(i <= i - 1)  BY <1>1, <3>4, <3>9
      <4>2. fc[la + (i - 1)] = flat \o fb[i - 1]  BY <3>3, <4>1 DEF Bad
      <4>3. fb[i] = fb[i - 1] \o b[i] /\ fb[i - 1] \in Seq(S)  BY <2>4, <3>4, <3>9, <4>1
      <4>4. b[i] \in Seq(S)  BY <3>4, ElementOfSeq
      <4>5. (flat \o fb[i - 1]) \o b[i] = flat \o (fb[i - 1] \o b[i])
        <5>1. PICK w, x, y : w = flat /\ x = fb[i - 1] /\ y = b[i]  OBVIOUS
        <5>2. w \in Seq(S) /\ x \in Seq(S) /\ y \in Seq(S)  BY <2>8, <4>3, <4>4, <5>1
        <5>3. (w \o x) \o y = w \o (x \o y)  BY <5>2, Joins, SMTT(30)
        <5>4. QED  BY <5>1, <5>3
      <4>6. QED  BY <3>4, <3>7, <4>2, <4>3, <4>5
    <3>10. QED  BY <3>8, <3>9
  <2>10. lb \in 1..lb  BY <1>1, <2>1
  <2>11. FlattenSeq(c) = flat \o fb[lb]  BY <2>6, <2>9, <2>10
  <2>12. QED  BY <2>3, <2>4, <2>11, <2>f DEF c
<1>7. QED  BY <1>4, <1>5, <1>6

-----------------------------------------------------------------------------
(* The blocks of the bindings and what is the user's there.                *)

Blocks == {"keys", "float"}

\* No line of the user's stands between a begin marker and an end marker of
\* one block.
Apart(lines) ==
  \A b \in Blocks : \A i, j, k \in DOMAIN lines :
    i < j /\ j < k /\ lines[i] = <<"begin", b>> /\ lines[k] = <<"end", b>> => lines[j][1] # "user"

\* No block begins twice.
Single(lines) ==
  \A b \in Blocks : \A i, j \in DOMAIN lines :
    lines[i] = <<"begin", b>> /\ lines[j] = <<"begin", b>> => i = j

LEMMA UsersJoin ==
  ASSUME NEW S, NEW u \in Seq(S), NEW v \in Seq(S)
  PROVE  UserLines(u \o v) = UserLines(u) \o UserLines(v)
<1> DEFINE w == u \o v
           places(s) == {i \in DOMAIN s : s[i][1] # "user"}
           pu == Parts(u, places(u))
           pv == Parts(v, places(v))
           pw == Parts(w, places(w))
<1>1. /\ DOMAIN u = 1..Len(u) /\ Len(u) \in Nat
      /\ DOMAIN v = 1..Len(v) /\ Len(v) \in Nat
  BY LenProperties
<1>2. /\ w \in Seq(S) /\ Len(w) = Len(u) + Len(v)
      /\ \A i \in 1..(Len(u) + Len(v)) : w[i] = IF i <= Len(u) THEN u[i] ELSE v[i - Len(u)]
  BY ConcatProperties, Zenon
<1> HIDE DEF w
<1>3. DOMAIN w = 1..Len(w)  BY <1>2, LenProperties
<1>4. /\ UserLines(u) = Without(u, places(u))
      /\ UserLines(v) = Without(v, places(v))
      /\ UserLines(w) = Without(w, places(w))
  BY DEF UserLines
<1>5. \A s : \A i \in DOMAIN s : i \in places(s) <=> s[i][1] # "user"  OBVIOUS
<1> HIDE DEF places
<1>6. /\ pu \in Seq(Seq(S)) /\ Len(pu) = Len(u) /\ Without(u, places(u)) = FlattenSeq(pu)
      /\ \A i \in 1..Len(u) : pu[i] = Part(u, places(u), i)
  BY PartsAre, Zenon
<1>7. /\ pv \in Seq(Seq(S)) /\ Len(pv) = Len(v) /\ Without(v, places(v)) = FlattenSeq(pv)
      /\ \A i \in 1..Len(v) : pv[i] = Part(v, places(v), i)
  BY PartsAre, Zenon
<1>8. /\ pw \in Seq(Seq(S)) /\ Len(pw) = Len(w) /\ Without(w, places(w)) = FlattenSeq(pw)
      /\ \A i \in 1..Len(w) : pw[i] = Part(w, places(w), i)
  BY <1>2, PartsAre, ZenonT(60)
<1> HIDE DEF pu, pv, pw
<1> DEFINE puv == pu \o pv
<1>9. /\ puv \in Seq(Seq(S)) /\ Len(puv) = Len(u) + Len(v)
      /\ \A i \in 1..(Len(u) + Len(v)) : puv[i] = IF i <= Len(u) THEN pu[i] ELSE pv[i - Len(u)]
  <2>1. /\ puv \in Seq(Seq(S)) /\ Len(puv) = Len(pu) + Len(pv)
        /\ \A i \in 1..(Len(pu) + Len(pv)) : puv[i] = IF i <= Len(pu) THEN pu[i] ELSE pv[i - Len(pu)]
    <3>1. PICK Q : Q = Seq(S)  OBVIOUS
    <3>2. pu \in Seq(Q) /\ pv \in Seq(Q)  BY <1>6, <1>7, <3>1
    <3>3. /\ puv \in Seq(Q) /\ Len(puv) = Len(pu) + Len(pv)
          /\ \A i \in 1..(Len(pu) + Len(pv)) : puv[i] = IF i <= Len(pu) THEN pu[i] ELSE pv[i - Len(pu)]
      BY <3>2, ConcatProperties, Zenon
    <3>4. QED  BY <3>1, <3>3, Zenon
  <2>2. QED  BY <1>6, <1>7, <2>1, Zenon
<1> HIDE DEF puv
<1>10. \A i \in 1..(Len(u) + Len(v)) : pw[i] = puv[i]
  <2> TAKE i \in 1..(Len(u) + Len(v))
  <2>1. pw[i] = Part(w, places(w), i)  BY <1>2, <1>8
  <2>2. i \in DOMAIN w  BY <1>2, <1>3
  <2>3. CASE i <= Len(u)
    <3>1. i \in DOMAIN u /\ i \in 1..Len(u) /\ w[i] = u[i]  BY <1>1, <1>2, <2>3
    <3>2. i \in places(w) <=> i \in places(u)  BY <1>5, <2>2, <3>1
    <3>3. Part(w, places(w), i) = Part(u, places(u), i)  BY <3>1, <3>2 DEF Part
    <3>4. QED  BY <1>6, <1>9, <2>1, <2>3, <3>1, <3>3
  <2>4. CASE ~(i <= Len(u))
    <3> DEFINE k == i - Len(u)
    <3>1. k \in 1..Len(v) /\ w[i] = v[k]  BY <1>1, <1>2, <2>4
    <3>2. puv[i] = pv[k]  BY <1>9, <2>4
    <3> HIDE DEF k
    <3>3. k \in DOMAIN v  BY <1>1, <3>1
    <3>4. i \in places(w) <=> k \in places(v)  BY <1>5, <2>2, <3>1, <3>3
    <3>5. Part(w, places(w), i) = Part(v, places(v), k)  BY <3>1, <3>4 DEF Part
    <3>6. QED  BY <1>7, <2>1, <3>1, <3>2, <3>5
  <2>5. QED  BY <2>3, <2>4
<1>11. pw = puv
  <2>1. Len(pw) = Len(puv) /\ \A i \in 1..Len(pw) : pw[i] = puv[i]  BY <1>2, <1>8, <1>9, <1>10, Zenon
  <2>2. QED  BY <1>8, <1>9, <2>1, SeqEqual
<1>12. FlattenSeq(puv) = FlattenSeq(pu) \o FlattenSeq(pv)
  BY <1>6, <1>7, FlattenConcat DEF puv
<1>13. UserLines(w) = UserLines(u) \o UserLines(v)
  BY <1>4, <1>6, <1>7, <1>8, <1>11, <1>12
<1>14. QED  BY <1>13 DEF w

LEMMA NoUsers ==
  ASSUME NEW S, NEW lines \in Seq(S), \A i \in 1..Len(lines) : lines[i][1] # "user"
  PROVE  UserLines(lines) = <<>>
<1> DEFINE places == {i \in DOMAIN lines : lines[i][1] # "user"}
<1>1. DOMAIN lines = 1..Len(lines)  BY LenProperties
<1>2. 1..Len(lines) \subseteq places  BY <1>1
<1>3. UserLines(lines) = Without(lines, places)  BY DEF UserLines
<1> HIDE DEF places
<1>4. QED  BY <1>2, <1>3, WithoutAll

LEMMA UsersSequence ==
  ASSUME NEW S, NEW lines \in Seq(S)
  PROVE  UserLines(lines) \in Seq(S)
<1> DEFINE places == {i \in DOMAIN lines : lines[i][1] # "user"}
<1>1. UserLines(lines) = Without(lines, places)  BY DEF UserLines
<1> HIDE DEF places
<1>2. QED  BY <1>1, WithoutIs

LEMMA BlockIs ==
  ASSUME NEW b, NEW T, T = {<<"blank">>, <<"begin", b>>, <<"body", b>>, <<"end", b>>}
  PROVE  /\ Block(b) \in Seq(T) /\ Len(Block(b)) = 4
         /\ Block(b)[1] = <<"blank">> /\ Block(b)[2] = <<"begin", b>>
         /\ Block(b)[3] = <<"body", b>> /\ Block(b)[4] = <<"end", b>>
<1>1. <<"blank">> \in T /\ <<"begin", b>> \in T /\ <<"body", b>> \in T /\ <<"end", b>> \in T
  OBVIOUS
<1>2. QED  BY <1>1 DEF Block

\* A block at the end is none of the user's.
LEMMA AppendedUsers ==
  ASSUME NEW lines, Sequence(lines), NEW b
  PROVE  UserLines(Appended(lines, b)) = UserLines(lines)
<1>1. PICK S : lines \in Seq(S)  BY DEF Sequence
<1>2. PICK T : T = {<<"blank">>, <<"begin", b>>, <<"body", b>>, <<"end", b>>}  OBVIOUS
<1> DEFINE block == Block(b)
<1>3. /\ block \in Seq(T) /\ Len(block) = 4
      /\ block[1] = <<"blank">> /\ block[2] = <<"begin", b>>
      /\ block[3] = <<"body", b>> /\ block[4] = <<"end", b>>
  BY <1>2, BlockIs
<1> HIDE DEF block
<1>4. \A i \in 1..Len(block) : block[i][1] # "user"
  <2> TAKE i \in 1..Len(block)
  <2>1. i = 1 \/ i = 2 \/ i = 3 \/ i = 4  BY <1>3
  <2>2. block[1][1] = "blank" /\ block[2][1] = "begin" /\ block[3][1] = "body" /\ block[4][1] = "end"
    BY <1>3
  <2>3. QED  BY <2>1, <2>2
<1>5. UserLines(block) = <<>>  BY <1>3, <1>4, NoUsers
<1>6. PICK U : U = S \cup T  OBVIOUS
<1>7. lines \in Seq(U) /\ block \in Seq(U)  BY <1>1, <1>3, <1>6, SeqMonotonic
<1>8. UserLines(lines \o block) = UserLines(lines) \o UserLines(block)  BY <1>7, UsersJoin
<1>9. UserLines(lines) \in Seq(U)  BY <1>7, UsersSequence
<1>10. UserLines(lines) \o <<>> = UserLines(lines)
  <2>1. PICK users : users = UserLines(lines)  OBVIOUS
  <2>2. users \o <<>> = users  BY <1>9, <2>1, ConcatEmptySeq
  <2>3. QED  BY <2>1, <2>2
<1>11. QED  BY <1>5, <1>8, <1>10 DEF Appended, block

\* What a cut takes out: the lines from one to another, with the first begin
\* marker among them and the end marker last.
CutsOut(lines, b, first, begin, last) ==
  /\ first \in 1..Len(lines) /\ begin \in 1..Len(lines) /\ last \in 1..Len(lines)
  /\ first <= begin /\ begin < last
  /\ first # begin => first + 1 = begin /\ lines[first] = <<"blank">>
  /\ lines[begin] = <<"begin", b>> /\ lines[last] = <<"end", b>>
  /\ \A i \in Begins(lines, b) : begin <= i

LEMMA CutGoes ==
  ASSUME NEW S, NEW lines \in Seq(S), NEW b, HasBlock(lines, b), Cuttable(lines, b)
  PROVE  \E first, begin, last :
           /\ CutsOut(lines, b, first, begin, last)
           /\ Cut(lines, b) = SubSeq(lines, 1, first - 1) \o SubSeq(lines, last + 1, Len(lines))
<1> DEFINE begin == Min(Begins(lines, b))
           last == Min(Ends(lines, b))
           first == IF begin > 1 /\ lines[begin - 1] = <<"blank">> THEN begin - 1 ELSE begin
<1>1. DOMAIN lines = 1..Len(lines) /\ Len(lines) \in Nat  BY LenProperties
<1>2. begin \in Begins(lines, b) /\ \A i \in Begins(lines, b) : begin <= i
  <2> DEFINE B == Begins(lines, b)
  <2>1. B \in SUBSET Nat /\ B # {}  BY <1>1 DEF Begins, HasBlock
  <2> HIDE DEF B
  <2>2. Min(B) \in B /\ \A i \in B : Min(B) <= i  BY <2>1, LeastOf
  <2>3. QED  BY <2>2 DEF B
<1>3. last \in Ends(lines, b)
  <2> DEFINE E == Ends(lines, b)
  <2>1. E \in SUBSET Nat /\ E # {}  BY <1>1 DEF Ends, Cuttable
  <2> HIDE DEF E
  <2>2. Min(E) \in E  BY <2>1, LeastOf
  <2>3. QED  BY <2>2 DEF E
<1>4. Cut(lines, b) = SubSeq(lines, 1, first - 1) \o SubSeq(lines, last + 1, Len(lines))
  BY DEF Cut
<1>5. last \in 1..Len(lines) /\ last > begin /\ lines[last] = <<"end", b>>
  BY <1>1, <1>3 DEF Ends
<1> HIDE DEF begin, last
<1>6. begin \in 1..Len(lines) /\ lines[begin] = <<"begin", b>>  BY <1>1, <1>2 DEF Begins
<1>7. /\ first \in 1..Len(lines) /\ first <= begin
      /\ first # begin => first + 1 = begin /\ lines[first] = <<"blank">>
  BY <1>1, <1>6
<1> HIDE DEF first
<1>8. begin < last  BY <1>1, <1>5, <1>6
<1>9. CutsOut(lines, b, first, begin, last)  BY <1>2, <1>5, <1>6, <1>7, <1>8 DEF CutsOut
<1>10. QED  BY <1>4, <1>9

\* A cut keeps what is before and behind it, in its order.
Keeps(cut, lines, first, last) ==
  /\ Len(cut) = (first - 1) + (Len(lines) - last)
  /\ \A i \in 1..Len(cut) :
       IF i < first THEN i \in 1..Len(lines) /\ cut[i] = lines[i]
       ELSE /\ i + (last - first + 1) \in 1..Len(lines)
            /\ cut[i] = lines[i + (last - first + 1)]

LEMMA CutKeeps ==
  ASSUME NEW S, NEW lines \in Seq(S), NEW b, NEW first, NEW begin, NEW last,
         CutsOut(lines, b, first, begin, last), NEW cut,
         cut = SubSeq(lines, 1, first - 1) \o SubSeq(lines, last + 1, Len(lines))
  PROVE  cut \in Seq(S) /\ Keeps(cut, lines, first, last)
<1> DEFINE u == SubSeq(lines, 1, first - 1)
           v == SubSeq(lines, last + 1, Len(lines))
           n == Len(lines)
<1>1. DOMAIN lines = 1..n /\ n \in Nat /\ \A i \in 1..n : lines[i] \in S
  BY LenProperties, ElementOfSeq
<1>2. first \in 1..n /\ last \in 1..n /\ first < last
  BY <1>1 DEF CutsOut
<1>3. /\ u \in Seq(S) /\ Len(u) = first - 1 /\ \A i \in 1..(first - 1) : u[i] = lines[i]
  <2>1. \A i \in 1..(first - 1) : lines[i] \in S  BY <1>1, <1>2
  <2>2. /\ u \in Seq(S) /\ Len(u) = IF 1 <= first - 1 THEN (first - 1) - 1 + 1 ELSE 0
        /\ \A i \in 1..((first - 1) - 1 + 1) : u[i] = lines[1 + i - 1]
    BY <1>2, <2>1, SubSeqProperties
  <2> HIDE DEF u
  <2>3. QED  BY <1>1, <1>2, <2>2
<1>4. /\ v \in Seq(S) /\ Len(v) = n - last /\ \A i \in 1..(n - last) : v[i] = lines[last + i]
  <2>1. \A i \in (last + 1)..n : lines[i] \in S  BY <1>1, <1>2
  <2>2. /\ v \in Seq(S) /\ Len(v) = IF last + 1 <= n THEN n - (last + 1) + 1 ELSE 0
        /\ \A i \in 1..(n - (last + 1) + 1) : v[i] = lines[(last + 1) + i - 1]
    BY <1>1, <1>2, <2>1, SubSeqProperties
  <2> HIDE DEF v
  <2>3. n - (last + 1) + 1 = n - last /\ (last + 1 <= n \/ n - last = 0)
    <3>1. \A x, y \in Nat : y <= x => x - (y + 1) + 1 = x - y /\ (y + 1 <= x \/ x - y = 0)
      OBVIOUS
    <3>2. last \in Nat /\ last <= n  BY <1>1, <1>2
    <3>3. QED  BY <1>1, <3>1, <3>2
  <2>4. \A i \in 1..(n - last) : (last + 1) + i - 1 = last + i  BY <1>1, <1>2
  <2>5. Len(v) = n - last  BY <1>1, <1>2, <2>2, <2>3
  <2>6. QED  BY <2>2, <2>3, <2>4, <2>5
<1>5. cut = u \o v  OBVIOUS
<1> HIDE DEF u, v
<1>6. /\ cut \in Seq(S) /\ Len(cut) = (first - 1) + (n - last)
      /\ \A i \in 1..((first - 1) + (n - last)) :
           cut[i] = IF i <= first - 1 THEN u[i] ELSE v[i - (first - 1)]
  <2>1. /\ u \o v \in Seq(S) /\ Len(u \o v) = Len(u) + Len(v)
        /\ \A i \in 1..(Len(u) + Len(v)) :
             (u \o v)[i] = IF i <= Len(u) THEN u[i] ELSE v[i - Len(u)]
    BY <1>3, <1>4, ConcatProperties, Zenon
  <2>2. QED  BY <1>3, <1>4, <1>5, <2>1, Zenon
<1>7. ASSUME NEW i \in 1..Len(cut)
      PROVE  IF i < first THEN i \in 1..n /\ cut[i] = lines[i]
             ELSE /\ i + (last - first + 1) \in 1..n
                  /\ cut[i] = lines[i + (last - first + 1)]
  <2>1. CASE i < first
    <3>1. i \in 1..n /\ i \in 1..(first - 1) /\ i \in 1..((first - 1) + (n - last))
      BY <1>1, <1>2, <1>6, <2>1
    <3>2. cut[i] = u[i]  BY <1>6, <3>1
    <3>3. QED  BY <1>3, <2>1, <3>1, <3>2
  <2>2. CASE ~(i < first)
    <3> DEFINE k == i - (first - 1)
               m == i + (last - first + 1)
    <3>1. i \in 1..((first - 1) + (n - last)) /\ ~(i <= first - 1)
      <4>1. i \in 1..((first - 1) + (n - last))  BY <1>6
      <4>2. QED  BY <1>1, <1>2, <2>2, <4>1
    <3>2. cut[i] = v[k]  BY <1>6, <3>1
    <3>3. k \in 1..(n - last) /\ last + k = m /\ m \in 1..n  BY <1>1, <1>2, <3>1
    <3>4. v[k] = lines[m]
      <4>1. v[k] = lines[last + k]  BY <1>4, <3>3
      <4>2. QED  BY <3>3, <4>1
    <3>5. QED  BY <2>2, <3>2, <3>3, <3>4
  <2>3. QED  BY <2>1, <2>2
<1>8. QED  BY <1>6, <1>7 DEF Keeps

\* A cut takes nothing of the user's, and leaves markers as far apart.
LEMMA CutUsers ==
  ASSUME NEW lines, Sequence(lines), NEW b \in Blocks, HasBlock(lines, b), Cuttable(lines, b),
         Apart(lines)
  PROVE  UserLines(Cut(lines, b)) = UserLines(lines) /\ Apart(Cut(lines, b))
<1>1. PICK S : lines \in Seq(S)  BY DEF Sequence
<1>2. PICK first, begin, last :
        /\ CutsOut(lines, b, first, begin, last)
        /\ Cut(lines, b) = SubSeq(lines, 1, first - 1) \o SubSeq(lines, last + 1, Len(lines))
  BY <1>1, CutGoes
<1>3. PICK cut : cut = SubSeq(lines, 1, first - 1) \o SubSeq(lines, last + 1, Len(lines))
  OBVIOUS
<1>4. cut \in Seq(S) /\ Keeps(cut, lines, first, last)
  BY <1>1, <1>2, <1>3, CutKeeps
<1>5. /\ DOMAIN lines = 1..Len(lines) /\ Len(lines) \in Nat
      /\ \A i \in 1..Len(lines) : lines[i] \in S
  BY <1>1, LenProperties, ElementOfSeq
<1>6. /\ first \in 1..Len(lines) /\ begin \in 1..Len(lines) /\ last \in 1..Len(lines)
      /\ first <= begin /\ begin < last
      /\ first # begin => first + 1 = begin /\ lines[first] = <<"blank">>
      /\ lines[begin] = <<"begin", b>> /\ lines[last] = <<"end", b>>
  BY <1>2 DEF CutsOut
<1>7. UserLines(cut) = UserLines(lines)
  <2> DEFINE u == SubSeq(lines, 1, first - 1)
             m == SubSeq(lines, first, last)
             v == SubSeq(lines, last + 1, Len(lines))
             um == SubSeq(lines, 1, last)
  <2>1. u \in Seq(S) /\ v \in Seq(S)
    <3>1. \A i \in 1..(first - 1) : lines[i] \in S  BY <1>5, <1>6
    <3>2. \A i \in (last + 1)..Len(lines) : lines[i] \in S  BY <1>5, <1>6
    <3>3. QED  BY <1>5, <1>6, <3>1, <3>2, SubSeqProperties
  <2>2. /\ m \in Seq(S) /\ Len(m) = last - first + 1
        /\ \A i \in 1..(last - first + 1) : m[i] = lines[first + i - 1]
    <3>1. \A i \in first..last : lines[i] \in S  BY <1>5, <1>6
    <3>2. QED  BY <1>5, <1>6, <3>1, SubSeqProperties
  <2>3. um = u \o m
    <3>1. 1 \in 1..(Len(lines) + 1) /\ first - 1 \in (1 - 1)..Len(lines) /\ last \in (first - 1)..Len(lines)
      BY <1>5, <1>6
    <3>2. (first - 1) + 1 = first  BY <1>6
    <3>3. SubSeq(lines, 1, first - 1) \o SubSeq(lines, (first - 1) + 1, last) = SubSeq(lines, 1, last)
      BY <1>1, <3>1, ConcatAdjacentSubSeq
    <3>4. QED  BY <3>2, <3>3
  <2>4. lines = um \o v
    <3>1. 1 \in 1..(Len(lines) + 1) /\ last \in (1 - 1)..Len(lines) /\ Len(lines) \in last..Len(lines)
      BY <1>5, <1>6
    <3>2. um \o v = SubSeq(lines, 1, Len(lines))
      BY <1>1, <3>1, ConcatAdjacentSubSeq
    <3>3. QED  BY <1>1, <3>2, SubSeqFull
  <2>5. cut = u \o v  BY <1>3
  <2> HIDE DEF u, v, m, um
  <2>6. \A i \in 1..Len(m) : m[i][1] # "user"
    <3> TAKE i \in 1..Len(m)
    <3> DEFINE k == first + i - 1
    <3>1. m[i] = lines[k] /\ k \in first..last /\ k \in 1..Len(lines)  BY <1>5, <1>6, <2>2
    <3> HIDE DEF k
    <3>2. CASE k = last \/ k = begin  BY <1>6, <3>1, <3>2
    <3>3. CASE k < begin
      <4>1. k = first /\ first # begin  BY <1>6, <3>1, <3>3
      <4>2. lines[k] = <<"blank">>  BY <1>6, <4>1
      <4>3. QED  BY <3>1, <4>2
    <3>4. CASE begin < k /\ k < last
      <4>1. lines[k][1] # "user"  BY <1>5, <1>6, <3>1, <3>4 DEF Apart
      <4>2. QED  BY <3>1, <4>1
    <3>5. QED  BY <1>6, <3>1, <3>2, <3>3, <3>4
  <2>7. UserLines(m) = <<>>  BY <2>2, <2>6, NoUsers
  <2>8. UserLines(um) = UserLines(u)
    <3>1. UserLines(u \o m) = UserLines(u) \o UserLines(m)  BY <2>1, <2>2, UsersJoin
    <3>2. PICK users : users = UserLines(u)  OBVIOUS
    <3>3. users \in Seq(S)  BY <2>1, <3>2, UsersSequence
    <3>4. users \o <<>> = users  BY <3>3, ConcatEmptySeq
    <3>5. QED  BY <2>3, <2>7, <3>1, <3>2, <3>4
  <2>9. um \in Seq(S)  BY <2>1, <2>2, <2>3, ConcatProperties
  <2>10. UserLines(lines) = UserLines(um) \o UserLines(v)
    <3>1. UserLines(um \o v) = UserLines(um) \o UserLines(v)  BY <2>1, <2>9, UsersJoin
    <3>2. QED  BY <2>4, <3>1
  <2>11. UserLines(cut) = UserLines(u) \o UserLines(v)  BY <2>1, <2>5, UsersJoin
  <2>12. QED  BY <2>8, <2>10, <2>11
<1>8. Apart(cut)
  <2> SUFFICES ASSUME NEW c \in Blocks, NEW i \in DOMAIN cut, NEW j \in DOMAIN cut,
                      NEW k \in DOMAIN cut, i < j, j < k,
                      cut[i] = <<"begin", c>>, cut[k] = <<"end", c>>
               PROVE  cut[j][1] # "user"
    BY DEF Apart
  <2> DEFINE at(x) == IF x < first THEN x ELSE x + (last - first + 1)
  <2>1. DOMAIN cut = 1..Len(cut) /\ Len(cut) \in Nat  BY <1>4, LenProperties
  <2>2. \A x \in 1..Len(cut) : at(x) \in 1..Len(lines) /\ cut[x] = lines[at(x)]
    BY <1>4 DEF Keeps
  <2>3. at(i) < at(j) /\ at(j) < at(k)  BY <1>5, <1>6, <2>1
  <2>4. /\ at(i) \in DOMAIN lines /\ lines[at(i)] = <<"begin", c>>
        /\ at(k) \in DOMAIN lines /\ lines[at(k)] = <<"end", c>>
        /\ at(j) \in DOMAIN lines /\ cut[j] = lines[at(j)]
    BY <1>5, <2>1, <2>2
  <2> HIDE DEF at
  <2>5. QED  BY <2>3, <2>4 DEF Apart
<1>9. QED  BY <1>2, <1>3, <1>7, <1>8

\* Two texts one behind the other, when the second closes no block the first
\* opens.
LEMMA ApartJoin ==
  ASSUME NEW S, NEW u \in Seq(S), NEW v \in Seq(S), Apart(u), Apart(v),
         \A b \in Blocks : HasBlock(u, b) => \A i \in DOMAIN v : v[i] # <<"end", b>>
  PROVE  Apart(u \o v)
<1> DEFINE w == u \o v
           m == Len(u)
<1>1. DOMAIN u = 1..m /\ m \in Nat /\ DOMAIN v = 1..Len(v) /\ Len(v) \in Nat
  BY LenProperties
<1>2. /\ w \in Seq(S) /\ Len(w) = m + Len(v)
      /\ \A i \in 1..(m + Len(v)) : w[i] = IF i <= m THEN u[i] ELSE v[i - m]
  BY ConcatProperties, Zenon
<1> HIDE DEF w
<1>3. DOMAIN w = 1..(m + Len(v))  BY <1>2, LenProperties
<1>4. \A i \in DOMAIN w : i <= m => i \in DOMAIN u /\ w[i] = u[i]  BY <1>1, <1>2, <1>3
<1>5. \A i \in DOMAIN w : ~(i <= m) => i - m \in DOMAIN v /\ w[i] = v[i - m]  BY <1>1, <1>2, <1>3
<1> SUFFICES ASSUME NEW b \in Blocks, NEW i \in DOMAIN w, NEW j \in DOMAIN w, NEW k \in DOMAIN w,
                    i < j, j < k, w[i] = <<"begin", b>>, w[k] = <<"end", b>>
             PROVE  w[j][1] # "user"
  BY DEF Apart, w
<1>6. i \in Nat /\ j \in Nat /\ k \in Nat  BY <1>1, <1>3
<1>7. CASE k <= m
  <2>1. j <= m /\ i <= m  BY <1>1, <1>6, <1>7
  <2>2. /\ i \in DOMAIN u /\ j \in DOMAIN u /\ k \in DOMAIN u
        /\ w[i] = u[i] /\ w[j] = u[j] /\ w[k] = u[k]
    BY <1>4, <1>7, <2>1
  <2>3. QED  BY <2>2 DEF Apart
<1>8. CASE ~(i <= m)
  <2>1. ~(j <= m) /\ ~(k <= m)  BY <1>1, <1>6, <1>8
  <2>2. /\ i - m \in DOMAIN v /\ j - m \in DOMAIN v /\ k - m \in DOMAIN v
        /\ w[i] = v[i - m] /\ w[j] = v[j - m] /\ w[k] = v[k - m]
    BY <1>5, <1>8, <2>1
  <2>3. i - m < j - m /\ j - m < k - m  BY <1>1, <1>6
  <2>4. QED  BY <2>2, <2>3 DEF Apart
<1>9. CASE i <= m /\ ~(k <= m)
  <2>1. HasBlock(u, b)  BY <1>4, <1>9 DEF HasBlock, Begins
  <2>2. k - m \in DOMAIN v /\ w[k] = v[k - m]  BY <1>5, <1>9
  <2>3. QED  BY <2>1, <2>2
<1>10. QED  BY <1>7, <1>8, <1>9

\* A block that is not there yet, at the end.
LEMMA AppendedApart ==
  ASSUME NEW lines, Sequence(lines), NEW b \in Blocks, Apart(lines), ~HasBlock(lines, b)
  PROVE  Apart(Appended(lines, b))
<1>1. PICK S : lines \in Seq(S)  BY DEF Sequence
<1>2. PICK T : T = {<<"blank">>, <<"begin", b>>, <<"body", b>>, <<"end", b>>}  OBVIOUS
<1> DEFINE block == Block(b)
<1>3. /\ block \in Seq(T) /\ Len(block) = 4
      /\ block[1] = <<"blank">> /\ block[2] = <<"begin", b>>
      /\ block[3] = <<"body", b>> /\ block[4] = <<"end", b>>
  BY <1>2, BlockIs
<1> HIDE DEF block
<1>4. \A i \in DOMAIN block : i = 1 \/ i = 2 \/ i = 3 \/ i = 4  BY <1>3, LenProperties
<1>5. /\ block[1][1] = "blank" /\ block[2][1] = "begin"
      /\ block[3][1] = "body" /\ block[4][1] = "end" /\ block[4][2] = b
  BY <1>3
<1>6. \A i \in DOMAIN block : block[i][1] # "user"  BY <1>4, <1>5
<1>7. Apart(block)  BY <1>6 DEF Apart
<1>8. ASSUME NEW c \in Blocks, HasBlock(lines, c), NEW i \in DOMAIN block
      PROVE  block[i] # <<"end", c>>
  <2>1. c # b  BY <1>8
  <2>2. SUFFICES ASSUME block[i] = <<"end", c>> PROVE FALSE  OBVIOUS
  <2>3. block[i][1] = "end" /\ block[i][2] = c  BY <2>2
  <2>4. i = 4  BY <1>4, <1>5, <2>3
  <2>5. QED  BY <1>5, <2>1, <2>3, <2>4
<1>9. PICK U : U = S \cup T  OBVIOUS
<1>10. lines \in Seq(U) /\ block \in Seq(U)  BY <1>1, <1>3, <1>9, SeqMonotonic
<1>11. Apart(lines \o block)  BY <1>7, <1>8, <1>10, ApartJoin
<1>12. QED  BY <1>11 DEF Appended, block

\* Two texts of which at most one begins a block.
LEMMA SingleJoin ==
  ASSUME NEW S, NEW u \in Seq(S), NEW v \in Seq(S), Single(u), Single(v),
         \A b \in Blocks : HasBlock(u, b) => ~HasBlock(v, b)
  PROVE  Single(u \o v)
<1> DEFINE w == u \o v
           m == Len(u)
<1>1. DOMAIN u = 1..m /\ m \in Nat /\ DOMAIN v = 1..Len(v) /\ Len(v) \in Nat
  BY LenProperties
<1>2. /\ w \in Seq(S) /\ Len(w) = m + Len(v)
      /\ \A i \in 1..(m + Len(v)) : w[i] = IF i <= m THEN u[i] ELSE v[i - m]
  BY ConcatProperties, Zenon
<1> HIDE DEF w
<1>3. DOMAIN w = 1..(m + Len(v))  BY <1>2, LenProperties
<1>4. \A i \in DOMAIN w : i <= m => i \in DOMAIN u /\ w[i] = u[i]  BY <1>1, <1>2, <1>3
<1>5. \A i \in DOMAIN w : ~(i <= m) => i - m \in DOMAIN v /\ w[i] = v[i - m]  BY <1>1, <1>2, <1>3
<1> SUFFICES ASSUME NEW b \in Blocks, NEW i \in DOMAIN w, NEW j \in DOMAIN w,
                    w[i] = <<"begin", b>>, w[j] = <<"begin", b>>
             PROVE  i = j
  BY DEF Single, w
<1>6. i \in Nat /\ j \in Nat  BY <1>1, <1>3
<1>7. \A k \in DOMAIN w : w[k] = <<"begin", b>> => IF k <= m THEN HasBlock(u, b) ELSE HasBlock(v, b)
  BY <1>4, <1>5 DEF HasBlock, Begins
<1>8. CASE i <= m /\ j <= m
  <2>1. i \in DOMAIN u /\ j \in DOMAIN u /\ w[i] = u[i] /\ w[j] = u[j]  BY <1>4, <1>8
  <2>2. QED  BY <2>1 DEF Single
<1>9. CASE ~(i <= m) /\ ~(j <= m)
  <2>1. i - m \in DOMAIN v /\ j - m \in DOMAIN v /\ w[i] = v[i - m] /\ w[j] = v[j - m]
    BY <1>5, <1>9
  <2>2. i - m = j - m  BY <2>1 DEF Single
  <2>3. QED  BY <1>1, <1>6, <2>2
<1>10. (i <= m) = (j <= m)
  <2>1. IF i <= m THEN HasBlock(u, b) ELSE HasBlock(v, b)  BY <1>7
  <2>2. IF j <= m THEN HasBlock(u, b) ELSE HasBlock(v, b)  BY <1>7
  <2>3. QED  BY <2>1, <2>2
<1>11. QED  BY <1>8, <1>9, <1>10

LEMMA AppendedSingle ==
  ASSUME NEW lines, Sequence(lines), NEW b \in Blocks, Single(lines), ~HasBlock(lines, b)
  PROVE  Single(Appended(lines, b))
<1>1. PICK S : lines \in Seq(S)  BY DEF Sequence
<1>2. PICK T : T = {<<"blank">>, <<"begin", b>>, <<"body", b>>, <<"end", b>>}  OBVIOUS
<1> DEFINE block == Block(b)
<1>3. /\ block \in Seq(T) /\ Len(block) = 4
      /\ block[1] = <<"blank">> /\ block[2] = <<"begin", b>>
      /\ block[3] = <<"body", b>> /\ block[4] = <<"end", b>>
  BY <1>2, BlockIs
<1> HIDE DEF block
<1>4. \A i \in DOMAIN block : i = 1 \/ i = 2 \/ i = 3 \/ i = 4  BY <1>3, LenProperties
<1>5. /\ block[1][1] = "blank" /\ block[2][1] = "begin" /\ block[2][2] = b
      /\ block[3][1] = "body" /\ block[4][1] = "end"
  BY <1>3
<1>6. \A i \in DOMAIN block : block[i][1] = "begin" => i = 2  BY <1>4, <1>5
<1>7. Single(block)
  <2> SUFFICES ASSUME NEW c, NEW i \in DOMAIN block, NEW j \in DOMAIN block,
                      block[i] = <<"begin", c>>, block[j] = <<"begin", c>>
               PROVE  i = j
    BY DEF Single
  <2>1. block[i][1] = "begin" /\ block[j][1] = "begin"  OBVIOUS
  <2>2. QED  BY <1>6, <2>1
<1>8. ASSUME NEW c \in Blocks, HasBlock(lines, c), HasBlock(block, c) PROVE FALSE
  <2>1. PICK i \in DOMAIN block : block[i] = <<"begin", c>>  BY <1>8 DEF HasBlock, Begins
  <2>2. block[i][1] = "begin" /\ block[i][2] = c  BY <2>1
  <2>3. c = b  BY <1>5, <1>6, <2>2
  <2>4. QED  BY <1>8, <2>3
<1>9. PICK U : U = S \cup T  OBVIOUS
<1>10. lines \in Seq(U) /\ block \in Seq(U)  BY <1>1, <1>3, <1>9, SeqMonotonic
<1>11. Single(lines \o block)  BY <1>7, <1>8, <1>10, SingleJoin
<1>12. QED  BY <1>11 DEF Appended, block

\* A cut adds no marker, and takes the one that began the block.
LEMMA CutSingle ==
  ASSUME NEW lines, Sequence(lines), NEW b \in Blocks, HasBlock(lines, b), Cuttable(lines, b),
         Single(lines)
  PROVE  /\ Single(Cut(lines, b)) /\ ~HasBlock(Cut(lines, b), b)
         /\ \A c : HasBlock(Cut(lines, b), c) => HasBlock(lines, c)
<1>1. PICK S : lines \in Seq(S)  BY DEF Sequence
<1>2. PICK first, begin, last :
        /\ CutsOut(lines, b, first, begin, last)
        /\ Cut(lines, b) = SubSeq(lines, 1, first - 1) \o SubSeq(lines, last + 1, Len(lines))
  BY <1>1, CutGoes
<1>3. PICK cut : cut = SubSeq(lines, 1, first - 1) \o SubSeq(lines, last + 1, Len(lines))
  OBVIOUS
<1>4. cut \in Seq(S) /\ Keeps(cut, lines, first, last)
  BY <1>1, <1>2, <1>3, CutKeeps
<1>5. DOMAIN lines = 1..Len(lines) /\ Len(lines) \in Nat  BY <1>1, LenProperties
<1>6. /\ first \in 1..Len(lines) /\ begin \in 1..Len(lines) /\ last \in 1..Len(lines)
      /\ first <= begin /\ begin < last /\ lines[begin] = <<"begin", b>>
  BY <1>2 DEF CutsOut
<1> DEFINE at(x) == IF x < first THEN x ELSE x + (last - first + 1)
<1>7. DOMAIN cut = 1..Len(cut) /\ Len(cut) \in Nat  BY <1>4, LenProperties
<1>8. \A x \in DOMAIN cut : at(x) \in DOMAIN lines /\ cut[x] = lines[at(x)]
  BY <1>4, <1>5, <1>7 DEF Keeps
<1>9. \A x \in DOMAIN cut : at(x) # begin  BY <1>5, <1>6, <1>7
<1>10. \A x, y \in DOMAIN cut : at(x) = at(y) => x = y  BY <1>5, <1>6, <1>7
<1> HIDE DEF at
<1>11. Single(cut)
  <2> SUFFICES ASSUME NEW c \in Blocks, NEW i \in DOMAIN cut, NEW j \in DOMAIN cut,
                      cut[i] = <<"begin", c>>, cut[j] = <<"begin", c>>
               PROVE  i = j
    BY DEF Single
  <2>1. at(i) = at(j)  BY <1>8 DEF Single
  <2>2. QED  BY <1>10, <2>1
<1>12. ~HasBlock(cut, b)
  <2> SUFFICES ASSUME NEW i \in DOMAIN cut, cut[i] = <<"begin", b>> PROVE FALSE
    BY DEF HasBlock, Begins
  <2>1. at(i) \in DOMAIN lines /\ lines[at(i)] = <<"begin", b>>  BY <1>8
  <2>2. at(i) = begin  BY <1>5, <1>6, <2>1 DEF Single
  <2>3. QED  BY <1>9, <2>2
<1>13. ASSUME NEW c, HasBlock(cut, c) PROVE HasBlock(lines, c)
  BY <1>8, <1>13 DEF HasBlock, Begins
<1>14. QED  BY <1>2, <1>3, <1>11, <1>12, <1>13

-----------------------------------------------------------------------------
(* The groups of a key file, and what of its values is not Philemon's.     *)

\* The heading in force after line i.
HeadAt(lines, i, m) ==
  /\ m \in 1..i /\ lines[m][1] = "group"
  /\ \A j \in 1..i : j > m => lines[j][1] # "group"

LEMMA GroupIs ==
  ASSUME NEW lines, NEW i \in Nat
  PROVE  /\ \A m : HeadAt(lines, i, m) => GroupAt(lines, i) = lines[m][2]
         /\ (\A j \in 1..i : lines[j][1] # "group") => GroupAt(lines, i) = "none"
         /\ (\E j \in 1..i : lines[j][1] = "group") => \E m \in 1..i : HeadAt(lines, i, m)
<1> DEFINE heads == {j \in 1..i : lines[j][1] = "group"}
           last == Max(heads)
<1>1. heads # {} => last \in heads /\ \A m \in heads : last >= m
  <2>1. heads \in SUBSET (1..i)  OBVIOUS
  <2> HIDE DEF heads
  <2>2. QED  BY <2>1, GreatestOf
<1>2. GroupAt(lines, i) = IF heads = {} THEN "none" ELSE lines[last][2]  BY DEF GroupAt
<1> HIDE DEF last
<1>3. ASSUME NEW m, HeadAt(lines, i, m) PROVE GroupAt(lines, i) = lines[m][2]
  <2>1. m \in heads  BY <1>3 DEF HeadAt
  <2>2. last \in heads /\ last >= m  BY <1>1, <2>1
  <2>3. last \in 1..i /\ lines[last][1] = "group"  BY <2>2
  <2>4. last = m  BY <1>3, <2>2, <2>3 DEF HeadAt
  <2>5. QED  BY <1>2, <2>1, <2>4
<1>4. ASSUME \A j \in 1..i : lines[j][1] # "group" PROVE GroupAt(lines, i) = "none"
  <2>1. heads = {}  BY <1>4
  <2>2. QED  BY <1>2, <2>1
<1>5. ASSUME \E j \in 1..i : lines[j][1] = "group" PROVE \E m \in 1..i : HeadAt(lines, i, m)
  <2>1. heads # {}  BY <1>5
  <2>2. last \in heads /\ \A m \in heads : last >= m  BY <1>1, <2>1
  <2>3. last \in 1..i /\ lines[last][1] = "group"  BY <2>2
  <2>4. ASSUME NEW j \in 1..i, j > last PROVE lines[j][1] # "group"
    <3>1. lines[j][1] = "group" => j \in heads  OBVIOUS
    <3> HIDE DEF heads
    <3>2. QED  BY <2>2, <2>3, <2>4, <3>1
  <2>5. QED  BY <2>3, <2>4 DEF HeadAt
<1>6. QED  BY <1>3, <1>4, <1>5

\* The lines K of a text are lines of another one, in their order and with
\* their headings: f says which. No heading of the other one is left out, and
\* one that came new comes last.
Match(f, K, out, lines) ==
  /\ K \subseteq 1..Len(out) /\ f \in [K -> 1..Len(lines)]
  /\ \A i, j \in K : i < j => f[i] < f[j]
  /\ \A k \in K : out[k][1] = "group" \/ lines[f[k]][1] = "group" => out[k] = lines[f[k]]
  /\ \A i \in 1..Len(lines) : lines[i][1] = "group" => \E k \in K : f[k] = i
  /\ \A j \in (1..Len(out)) \ K : out[j][1] = "group" => \A k \in K : k < j

\* Such lines stand in the group they stood in.
LEMMA SameGroup ==
  ASSUME NEW S, NEW T, NEW out \in Seq(S), NEW lines \in Seq(T), NEW f, NEW K,
         Match(f, K, out, lines), NEW k \in K
  PROVE  GroupAt(out, k) = GroupAt(lines, f[k])
<1>1. Len(out) \in Nat /\ Len(lines) \in Nat  BY LenProperties
<1>2. K \subseteq 1..Len(out) /\ f \in [K -> 1..Len(lines)]  BY DEF Match
<1>3. k \in 1..Len(out) /\ f[k] \in 1..Len(lines) /\ k \in Nat /\ f[k] \in Nat  BY <1>1, <1>2
<1>4. \A j \in K : j \in Nat /\ f[j] \in Nat /\ f[j] \in 1..Len(lines) /\ j \in 1..Len(out)
  BY <1>1, <1>2
<1>5. \A i, j \in K : i < j => f[i] < f[j]  BY DEF Match
<1>6. \A j \in K : out[j][1] = "group" \/ lines[f[j]][1] = "group" => out[j] = lines[f[j]]
  BY DEF Match
<1>7. ASSUME NEW j \in 1..k, out[j][1] = "group"
      PROVE  j \in K /\ f[j] \in 1..f[k] /\ lines[f[j]] = out[j]
  <2>1. j \in 1..Len(out) /\ ~(k < j)  BY <1>1, <1>3
  <2>2. j \in K  BY <1>7, <2>1 DEF Match
  <2>3. j = k \/ f[j] < f[k]  BY <1>3, <1>5, <2>2
  <2>4. f[j] \in 1..f[k]  BY <1>3, <1>4, <2>2, <2>3
  <2>5. QED  BY <1>6, <1>7, <2>2, <2>4
<1>8. ASSUME NEW i \in 1..f[k], lines[i][1] = "group"
      PROVE  \E j \in 1..k : j \in K /\ f[j] = i /\ out[j][1] = "group"
  <2>1. i \in 1..Len(lines)  BY <1>1, <1>3
  <2>2. PICK j \in K : f[j] = i  BY <1>8, <2>1 DEF Match
  <2>3. out[j] = lines[i]  BY <1>6, <1>8, <2>2
  <2>4. ~(k < j)
    <3>1. k < j => f[k] < f[j]  BY <1>5
    <3>2. QED  BY <1>3, <2>2, <3>1
  <2>5. j \in 1..k  BY <1>3, <1>4, <2>4
  <2>6. QED  BY <1>8, <2>2, <2>3, <2>5
<1>9. CASE \E j \in 1..k : out[j][1] = "group"
  <2>1. PICK m \in 1..k : HeadAt(out, k, m)  BY <1>3, <1>9, GroupIs
  <2>2. GroupAt(out, k) = out[m][2]  BY <1>3, <2>1, GroupIs
  <2>3. out[m][1] = "group" /\ \A j \in 1..k : j > m => out[j][1] # "group"  BY <2>1 DEF HeadAt
  <2>4. m \in K /\ f[m] \in 1..f[k] /\ lines[f[m]] = out[m]  BY <1>7, <2>3
  <2>5. ASSUME NEW i \in 1..f[k], i > f[m] PROVE lines[i][1] # "group"
    <3>1. SUFFICES ASSUME lines[i][1] = "group" PROVE FALSE  OBVIOUS
    <3>2. PICK j \in 1..k : j \in K /\ f[j] = i /\ out[j][1] = "group"  BY <1>8, <3>1
    <3>3. ~(j > m)  BY <2>3, <3>2
    <3>4. j = m \/ j < m  BY <1>3, <3>3
    <3>5. f[j] = f[m] \/ f[j] < f[m]  BY <1>5, <2>4, <3>2, <3>4
    <3>6. QED  BY <1>4, <2>4, <2>5, <3>2, <3>5
  <2>6. HeadAt(lines, f[k], f[m])  BY <2>3, <2>4, <2>5 DEF HeadAt
  <2>7. GroupAt(lines, f[k]) = lines[f[m]][2]  BY <1>3, <2>6, GroupIs
  <2>8. QED  BY <2>2, <2>4, <2>7
<1>10. CASE \A j \in 1..k : out[j][1] # "group"
  <2>1. \A i \in 1..f[k] : lines[i][1] # "group"  BY <1>8, <1>10
  <2>2. GroupAt(out, k) = "none"  BY <1>3, <1>10, GroupIs
  <2>3. GroupAt(lines, f[k]) = "none"  BY <1>3, <2>1, GroupIs
  <2>4. QED  BY <2>2, <2>3
<1>11. QED  BY <1>9, <1>10

\* What claims and releases may change: the key of its group, and the handler's
\* name among a directory's.
OursIn(file, t) ==
  IF file = "conf" THEN t[1] = "preferred" /\ t[2] = "chooser" ELSE t = <<"defaults", "dir", Own>>
Foreign(file, lines) == {t \in Pairs(lines) : ~OursIn(file, t)}

\* One value of one key line.
Value(lines, i, v) == <<GroupAt(lines, i), lines[i][2], v>>
Gives(lines, i, v) == lines[i][1] = "key" /\ v \in ToSet(lines[i][3])

LEMMA PairsAre ==
  ASSUME NEW lines
  PROVE  \A t : t \in Pairs(lines) <=> \E i \in DOMAIN lines : \E v : Gives(lines, i, v) /\ t = Value(lines, i, v)
<1> SUFFICES ASSUME NEW t
             PROVE  t \in Pairs(lines) <=>
                      \E i \in DOMAIN lines : \E v : Gives(lines, i, v) /\ t = Value(lines, i, v)
  OBVIOUS
<1>1. t \in Pairs(lines) <=>
        \E i \in {j \in DOMAIN lines : lines[j][1] = "key"} :
          t \in {<<GroupAt(lines, i), lines[i][2], v>> : v \in ToSet(lines[i][3])}
  BY Zenon DEF Pairs
<1>2. ASSUME NEW i \in DOMAIN lines
      PROVE  t \in {<<GroupAt(lines, i), lines[i][2], v>> : v \in ToSet(lines[i][3])} <=>
               \E v \in ToSet(lines[i][3]) : t = <<GroupAt(lines, i), lines[i][2], v>>
  OBVIOUS
<1>3. QED  BY <1>1, <1>2, Zenon DEF Gives, Value

\* Every value of one text is Philemon's or a value of the other.
LEMMA ForeignSub ==
  ASSUME NEW file, NEW S, NEW T, NEW out \in Seq(S), NEW lines \in Seq(T), NEW f, NEW K,
         Match(f, K, out, lines),
         \A k \in 1..Len(out) : \A v : Gives(out, k, v) =>
           \/ OursIn(file, Value(out, k, v))
           \/ k \in K /\ lines[f[k]][2] = out[k][2] /\ Gives(lines, f[k], v)
  PROVE  Foreign(file, out) \subseteq Foreign(file, lines)
<1>1. DOMAIN out = 1..Len(out) /\ DOMAIN lines = 1..Len(lines)  BY LenProperties
<1> SUFFICES ASSUME NEW t \in Pairs(out), ~OursIn(file, t) PROVE t \in Pairs(lines)
  BY DEF Foreign
<1>2a. PICK k \in 1..Len(out) : \E v : Gives(out, k, v) /\ t = Value(out, k, v)
  <2>1. \E i \in DOMAIN out : \E v : Gives(out, i, v) /\ t = Value(out, i, v)  BY PairsAre
  <2>2. QED  BY <1>1, <2>1
<1>2. PICK v : Gives(out, k, v) /\ t = Value(out, k, v)  BY <1>2a
<1>3. k \in K /\ lines[f[k]][2] = out[k][2] /\ Gives(lines, f[k], v)  BY <1>2
<1>4. f[k] \in DOMAIN lines  BY <1>1, <1>3 DEF Match
<1>5. GroupAt(out, k) = GroupAt(lines, f[k])  BY <1>3, SameGroup
<1>6. Value(lines, f[k], v) = t  BY <1>2, <1>3, <1>5 DEF Value
<1>7. QED  BY <1>3, <1>4, <1>6, PairsAre

LEMMA ForeignSup ==
  ASSUME NEW file, NEW S, NEW T, NEW out \in Seq(S), NEW lines \in Seq(T), NEW f, NEW K,
         Match(f, K, out, lines),
         \A i \in 1..Len(lines) : \A v : Gives(lines, i, v) =>
           \/ OursIn(file, Value(lines, i, v))
           \/ \E k \in K : f[k] = i /\ out[k][2] = lines[i][2] /\ Gives(out, k, v)
  PROVE  Foreign(file, lines) \subseteq Foreign(file, out)
<1>1. DOMAIN out = 1..Len(out) /\ DOMAIN lines = 1..Len(lines)  BY LenProperties
<1> SUFFICES ASSUME NEW t \in Pairs(lines), ~OursIn(file, t) PROVE t \in Pairs(out)
  BY DEF Foreign
<1>2a. PICK i \in 1..Len(lines) : \E v : Gives(lines, i, v) /\ t = Value(lines, i, v)
  <2>1. \E i \in DOMAIN lines : \E v : Gives(lines, i, v) /\ t = Value(lines, i, v)  BY PairsAre
  <2>2. QED  BY <1>1, <2>1
<1>2. PICK v : Gives(lines, i, v) /\ t = Value(lines, i, v)  BY <1>2a
<1>3. PICK k \in K : f[k] = i /\ out[k][2] = lines[i][2] /\ Gives(out, k, v)  BY <1>2
<1>4. k \in DOMAIN out  BY <1>1, <1>3 DEF Match
<1>5. GroupAt(out, k) = GroupAt(lines, f[k])  BY SameGroup
<1>6. Value(out, k, v) = t  BY <1>2, <1>3, <1>5 DEF Value
<1>7. QED  BY <1>3, <1>4, <1>6, PairsAre

\* Lines that are no headings are left out.
LEMMA SkipsMatch ==
  ASSUME NEW f, NEW out, NEW lines, NEW places, Skips(f, out, lines, places),
         \A i \in places \cap (1..Len(lines)) : lines[i][1] # "group"
  PROVE  Match(f, 1..Len(out), out, lines)
<1> DEFINE K == 1..Len(out)
<1>1. f \in [K -> 1..Len(lines)] /\ \A i, j \in K : i < j => f[i] < f[j]  BY DEF Skips
<1>2. \A k \in K : out[k] = lines[f[k]]  BY DEF Skips
<1>3. ASSUME NEW i \in 1..Len(lines), lines[i][1] = "group" PROVE \E k \in K : f[k] = i
  <2>1. i \notin places  BY <1>3
  <2>2. QED  BY <2>1 DEF Skips
<1> HIDE DEF K
<1>4. (1..Len(out)) \ K = {} /\ K \subseteq 1..Len(out)  BY DEF K
<1>5. Match(f, K, out, lines)  BY <1>1, <1>2, <1>3, <1>4 DEF Match
<1>6. QED  BY <1>5 DEF K

\* Key lines of Philemon's values alone can go.
LEMMA WithoutForeign ==
  ASSUME NEW file, NEW S, NEW lines \in Seq(S), NEW places,
         \A i \in places \cap (1..Len(lines)) :
           /\ lines[i][1] = "key"
           /\ \A v : Gives(lines, i, v) => OursIn(file, Value(lines, i, v))
  PROVE  Foreign(file, Without(lines, places)) = Foreign(file, lines)
<1> DEFINE out == Without(lines, places)
           K == 1..Len(out)
<1>1. out \in Seq(S) /\ \E f : Skips(f, out, lines, places)  BY WithoutIs
<1> HIDE DEF out
<1>2. PICK f : Skips(f, out, lines, places)  BY <1>1
<1>3. \A i \in places \cap (1..Len(lines)) : lines[i][1] # "group"  OBVIOUS
<1>4. Match(f, K, out, lines)  BY <1>2, <1>3, SkipsMatch
<1>5. \A k \in K : out[k] = lines[f[k]]  BY <1>2 DEF Skips
<1>6. \A k \in 1..Len(out) : \A v : Gives(out, k, v) =>
        k \in K /\ lines[f[k]][2] = out[k][2] /\ Gives(lines, f[k], v)
  BY <1>5 DEF Gives
<1>7. ASSUME NEW i \in 1..Len(lines), NEW v, Gives(lines, i, v)
      PROVE  \/ OursIn(file, Value(lines, i, v))
             \/ \E k \in K : f[k] = i /\ out[k][2] = lines[i][2] /\ Gives(out, k, v)
  <2>1. CASE i \in places  BY <1>7, <2>1
  <2>2. CASE i \notin places
    <3>1. PICK k \in K : f[k] = i  BY <1>2, <2>2 DEF Skips
    <3>2. out[k] = lines[i]  BY <1>5, <3>1
    <3>3. QED  BY <1>7, <3>1, <3>2 DEF Gives
  <2>3. QED  BY <2>1, <2>2
<1> HIDE DEF K
<1>8. Foreign(file, out) \subseteq Foreign(file, lines)  BY <1>1, <1>4, <1>6, ForeignSub
<1>9. Foreign(file, lines) \subseteq Foreign(file, out)  BY <1>1, <1>4, <1>7, ForeignSup
<1>10. QED  BY <1>8, <1>9 DEF out

LEMMA HeldIs ==
  ASSUME NEW S, NEW lines \in Seq(S), NEW group, NEW key
  PROVE  \A i : i \in Held(lines, group, key) <=>
           /\ i \in 1..Len(lines) /\ lines[i][1] = "key" /\ lines[i][2] = key
           /\ GroupAt(lines, i) = group
<1>1. DOMAIN lines = 1..Len(lines)  BY LenProperties
<1>2. QED  BY <1>1 DEF Held, IsKey

\* drop_preferred takes nothing but the key, and takes it wherever it stands.
LEMMA DropKeeps ==
  ASSUME NEW lines, Sequence(lines)
  PROVE  /\ Foreign("conf", DropPreferred(lines)) = Foreign("conf", lines)
         /\ Held(DropPreferred(lines), "preferred", "chooser") = {}
<1>1. PICK S : lines \in Seq(S)  BY DEF Sequence
<1> DEFINE held == Held(lines, "preferred", "chooser")
           out == Without(lines, held)
<1>2. \A i : i \in held <=>
           /\ i \in 1..Len(lines) /\ lines[i][1] = "key" /\ lines[i][2] = "chooser"
           /\ GroupAt(lines, i) = "preferred"
  BY <1>1, HeldIs
<1>3. DropPreferred(lines) = out  BY DEF DropPreferred
<1> HIDE DEF held
<1>4. \A i \in held \cap (1..Len(lines)) :
        lines[i][1] = "key" /\ \A v : Gives(lines, i, v) => OursIn("conf", Value(lines, i, v))
  BY <1>2 DEF Value, OursIn
<1>5. Foreign("conf", out) = Foreign("conf", lines)  BY <1>1, <1>4, WithoutForeign
<1>6. out \in Seq(S) /\ \E f : Skips(f, out, lines, held)  BY <1>1, WithoutIs
<1> HIDE DEF out
<1>7. PICK f : Skips(f, out, lines, held)  BY <1>6
<1> DEFINE K == 1..Len(out)
<1>8. Match(f, K, out, lines)  BY <1>4, <1>7, SkipsMatch
<1> HIDE DEF K
<1>9. ASSUME NEW k \in Held(out, "preferred", "chooser") PROVE FALSE
  <2>1. /\ k \in 1..Len(out) /\ out[k][1] = "key" /\ out[k][2] = "chooser"
        /\ GroupAt(out, k) = "preferred"
    BY <1>6, HeldIs
  <2>2. k \in K  BY <2>1 DEF K
  <2>3. GroupAt(lines, f[k]) = "preferred"  BY <1>1, <1>6, <1>8, <2>1, <2>2, SameGroup
  <2>4. out[k] = lines[f[k]] /\ f[k] \notin held /\ f[k] \in 1..Len(lines)
    BY <1>7, <2>1 DEF Skips
  <2>5. QED  BY <1>2, <2>1, <2>3, <2>4
<1>10. QED  BY <1>3, <1>5, <1>9

-----------------------------------------------------------------------------
(* The edits of portals.conf.                                              *)

LEMMA SetIsText ==
  ASSUME NEW lines, Keyed(lines)
  PROVE  Keyed(SetPreferred(lines))
<1>1. PICK S : lines \in Seq(S) /\ (Unquoted => Quote \notin S)  BY DEF Keyed
<1> DEFINE T == S \cup {<<"group", "preferred">>, ChooserLine}
           first == Min(Held(lines, "preferred", "chooser") \cup Leaves(lines))
<1>2. lines \in Seq(T)  BY <1>1, SeqMonotonic
<1>3. <<"group", "preferred">> \in T /\ ChooserLine \in T  OBVIOUS
<1>4. DOMAIN lines = 1..Len(lines) /\ Len(lines) \in Nat /\ \A i \in 1..Len(lines) : lines[i] \in T
  BY <1>2, LenProperties, ElementOfSeq
<1>5. Unquoted => Quote \notin T  BY <1>1 DEF Quote, ChooserLine
<1> HIDE DEF T
<1>6. lines \o <<<<"group", "preferred">>, ChooserLine>> \in Seq(T)
  <2>1. <<<<"group", "preferred">>, ChooserLine>> \in Seq(T)  BY <1>3
  <2>2. QED  BY <1>2, <2>1, ConcatProperties
<1>7. Append(lines, ChooserLine) \in Seq(T)  BY <1>2, <1>3, AppendProperties
<1>8. Held(lines, "preferred", "chooser") \cup Leaves(lines) # {} => first \in 1..Len(lines)
  <2> DEFINE both == Held(lines, "preferred", "chooser") \cup Leaves(lines)
  <2>1. both \in SUBSET (1..Len(lines))  BY <1>4 DEF Held, Leaves
  <2> HIDE DEF both
  <2>2. both \in SUBSET Nat  BY <2>1
  <2>3. both # {} => Min(both) \in both  BY <2>2, LeastOf
  <2>4. QED  BY <2>1, <2>3 DEF both
<1> HIDE DEF first
<1>9. ASSUME first \in 1..Len(lines) PROVE ReplaceAt(lines, first, ChooserLine) \in Seq(T)
  BY <1>2, <1>3, <1>9, ExceptSeq DEF ReplaceAt
<1>10. ASSUME first \in 1..Len(lines) PROVE InsertAt(lines, first, ChooserLine) \in Seq(T)
  <2> DEFINE u == SubSeq(lines, 1, first - 1)
             m == <<ChooserLine>>
             v == SubSeq(lines, first, Len(lines))
  <2>1. u \in Seq(T)
    <3>1. \A i \in 1..(first - 1) : lines[i] \in T  BY <1>4, <1>10
    <3>2. QED  BY <1>10, <3>1, SubSeqProperties
  <2>2. v \in Seq(T)
    <3>1. \A i \in first..Len(lines) : lines[i] \in T  BY <1>4, <1>10
    <3>2. QED  BY <1>4, <1>10, <3>1, SubSeqProperties
  <2>3. m \in Seq(T)  BY <1>3
  <2>4. InsertAt(lines, first, ChooserLine) = (u \o m) \o v  BY DEF InsertAt
  <2> HIDE DEF u, v, m
  <2>5. QED  BY <2>1, <2>2, <2>3, <2>4, ConcatProperties
<1>11. \/ SetPreferred(lines) = lines \o <<<<"group", "preferred">>, ChooserLine>>
       \/ SetPreferred(lines) = Append(lines, ChooserLine)
       \/ /\ first \in 1..Len(lines)
          /\ \/ SetPreferred(lines) = ReplaceAt(lines, first, ChooserLine)
             \/ SetPreferred(lines) = InsertAt(lines, first, ChooserLine)
  <2>1. CASE ~QuotesGroup(lines)  BY <2>1 DEF SetPreferred
  <2>2. CASE QuotesGroup(lines) /\ Held(lines, "preferred", "chooser") \cup Leaves(lines) = {}
    BY <2>2 DEF SetPreferred
  <2>3. CASE QuotesGroup(lines) /\ Held(lines, "preferred", "chooser") \cup Leaves(lines) # {}
    BY <1>8, <2>3 DEF SetPreferred, first
  <2>4. QED  BY <2>1, <2>2, <2>3
<1>12. SetPreferred(lines) \in Seq(T)  BY <1>6, <1>7, <1>9, <1>10, <1>11
<1>13. QED  BY <1>12, <1>5 DEF Keyed

LEMMA DropIsText ==
  ASSUME NEW lines, Keyed(lines)
  PROVE  Keyed(DropPreferred(lines))
<1>1. PICK S : lines \in Seq(S) /\ (Unquoted => Quote \notin S)  BY DEF Keyed
<1>2. DropPreferred(lines) \in Seq(S)  BY <1>1, WithoutIs DEF DropPreferred
<1>3. QED  BY <1>1, <1>2 DEF Keyed

\* What set_preferred does: the line stands in its group, the others stay in
\* their order, and one that held the key may go for it.
Puts(f, K, at, new, lines) ==
  /\ Match(f, K, new, lines)
  /\ at \in 1..Len(new) /\ new[at] = ChooserLine /\ GroupAt(new, at) = "preferred"
  /\ \A k \in K : k # at => new[k] = lines[f[k]]
  /\ \A j \in (1..Len(new)) \ K : j = at \/ new[j][1] = "group"
  /\ \A i \in 1..Len(lines) :
       i \in Held(lines, "preferred", "chooser") \/ \E k \in K : k # at /\ f[k] = i

\* The lines from one on, behind a text: a heading of its own, or none.
LEMMA SetBehind ==
  ASSUME NEW S, NEW lines \in Seq(S), NEW new, NEW at \in Nat,
         at > Len(lines), at = Len(new),
         \A j \in 1..Len(lines) : new[j] = lines[j],
         \A j \in (Len(lines) + 1)..(at - 1) : new[j][1] = "group",
         new[at] = ChooserLine, GroupAt(new, at) = "preferred"
  PROVE  \E f, K : Puts(f, K, at, new, lines)
<1> DEFINE n == Len(lines)
           K == 1..n
           f == [k \in K |-> k]
<1>1. n \in Nat  BY LenProperties
<1>2. f \in [K -> 1..n] /\ \A k \in K : f[k] = k  OBVIOUS
<1> HIDE DEF f
<1>3. ChooserLine[1] = "key"  BY DEF ChooserLine
<1>4. \A j \in (1..Len(new)) \ K : j = at \/ new[j][1] = "group"
  <2> TAKE j \in (1..Len(new)) \ K
  <2>1. j = at \/ j \in (n + 1)..(at - 1)  BY <1>1
  <2>2. QED  BY <2>1
<1>5. Match(f, K, new, lines)
  <2>1. K \subseteq 1..Len(new)  BY <1>1
  <2>2. \A i, j \in K : i < j => f[i] < f[j]  BY <1>2
  <2>3. \A k \in K : new[k] = lines[f[k]]  BY <1>2
  <2>4. \A i \in 1..n : \E k \in K : f[k] = i  BY <1>2
  <2>5. \A j \in (1..Len(new)) \ K : \A k \in K : k < j  BY <1>1
  <2>6. QED  BY <1>2, <2>1, <2>2, <2>3, <2>4, <2>5 DEF Match
<1>6. at \in 1..Len(new) /\ \A k \in K : k # at  BY <1>1
<1>7. \A k \in K : new[k] = lines[f[k]]  BY <1>2
<1>8. \A i \in 1..n : \E k \in K : k # at /\ f[k] = i  BY <1>2, <1>6
<1> HIDE DEF K
<1>9. Puts(f, K, at, new, lines)  BY <1>4, <1>5, <1>6, <1>7, <1>8 DEF Puts
<1>10. QED  BY <1>9

LEMMA SetOver ==
  ASSUME NEW S, NEW lines \in Seq(S), NEW T, NEW new \in Seq(T),
         NEW at \in Held(lines, "preferred", "chooser"), Len(new) = Len(lines),
         new[at] = ChooserLine, \A j \in 1..Len(lines) : j # at => new[j] = lines[j]
  PROVE  \E f, K : Puts(f, K, at, new, lines)
<1> DEFINE n == Len(lines)
           K == 1..n
           f == [k \in K |-> k]
<1>1. n \in Nat  BY LenProperties
<1>2. f \in [K -> 1..n] /\ \A k \in K : f[k] = k  OBVIOUS
<1> HIDE DEF f
<1>3. at \in 1..n /\ lines[at][1] = "key" /\ GroupAt(lines, at) = "preferred"  BY HeldIs
<1>4. ChooserLine[1] = "key"  BY DEF ChooserLine
<1>5. Match(f, K, new, lines)
  <2>1. (1..Len(new)) \ K = {} /\ K \subseteq 1..Len(new)  OBVIOUS
  <2>2. \A i, j \in K : i < j => f[i] < f[j]  BY <1>2
  <2>3. \A k \in K : (new[k][1] = "group" \/ lines[f[k]][1] = "group") => new[k] = lines[f[k]]
    <3> TAKE k \in K
    <3>1. CASE k = at
      <4>1. new[k][1] = "key" /\ lines[f[k]][1] = "key"  BY <1>2, <1>3, <1>4, <3>1
      <4>2. QED  BY <4>1
    <3>2. CASE k # at  BY <1>2, <3>2
    <3>3. QED  BY <3>1, <3>2
  <2>4. \A i \in 1..n : \E k \in K : f[k] = i  BY <1>2
  <2>5. QED  BY <1>2, <2>1, <2>2, <2>3, <2>4 DEF Match
<1>6. GroupAt(new, at) = "preferred"
  <2>1. at \in K  BY <1>3
  <2>2. f[at] = at  BY <1>2, <2>1
  <2> HIDE DEF K
  <2>3. GroupAt(new, at) = GroupAt(lines, f[at])  BY <1>5, <2>1, SameGroup
  <2>4. QED  BY <1>3, <2>2, <2>3
<1>7. (1..Len(new)) \ K = {}  OBVIOUS
<1>8. \A k \in K : k # at => new[k] = lines[f[k]]  BY <1>2
<1>9. \A i \in 1..n : i \in Held(lines, "preferred", "chooser") \/ \E k \in K : k # at /\ f[k] = i
  BY <1>2
<1> HIDE DEF K
<1>10. Puts(f, K, at, new, lines)  BY <1>3, <1>5, <1>6, <1>7, <1>8, <1>9 DEF Puts
<1>11. QED  BY <1>10

LEMMA SetBetween ==
  ASSUME NEW S, NEW lines \in Seq(S), NEW new, NEW at \in Leaves(lines),
         Len(new) = Len(lines) + 1, new[at] = ChooserLine,
         \A j \in 1..(at - 1) : new[j] = lines[j],
         \A j \in (at + 1)..Len(new) : new[j] = lines[j - 1]
  PROVE  \E f, K : Puts(f, K, at, new, lines)
<1> DEFINE n == Len(lines)
           K == (1..(n + 1)) \ {at}
           f == [k \in K |-> IF k < at THEN k ELSE k - 1]
<1>1. n \in Nat /\ DOMAIN lines = 1..n  BY LenProperties
<1>2. at \in 1..n /\ at > 1 /\ GroupAt(lines, at - 1) = "preferred" /\ at - 1 \in Nat
  BY <1>1 DEF Leaves
<1>3. ChooserLine[1] = "key"  BY DEF ChooserLine
<1>4. f \in [K -> 1..n]  BY <1>1, <1>2
<1>5. \A k \in K : f[k] = IF k < at THEN k ELSE k - 1  OBVIOUS
<1> HIDE DEF f
<1>6. \A k \in K : new[k] = lines[f[k]]
  <2> TAKE k \in K
  <2>1. CASE k < at
    <3>1. k \in 1..(at - 1)  BY <1>1, <1>2, <2>1
    <3>2. QED  BY <1>5, <2>1, <3>1
  <2>2. CASE ~(k < at)
    <3>1. k \in (at + 1)..Len(new)  BY <1>1, <1>2, <2>2
    <3>2. QED  BY <1>5, <2>2, <3>1
  <2>3. QED  BY <2>1, <2>2
<1>7. \A i \in 1..n : \E k \in K : f[k] = i
  <2> TAKE i \in 1..n
  <2>1. CASE i < at
    <3>1. i \in K  BY <1>1, <1>2, <2>1
    <3>2. QED  BY <1>5, <2>1, <3>1
  <2>2. CASE ~(i < at)
    <3>1. i + 1 \in K /\ ~(i + 1 < at) /\ (i + 1) - 1 = i  BY <1>1, <1>2, <2>2
    <3>2. f[i + 1] = i  BY <1>5, <3>1
    <3>3. QED  BY <3>1, <3>2
  <2>3. QED  BY <2>1, <2>2
<1>8. \A i, j \in K : i < j => f[i] < f[j]  BY <1>1, <1>2, <1>5
<1>9. \A j \in (1..Len(new)) \ K : j = at  BY <1>1
<1>10. K \subseteq 1..Len(new) /\ \A k \in K : k # at  BY <1>1
<1> HIDE DEF K
<1>11. Match(f, K, new, lines)
  <2>1. \A j \in (1..Len(new)) \ K : new[j][1] # "group"  BY <1>3, <1>9
  <2>2. QED  BY <1>4, <1>6, <1>7, <1>8, <1>10, <2>1 DEF Match
<1>12. GroupAt(new, at) = "preferred"
  <2>1. \E j \in 1..(at - 1) : lines[j][1] = "group"
    <3>1. SUFFICES ASSUME \A j \in 1..(at - 1) : lines[j][1] # "group" PROVE FALSE  OBVIOUS
    <3>2. GroupAt(lines, at - 1) = "none"  BY <1>2, <3>1, GroupIs
    <3>3. QED  BY <1>2, <3>2
  <2>2. PICK m \in 1..(at - 1) : HeadAt(lines, at - 1, m)  BY <1>2, <2>1, GroupIs
  <2>3. lines[m][2] = "preferred"  BY <1>2, <2>2, GroupIs
  <2>4. lines[m][1] = "group" /\ \A j \in 1..(at - 1) : j > m => lines[j][1] # "group"
    BY <2>2 DEF HeadAt
  <2>5. m \in 1..at /\ new[m] = lines[m]  BY <1>2
  <2>6. ASSUME NEW j \in 1..at, j > m PROVE new[j][1] # "group"
    <3>1. CASE j = at  BY <1>3, <3>1
    <3>2. CASE j # at
      <4>1. j \in 1..(at - 1)  BY <1>2, <3>2
      <4>2. QED  BY <2>4, <2>6, <4>1
    <3>3. QED  BY <3>1, <3>2
  <2>7. HeadAt(new, at, m)  BY <2>4, <2>5, <2>6 DEF HeadAt
  <2>8. at \in Nat  BY <1>2
  <2>9. QED  BY <2>3, <2>5, <2>7, <2>8, GroupIs
<1>13. at \in 1..Len(new)  BY <1>1, <1>2
<1>14. \A i \in 1..n : \E k \in K : k # at /\ f[k] = i  BY <1>7, <1>10
<1>15. Puts(f, K, at, new, lines)  BY <1>6, <1>9, <1>11, <1>12, <1>13, <1>14 DEF Puts
<1>16. QED  BY <1>15

LEMMA SetShape ==
  ASSUME NEW lines, Keyed(lines), Unquoted
  PROVE  \E f, K, at : Puts(f, K, at, SetPreferred(lines), lines)
<1>1. PICK S : lines \in Seq(S) /\ Quote \notin S  BY DEF Keyed
<1> DEFINE n == Len(lines)
           G == <<"group", "preferred">>
           T == S \cup {G, ChooserLine}
           held == Held(lines, "preferred", "chooser")
           both == held \cup Leaves(lines)
           first == Min(both)
<1>2. lines \in Seq(T)  BY <1>1, SeqMonotonic
<1>3. G \in T /\ ChooserLine \in T  OBVIOUS
<1>4. /\ DOMAIN lines = 1..n /\ n \in Nat
      /\ \A i \in 1..n : lines[i] \in T /\ lines[i] # Quote
  BY <1>1, <1>2, LenProperties, ElementOfSeq
<1>5. ChooserLine[1] = "key" /\ G[1] = "group" /\ G[2] = "preferred"  BY DEF ChooserLine
<1> HIDE DEF T
<1>6. CASE ~QuotesGroup(lines)
  <2> DEFINE tail == <<G, ChooserLine>>
             new == lines \o tail
  <2>1. tail \in Seq(T) /\ Len(tail) = 2 /\ tail[1] = G /\ tail[2] = ChooserLine  BY <1>3
  <2> HIDE DEF tail, G
  <2>2. /\ new \in Seq(T) /\ Len(new) = n + 2
        /\ new[n + 1] = G /\ new[n + 2] = ChooserLine
        /\ \A i \in 1..n : new[i] = lines[i]
    <3>1. /\ new \in Seq(T) /\ Len(new) = n + 2
          /\ \A i \in 1..(n + 2) : new[i] = IF i <= n THEN lines[i] ELSE tail[i - n]
      <4>1. /\ new \in Seq(T) /\ Len(new) = n + Len(tail)
            /\ \A i \in 1..(n + Len(tail)) : new[i] = IF i <= n THEN lines[i] ELSE tail[i - n]
        BY <1>2, <2>1, ConcatProperties, Zenon
      <4>2. QED  BY <2>1, <4>1, Zenon
    <3> HIDE DEF new
    <3>2. new[n + 1] = tail[(n + 1) - n] /\ new[n + 2] = tail[(n + 2) - n]  BY <1>4, <3>1
    <3>3. (n + 1) - n = 1 /\ (n + 2) - n = 2  BY <1>4
    <3>4. \A i \in 1..n : new[i] = lines[i]  BY <1>4, <3>1
    <3>5. QED  BY <2>1, <3>1, <3>2, <3>3, <3>4
  <2>3. SetPreferred(lines) = new  BY <1>6 DEF SetPreferred, tail, G
  <2> HIDE DEF new
  <2>4. GroupAt(new, n + 2) = "preferred"
    <3>1. n + 2 \in Nat /\ n + 1 \in 1..(n + 2)  BY <1>4
    <3>2. \A j \in 1..(n + 2) : j > n + 1 => new[j][1] # "group"
      <4> SUFFICES ASSUME NEW j \in 1..(n + 2), j > n + 1 PROVE new[j][1] # "group"  OBVIOUS
      <4>1. j = n + 2  BY <1>4
      <4>2. QED  BY <1>5, <2>2, <4>1
    <3>3. HeadAt(new, n + 2, n + 1)  BY <1>5, <2>2, <3>1, <3>2 DEF HeadAt
    <3>4. QED  BY <1>5, <2>2, <3>1, <3>3, GroupIs
  <2>5. \A j \in (n + 1)..((n + 2) - 1) : new[j][1] = "group"
    <3> TAKE j \in (n + 1)..((n + 2) - 1)
    <3>1. j = n + 1  BY <1>4
    <3>2. QED  BY <1>5, <2>2, <3>1
  <2>6. PICK at : at = n + 2  OBVIOUS
  <2>7. at \in Nat /\ at > Len(lines) /\ at = Len(new)  BY <1>4, <2>2, <2>6
  <2>8. \E f, K : Puts(f, K, at, new, lines)  BY <1>2, <2>2, <2>4, <2>5, <2>6, <2>7, SetBehind
  <2>9. QED  BY <2>3, <2>8
<1>7. CASE QuotesGroup(lines) /\ both = {}
  <2> DEFINE new == Append(lines, ChooserLine)
  <2>1. PICK g \in 1..n : lines[g] = G  BY <1>4, <1>7 DEF QuotesGroup, Quote
  <2>2. \A j \in 1..n : j > g => lines[j][1] # "group"
    <3> DEFINE Later == {j \in 1..n : j > g /\ lines[j][1] = "group"}
    <3>1. SUFFICES ASSUME Later # {} PROVE FALSE  OBVIOUS
    <3>2. PICK k \in Later : \A j \in Later : k <= j
      <4>1. Later \in SUBSET Nat  OBVIOUS
      <4> HIDE DEF Later
      <4>2. Min(Later) \in Later /\ \A j \in Later : Min(Later) <= j  BY <3>1, <4>1, LeastOf
      <4>3. QED  BY <4>2
    <3>3. k \in 1..n /\ k > g /\ lines[k][1] = "group"  OBVIOUS
    <3>4. \A j \in 1..(k - 1) : j > g => lines[j][1] # "group"  BY <1>4, <3>2, <3>3
    <3>5. HeadAt(lines, k - 1, g)  BY <1>5, <2>1, <3>3, <3>4 DEF HeadAt
    <3>6. k - 1 \in Nat /\ k > 1  BY <2>1, <3>3
    <3>7. GroupAt(lines, k - 1) = "preferred"  BY <1>5, <2>1, <3>5, <3>6, GroupIs
    <3>8. k \in Leaves(lines)  BY <1>4, <3>3, <3>6, <3>7 DEF Leaves
    <3>9. QED  BY <1>7, <3>8
  <2>3. /\ new \in Seq(T) /\ Len(new) = n + 1 /\ new[n + 1] = ChooserLine
        /\ \A j \in 1..n : new[j] = lines[j]
    BY <1>2, <1>3, <1>4, AppendProperties
  <2>4. SetPreferred(lines) = new  BY <1>7 DEF SetPreferred
  <2> HIDE DEF new, G
  <2>5. GroupAt(new, n + 1) = "preferred"
    <3>1. g \in 1..(n + 1) /\ new[g][1] = "group" /\ new[g][2] = "preferred" /\ n + 1 \in Nat
      BY <1>4, <1>5, <2>1, <2>3
    <3>2. \A j \in 1..(n + 1) : j > g => new[j][1] # "group"  BY <1>4, <1>5, <2>2, <2>3
    <3>3. HeadAt(new, n + 1, g)  BY <3>1, <3>2 DEF HeadAt
    <3>4. QED  BY <3>1, <3>3, GroupIs
  <2>6. PICK at : at = n + 1  OBVIOUS
  <2>7. at \in Nat /\ at > Len(lines) /\ at = Len(new)  BY <1>4, <2>3, <2>6
  <2>8. \A j \in (Len(lines) + 1)..(at - 1) : new[j][1] = "group"
    <3>1. (Len(lines) + 1)..(at - 1) = {}  BY <1>4, <2>6
    <3>2. QED  BY <3>1
  <2>9. \E f, K : Puts(f, K, at, new, lines)  BY <1>2, <2>3, <2>5, <2>6, <2>7, <2>8, SetBehind
  <2>10. QED  BY <2>4, <2>9
<1>8. both # {} => first \in both /\ first \in 1..n
  <2>1. both \in SUBSET (1..n)  BY <1>4 DEF Held, Leaves
  <2> HIDE DEF both
  <2>2. both \in SUBSET Nat  BY <2>1
  <2>3. both # {} => Min(both) \in both  BY <2>2, LeastOf
  <2>4. QED  BY <2>1, <2>3
<1>9. CASE QuotesGroup(lines) /\ both # {} /\ first \in held
  <2> DEFINE new == ReplaceAt(lines, first, ChooserLine)
  <2>1. SetPreferred(lines) = new  BY <1>9 DEF SetPreferred
  <2>2. first \in 1..n /\ first \in held  BY <1>8, <1>9
  <2> HIDE DEF first
  <2>3. /\ new \in Seq(T) /\ Len(new) = n /\ new[first] = ChooserLine
        /\ \A j \in 1..n : j # first => new[j] = lines[j]
    BY <1>2, <1>3, <1>4, <2>2, ExceptSeq DEF ReplaceAt
  <2> HIDE DEF new
  <2>4. \E f, K : Puts(f, K, first, new, lines)  BY <1>2, <2>2, <2>3, SetOver
  <2>5. QED  BY <2>1, <2>4
<1>10. CASE QuotesGroup(lines) /\ both # {} /\ first \notin held
  <2> DEFINE u == SubSeq(lines, 1, first - 1)
             c == <<ChooserLine>>
             v == SubSeq(lines, first, n)
             new == (u \o c) \o v
  <2>1. SetPreferred(lines) = new  BY <1>10 DEF SetPreferred, InsertAt
  <2>2. first \in 1..n /\ first \in Leaves(lines)  BY <1>8, <1>10
  <2> HIDE DEF first
  <2>3. u \in Seq(T) /\ Len(u) = first - 1 /\ \A j \in 1..(first - 1) : u[j] = lines[j]
    <3>1. \A i \in 1..(first - 1) : lines[i] \in T  BY <1>4, <2>2
    <3>2. QED  BY <2>2, <3>1, SubSeqProperties
  <2>4. /\ v \in Seq(T) /\ Len(v) = n - first + 1
        /\ \A j \in 1..(n - first + 1) : v[j] = lines[first + j - 1]
    <3>1. \A i \in first..n : lines[i] \in T  BY <1>4, <2>2
    <3>2. QED  BY <1>4, <2>2, <3>1, SubSeqProperties
  <2>5. c \in Seq(T) /\ Len(c) = 1 /\ c[1] = ChooserLine  BY <1>3
  <2> DEFINE w == u \o c
  <2> HIDE DEF u, v, c, G
  <2>6. /\ w \in Seq(T) /\ Len(w) = first /\ w[first] = ChooserLine
        /\ \A j \in 1..(first - 1) : w[j] = lines[j]
    <3>1. /\ w \in Seq(T) /\ Len(w) = (first - 1) + 1
          /\ \A i \in 1..((first - 1) + 1) :
               w[i] = IF i <= first - 1 THEN u[i] ELSE c[i - (first - 1)]
      <4>1. /\ w \in Seq(T) /\ Len(w) = Len(u) + Len(c)
            /\ \A i \in 1..(Len(u) + Len(c)) : w[i] = IF i <= Len(u) THEN u[i] ELSE c[i - Len(u)]
        BY <2>3, <2>5, ConcatProperties, Zenon
      <4>2. QED  BY <2>3, <2>5, <4>1, Zenon
    <3> HIDE DEF w
    <3>2. (first - 1) + 1 = first /\ first - (first - 1) = 1  BY <1>4, <2>2
    <3>3. w[first] = c[first - (first - 1)]  BY <1>4, <2>2, <3>1, <3>2
    <3>4. \A j \in 1..(first - 1) : w[j] = u[j]  BY <1>4, <2>2, <3>1, <3>2
    <3>5. QED  BY <2>3, <2>5, <3>1, <3>2, <3>3, <3>4
  <2> DEFINE x == w \o v
  <2>7. new = x  BY DEF w
  <2> HIDE DEF w
  <2>8. /\ x \in Seq(T) /\ Len(x) = first + (n - first + 1)
        /\ \A i \in 1..(first + (n - first + 1)) :
             x[i] = IF i <= first THEN w[i] ELSE v[i - first]
    <3>1. /\ x \in Seq(T) /\ Len(x) = Len(w) + Len(v)
          /\ \A i \in 1..(Len(w) + Len(v)) : x[i] = IF i <= Len(w) THEN w[i] ELSE v[i - Len(w)]
      BY <2>4, <2>6, ConcatProperties, Zenon
    <3>2. QED  BY <2>4, <2>6, <3>1, Zenon
  <2> HIDE DEF new, x
  <2>9. first + (n - first + 1) = n + 1  BY <1>4, <2>2
  <2>10. Len(x) = n + 1 /\ \A i \in 1..(n + 1) : x[i] = IF i <= first THEN w[i] ELSE v[i - first]
    BY <2>8, <2>9
  <2>11. x[first] = ChooserLine /\ \A j \in 1..(first - 1) : x[j] = lines[j]
    <3>1. x[first] = w[first]  BY <1>4, <2>2, <2>10
    <3>2. \A j \in 1..(first - 1) : x[j] = w[j]  BY <1>4, <2>2, <2>10
    <3>3. QED  BY <2>6, <3>1, <3>2
  <2>12. ASSUME NEW j \in (first + 1)..Len(x) PROVE x[j] = lines[j - 1]
    <3> DEFINE k == j - first
    <3>1. j \in 1..(n + 1) /\ ~(j <= first)  BY <1>4, <2>2, <2>10
    <3>2. k \in 1..(n - first + 1) /\ first + k - 1 = j - 1  BY <1>4, <2>2, <3>1
    <3>3. x[j] = v[k]  BY <2>10, <3>1
    <3>4. v[k] = lines[first + k - 1]  BY <2>4, <3>2
    <3>5. QED  BY <3>2, <3>3, <3>4
  <2>13. \E f, K : Puts(f, K, first, x, lines)  BY <1>2, <2>2, <2>10, <2>11, <2>12, SetBetween
  <2>14. QED  BY <2>1, <2>7, <2>13
<1>11. QED  BY <1>6, <1>7, <1>9, <1>10

\* set_preferred puts the line into the group, wherever that is, and leaves
\* every other key.
LEMMA SetTakes ==
  ASSUME NEW lines, Keyed(lines), Unquoted
  PROVE  Taken(SetPreferred(lines)) /\ Foreign("conf", SetPreferred(lines)) = Foreign("conf", lines)
<1> DEFINE new == SetPreferred(lines)
           held == Held(lines, "preferred", "chooser")
<1>1. PICK f, K, at : Puts(f, K, at, new, lines)  BY SetShape
<1>2. PICK S : lines \in Seq(S)  BY DEF Keyed
<1>3. PICK T : new \in Seq(T)  BY SetIsText DEF Keyed
<1>4. DOMAIN new = 1..Len(new)  BY <1>3, LenProperties
<1> HIDE DEF new
<1>5. at \in 1..Len(new) /\ new[at] = ChooserLine /\ GroupAt(new, at) = "preferred"
  BY <1>1 DEF Puts
<1>6. ChooserLine[1] = "key" /\ ChooserLine[2] = "chooser"  BY DEF ChooserLine
<1>7. Taken(new)
  <2>1. at \in Held(new, "preferred", "chooser")  BY <1>3, <1>5, <1>6, HeldIs
  <2>2. QED  BY <1>5, <2>1 DEF Taken
<1>8. Match(f, K, new, lines)  BY <1>1 DEF Puts
<1>9. ASSUME NEW k \in 1..Len(new), NEW v, Gives(new, k, v)
      PROVE  \/ OursIn("conf", Value(new, k, v))
             \/ k \in K /\ lines[f[k]][2] = new[k][2] /\ Gives(lines, f[k], v)
  <2>1. CASE k = at  BY <1>5, <1>6, <2>1 DEF OursIn, Value
  <2>2. CASE k # at
    <3>1. k \in K  BY <1>1, <1>9, <2>2 DEF Puts, Gives
    <3>2. new[k] = lines[f[k]]  BY <1>1, <2>2, <3>1 DEF Puts
    <3>3. QED  BY <1>9, <3>1, <3>2 DEF Gives
  <2>3. QED  BY <2>1, <2>2
<1>10. ASSUME NEW i \in 1..Len(lines), NEW v, Gives(lines, i, v)
       PROVE  \/ OursIn("conf", Value(lines, i, v))
              \/ \E k \in K : f[k] = i /\ new[k][2] = lines[i][2] /\ Gives(new, k, v)
  <2>1. CASE i \in held
    <3>1. lines[i][2] = "chooser" /\ GroupAt(lines, i) = "preferred"  BY <1>2, <2>1, HeldIs
    <3>2. QED  BY <3>1 DEF OursIn, Value
  <2>2. CASE i \notin held
    <3>1. PICK k \in K : k # at /\ f[k] = i  BY <1>1, <2>2 DEF Puts
    <3>2. new[k] = lines[i]  BY <1>1, <3>1 DEF Puts
    <3>3. QED  BY <1>10, <3>1, <3>2 DEF Gives
  <2>3. QED  BY <2>1, <2>2
<1>11. Foreign("conf", new) \subseteq Foreign("conf", lines)  BY <1>2, <1>3, <1>8, <1>9, ForeignSub
<1>12. Foreign("conf", lines) \subseteq Foreign("conf", new)  BY <1>2, <1>3, <1>8, <1>10, ForeignSup
<1>13. QED  BY <1>7, <1>11, <1>12 DEF new

LEMMA ChooserGood ==
  ASSUME IInv, NEW p \in Commands, ClaimChooser(p) \/ ReleaseChooser(p)
  PROVE  Good(p)
<1> DEFINE text == Text(p)
           heading == <<<<"group", "preferred">>, ChooserLine>>
<1>1. cmd[p].pc = "next" /\ FileOf(p) = "conf" /\ text = Content(disk, "conf") /\ Keyed(text)
  BY DEF ClaimChooser, ReleaseChooser, Half, FileOf, Text, IInv, Texts
<1>2. loaded' = loaded /\ box' = box /\ reach' = reach
  BY DEF ClaimChooser, ReleaseChooser, Calm
<1>3. ASSUME UNCHANGED disk, NEW ok \in BOOLEAN, Done(p, ok) PROVE Good(p)
  BY <1>1, <1>2, <1>3, SameFiles, DoneGood
<1>4. ASSUME NEW lines, Keyed(lines), disk' = [disk EXCEPT !["conf"] = <<lines>>], Done(p, TRUE)
      PROVE  Good(p)
  <2>1. Content(disk', "conf") = lines
    <3>1. "conf" \in DOMAIN disk  BY DEF IInv, Texts, FileNames
    <3>2. disk'["conf"] = <<lines>>  BY <1>4, <3>1
    <3>3. QED  BY <3>2 DEF Content
  <2>2. Texts' /\ Content(disk', "bindings") = Content(disk, "bindings")
    BY <1>4, <2>1, OtherFile DEF FileNames
  <2>3. QED  BY <1>1, <1>2, <1>4, <2>2, DoneGood
<1>5. ASSUME disk' = [disk EXCEPT !["conf"] = <<>>], Done(p, TRUE)
      PROVE  Good(p)
  <2>1. Content(disk', "conf") = <<>>
    <3>1. "conf" \in DOMAIN disk  BY DEF IInv, Texts, FileNames
    <3>2. disk'["conf"] = <<>>  BY <1>5, <3>1
    <3>3. QED  BY <3>2 DEF Content
  <2>2. Keyed(<<>>)
    <3>1. PICK S : S = {}  OBVIOUS
    <3>2. <<>> \in Seq(S) /\ Quote \notin S  BY <3>1, EmptySeq
    <3>3. QED  BY <3>2 DEF Keyed
  <2>3. Texts' /\ Content(disk', "bindings") = Content(disk, "bindings")
    BY <1>5, <2>1, <2>2, OtherFile DEF FileNames
  <2>4. QED  BY <1>1, <1>2, <1>5, <2>3, DoneGood
<1>6. CASE ClaimChooser(p)
  <2> DEFINE next == SetPreferred(text)
  <2>1. \/ UNCHANGED disk /\ \E ok \in BOOLEAN : Done(p, ok)
        \/ disk' = [disk EXCEPT !["conf"] = <<heading>>] /\ Done(p, TRUE)
        \/ UNCHANGED disk /\ Replaces(p, next)
    BY <1>1, <1>6 DEF ClaimChooser, Creates
  <2>2. CASE UNCHANGED disk /\ \E ok \in BOOLEAN : Done(p, ok)  BY <1>3, <2>2
  <2>3. CASE disk' = [disk EXCEPT !["conf"] = <<heading>>] /\ Done(p, TRUE)
    <3>1. Keyed(heading)
      <4> DEFINE S == {<<"group", "preferred">>, ChooserLine}
      <4>1. Quote \notin S  BY DEF Quote, ChooserLine
      <4>2. heading \in Seq(S)  OBVIOUS
      <4>3. QED  BY <4>1, <4>2 DEF Keyed
    <3> HIDE DEF heading
    <3>2. QED  BY <1>4, <2>3, <3>1
  <2>4. CASE UNCHANGED disk /\ Replaces(p, next)
    <3>1. Keyed(next) /\ (Unquoted => Taken(next))  BY <1>1, SetIsText, SetTakes
    <3>2. Quiet  BY <1>6, <2>4 DEF ClaimChooser, Quiet
    <3> HIDE DEF next
    <3>3. QED  BY <1>1, <2>4, <3>1, <3>2, ReplacesGood
  <2>5. QED  BY <2>1, <2>2, <2>3, <2>4
<1>7. CASE ReleaseChooser(p)
  <2> DEFINE next == DropPreferred(text)
  <2>1. \/ UNCHANGED disk /\ \E ok \in BOOLEAN : Done(p, ok)
        \/ disk' = [disk EXCEPT !["conf"] = <<>>] /\ Done(p, TRUE)
        \/ UNCHANGED disk /\ Replaces(p, next)
    BY <1>1, <1>7 DEF ReleaseChooser, Removes
  <2>2. CASE UNCHANGED disk /\ Replaces(p, next)
    <3>1. Keyed(next) /\ ~cmd[p].on  BY <1>1, <1>7, DropIsText DEF ReleaseChooser, On
    <3>2. Quiet  BY <1>7, <2>2 DEF ReleaseChooser, Quiet
    <3> HIDE DEF next
    <3>3. QED  BY <1>1, <2>2, <3>1, <3>2, ReplacesGood
  <2>3. QED  BY <1>3, <1>5, <2>1, <2>2
<1>8. QED  BY <1>6, <1>7

-----------------------------------------------------------------------------
(* The edits of mimeapps.list.                                             *)

\* The values of every key can be gone through.
Listed(lines) ==
  Sequence(lines) /\ \A i \in DOMAIN lines : lines[i][1] = "key" => Sequence(lines[i][3])

Others(seq, x) == Without(seq, {k \in DOMAIN seq : seq[k] = x})

LEMMA OthersAre ==
  ASSUME NEW seq, Sequence(seq), NEW x
  PROVE  /\ Sequence(Others(seq, x))
         /\ \A v : v \in ToSet(Others(seq, x)) <=> v \in ToSet(seq) /\ v # x
<1>1. PICK S : seq \in Seq(S)  BY DEF Sequence
<1> DEFINE places == {k \in DOMAIN seq : seq[k] = x}
           out == Without(seq, places)
<1>2. Others(seq, x) = out  BY DEF Others
<1>3. DOMAIN seq = 1..Len(seq)  BY <1>1, LenProperties
<1>4. \A k \in 1..Len(seq) : k \in places <=> seq[k] = x  BY <1>3
<1> HIDE DEF places
<1>5. out \in Seq(S) /\ \E f : Skips(f, out, seq, places)  BY <1>1, WithoutIs
<1> HIDE DEF out
<1>6. PICK f : Skips(f, out, seq, places)  BY <1>5
<1>7. DOMAIN out = 1..Len(out)  BY <1>5, LenProperties
<1>8. ASSUME NEW v, v \in ToSet(out) PROVE v \in ToSet(seq) /\ v # x
  <2>1. PICK i \in 1..Len(out) : v = out[i]  BY <1>7, <1>8 DEF ToSet
  <2>2. f[i] \in 1..Len(seq) /\ out[i] = seq[f[i]] /\ f[i] \notin places  BY <1>6 DEF Skips
  <2>3. QED  BY <1>3, <1>4, <2>1, <2>2 DEF ToSet
<1>9. ASSUME NEW v, v \in ToSet(seq), v # x PROVE v \in ToSet(out)
  <2>1. PICK k \in 1..Len(seq) : v = seq[k]  BY <1>3, <1>9 DEF ToSet
  <2>2. k \notin places  BY <1>4, <1>9, <2>1
  <2>3. PICK i \in 1..Len(out) : f[i] = k  BY <1>6, <2>2 DEF Skips
  <2>4. out[i] = v  BY <1>6, <2>1, <2>3 DEF Skips
  <2>5. QED  BY <1>7, <2>4 DEF ToSet
<1>10. Sequence(out)  BY <1>5 DEF Sequence
<1>11. QED  BY <1>2, <1>8, <1>9, <1>10

\* drop_default takes Philemon's name out of the lists of its group, and
\* nothing else.
LEMMA DropDefaultKeeps ==
  ASSUME NEW lines, Listed(lines)
  PROVE  /\ Listed(DropDefault(lines)) /\ Claims(DropDefault(lines)) = {}
         /\ Foreign("mime", DropDefault(lines)) = Foreign("mime", lines)
<1>1. PICK S : lines \in Seq(S)  BY DEF Listed, Sequence
<1> DEFINE n == Len(lines)
           claims == Claims(lines)
           kept(i) == Others(lines[i][3], Own)
           less(i) == <<"key", "dir", kept(i)>>
           T == S \cup {less(i) : i \in 1..n}
           part(i) == IF i \notin claims THEN <<lines[i]>>
                      ELSE IF kept(i) = <<>> THEN <<>> ELSE <<less(i)>>
           parts == [i \in 1..n |-> part(i)]
           out == FlattenSeq(parts)
<1>2. DOMAIN lines = 1..n /\ n \in Nat /\ \A i \in 1..n : lines[i] \in S
  BY <1>1, LenProperties, ElementOfSeq
<1>3. DropDefault(lines) = out
  <2>1. parts = [i \in DOMAIN lines |-> part(i)]  BY <1>2
  <2>2. QED  BY <2>1 DEF DropDefault, Others
<1>4. \A i : i \in claims <=>
        /\ i \in 1..n /\ lines[i][1] = "key" /\ lines[i][2] = "dir"
        /\ GroupAt(lines, i) = "defaults" /\ Own \in ToSet(lines[i][3])
  <2> DEFINE held == Held(lines, "defaults", "dir")
  <2>1. \A i : i \in held <=> /\ i \in 1..n /\ lines[i][1] = "key" /\ lines[i][2] = "dir"
                              /\ GroupAt(lines, i) = "defaults"
    BY <1>1, HeldIs
  <2>2. \A i : i \in claims <=> i \in held /\ Own \in ToSet(lines[i][3])  BY DEF Claims
  <2> HIDE DEF held, claims
  <2>3. QED  BY <2>1, <2>2
<1> HIDE DEF claims
<1>5. \A i \in claims : /\ Sequence(kept(i))
                        /\ \A v : v \in ToSet(kept(i)) <=> v \in ToSet(lines[i][3]) /\ v # Own
  <2> TAKE i \in claims
  <2>1. Sequence(lines[i][3])  BY <1>2, <1>4 DEF Listed
  <2>2. QED  BY <2>1, OthersAre
<1> HIDE DEF kept
<1>6. \A i \in 1..n : less(i) \in T /\ lines[i] \in T  BY <1>2
<1>7. \A i \in 1..n : less(i)[1] = "key" /\ less(i)[2] = "dir" /\ less(i)[3] = kept(i)  OBVIOUS
<1> HIDE DEF T, less
<1>8. \A i \in 1..n : part(i) \in Seq(T) /\ Len(part(i)) <= 1
  <2> TAKE i \in 1..n
  <2>1. <<>> \in Seq(T) /\ Len(<<>>) <= 1  BY EmptySeq
  <2>2. PICK x, y : x = lines[i] /\ y = less(i)  OBVIOUS
  <2>3. x \in T /\ y \in T  BY <1>6, <2>2
  <2>4. <<x>> \in Seq(T) /\ Len(<<x>>) <= 1 /\ <<y>> \in Seq(T) /\ Len(<<y>>) <= 1  BY <2>3
  <2>5. part(i) = <<>> \/ part(i) = <<x>> \/ part(i) = <<y>>  BY <2>2
  <2>6. QED  BY <2>1, <2>4, <2>5, Zenon
<1>9. /\ \A i \in 1..n : i \notin claims => part(i) = <<lines[i]>>
      /\ \A i \in 1..n : i \in claims /\ kept(i) # <<>> => part(i) = <<less(i)>>
      /\ \A i \in 1..n : i \in claims /\ kept(i) = <<>> => part(i) = <<>>
  OBVIOUS
<1> HIDE DEF part
<1>10. parts \in Seq(Seq(T)) /\ Len(parts) = n /\ \A i \in 1..n : parts[i] = part(i)
  <2>1. parts \in [1..n -> Seq(T)]  BY <1>8
  <2>2. QED  BY <1>2, <2>1
<1> HIDE DEF parts
<1>11. out \in Seq(T)  BY <1>10, Flattens
<1>12. PICK f : Picks(f, out, parts, n)  BY <1>8, <1>10, Thins
<1> HIDE DEF out
<1> DEFINE K == 1..Len(out)
<1>13. /\ f \in [K -> 1..n] /\ \A i, j \in K : i < j => f[i] < f[j]
       /\ DOMAIN out = K
  BY <1>11, <1>12, LenProperties DEF Picks
<1>14. ASSUME NEW k \in K
       PROVE  /\ f[k] \in 1..n
              /\ f[k] \notin claims => out[k] = lines[f[k]]
              /\ f[k] \in claims => out[k] = less(f[k])
  <2>1. f[k] \in 1..n /\ part(f[k]) = <<out[k]>>  BY <1>10, <1>12, <1>13 DEF Picks
  <2>2. CASE f[k] \notin claims
    <3>1. <<out[k]>> = <<lines[f[k]]>>  BY <1>9, <2>1, <2>2
    <3>2. QED  BY <2>1, <2>2, <3>1
  <2>3. CASE f[k] \in claims
    <3>1. <<out[k]>> # <<>>  OBVIOUS
    <3>2. <<out[k]>> = <<less(f[k])>>  BY <1>9, <2>1, <2>3, <3>1
    <3>3. QED  BY <2>1, <2>3, <3>2
  <2>4. QED  BY <2>2, <2>3
<1>15. ASSUME NEW i \in 1..n, i \notin claims \/ kept(i) # <<>>
       PROVE  \E k \in K : f[k] = i
  <2>1. parts[i] # <<>>
    <3>1. CASE i \notin claims
      <4>1. parts[i] = <<lines[i]>>  BY <1>9, <1>10, <3>1
      <4>2. QED  BY <4>1
    <3>2. CASE i \in claims
      <4>1. parts[i] = <<less(i)>>  BY <1>9, <1>10, <1>15, <3>2
      <4>2. QED  BY <4>1
    <3>3. QED  BY <3>1, <3>2
  <2>2. QED  BY <1>12, <2>1 DEF Picks
<1>16. Match(f, K, out, lines)
  <2>1. (1..Len(out)) \ K = {} /\ K \subseteq 1..Len(out)  OBVIOUS
  <2>2. ASSUME NEW k \in K, out[k][1] = "group" \/ lines[f[k]][1] = "group"
        PROVE  out[k] = lines[f[k]]
    <3>1. f[k] \in claims => out[k][1] = "key" /\ lines[f[k]][1] = "key"  BY <1>4, <1>7, <1>14
    <3>2. QED  BY <1>14, <2>2, <3>1
  <2>3. ASSUME NEW i \in 1..n, lines[i][1] = "group" PROVE \E k \in K : f[k] = i
    <3>1. i \notin claims  BY <1>4, <2>3
    <3>2. QED  BY <1>15, <3>1
  <2> HIDE DEF K
  <2>4. QED  BY <1>13, <2>1, <2>2, <2>3 DEF Match
<1>17. Listed(out)
  <2>1. Sequence(out)  BY <1>11 DEF Sequence
  <2>2. ASSUME NEW k \in K, out[k][1] = "key" PROVE Sequence(out[k][3])
    <3>1. CASE f[k] \in claims
      <4>1. out[k][3] = kept(f[k])  BY <1>7, <1>14, <3>1
      <4>2. QED  BY <1>5, <3>1, <4>1
    <3>2. CASE f[k] \notin claims
      <4>1. out[k] = lines[f[k]] /\ f[k] \in DOMAIN lines  BY <1>2, <1>14, <3>2
      <4>2. QED  BY <2>2, <4>1 DEF Listed
    <3>3. QED  BY <3>1, <3>2
  <2>3. QED  BY <1>13, <2>1, <2>2 DEF Listed
<1>18. ASSUME NEW k \in 1..Len(out), NEW v, Gives(out, k, v)
       PROVE  k \in K /\ lines[f[k]][2] = out[k][2] /\ Gives(lines, f[k], v)
  <2>1. CASE f[k] \in claims
    <3>1. out[k][2] = "dir" /\ out[k][3] = kept(f[k])  BY <1>7, <1>14, <2>1
    <3>2. v \in ToSet(kept(f[k]))  BY <1>18, <3>1 DEF Gives
    <3>3. v \in ToSet(lines[f[k]][3])  BY <1>5, <2>1, <3>2
    <3>4. QED  BY <1>4, <2>1, <3>1, <3>3 DEF Gives
  <2>2. CASE f[k] \notin claims
    <3>1. out[k] = lines[f[k]]  BY <1>14, <2>2
    <3>2. QED  BY <1>18, <3>1 DEF Gives
  <2>3. QED  BY <2>1, <2>2
<1>19. ASSUME NEW i \in 1..Len(lines), NEW v, Gives(lines, i, v)
       PROVE  \/ OursIn("mime", Value(lines, i, v))
              \/ \E k \in K : f[k] = i /\ out[k][2] = lines[i][2] /\ Gives(out, k, v)
  <2>1. CASE i \notin claims
    <3>1. PICK k \in K : f[k] = i  BY <1>15, <2>1
    <3>2. out[k] = lines[i]  BY <1>14, <2>1, <3>1
    <3>3. QED  BY <1>19, <3>1, <3>2 DEF Gives
  <2>2. CASE i \in claims /\ v = Own
    <3>1. lines[i][2] = "dir" /\ GroupAt(lines, i) = "defaults"  BY <1>4, <2>2
    <3>2. QED  BY <2>2, <3>1 DEF OursIn, Value
  <2>3. CASE i \in claims /\ v # Own
    <3>1. v \in ToSet(lines[i][3])  BY <1>19 DEF Gives
    <3>2. v \in ToSet(kept(i))  BY <1>5, <2>3, <3>1
    <3>3. kept(i) # <<>>
      <4>1. ToSet(<<>>) = {}
        <5>1. DOMAIN <<>> = {}  BY EmptySeq
        <5>2. QED  BY <5>1 DEF ToSet
      <4>2. QED  BY <3>2, <4>1
    <3>4. PICK k \in K : f[k] = i  BY <1>15, <3>3
    <3>5. out[k] = less(i)  BY <1>14, <2>3, <3>4
    <3>6. out[k][1] = "key" /\ out[k][2] = "dir" /\ out[k][3] = kept(i)  BY <1>7, <3>5
    <3>7. lines[i][2] = "dir"  BY <1>4, <2>3
    <3>8. QED  BY <3>2, <3>4, <3>6, <3>7 DEF Gives
  <2>4. QED  BY <2>1, <2>2, <2>3
<1>20. ASSUME NEW k \in Claims(out) PROVE FALSE
  <2>1. k \in Held(out, "defaults", "dir") /\ Own \in ToSet(out[k][3])  BY DEF Claims
  <2>2. /\ k \in K /\ out[k][1] = "key" /\ out[k][2] = "dir" /\ GroupAt(out, k) = "defaults"
    BY <1>11, <2>1, HeldIs
  <2>3. CASE f[k] \in claims
    <3>1. out[k][3] = kept(f[k])  BY <1>7, <1>14, <2>2, <2>3
    <3>2. QED  BY <1>5, <2>1, <2>3, <3>1
  <2>4. CASE f[k] \notin claims
    <3>1. out[k] = lines[f[k]] /\ f[k] \in 1..n  BY <1>14, <2>2, <2>4
    <3> HIDE DEF K
    <3>2. GroupAt(lines, f[k]) = "defaults"  BY <1>1, <1>11, <1>16, <2>2, SameGroup
    <3>3. QED  BY <1>4, <2>1, <2>2, <2>4, <3>1, <3>2
  <2>5. QED  BY <2>3, <2>4
<1> HIDE DEF K
<1>21. Foreign("mime", out) \subseteq Foreign("mime", lines)
  BY <1>1, <1>11, <1>16, <1>18, ForeignSub
<1>22. Foreign("mime", lines) \subseteq Foreign("mime", out)
  BY <1>1, <1>11, <1>16, <1>19, ForeignSup
<1>23. QED  BY <1>3, <1>17, <1>20, <1>21, <1>22

\* xdg-mime's line stands for the first of the type, or behind a heading of its
\* own: it brings no handler but Philemon.
LEMMA XdgKeeps ==
  ASSUME NEW lines, Listed(lines)
  PROVE  /\ Listed(XdgDefault(lines))
         /\ Foreign("mime", XdgDefault(lines)) \subseteq Foreign("mime", lines)
<1>1. PICK S : lines \in Seq(S)  BY DEF Listed, Sequence
<1> DEFINE n == Len(lines)
           held == Held(lines, "defaults", "dir")
           G == <<"group", "defaults">>
           line == <<"key", "dir", <<Own>>>>
           T == S \cup {G, line}
           first == Min(held)
           K == 1..n
           f == [k \in K |-> k]
<1>2. lines \in Seq(T)  BY <1>1, SeqMonotonic
<1>3. G \in T /\ line \in T  OBVIOUS
<1>4. DOMAIN lines = 1..n /\ n \in Nat  BY <1>1, LenProperties
<1>5. /\ G[1] = "group" /\ G[2] = "defaults"
      /\ line[1] = "key" /\ line[2] = "dir" /\ line[3] = <<Own>>
  OBVIOUS
<1>6. Sequence(<<Own>>) /\ \A v : v \in ToSet(<<Own>>) => v = Own
  <2>1. PICK O : O = {Own}  OBVIOUS
  <2>2. PICK one : one = <<Own>>  OBVIOUS
  <2>3. Own \in O  BY <2>1
  <2>4. one \in Seq(O) /\ Len(one) = 1 /\ one[1] = Own  BY <2>2, <2>3
  <2>5. DOMAIN one = 1..1  BY <2>4, LenProperties
  <2>6. \A v : v \in ToSet(one) => v = Own  BY <2>4, <2>5 DEF ToSet
  <2>7. QED  BY <2>2, <2>4, <2>6 DEF Sequence
<1>7. f \in [K -> 1..n] /\ \A k \in K : f[k] = k  OBVIOUS
<1>8. \A i : i \in held <=>
        /\ i \in 1..n /\ lines[i][1] = "key" /\ lines[i][2] = "dir"
        /\ GroupAt(lines, i) = "defaults"
  BY <1>1, HeldIs
<1> HIDE DEF f, T, line, G
\* Either way the line is where the group is.
<1>9. ASSUME NEW new, new \in Seq(T), NEW at \in 1..Len(new), Match(f, K, new, lines),
             new[at] = line, GroupAt(new, at) = "defaults",
             \A k \in 1..Len(new) : k # at => (k \in K /\ new[k] = lines[k]) \/ new[k] = G
      PROVE  Listed(new) /\ Foreign("mime", new) \subseteq Foreign("mime", lines)
  <2>1. DOMAIN new = 1..Len(new)  BY <1>9, LenProperties
  <2>2. Listed(new)
    <3>1. Sequence(new)  BY <1>9 DEF Sequence
    <3>2. ASSUME NEW k \in 1..Len(new), new[k][1] = "key" PROVE Sequence(new[k][3])
      <4>1. CASE k = at  BY <1>5, <1>6, <1>9, <4>1
      <4>2. CASE k # at
        <5>1. k \in K /\ new[k] = lines[k]  BY <1>5, <1>9, <3>2, <4>2
        <5>2. QED  BY <1>4, <3>2, <5>1 DEF Listed
      <4>3. QED  BY <4>1, <4>2
    <3>3. QED  BY <2>1, <3>1, <3>2 DEF Listed
  <2>3. ASSUME NEW k \in 1..Len(new), NEW v, Gives(new, k, v)
        PROVE  \/ OursIn("mime", Value(new, k, v))
               \/ k \in K /\ lines[f[k]][2] = new[k][2] /\ Gives(lines, f[k], v)
    <3>1. CASE k = at
      <4>1. v = Own  BY <1>5, <1>6, <1>9, <2>3, <3>1 DEF Gives
      <4>2. Value(new, k, v) = <<"defaults", "dir", Own>>  BY <1>5, <1>9, <3>1, <4>1 DEF Value
      <4>3. QED  BY <4>2 DEF OursIn
    <3>2. CASE k # at
      <4>1. k \in K /\ new[k] = lines[k]  BY <1>5, <1>9, <2>3, <3>2 DEF Gives
      <4>2. QED  BY <1>7, <2>3, <4>1 DEF Gives
    <3>3. QED  BY <3>1, <3>2
  <2> HIDE DEF K
  <2>4. QED  BY <1>1, <1>9, <2>2, <2>3, ForeignSub
<1>10. CASE held # {}
  <2> DEFINE new == ReplaceAt(lines, first, line)
  <2>1. XdgDefault(lines) = new  BY <1>10 DEF XdgDefault, line
  <2>2. first \in held
    <3>1. held \in SUBSET Nat  BY <1>8
    <3> HIDE DEF held
    <3>2. QED  BY <1>10, <3>1, LeastOf
  <2> HIDE DEF first, held
  <2>3. first \in 1..n /\ lines[first][1] = "key" /\ GroupAt(lines, first) = "defaults"
    BY <1>8, <2>2
  <2>4. /\ new \in Seq(T) /\ Len(new) = n /\ new[first] = line
        /\ \A j \in 1..n : j # first => new[j] = lines[j]
    BY <1>2, <1>3, <1>4, <2>3, ExceptSeq DEF ReplaceAt
  <2> HIDE DEF new
  <2>5. Match(f, K, new, lines)
    <3>1. (1..Len(new)) \ K = {} /\ K \subseteq 1..Len(new)  BY <2>4
    <3>2. \A i, j \in K : i < j => f[i] < f[j]  BY <1>7
    <3>3. ASSUME NEW k \in K, new[k][1] = "group" \/ lines[f[k]][1] = "group"
          PROVE  new[k] = lines[f[k]]
      <4>1. f[k] = k /\ k \in 1..n  BY <1>7
      <4>2. k # first  BY <1>5, <2>3, <2>4, <3>3, <4>1
      <4>3. QED  BY <2>4, <4>1, <4>2
    <3>4. \A i \in 1..n : \E k \in K : f[k] = i  BY <1>7
    <3> HIDE DEF K
    <3>5. QED  BY <1>7, <3>1, <3>2, <3>3, <3>4 DEF Match
  <2>6. GroupAt(new, first) = "defaults"
    <3>1. first \in K /\ f[first] = first  BY <1>7, <2>3
    <3> HIDE DEF K
    <3>2. GroupAt(new, first) = GroupAt(lines, f[first])  BY <1>1, <2>4, <2>5, <3>1, SameGroup
    <3>3. QED  BY <2>3, <3>1, <3>2
  <2>7. first \in 1..Len(new)  BY <2>3, <2>4
  <2>8. \A k \in 1..Len(new) : k # first => (k \in K /\ new[k] = lines[k]) \/ new[k] = G
    BY <2>4
  <2>9. Listed(new) /\ Foreign("mime", new) \subseteq Foreign("mime", lines)
    BY <1>9, <2>4, <2>5, <2>6, <2>7, <2>8
  <2>10. QED  BY <2>1, <2>9
<1>11. CASE held = {}
  <2> DEFINE tail == <<G, line>>
             new == lines \o tail
  <2>1. tail \in Seq(T) /\ Len(tail) = 2 /\ tail[1] = G /\ tail[2] = line  BY <1>3
  <2>2. XdgDefault(lines) = new  BY <1>11 DEF XdgDefault, line, G
  <2> HIDE DEF tail
  <2>3. /\ new \in Seq(T) /\ Len(new) = n + 2
        /\ \A i \in 1..(n + 2) : new[i] = IF i <= n THEN lines[i] ELSE tail[i - n]
    <3>1. /\ new \in Seq(T) /\ Len(new) = n + Len(tail)
          /\ \A i \in 1..(n + Len(tail)) : new[i] = IF i <= n THEN lines[i] ELSE tail[i - n]
      BY <1>2, <2>1, ConcatProperties, Zenon
    <3>2. QED  BY <2>1, <3>1, Zenon
  <2> HIDE DEF new
  <2>4. new[n + 1] = G /\ new[n + 2] = line /\ \A i \in 1..n : new[i] = lines[i]
    <3>1. new[n + 1] = tail[(n + 1) - n] /\ new[n + 2] = tail[(n + 2) - n]  BY <1>4, <2>3
    <3>2. (n + 1) - n = 1 /\ (n + 2) - n = 2  BY <1>4
    <3>3. \A i \in 1..n : new[i] = lines[i]  BY <1>4, <2>3
    <3>4. QED  BY <2>1, <3>1, <3>2, <3>3
  <2>5. Match(f, K, new, lines)
    <3>1. K \subseteq 1..Len(new)  BY <1>4, <2>3
    <3>2. \A i, j \in K : i < j => f[i] < f[j]  BY <1>7
    <3>3. \A k \in K : new[k] = lines[f[k]]  BY <1>7, <2>4
    <3>4. \A i \in 1..n : \E k \in K : f[k] = i  BY <1>7
    <3>5. \A j \in (1..Len(new)) \ K : \A k \in K : k < j  BY <1>4, <2>3
    <3> HIDE DEF K
    <3>6. QED  BY <1>7, <3>1, <3>2, <3>3, <3>4, <3>5 DEF Match
  <2>6. PICK at : at = n + 2  OBVIOUS
  <2>7. at \in 1..Len(new) /\ at \in Nat /\ new[at] = line  BY <1>4, <2>3, <2>4, <2>6
  <2>8. GroupAt(new, at) = "defaults"
    <3>1. n + 1 \in 1..at  BY <1>4, <2>6
    <3>2. \A j \in 1..at : j > n + 1 => new[j][1] # "group"
      <4> SUFFICES ASSUME NEW j \in 1..at, j > n + 1 PROVE new[j][1] # "group"  OBVIOUS
      <4>1. j = at  BY <1>4, <2>6
      <4>2. QED  BY <1>5, <2>7, <4>1
    <3>3. HeadAt(new, at, n + 1)  BY <1>5, <2>4, <3>1, <3>2 DEF HeadAt
    <3>4. QED  BY <1>5, <2>4, <2>7, <3>3, GroupIs
  <2>9. ASSUME NEW k \in 1..Len(new), k # at PROVE (k \in K /\ new[k] = lines[k]) \/ new[k] = G
    <3>1. k \in 1..n \/ k = n + 1  BY <1>4, <2>3, <2>6, <2>9
    <3>2. QED  BY <2>4, <3>1
  <2>10. Listed(new) /\ Foreign("mime", new) \subseteq Foreign("mime", lines)
    BY <1>9, <2>3, <2>5, <2>7, <2>8, <2>9
  <2>11. QED  BY <2>2, <2>10
<1>12. QED  BY <1>10, <1>11

LEMMA NoKeys ==
  ASSUME NEW lines, Sequence(lines), \A i \in DOMAIN lines : lines[i][1] # "key", NEW file
  PROVE  Foreign(file, lines) = {}
BY PairsAre DEF Foreign, Gives

-----------------------------------------------------------------------------
(* The write and the rename.                                               *)

LEMMA WriteGood ==
  ASSUME IInv, NEW p \in Commands, WriteNew(p)
  PROVE  Good(p)
<1>1. cmd[p].pc = "write" /\ UNCHANGED loaded /\ Calm  BY DEF WriteNew
<1>2. CASE WriteFails(p)  BY <1>1, <1>2, FailGood
<1>3. CASE cmd' = [cmd EXCEPT ![p].pc = "rename"] /\ UNCHANGED disk
  <2>1. Shaped  BY DEF IInv
  <2>2. /\ Moves(p) /\ cmd'[p].lost = cmd[p].lost /\ cmd'[p].back = cmd[p].back
    BY <1>3, <2>1, GoesIs DEF Stages
  <2>3. /\ cmd'[p].todo = cmd[p].todo /\ cmd'[p].pc = "rename"
        /\ cmd'[p].next = cmd[p].next /\ cmd'[p].seen = cmd[p].seen
    BY <1>3, <2>1, GoesIs DEF Stages
  <2>4. FileOf(p)' = FileOf(p)  BY <2>3 DEF FileOf
  <2>5. Stage(p)  BY DEF IInv
  <2>6. Stage(p)'  BY <1>1, <2>2, <2>3, <2>4, <2>5 DEF Stage, Moves
  <2>7. Texts'  BY <1>3, SameFiles
  <2>8. ASSUME Busy(p), Counts(p)' PROVE Fine(p)'
    <3>1. Fine(p)  BY <1>1, <2>2, <2>8, CountsBefore DEF IInv, Calm
    <3>2. box' = box /\ loaded' = loaded /\ disk' = disk  BY <1>1, <1>3 DEF Calm
    <3>3. \A lines : Loads(lines)' <=> Loads(lines)  BY <3>2 DEF Loads, Refused
    <3>4. /\ ~cmd[p].back =>
               /\ Loads(loaded)' /\ Loads(Content(disk, "bindings"))'
               /\ FileOf(p) = "bindings" => /\ cmd[p].on => Loads(cmd[p].seen)'
                                            /\ ~cmd[p].on => Loads(cmd[p].next)'
          /\ cmd[p].back => Loads(cmd[p].next)'
      BY <1>1, <2>3, <3>1, <3>2 DEF Fine, Loads, Refused
    <3>5. QED  BY <2>2, <2>3, <2>4, <3>4 DEF Fine, Moves
  <2>9. QED  BY <1>1, <2>2, <2>6, <2>7, <2>8 DEF Good, Calm
<1>4. QED  BY <1>2, <1>3 DEF WriteNew

LEMMA RenameGood ==
  ASSUME IInv, NEW p \in Commands, Rename(p)
  PROVE  Good(p)
<1>1. cmd[p].pc = "rename" /\ UNCHANGED loaded /\ Calm /\ Shaped /\ Stage(p)
  BY DEF Rename, IInv
<1>2. loaded' = loaded /\ box' = box /\ reach' = reach  BY <1>1 DEF Calm
<1>3. CASE WriteFails(p)  BY <1>1, <1>3, FailGood
<1>4. CASE /\ disk' = [disk EXCEPT !["bindings"] = <<cmd[p].next>>] /\ FileOf(p) = "bindings"
           /\ cmd' = [cmd EXCEPT ![p].pc = "reload"]
  <2>1. /\ Moves(p) /\ cmd'[p].lost = cmd[p].lost /\ cmd'[p].back = cmd[p].back
    BY <1>1, <1>4, GoesIs DEF Stages
  <2>2. /\ cmd'[p].todo = cmd[p].todo /\ cmd'[p].pc = "reload" /\ cmd'[p].seen = cmd[p].seen
    BY <1>1, <1>4, GoesIs DEF Stages
  <2>3. FileOf(p)' = "bindings"  BY <1>4, <2>2 DEF FileOf
  <2>4. Stage(p)'  BY <1>1, <1>4, <2>1, <2>2, <2>3 DEF Stage, Moves
  <2>5. DOMAIN disk = FileNames /\ "bindings" \in FileNames /\ "conf" \in FileNames
    BY DEF IInv, Texts, FileNames
  <2>6. disk'["bindings"] = <<cmd[p].next>> /\ disk'["conf"] = disk["conf"] /\ DOMAIN disk' = FileNames
    BY <1>4, <2>5
  <2>7. Content(disk', "bindings") = cmd[p].next  BY <2>6 DEF Content
  <2>8. Texts'
    <3>1. Sequence(cmd[p].next)  BY <1>1, <1>4 DEF Stage
    <3>2. QED  BY <2>6, <2>7, <3>1 DEF IInv, Texts, Content
  <2>9. ASSUME Busy(p), Counts(p)' PROVE Fine(p)'
    <3>1. Fine(p)  BY <1>2, <2>1, <2>9, CountsBefore DEF IInv
    <3>2. /\ cmd[p].on /\ ~cmd[p].back => Loads(cmd[p].seen)
          /\ ~cmd[p].on \/ cmd[p].back => Loads(cmd[p].next)
      BY <1>1, <1>4, <3>1 DEF Fine
    <3>3. /\ cmd[p].on /\ ~cmd[p].back => Loads(cmd[p].seen)'
          /\ ~cmd[p].on \/ cmd[p].back => Loads(Content(disk, "bindings"))'
      BY <1>2, <2>2, <2>7, <3>2 DEF Loads, Refused
    <3>4. QED  BY <2>1, <2>2, <3>3 DEF Fine, Moves
  <2>10. QED  BY <1>2, <2>1, <2>4, <2>8, <2>9 DEF Good
<1>5. ASSUME FileOf(p) # "bindings", disk' = [disk EXCEPT ![FileOf(p)] = <<cmd[p].next>>],
             NEW ok \in BOOLEAN, Done(p, ok)
      PROVE  Good(p)
  <2>1. DOMAIN disk = FileNames /\ "bindings" \in FileNames /\ "conf" \in FileNames
    BY DEF IInv, Texts, FileNames
  <2>2. /\ disk'["bindings"] = disk["bindings"] /\ DOMAIN disk' = FileNames
        /\ disk'["conf"] = IF FileOf(p) = "conf" THEN <<cmd[p].next>> ELSE disk["conf"]
    BY <1>5, <2>1
  <2>3. FileOf(p) = "conf" => Keyed(cmd[p].next)  BY <1>1 DEF Stage
  <2>4. Keyed(Content(disk', "conf"))  BY <2>2, <2>3 DEF Content, IInv, Texts
  <2>5. Content(disk', "bindings") = Content(disk, "bindings")  BY <2>2 DEF Content
  <2>6. Texts'  BY <2>2, <2>4, <2>5 DEF Texts, IInv
  <2>7. /\ Moves(p) /\ cmd'[p].lost = cmd[p].lost /\ cmd'[p].back = FALSE
        /\ cmd'[p].todo = Tail(cmd[p].todo)
        /\ cmd'[p].pc = IF Tail(cmd[p].todo) = <<>> THEN "ended" ELSE "next"
    BY <1>1, <1>5, DoneIs
  <2>8. Stage(p)'  BY <2>7 DEF Stage
  <2>9. ASSUME Busy(p), Counts(p)' PROVE Fine(p)'
    <3>1. Fine(p)  BY <1>2, <2>7, <2>9, CountsBefore DEF IInv
    <3>2. Loads(loaded) /\ Loads(Content(disk, "bindings"))
      BY <1>1, <1>5, <3>1 DEF Fine, Stage
    <3>3. Loads(loaded)' /\ Loads(Content(disk, "bindings"))'
      BY <1>2, <2>5, <3>2 DEF Loads, Refused
    <3>4. QED  BY <2>7, <3>3 DEF Fine
  <2>10. QED  BY <1>2, <2>6, <2>7, <2>8, <2>9 DEF Good
<1>6. QED
  <2>1. \/ WriteFails(p)
        \/ /\ disk' = [disk EXCEPT !["bindings"] = <<cmd[p].next>>] /\ FileOf(p) = "bindings"
           /\ cmd' = [cmd EXCEPT ![p].pc = "reload"]
        \/ /\ FileOf(p) # "bindings" /\ disk' = [disk EXCEPT ![FileOf(p)] = <<cmd[p].next>>]
           /\ \E ok \in {TRUE, FileOf(p) # "mime"} : Done(p, ok)
    BY DEF Rename
  <2>2. {TRUE, FileOf(p) # "mime"} \subseteq BOOLEAN  OBVIOUS
  <2>3. QED  BY <1>3, <1>4, <1>5, <2>1, <2>2

-----------------------------------------------------------------------------
(* The invariant is inductive.                                             *)

LEMMA GoodKeeps ==
  ASSUME IInv, NEW p \in Commands, Busy(p), Good(p)
  PROVE  IInv'
<1>1. Shaped' /\ Texts' /\ Stage(p)' /\ \A q \in Commands \ {p} : cmd'[q] = cmd[q]
  BY DEF Good, Moves
<1>2. ASSUME NEW q \in Commands \ {p} PROVE Stage(q)'
  BY <1>1, <1>2 DEF IInv, Stage, FileOf
<1>3. \A q \in Commands \ {p} : ~cmd[q].alone /\ ~cmd'[q].alone
  BY <1>1 DEF IInv, Alone
<1>4. Alone'
  <2> SUFFICES ASSUME NEW r \in Commands, NEW q \in Commands, r # q, cmd'[r].alone
               PROVE  ~Busy(q)'
    BY DEF Alone
  <2>1. r = p /\ q # p  BY <1>3
  <2>2. cmd[p].alone  BY <2>1 DEF Good, Moves
  <2>3. ~Busy(q)  BY <2>1, <2>2 DEF IInv, Alone
  <2>4. QED  BY <1>1, <2>1, <2>3 DEF Busy
<1>5. Busy(p) /\ Counts(p)' => Fine(p)'  BY DEF Good
<1>6. \A q \in Commands : Busy(q)' /\ Counts(q)' => Fine(q)'
  BY <1>3, <1>5 DEF Counts
<1>7. QED  BY <1>1, <1>2, <1>4, <1>6 DEF IInv

LEMMA IdleIs ==
  /\ Idle.pc = "idle" /\ Idle.todo = <<>>
  /\ ~Idle.back
  /\ ~Idle.alone
  /\ \A V : <<>> \in V => Idle \in CmdOf(V)
  BY DEF Idle, CmdOf, Stages

LEMMA DiesKeeps ==
  ASSUME IInv, NEW p \in Commands, Dies(p)
  PROVE  IInv'
<1>1. PICK V : cmd \in [Commands -> CmdOf(V)]  BY DEF IInv, Shaped
<1> DEFINE W == V \cup {<<>>}
<1>2. cmd \in [Commands -> CmdOf(W)] /\ Idle \in CmdOf(W)  BY <1>1, Wider, IdleIs
<1> HIDE DEF W
<1>3. cmd' = [cmd EXCEPT ![p] = Idle]  BY DEF Dies
<1>4. cmd' \in [Commands -> CmdOf(W)]  BY <1>2, <1>3
<1>5. cmd'[p] = Idle /\ \A q \in Commands \ {p} : cmd'[q] = cmd[q]  BY <1>2, <1>3
<1>6. Busy(p) /\ disk' = disk  BY DEF Dies
<1>7. Texts'  BY <1>6, SameFiles
<1>8. ~cmd'[p].alone /\ Stage(p)'
  <2>1. cmd'[p].pc = "idle" /\ cmd'[p].todo = <<>> /\ ~cmd'[p].back /\ ~cmd'[p].alone
    BY <1>5, IdleIs
  <2>2. QED  BY <2>1 DEF Stage
<1>9. ASSUME NEW q \in Commands \ {p} PROVE Stage(q)'
  BY <1>5, <1>9 DEF IInv, Stage, FileOf
<1>10. \A q \in Commands : ~cmd'[q].alone
  <2>1. \A q \in Commands \ {p} : ~cmd[q].alone  BY <1>6 DEF IInv, Alone
  <2>2. QED  BY <1>5, <1>8, <2>1
<1>11. QED  BY <1>4, <1>7, <1>8, <1>9, <1>10 DEF IInv, Shaped, Alone, Counts

LEMMA StartKeeps ==
  ASSUME IInv, NEW p \in Commands, NEW kind \in {"default", "picker"}, NEW on \in BOOLEAN,
         Start(p, kind, on)
  PROVE  IInv'
<1> DEFINE needs == IF kind = "picker" THEN "portal" ELSE "entry"
           alone == \A q \in Commands : ~Busy(q)
           todo == IF on /\ ~Installed(needs) THEN <<>> ELSE Halves(kind, on)
           pc == IF todo = <<>> THEN "ended" ELSE "next"
           failed == todo = <<>>
           sound == ~Refused(loaded) /\ ~Refused(Content(disk, "bindings"))
           new == [Idle EXCEPT !.kind = kind, !.on = on, !.todo = todo, !.alone = alone, !.pc = pc,
                               !.failed = failed, !.sound = sound]
<1>1. /\ ~Busy(p) /\ UNCHANGED <<box, disk, loaded, reach>>
      /\ cmd' = [q \in Commands |-> IF q = p THEN new ELSE [cmd[q] EXCEPT !.alone = FALSE]]
  BY DEF Start
<1>2. alone \in BOOLEAN /\ failed \in BOOLEAN /\ sound \in BOOLEAN /\ pc \in Stages
  BY DEF Stages
<1>3. PICK V : cmd \in [Commands -> CmdOf(V)]  BY DEF IInv, Shaped
<1> DEFINE W == V \cup {<<>>, todo}
<1>4. cmd \in [Commands -> CmdOf(W)] /\ Idle \in CmdOf(W) /\ todo \in W  BY <1>3, Wider, IdleIs
<1>5. pc \in {"next", "ended"} /\ (pc = "ended" => todo = <<>>)  OBVIOUS
<1>6. sound => Loads(loaded) /\ Loads(Content(disk, "bindings"))  BY DEF Loads
<1>7. alone => \A q \in Commands : ~Busy(q)  OBVIOUS
<1> HIDE DEF needs, alone, todo, pc, failed, sound, W
<1>8. new \in CmdOf(W)  BY <1>2, <1>4 DEF CmdOf
<1>9. new.pc = pc /\ new.todo = todo /\ new.back = Idle.back /\ new.alone = alone
  BY <1>2, <1>4 DEF CmdOf
<1>10. new.sound = sound
  BY <1>2, <1>4 DEF CmdOf
<1> HIDE DEF new
<1>11. cmd'[p] = new  BY <1>1
<1>12. ASSUME NEW q \in Commands \ {p}
       PROVE  /\ cmd'[q] \in CmdOf(W) /\ ~cmd'[q].alone
              /\ cmd'[q].pc = cmd[q].pc /\ cmd'[q].todo = cmd[q].todo
              /\ cmd'[q].next = cmd[q].next /\ cmd'[q].seen = cmd[q].seen
              /\ cmd'[q].on = cmd[q].on
              /\ cmd'[q].back = cmd[q].back
  <2> DEFINE r == cmd[q]
             s == [r EXCEPT !.alone = FALSE]
  <2>1. r \in CmdOf(W)  BY <1>4
  <2>2. cmd'[q] = s  BY <1>1
  <2> HIDE DEF r
  <2>3. s \in CmdOf(W)  BY <2>1 DEF CmdOf
  <2>4. ~s.alone  BY <2>1 DEF CmdOf
  <2>5. s.pc = r.pc /\ s.todo = r.todo /\ s.next = r.next /\ s.seen = r.seen  BY <2>1 DEF CmdOf
  <2>6. s.on = r.on  BY <2>1 DEF CmdOf
  <2>7. s.back = r.back  BY <2>1 DEF CmdOf
  <2> HIDE DEF s
  <2>8. QED  BY <2>2, <2>3, <2>4, <2>5, <2>6, <2>7 DEF r
<1>13. Shaped'
  <2>1. cmd' = [q \in Commands |-> cmd'[q]]  BY <1>1
  <2>2. \A q \in Commands : cmd'[q] \in CmdOf(W)  BY <1>8, <1>11, <1>12
  <2>3. cmd' \in [Commands -> CmdOf(W)]  BY <2>1, <2>2, Zenon
  <2>4. QED  BY <2>3 DEF Shaped
<1>14. Texts'  BY <1>1, SameFiles
<1>15. Stage(p)'
  <2>1. cmd'[p].pc \in {"next", "ended"} /\ (cmd'[p].pc = "ended" => cmd'[p].todo = <<>>)
    BY <1>5, <1>9, <1>11
  <2>2. ~cmd'[p].back  BY <1>9, <1>11, IdleIs
  <2>3. QED  BY <2>1, <2>2 DEF Stage
<1>16. ASSUME NEW q \in Commands \ {p} PROVE Stage(q)'
  <2>1. Stage(q)  BY DEF IInv
  <2>2. FileOf(q)' = FileOf(q)  BY <1>12, <1>16 DEF FileOf
  <2>3. QED  BY <1>12, <1>16, <2>1, <2>2 DEF Stage
<1>17. Alone'
  <2> SUFFICES ASSUME NEW r \in Commands, NEW q \in Commands, r # q, cmd'[r].alone
               PROVE  ~Busy(q)'
    BY DEF Alone
  <2>1. r = p /\ q # p  BY <1>12
  <2>2. alone  BY <1>9, <1>11, <2>1
  <2>3. ~Busy(q)  BY <1>7, <2>2
  <2>4. QED  BY <1>12, <2>1, <2>3 DEF Busy
<1>18. ASSUME NEW q \in Commands, Counts(q)' PROVE Fine(q)'
  <2>1. q = p /\ cmd'[p].sound  BY <1>12, <1>18 DEF Counts
  <2>2. sound  BY <1>10, <1>11, <2>1
  <2>3. Loads(loaded)' /\ Loads(Content(disk, "bindings"))'
    BY <1>1, <1>6, <2>2 DEF Loads, Refused
  <2>4. cmd'[p].pc \in {"next", "ended"}  BY <1>5, <1>9, <1>11
  <2>5. QED  BY <2>1, <2>3, <2>4 DEF Fine
<1>19. QED  BY <1>13, <1>14, <1>15, <1>16, <1>17, <1>18 DEF IInv

LEMMA EditKeeps ==
  ASSUME IInv, NEW e \in Edits, UserEdits(e)
  PROVE  IInv'
<1>1. /\ \A p \in Commands : ~Busy(p)
      /\ disk' = [disk EXCEPT ![e.file] = <<Content(disk, e.file) \o e.lines>>]
      /\ cmd' = cmd /\ box' = box
  BY DEF UserEdits
<1>2. e.file \in FileNames /\ e.lines \in Seq(ToSet(e.lines))  BY DesktopAssumption DEF IsText
<1>3. DOMAIN disk = FileNames /\ "bindings" \in FileNames /\ "conf" \in FileNames
  BY DEF IInv, Texts, FileNames
<1>4. Sequence(Content(disk', "bindings"))
  <2>1. CASE e.file = "bindings"
    <3>1. disk'["bindings"] = <<Content(disk, "bindings") \o e.lines>>  BY <1>1, <1>3, <2>1
    <3>2. Content(disk', "bindings") = Content(disk, "bindings") \o e.lines
      <4>1. PICK text : text = Content(disk, "bindings") \o e.lines  OBVIOUS
      <4>2. disk'["bindings"] = <<text>>  BY <3>1, <4>1
      <4>3. Content(disk', "bindings") = text  BY <4>2 DEF Content
      <4>4. QED  BY <4>1, <4>3
    <3>3. PICK S : Content(disk, "bindings") \in Seq(S)  BY DEF IInv, Texts, Sequence
    <3> DEFINE T == S \cup ToSet(e.lines)
    <3>4. Content(disk, "bindings") \in Seq(T) /\ e.lines \in Seq(T)  BY <1>2, <3>3, SeqMonotonic
    <3> HIDE DEF T
    <3>5. Content(disk, "bindings") \o e.lines \in Seq(T)  BY <3>4, ConcatProperties
    <3>6. QED  BY <3>2, <3>5 DEF Sequence
  <2>2. CASE e.file # "bindings"
    <3>1. disk'["bindings"] = disk["bindings"]  BY <1>1, <1>3, <2>2
    <3>2. QED  BY <3>1 DEF Content, IInv, Texts
  <2>3. QED  BY <2>1, <2>2
<1>5. Keyed(Content(disk', "conf"))
  <2>1. CASE e.file = "conf"
    <3>1. disk'["conf"] = <<Content(disk, "conf") \o e.lines>>  BY <1>1, <1>3, <2>1
    <3>2. Content(disk', "conf") = Content(disk, "conf") \o e.lines
      <4>1. PICK text : text = Content(disk, "conf") \o e.lines  OBVIOUS
      <4>2. disk'["conf"] = <<text>>  BY <3>1, <4>1
      <4>3. Content(disk', "conf") = text  BY <4>2 DEF Content
      <4>4. QED  BY <4>1, <4>3
    <3>3. PICK S : Content(disk, "conf") \in Seq(S) /\ (Unquoted => Quote \notin S)
      BY DEF IInv, Texts, Keyed
    <3> DEFINE T == S \cup ToSet(e.lines)
    <3>4. Content(disk, "conf") \in Seq(T) /\ e.lines \in Seq(T)  BY <1>2, <3>3, SeqMonotonic
    <3>5. Unquoted => Quote \notin T  BY <2>1, <3>3 DEF Unquoted
    <3> HIDE DEF T
    <3>6. Content(disk, "conf") \o e.lines \in Seq(T)  BY <3>4, ConcatProperties
    <3>7. QED  BY <3>2, <3>5, <3>6 DEF Keyed
  <2>2. CASE e.file # "conf"
    <3>1. disk'["conf"] = disk["conf"]  BY <1>1, <1>3, <2>2
    <3>2. QED  BY <3>1 DEF Content, IInv, Texts
  <2>3. QED  BY <2>1, <2>2
<1>6. Texts'  BY <1>1, <1>3, <1>4, <1>5 DEF Texts
<1>7. QED  BY <1>1, <1>6 DEF IInv, Shaped, Alone, Stage, Busy, FileOf

LEMMA RestKeeps ==
  ASSUME IInv, Upgrade \/ Reachable \/ UNCHANGED vars
  PROVE  IInv'
<1>1. Texts'  BY SameFiles DEF Upgrade, Reachable, vars
<1>2. CASE Upgrade \/ UNCHANGED vars
  <2>1. box' = box /\ disk' = disk /\ loaded' = loaded /\ reach' = reach /\ cmd' = cmd
    BY <1>2 DEF Upgrade, vars
  <2>2. ASSUME NEW p \in Commands, Fine(p) PROVE Fine(p)'
    <3>1. FileOf(p)' = FileOf(p)  BY <2>1 DEF FileOf
    <3>2. Loads(loaded)' <=> Loads(loaded)  BY <2>1 DEF Loads, Refused
    <3>3. Loads(Content(disk, "bindings"))' <=> Loads(Content(disk, "bindings"))
      BY <2>1 DEF Loads, Refused
    <3>4. /\ Loads(cmd[p].seen)' <=> Loads(cmd[p].seen)
          /\ Loads(cmd[p].next)' <=> Loads(cmd[p].next)
      BY <2>1 DEF Loads, Refused
    <3>5. QED  BY <2>1, <2>2, <3>1, <3>2, <3>3, <3>4 DEF Fine
  <2>3. QED  BY <1>1, <2>1, <2>2 DEF IInv, Shaped, Alone, Stage, Busy, Counts, FileOf
<1>3. CASE Reachable
  <2>1. cmd' = [p \in Commands |-> [cmd[p] EXCEPT !.alone = FALSE]]  BY <1>3 DEF Reachable
  <2>2. PICK V : cmd \in [Commands -> CmdOf(V)]  BY DEF IInv, Shaped
  <2>3. ASSUME NEW q \in Commands
        PROVE  /\ cmd'[q] \in CmdOf(V) /\ ~cmd'[q].alone
               /\ cmd'[q].pc = cmd[q].pc /\ cmd'[q].todo = cmd[q].todo
               /\ cmd'[q].next = cmd[q].next /\ cmd'[q].seen = cmd[q].seen
               /\ cmd'[q].on = cmd[q].on
               /\ cmd'[q].back = cmd[q].back
    <3> DEFINE r == cmd[q]
               s == [r EXCEPT !.alone = FALSE]
    <3>1. r \in CmdOf(V)  BY <2>2
    <3>2. cmd'[q] = s  BY <2>1
    <3> HIDE DEF r
    <3>3. s \in CmdOf(V)  BY <3>1 DEF CmdOf
    <3>4. ~s.alone  BY <3>1 DEF CmdOf
    <3>5. s.pc = r.pc /\ s.todo = r.todo /\ s.next = r.next /\ s.seen = r.seen
      BY <3>1 DEF CmdOf
    <3>6. s.on = r.on  BY <3>1 DEF CmdOf
    <3>7. s.back = r.back  BY <3>1 DEF CmdOf
    <3> HIDE DEF s
    <3>8. QED  BY <3>2, <3>3, <3>4, <3>5, <3>6, <3>7 DEF r
  <2>4. Shaped'
    <3>1. cmd' = [q \in Commands |-> cmd'[q]]  BY <2>1
    <3>2. cmd' \in [Commands -> CmdOf(V)]  BY <2>3, <3>1, Zenon
    <3>3. QED  BY <3>2 DEF Shaped
  <2>5. ASSUME NEW q \in Commands PROVE Stage(q)'
    <3>1. Stage(q)  BY DEF IInv
    <3>2. FileOf(q)' = FileOf(q)  BY <2>3, <2>5 DEF FileOf
    <3>3. QED  BY <2>3, <2>5, <3>1, <3>2 DEF Stage
  <2>6. QED  BY <1>1, <2>3, <2>4, <2>5 DEF IInv, Alone, Counts
<1>4. QED  BY <1>2, <1>3

\* A command's own steps, once it runs.
Works(p) ==
  \/ Both(p) \/ Bindings(p) \/ ReadFails(p) \/ Reload(p) \/ Check(p)
  \/ ClaimMime(p) \/ ReleaseMime(p) \/ ClaimService(p) \/ ReleaseService(p)
  \/ ClaimChooser(p) \/ ReleaseChooser(p) \/ WriteNew(p) \/ Rename(p)

LEMMA WorksGood ==
  ASSUME IInv, NEW p \in Commands, Works(p)
  PROVE  Good(p) /\ Busy(p)
<1>1. Good(p)
  <2>1. CASE Both(p)  BY <2>1, BothGood
  <2>2. CASE Bindings(p)  BY <2>2, BindingsGood
  <2>3. CASE ReadFails(p)  BY <2>3, ReadFailsGood
  <2>4. CASE Reload(p)  BY <2>4, ReloadGood
  <2>5. CASE Check(p)  BY <2>5, CheckGood
  <2>6. CASE ClaimMime(p) \/ ReleaseMime(p)  BY <2>6, MimeGood
  <2>7. CASE ClaimService(p) \/ ReleaseService(p)  BY <2>7, ServiceGood
  <2>8. CASE ClaimChooser(p) \/ ReleaseChooser(p)  BY <2>8, ChooserGood
  <2>9. CASE WriteNew(p)  BY <2>9, WriteGood
  <2>10. CASE Rename(p)  BY <2>10, RenameGood
  <2>11. QED  BY <2>1, <2>2, <2>3, <2>4, <2>5, <2>6, <2>7, <2>8, <2>9, <2>10 DEF Works
<1>2. cmd[p].pc \in {"next", "reload", "check", "write", "rename"}
  BY DEF Works, Both, Bindings, ReadFails, Reload, Check, ClaimMime, ReleaseMime, ClaimService,
     ReleaseService, ClaimChooser, ReleaseChooser, WriteNew, Rename, Half
<1>3. QED  BY <1>1, <1>2 DEF Busy

LEMMA InitKeeps == Init => IInv
<1> SUFFICES ASSUME Init PROVE IInv  OBVIOUS
<1>1. box \in Scenarios /\ disk = box.files /\ cmd = [p \in Commands |-> Idle]  BY DEF Init
<1>2. \A p \in Commands : cmd[p] = Idle  BY <1>1
<1>3. Shaped
  <2>1. PICK V : V = {<<>>}  OBVIOUS
  <2>2. Idle \in CmdOf(V)  BY <2>1, IdleIs
  <2>3. cmd \in [Commands -> CmdOf(V)]  BY <1>1, <2>2
  <2>4. QED  BY <2>3 DEF Shaped
<1>4. /\ DOMAIN disk = FileNames
      /\ \A f \in FileNames : disk[f] # <<>> => disk[f][1] \in Seq(ToSet(disk[f][1]))
  BY <1>1, DesktopAssumption DEF IsText
<1>5. PICK S : S = {}  OBVIOUS
<1>6. Sequence(Content(disk, "bindings"))
  <2>1. CASE disk["bindings"] = <<>>
    <3>1. Content(disk, "bindings") = <<>> /\ <<>> \in Seq(S)  BY <2>1, EmptySeq DEF Content
    <3>2. QED  BY <3>1 DEF Sequence
  <2>2. CASE disk["bindings"] # <<>>
    <3>1. Content(disk, "bindings") \in Seq(ToSet(disk["bindings"][1]))
      BY <1>4, <2>2 DEF Content, FileNames
    <3>2. QED  BY <3>1 DEF Sequence
  <2>3. QED  BY <2>1, <2>2
<1>7. Keyed(Content(disk, "conf"))
  <2>1. CASE disk["conf"] = <<>>
    <3>1. Content(disk, "conf") = <<>> /\ <<>> \in Seq(S)  BY <2>1, EmptySeq DEF Content
    <3>2. Quote \notin S  BY <1>5
    <3>3. QED  BY <3>1, <3>2 DEF Keyed
  <2>2. CASE disk["conf"] # <<>>
    <3>1. Content(disk, "conf") \in Seq(ToSet(disk["conf"][1]))
      BY <1>4, <2>2 DEF Content, FileNames
    <3>2. Unquoted => Quote \notin ToSet(disk["conf"][1])  BY <1>1, <2>2 DEF Unquoted
    <3>3. QED  BY <3>1, <3>2 DEF Keyed
  <2>3. QED  BY <2>1, <2>2
<1>8. \A p \in Commands : /\ cmd[p].pc = "idle" /\ cmd[p].todo = <<>>
                           /\ ~cmd[p].back /\ ~cmd[p].alone
  BY <1>2, IdleIs
<1>9. QED  BY <1>3, <1>4, <1>6, <1>7, <1>8 DEF IInv, Texts, Stage, Alone, Busy

LEMMA NextKeeps == IInv /\ [Next]_vars => IInv'
<1> SUFFICES ASSUME IInv, [Next]_vars PROVE IInv'  OBVIOUS
<1>1. ASSUME NEW p \in Commands, Step(p) PROVE IInv'
  <2>1. CASE \E kind \in {"default", "picker"}, on \in BOOLEAN : Start(p, kind, on)
    BY <2>1, StartKeeps
  <2>2. CASE Dies(p)  BY <2>2, DiesKeeps
  <2>3. CASE Works(p)  BY <2>3, WorksGood, GoodKeeps
  <2>4. QED  BY <1>1, <2>1, <2>2, <2>3 DEF Step, Works
<1>2. ASSUME NEW e \in Edits, UserEdits(e) PROVE IInv'  BY <1>2, EditKeeps
<1>3. CASE Upgrade \/ Reachable \/ UNCHANGED vars  BY <1>3, RestKeeps
<1>4. QED  BY <1>1, <1>2, <1>3 DEF Next

\* What every command has with it at each of its stages: the lines it is to
\* write, the text it read before, and while it runs alone which of the texts
\* Hyprland loads (hyprkeys.rs, chooser.rs, userfile.rs).
THEOREM StagesHold == Spec => []IInv
BY InitKeeps, NextKeeps, PTL DEF Spec

-----------------------------------------------------------------------------
(* What a claim comes to.                                                  *)

\* Who ends does so by a step of its own, and what it ends on is in the
\* invariant after the step.
LEMMA WhoEnds ==
  ASSUME IInv, [Next]_vars, NEW p \in Commands, Busy(p), cmd'[p].pc = "ended"
  PROVE  Works(p)
<1>1. ASSUME cmd'[p].pc = cmd[p].pc PROVE FALSE  BY <1>1 DEF Busy
<1>2. ASSUME NEW q \in Commands, Step(q) PROVE Works(p)
  <2>1. CASE \E kind \in {"default", "picker"}, on \in BOOLEAN : Start(q, kind, on)
    <3>1. PICK kind \in {"default", "picker"}, on \in BOOLEAN : Start(q, kind, on)  BY <2>1
    <3>2. q # p  BY <3>1 DEF Start
    <3>3. cmd'[p] = [cmd[p] EXCEPT !.alone = FALSE]  BY <3>1, <3>2 DEF Start
    <3>4. PICK V : cmd \in [Commands -> CmdOf(V)]  BY DEF IInv, Shaped
    <3>5. cmd'[p].pc = cmd[p].pc  BY <3>3, <3>4 DEF CmdOf
    <3>6. QED  BY <1>1, <3>5
  <2>2. CASE Dies(q)
    <3>1. PICK V : cmd \in [Commands -> CmdOf(V)]  BY DEF IInv, Shaped
    <3>2. cmd'[p] = Idle \/ cmd'[p] = cmd[p]  BY <2>2, <3>1 DEF Dies
    <3>3. QED  BY <1>1, <3>2, IdleIs
  <2>3. CASE Works(q)
    <3>1. q # p => cmd'[p] = cmd[p]  BY <2>3, WorksGood DEF Good, Moves
    <3>2. QED  BY <1>1, <2>3, <3>1
  <2>4. QED  BY <1>2, <2>1, <2>2, <2>3 DEF Step, Works
<1>3. ASSUME NEW e \in Edits, UserEdits(e) PROVE FALSE  BY <1>1, <1>3 DEF UserEdits
<1>4. CASE Upgrade \/ UNCHANGED vars  BY <1>1, <1>4 DEF Upgrade, vars
<1>5. CASE Reachable
  <2>1. PICK V : cmd \in [Commands -> CmdOf(V)]  BY DEF IInv, Shaped
  <2>2. cmd'[p] = [cmd[p] EXCEPT !.alone = FALSE]  BY <1>5 DEF Reachable
  <2>3. cmd'[p].pc = cmd[p].pc  BY <2>1, <2>2 DEF CmdOf
  <2>4. QED  BY <1>1, <2>3
<1>6. QED  BY <1>2, <1>3, <1>4, <1>5 DEF Next

\* A claim that began on a config that loads ends on one, when nothing else ran
\* meanwhile and the way back could be written, whatever the block, the files,
\* the failures and the edits (hyprkeys.rs "Never leave a config that does not
\* load").
THEOREM ConfigLoads == Spec => LeavesItLoading
<1> DEFINE EndsLoading ==
      \A p \in Commands :
        (Busy(p) /\ cmd'[p].pc = "ended" /\ cmd[p].alone /\ cmd[p].sound /\ ~cmd'[p].lost)
        => ~Refused(loaded') \/ ~reach
<1>1. IInv /\ [Next]_vars => EndsLoading
  <2> SUFFICES ASSUME IInv, [Next]_vars, NEW p \in Commands, Busy(p), cmd'[p].pc = "ended",
                      cmd[p].alone, cmd[p].sound, ~cmd'[p].lost, reach
               PROVE  ~Refused(loaded')
    OBVIOUS
  <2>1. Good(p)  BY WhoEnds, WorksGood
  <2>2. Counts(p)'  BY <2>1 DEF Good, Moves, Counts
  <2>3. Fine(p)'  BY <2>1, <2>2 DEF Good
  <2>4. Loads(loaded)'  BY <2>3 DEF Fine
  <2>5. box' = box  BY <2>1 DEF Good
  <2>6. QED  BY <2>4, <2>5 DEF Loads, Refused
<1>2. QED  BY <1>1, StagesHold, PTL DEF Spec, LeavesItLoading

\* A claim none of whose halves failed ends with its line in its group of
\* portals.conf, when no comment quotes the group's heading (chooser.rs
\* set_preferred "Returns the file with `key=value` in [preferred]").
THEOREM ClaimTook == Unquoted => (Spec => ClaimTakes)
<1> SUFFICES ASSUME Unquoted PROVE Spec => ClaimTakes
  OBVIOUS
<1> DEFINE Takes ==
      \A p \in Commands :
        (cmd[p].todo # <<>> /\ Head(cmd[p].todo) = "routing" /\ On(p)
           /\ cmd'[p].pc = "ended" /\ ~cmd'[p].failed)
        => \E i \in Held(Content(disk', "conf"), "preferred", "chooser") :
             Content(disk', "conf")[i] = ChooserLine
<1>1. IInv /\ [Next]_vars => Takes
  <2> SUFFICES ASSUME IInv, [Next]_vars, NEW p \in Commands, cmd[p].todo # <<>>,
                      Head(cmd[p].todo) = "routing", On(p), cmd'[p].pc = "ended", ~cmd'[p].failed
               PROVE  Taken(Content(disk', "conf"))
    BY DEF Taken
  <2>1. Shaped /\ Stage(p) /\ "conf" \in DOMAIN disk /\ Keyed(Content(disk, "conf"))
    BY DEF IInv, Texts, FileNames
  <2>2. FileOf(p) = "conf"  BY DEF FileOf
  <2>3. Works(p)
    <3>1. Busy(p)  BY <2>1 DEF Busy, Stage
    <3>2. QED  BY <3>1, WhoEnds
  <2>4. ASSUME Done(p, FALSE) PROVE FALSE  BY <2>1, <2>4, DoneIs
  <2>5. ASSUME WriteFails(p) PROVE FALSE  BY <2>1, <2>5, FailsIs
  <2>6. CASE ClaimChooser(p)
    <3> DEFINE text == Text(p)
               heading == <<<<"group", "preferred">>, ChooserLine>>
               next == SetPreferred(text)
    <3>1. Keyed(text) /\ text = Content(disk, "conf")  BY <2>1, <2>2 DEF Text
    <3>2. \/ disk' = [disk EXCEPT !["conf"] = <<heading>>]
          \/ UNCHANGED disk /\ next = text
          \/ Replaces(p, next)
      BY <2>2, <2>4, <2>6 DEF ClaimChooser, Creates
    <3>3. CASE disk' = [disk EXCEPT !["conf"] = <<heading>>]
      <4>1. Taken(heading)
        <5>1. PICK S : S = {}  OBVIOUS
        <5>2. <<>> \in Seq(S) /\ Quote \notin S  BY <5>1, EmptySeq
        <5>3. Keyed(<<>>)  BY <5>2 DEF Keyed
        <5>4. ~QuotesGroup(<<>>)  BY DEF QuotesGroup
        <5>5. PICK T : T = {<<"group", "preferred">>, ChooserLine}  OBVIOUS
        <5>6. heading \in Seq(T)  BY <5>5
        <5>7. <<>> \o heading = heading  BY <5>6, ConcatEmptySeq
        <5>8. SetPreferred(<<>>) = heading  BY <5>4, <5>7 DEF SetPreferred
        <5>9. QED  BY <5>3, <5>8, SetTakes
      <4> HIDE DEF heading
      <4>2. disk'["conf"] = <<heading>>  BY <2>1, <3>3
      <4>3. Content(disk', "conf") = heading  BY <4>2 DEF Content
      <4>4. QED  BY <4>1, <4>3
    <3>4. CASE UNCHANGED disk /\ next = text
      <4>1. Taken(text)  BY <3>1, <3>4, SetTakes
      <4>2. QED  BY <3>1, <3>4, <4>1
    <3>5. CASE Replaces(p, next)
      <4> HIDE DEF next
      <4>1. cmd'[p].pc = "write"  BY <2>1, <3>5, ReplacesIs
      <4>2. QED  BY <4>1
    <3>6. QED  BY <3>2, <3>3, <3>4, <3>5
  <2>7. CASE Rename(p)
    <3>1. disk' = [disk EXCEPT !["conf"] = <<cmd[p].next>>] /\ cmd[p].pc = "rename"
      BY <2>2, <2>5, <2>7 DEF Rename
    <3>2. disk'["conf"] = <<cmd[p].next>>  BY <2>1, <3>1
    <3>3. Content(disk', "conf") = cmd[p].next  BY <3>2 DEF Content
    <3>4. Taken(cmd[p].next)  BY <2>1, <2>2, <3>1 DEF Stage, On
    <3>5. QED  BY <3>3, <3>4
  <2>8. CASE WriteNew(p)
    <3>1. cmd' = [cmd EXCEPT ![p].pc = "rename"]  BY <2>5, <2>8 DEF WriteNew
    <3>2. cmd'[p].pc = "rename"  BY <2>1, <3>1, GoesIs DEF Stages
    <3>3. QED  BY <3>2
  <2>9. CASE ReadFails(p)  BY <2>4, <2>9 DEF ReadFails
  <2>10. CASE Reload(p) \/ Check(p)  BY <2>1, <2>2, <2>10 DEF Stage, Reload, Check
  <2>11. CASE ReleaseChooser(p)  BY <2>11 DEF ReleaseChooser
  <2>12. QED
    <3>1. ~(\/ Both(p) \/ Bindings(p) \/ ClaimMime(p) \/ ReleaseMime(p)
            \/ ClaimService(p) \/ ReleaseService(p))
      BY DEF Both, Bindings, ClaimMime, ReleaseMime, ClaimService, ReleaseService, Half
    <3>2. QED
      BY <2>3, <2>6, <2>7, <2>8, <2>9, <2>10, <2>11, <3>1 DEF Works
<1>2. QED  BY <1>1, StagesHold, PTL DEF Spec, ClaimTakes

-----------------------------------------------------------------------------
(* What the user and other programs wrote is in the files, and in the      *)
(* lines a command is to write.                                            *)

\* No line of the user's is between the markers of a block at first, and
\* nothing the user appends ends one.
Framed ==
  /\ \A s \in Scenarios : s.files["bindings"] # <<>> => Apart(s.files["bindings"][1])
  /\ \A e \in Edits : e.file = "bindings" =>
       \A b \in Blocks : \A i \in DOMAIN e.lines : e.lines[i] # <<"end", b>>

\* No block begins twice at first, and nothing the user appends begins one.
Once ==
  /\ \A s \in Scenarios : s.files["bindings"] # <<>> => Single(s.files["bindings"][1])
  /\ \A e \in Edits : e.file = "bindings" => \A b \in Blocks : ~HasBlock(e.lines, b)

Fits(file, lines) ==
  /\ file = "bindings" => /\ Framed => Apart(lines) /\ UserLines(lines) = user.wrote.bindings
                          /\ Once => Single(lines)
  /\ file = "conf" /\ Unquoted => Foreign("conf", lines) = user.wrote.conf
  /\ file = "mime" => /\ Listed(lines) /\ user.left \subseteq Foreign("mime", lines)
                      /\ Foreign("mime", lines) \subseteq user.wrote.mime
  /\ file = "service" => OwnService(lines) /\ user.wrote.service = <<>>

Texted == {"bindings", "conf", "mime"}
Lines(file) == IF file = <<>> THEN <<>> ELSE file[1]
OnDisk ==
  /\ \A name \in Texted : Fits(name, Lines(disk[name]))
  /\ user.wrote.service = IF OwnService(Lines(disk["service"])) THEN <<>> ELSE disk["service"]

Holds(p) ==
  /\ cmd[p].pc \in {"write", "rename"} => Fits(FileOf(p), cmd[p].next)
  /\ cmd[p].pc \in {"write", "rename", "reload", "check"} /\ cmd[p].on /\ FileOf(p) = "bindings" =>
       Fits("bindings", cmd[p].seen)

Noted == \E w, l : user = [wrote |-> w, left |-> l]
Stands == IInv /\ Noted /\ OnDisk /\ \A p \in Commands : Holds(p)

\* What a step leaves of the history.
Less == Noted' /\ user'.wrote = user.wrote /\ user'.left \subseteq user.left
Saves(p) == Less /\ OnDisk' /\ Holds(p)'

LEMMA SameNotes ==
  ASSUME Noted, UNCHANGED user
  PROVE  Less
<1>1. PICK w, l : user = [wrote |-> w, left |-> l]  BY DEF Noted
<1>2. user' = [wrote |-> w, left |-> l]  BY <1>1
<1>3. QED  BY <1>2 DEF Noted, Less

LEMMA FitsStill ==
  ASSUME Less, NEW file, NEW lines, Fits(file, lines)
  PROVE  Fits(file, lines)'
BY DEF Fits, Less

LEMMA SameDisk ==
  ASSUME OnDisk, Noted, UNCHANGED <<disk, user>>
  PROVE  Less /\ OnDisk'
<1>1. Less  BY SameNotes
<1>2. \A name \in Texted : Fits(name, Lines(disk[name]))'  BY DEF OnDisk, Fits
<1>3. QED  BY <1>1, <1>2 DEF OnDisk

LEMMA OneFile ==
  ASSUME OnDisk, Less, DOMAIN disk = FileNames, NEW name \in FileNames, NEW file,
         disk' = [disk EXCEPT ![name] = file],
         name \in Texted => Fits(name, Lines(file))',
         name = "service" =>
           user.wrote.service = IF OwnService(Lines(file)) THEN <<>> ELSE file
  PROVE  OnDisk'
<1>1. disk'[name] = file /\ \A other \in FileNames \ {name} : disk'[other] = disk[other]
  OBVIOUS
<1>2. Texted \subseteq FileNames /\ "service" \in FileNames /\ "service" \notin Texted
  BY DEF Texted, FileNames
<1>3. ASSUME NEW other \in Texted PROVE Fits(other, Lines(disk[other]))'
  <2>1. CASE other = name  BY <1>1, <2>1
  <2>2. CASE other # name
    <3>1. PICK lines : lines = Lines(disk[other])  OBVIOUS
    <3>2. Fits(other, lines)  BY <3>1 DEF OnDisk
    <3>3. Fits(other, lines)'  BY <3>2, FitsStill
    <3>4. Lines(disk[other])' = lines  BY <1>1, <1>2, <2>2, <3>1
    <3>5. QED  BY <3>3, <3>4
  <2>3. QED  BY <2>1, <2>2
<1>4. user'.wrote.service = IF OwnService(Lines(disk'["service"])) THEN <<>> ELSE disk'["service"]
  <2>1. CASE name = "service"  BY <1>1, <2>1 DEF Less
  <2>2. CASE name # "service"
    <3>1. disk'["service"] = disk["service"]  BY <1>1, <1>2, <2>2
    <3>2. QED  BY <3>1 DEF Less, OnDisk
  <2>3. QED  BY <2>1, <2>2
<1>5. QED  BY <1>3, <1>4 DEF OnDisk

LEMMA RestHolds ==
  ASSUME NEW p \in Commands, cmd'[p].pc \notin {"write", "rename", "reload", "check"}
  PROVE  Holds(p)'
BY DEF Holds

LEMMA DoneSaves ==
  ASSUME Stands, NEW p \in Commands, NEW ok \in BOOLEAN, Done(p, ok), Less, OnDisk'
  PROVE  Saves(p)
<1>1. Shaped  BY DEF Stands, IInv
<1>2. cmd'[p].pc \in {"next", "ended"}  BY <1>1, DoneIs
<1>3. Holds(p)'  BY <1>2, RestHolds
<1>4. QED  BY <1>3 DEF Saves

LEMMA QuietDone ==
  ASSUME Stands, NEW p \in Commands, NEW ok \in BOOLEAN, Done(p, ok), UNCHANGED <<disk, user>>
  PROVE  Saves(p)
BY SameDisk, DoneSaves DEF Stands

LEMMA ReplacesSaves ==
  ASSUME Stands, NEW p \in Commands, NEW lines, Replaces(p, lines), UNCHANGED <<disk, user>>,
         Fits(FileOf(p), lines), FileOf(p) = "bindings" => ~cmd[p].on
  PROVE  Saves(p)
<1>1. Shaped /\ OnDisk /\ Noted  BY DEF Stands, IInv
<1>2. /\ Moves(p) /\ cmd'[p].pc = "write" /\ cmd'[p].todo = cmd[p].todo
      /\ cmd'[p].next = lines
  BY <1>1, ReplacesIs
<1>3. Less /\ OnDisk'  BY <1>1, SameDisk
<1>4. FileOf(p)' = FileOf(p) /\ cmd'[p].on = cmd[p].on  BY <1>2 DEF FileOf, Moves
<1>5. PICK file : file = FileOf(p)  OBVIOUS
<1>6. Fits(file, lines)'  BY <1>3, <1>5, FitsStill
<1>7. Holds(p)'  BY <1>2, <1>4, <1>5, <1>6 DEF Holds
<1>8. QED  BY <1>3, <1>7 DEF Saves

LEMMA OnDiskIs ==
  ASSUME Stands
  PROVE  /\ \A name : Content(disk, name) = Lines(disk[name])
         /\ DOMAIN disk = FileNames
         /\ Sequence(Content(disk, "bindings")) /\ Keyed(Content(disk, "conf"))
         /\ Fits("bindings", Content(disk, "bindings")) /\ Fits("conf", Content(disk, "conf"))
         /\ Fits("mime", Content(disk, "mime"))
<1>1. \A name : Content(disk, name) = Lines(disk[name])  BY DEF Content, Lines
<1>2. Texts  BY DEF Stands, IInv
<1>3. \A name \in Texted : Fits(name, Content(disk, name))  BY <1>1 DEF Stands, OnDisk
<1>4. "bindings" \in Texted /\ "conf" \in Texted /\ "mime" \in Texted  BY DEF Texted
<1>5. QED  BY <1>1, <1>2, <1>3, <1>4 DEF Texts

LEMMA BindingsSaves ==
  ASSUME Stands, NEW p \in Commands, Bindings(p)
  PROVE  Saves(p)
<1>1. /\ FileOf(p) = "bindings" /\ cmd[p].pc = "next" /\ UNCHANGED <<disk, user>>
      /\ Shaped /\ OnDisk /\ Noted
  BY AtBindings DEF Bindings, Quiet, Calm, Stands, IInv
<1>2. PICK lines, b : lines = Text(p) /\ b = BlockOf(p)  OBVIOUS
<1>3. b \in Blocks  BY <1>2 DEF BlockOf, Blocks
<1>4. lines = Content(disk, "bindings")  BY <1>1, <1>2 DEF Text
<1>5. /\ Sequence(lines)
      /\ Framed => Apart(lines) /\ UserLines(lines) = user.wrote.bindings
      /\ Once => Single(lines)
  BY <1>4, OnDiskIs DEF Fits
<1>6. \/ Done(p, TRUE) \/ Done(p, FALSE)
      \/ /\ On(p) /\ ~HasBlock(lines, b)
         /\ cmd' = [cmd EXCEPT ![p].pc = "write", ![p].seen = lines, ![p].next = Appended(lines, b)]
      \/ ~On(p) /\ HasBlock(lines, b) /\ Cuttable(lines, b) /\ Replaces(p, Cut(lines, b))
  BY <1>2 DEF Bindings
<1>7. CASE Done(p, TRUE) \/ Done(p, FALSE)  BY <1>1, <1>7, QuietDone
<1>8. CASE /\ On(p) /\ ~HasBlock(lines, b)
           /\ cmd' = [cmd EXCEPT ![p].pc = "write", ![p].seen = lines, ![p].next = Appended(lines, b)]
  <2>1. PICK next : next = Appended(lines, b)  OBVIOUS
  <2>2. cmd' = [cmd EXCEPT ![p].pc = "write", ![p].seen = lines, ![p].next = next]
    BY <1>8, <2>1
  <2>3. /\ Moves(p) /\ cmd'[p].pc = "write" /\ cmd'[p].todo = cmd[p].todo
        /\ cmd'[p].next = next /\ cmd'[p].seen = lines
    <3>1. Moves(p)  BY <1>1, <2>2, ClaimsIs
    <3>2. PICK V : cmd \in [Commands -> CmdOf(V)]  BY <1>1 DEF Shaped
    <3>3. /\ cmd'[p].todo = cmd[p].todo /\ cmd'[p].pc = "write" /\ cmd'[p].seen = lines
          /\ cmd'[p].next = next
      BY <2>2, <3>2 DEF CmdOf
    <3>4. QED  BY <3>1, <3>3
  <2>4. FileOf(p)' = "bindings"  BY <1>1, <2>3 DEF FileOf
  <2>5. Fits("bindings", lines) /\ Fits("bindings", next)
    BY <1>3, <1>5, <1>8, <2>1, AppendedUsers, AppendedApart, AppendedSingle DEF Fits
  <2>6. Less /\ OnDisk'  BY <1>1, SameDisk
  <2>7. Fits("bindings", lines)' /\ Fits("bindings", next)'  BY <2>5, <2>6, FitsStill
  <2>8. Holds(p)'  BY <2>3, <2>4, <2>7 DEF Holds
  <2>9. QED  BY <2>6, <2>8 DEF Saves
<1>9. CASE ~On(p) /\ HasBlock(lines, b) /\ Cuttable(lines, b) /\ Replaces(p, Cut(lines, b))
  <2>1. PICK cut : cut = Cut(lines, b)  OBVIOUS
  <2>2. Fits("bindings", cut)  BY <1>3, <1>5, <1>9, <2>1, CutUsers, CutSingle DEF Fits
  <2>3. Replaces(p, cut) /\ ~cmd[p].on  BY <1>9, <2>1 DEF On
  <2>4. QED  BY <1>1, <2>2, <2>3, ReplacesSaves
<1>10. QED  BY <1>6, <1>7, <1>8, <1>9

LEMMA ReloadSaves ==
  ASSUME Stands, NEW p \in Commands, Reload(p) \/ Check(p)
  PROVE  Saves(p)
<1>1. UNCHANGED <<disk, user>> /\ Shaped /\ OnDisk /\ Noted /\ Holds(p) /\ Stage(p)
  BY DEF Reload, Check, Quiet, Calm, Stands, IInv
<1>2. Less /\ OnDisk'  BY <1>1, SameDisk
<1>3. cmd[p].pc \in {"reload", "check"} /\ FileOf(p) = "bindings"
  BY <1>1 DEF Reload, Check, Stage
<1>4. CASE \E ok \in BOOLEAN : Done(p, ok)  BY <1>1, <1>4, QuietDone
<1>5. PICK seen : seen = cmd[p].seen  OBVIOUS
<1>6. cmd[p].on => Fits("bindings", seen)'
  <2>1. cmd[p].on => Fits("bindings", seen)  BY <1>1, <1>3, <1>5 DEF Holds
  <2>2. QED  BY <1>2, <2>1, FitsStill
<1>7. CASE cmd' = [cmd EXCEPT ![p].pc = "check"]
  <2>1. /\ Moves(p) /\ cmd'[p].pc = "check" /\ cmd'[p].todo = cmd[p].todo
        /\ cmd'[p].seen = cmd[p].seen
    BY <1>1, <1>7, GoesIs DEF Stages
  <2>2. FileOf(p)' = "bindings" /\ cmd'[p].on = cmd[p].on  BY <1>3, <2>1 DEF FileOf, Moves
  <2>3. Holds(p)'  BY <1>5, <1>6, <2>1, <2>2 DEF Holds
  <2>4. QED  BY <1>2, <2>3 DEF Saves
<1>8. CASE Check(p) /\ PutBack(p)
  <2>1. /\ Moves(p) /\ cmd'[p].pc = "write" /\ cmd'[p].todo = cmd[p].todo
        /\ cmd'[p].next = cmd[p].seen /\ cmd'[p].seen = cmd[p].seen
    BY <1>1, <1>8, PutBackIs
  <2>2. FileOf(p)' = "bindings" /\ cmd'[p].on = cmd[p].on  BY <1>3, <2>1 DEF FileOf, Moves
  <2>3. cmd[p].on  BY <1>1, <1>8 DEF Check, Stage
  <2>4. Holds(p)'  BY <1>5, <1>6, <2>1, <2>2, <2>3 DEF Holds
  <2>5. QED  BY <1>2, <2>4 DEF Saves
<1>9. QED
  <2>1. \/ Done(p, TRUE) \/ Done(p, FALSE)
        \/ cmd' = [cmd EXCEPT ![p].pc = "check"]
        \/ Check(p) /\ PutBack(p)
    <3>1. CASE Reload(p)
      <4>1. \/ cmd[p].back /\ Done(p, FALSE)
            \/ ~cmd[p].back /\ reach /\ On(p) /\ cmd' = [cmd EXCEPT ![p].pc = "check"]
            \/ ~(reach /\ cmd[p].on) /\ Done(p, TRUE)
        BY <3>1 DEF Reload, On
      <4>2. QED  BY <4>1
    <3>2. CASE Check(p)
      <4>1. PutBack(p) \/ Done(p, TRUE)  BY <3>2 DEF Check
      <4>2. QED  BY <3>2, <4>1
    <3>3. QED  BY <3>1, <3>2
  <2>2. QED  BY <1>4, <1>7, <1>8, <2>1

LEMMA MimeSaves ==
  ASSUME Stands, NEW p \in Commands, ClaimMime(p) \/ ReleaseMime(p)
  PROVE  Saves(p)
<1>1. FileOf(p) = "mime" /\ OnDisk /\ Noted /\ Shaped
  BY DEF ClaimMime, ReleaseMime, Half, FileOf, Stands, IInv
<1>2. PICK lines : lines = Content(disk, "mime")  OBVIOUS
<1>3. /\ Listed(lines) /\ user.left \subseteq Foreign("mime", lines)
      /\ Foreign("mime", lines) \subseteq user.wrote.mime
  BY <1>2, OnDiskIs DEF Fits
<1>4. CASE ReleaseMime(p)
  <2>1. UNCHANGED <<disk, user>> /\ Text(p) = lines  BY <1>1, <1>2, <1>4 DEF ReleaseMime, Quiet, Calm, Text
  <2>2. PICK next : next = DropDefault(lines)  OBVIOUS
  <2>3. Done(p, TRUE) \/ Replaces(p, next)  BY <1>4, <2>1, <2>2 DEF ReleaseMime
  <2>4. Fits("mime", next)  BY <1>3, <2>2, DropDefaultKeeps DEF Fits
  <2>5. QED  BY <1>1, <2>1, <2>3, <2>4, QuietDone, ReplacesSaves
<1>5. CASE ClaimMime(p)
  <2>1. CASE Done(p, TRUE) /\ UNCHANGED <<disk, user>>  BY <2>1, QuietDone
  <2>2. CASE /\ disk' = [disk EXCEPT !["mime"] = <<XdgDefault(lines)>>]
             /\ user' = [user EXCEPT !.left = @ \cap Theirs(disk').mime]
             /\ \E ok \in BOOLEAN : Done(p, ok)
    <3>1. PICK next : next = XdgDefault(lines)  OBVIOUS
    <3>2. Listed(next) /\ Foreign("mime", next) \subseteq Foreign("mime", lines)
      BY <1>3, <3>1, XdgKeeps
    <3>3. PICK file : file = <<next>>  OBVIOUS
    <3>4. disk' = [disk EXCEPT !["mime"] = file] /\ Lines(file) = next
      BY <2>2, <3>1, <3>3 DEF Lines
    <3>5. DOMAIN disk = FileNames /\ "mime" \in FileNames  BY OnDiskIs DEF FileNames
    <3>6. Theirs(disk').mime = Foreign("mime", next)
      <4>1. Content(disk', "mime") = next  BY <3>4, <3>5 DEF Content, Lines
      <4>2. Theirs(disk').mime = {t \in Pairs(Content(disk', "mime")) : t # <<"defaults", "dir", Own>>}
        BY DEF Theirs
      <4>3. QED  BY <4>1, <4>2 DEF Foreign, OursIn
    <3>7. PICK w, l : user = [wrote |-> w, left |-> l]  BY <1>1 DEF Noted
    <3>8. user' = [wrote |-> w, left |-> l \cap Foreign("mime", next)]  BY <2>2, <3>6, <3>7
    <3>9. Less  BY <3>7, <3>8 DEF Less, Noted
    <3>10. Fits("mime", next)'
      <4>1. user'.left \subseteq Foreign("mime", next) /\ user'.wrote = user.wrote
        BY <3>7, <3>8
      <4>2. QED  BY <1>3, <3>2, <4>1 DEF Fits
    <3>11. OnDisk'  BY <1>1, <3>4, <3>5, <3>9, <3>10, OneFile
    <3>12. QED  BY <2>2, <3>9, <3>11, DoneSaves
  <2>3. \/ Done(p, TRUE) /\ UNCHANGED <<disk, user>>
        \/ /\ disk' = [disk EXCEPT !["mime"] = <<XdgDefault(lines)>>]
           /\ user' = [user EXCEPT !.left = @ \cap Theirs(disk').mime]
           /\ \E ok \in BOOLEAN : Done(p, ok)
    <3>1. \/ Done(p, TRUE) /\ UNCHANGED <<disk, user>>
          \/ /\ disk' = [disk EXCEPT !["mime"] = <<XdgDefault(lines)>>]
             /\ user' = [user EXCEPT !.left = @ \cap Theirs(disk').mime]
             /\ \E answers \in BOOLEAN : Done(p, answers /\ QueryDefault(XdgDefault(lines)) = Own)
      BY <1>2, <1>5 DEF ClaimMime
    <3>2. ASSUME NEW answers \in BOOLEAN, Done(p, answers /\ QueryDefault(XdgDefault(lines)) = Own)
          PROVE  \E ok \in BOOLEAN : Done(p, ok)
      <4> DEFINE ok == answers /\ QueryDefault(XdgDefault(lines)) = Own
      <4>1. ok \in BOOLEAN /\ Done(p, ok)  BY <3>2
      <4>2. QED  BY <4>1
    <3>3. QED  BY <3>1, <3>2
  <2>4. QED  BY <2>1, <2>2, <2>3
<1>6. QED  BY <1>4, <1>5

LEMMA ServiceSaves ==
  ASSUME Stands, NEW p \in Commands, ClaimService(p) \/ ReleaseService(p)
  PROVE  Saves(p)
<1>1. FileOf(p) = "service" /\ OnDisk /\ Noted /\ UNCHANGED user
  BY DEF ClaimService, ReleaseService, Half, FileOf, Stands, Calm
<1>2. DOMAIN disk = FileNames /\ "service" \in FileNames /\ "service" \notin Texted
  BY OnDiskIs DEF FileNames, Texted
<1>3. PICK lines : lines = ServiceOf(exec)  OBVIOUS
<1>4. OwnService(lines) /\ Lines(<<lines>>) = lines
  BY <1>3 DEF OwnService, ServiceOf, Lines
<1>5. Text(p) = Lines(disk["service"]) /\ (Absent(p) <=> disk["service"] = <<>>)
  BY <1>1 DEF Text, Absent, Content, Lines
<1>6. user.wrote.service = IF OwnService(Text(p)) THEN <<>> ELSE disk["service"]
  BY <1>1, <1>5 DEF OnDisk
<1>7. Less  BY <1>1, SameNotes
<1>8. \/ UNCHANGED disk /\ \E ok \in BOOLEAN : Done(p, ok)
      \/ UNCHANGED disk /\ Replaces(p, lines) /\ OwnService(Text(p))
      \/ disk' = [disk EXCEPT !["service"] = <<lines>>] /\ Done(p, TRUE) /\ Absent(p)
      \/ disk' = [disk EXCEPT !["service"] = <<>>] /\ Done(p, TRUE) /\ OwnService(Text(p))
  BY <1>1, <1>3 DEF ClaimService, ReleaseService, Creates, Removes, Marked
<1>9. CASE UNCHANGED disk /\ \E ok \in BOOLEAN : Done(p, ok)  BY <1>1, <1>9, QuietDone
<1>10. CASE UNCHANGED disk /\ Replaces(p, lines) /\ OwnService(Text(p))
  <2>1. Fits("service", lines)  BY <1>4, <1>6, <1>10 DEF Fits
  <2>2. QED  BY <1>1, <1>10, <2>1, ReplacesSaves
<1>11. CASE disk' = [disk EXCEPT !["service"] = <<lines>>] /\ Done(p, TRUE) /\ Absent(p)
  <2>1. user.wrote.service = <<>>  BY <1>5, <1>6, <1>11
  <2>2. PICK file : file = <<lines>>  OBVIOUS
  <2>3. /\ disk' = [disk EXCEPT !["service"] = file]
        /\ user.wrote.service = IF OwnService(Lines(file)) THEN <<>> ELSE file
    BY <1>4, <1>11, <2>1, <2>2
  <2>4. OnDisk'  BY <1>1, <1>2, <1>7, <2>3, OneFile
  <2>5. QED  BY <1>7, <1>11, <2>4, DoneSaves
<1>12. CASE disk' = [disk EXCEPT !["service"] = <<>>] /\ Done(p, TRUE) /\ OwnService(Text(p))
  <2>1. user.wrote.service = <<>>  BY <1>6, <1>12
  <2>2. PICK file : file = <<>>  OBVIOUS
  <2>3. /\ disk' = [disk EXCEPT !["service"] = file]
        /\ user.wrote.service = IF OwnService(Lines(file)) THEN <<>> ELSE file
    BY <1>12, <2>1, <2>2
  <2>4. OnDisk'  BY <1>1, <1>2, <1>7, <2>3, OneFile
  <2>5. QED  BY <1>7, <1>12, <2>4, DoneSaves
<1>13. QED  BY <1>8, <1>9, <1>10, <1>11, <1>12

LEMMA HeadingIs ==
  ASSUME NEW heading, heading = <<<<"group", "preferred">>, ChooserLine>>
  PROVE  Foreign("conf", heading) = {}
<1>1. /\ DOMAIN heading = 1..2 /\ heading[1] = <<"group", "preferred">> /\ heading[2] = ChooserLine
  OBVIOUS
<1>2. heading[1][1] = "group" /\ heading[2][1] = "key" /\ heading[2][2] = "chooser" /\ heading[1][2] = "preferred"
  BY <1>1 DEF ChooserLine
<1>3. HeadAt(heading, 2, 1)
  <2>1. \A j \in 1..2 : j > 1 => heading[j][1] # "group"
    <3>1. \A j \in 1..2 : j > 1 => j = 2  OBVIOUS
    <3>2. QED  BY <1>2, <3>1
  <2>2. QED  BY <1>2, <2>1 DEF HeadAt
<1>4. GroupAt(heading, 2) = "preferred"  BY <1>2, <1>3, GroupIs
<1> SUFFICES ASSUME NEW t \in Pairs(heading), ~OursIn("conf", t) PROVE FALSE  BY DEF Foreign
<1>5. PICK i \in DOMAIN heading : \E v : Gives(heading, i, v) /\ t = Value(heading, i, v)  BY PairsAre
<1>6. PICK v : Gives(heading, i, v) /\ t = Value(heading, i, v)  BY <1>5
<1>7. i = 2
  <2>1. heading[i][1] = "key"  BY <1>6 DEF Gives
  <2>2. i \in 1..2  BY <1>1
  <2>3. i # 1  BY <1>2, <2>1
  <2>4. QED  BY <2>2, <2>3
<1>8. t = <<"preferred", "chooser", v>>  BY <1>2, <1>4, <1>6, <1>7 DEF Value
<1>9. QED  BY <1>8 DEF OursIn

LEMMA ChooserSaves ==
  ASSUME Stands, NEW p \in Commands, ClaimChooser(p) \/ ReleaseChooser(p)
  PROVE  Saves(p)
<1>1. FileOf(p) = "conf" /\ OnDisk /\ Noted /\ UNCHANGED user
  BY DEF ClaimChooser, ReleaseChooser, Half, FileOf, Stands, Calm
<1>2. DOMAIN disk = FileNames /\ "conf" \in FileNames /\ "conf" \in Texted
  BY OnDiskIs DEF FileNames, Texted
<1>3. PICK lines : lines = Content(disk, "conf")  OBVIOUS
<1>4. Keyed(lines) /\ (Unquoted => Foreign("conf", lines) = user.wrote.conf)
  BY <1>3, OnDiskIs DEF Fits
<1>5. Text(p) = lines /\ (Absent(p) => lines = <<>>)  BY <1>1, <1>3 DEF Text, Absent, Content
<1>6. Less  BY <1>1, SameNotes
<1>7. Foreign("conf", <<>>) = {}
  <2>1. PICK none : none = <<>>  OBVIOUS
  <2>2. \A i \in DOMAIN none : none[i][1] # "key"  BY <2>1
  <2>3. PICK S : S = {}  OBVIOUS
  <2>4. Sequence(none)  BY <2>1, <2>3, EmptySeq DEF Sequence
  <2>5. QED  BY <2>1, <2>2, <2>4, NoKeys
\* The file with such lines.
<1>8. ASSUME NEW next, Unquoted => Foreign("conf", next) = user.wrote.conf,
             NEW file, Lines(file) = next,
             disk' = [disk EXCEPT !["conf"] = file], Done(p, TRUE)
      PROVE  Saves(p)
  <2>1. Fits("conf", next)  BY <1>8 DEF Fits
  <2>2. Fits("conf", next)'  BY <1>6, <2>1, FitsStill
  <2>3. Lines(file)' = next  BY <1>8 DEF Lines
  <2>4. Fits("conf", Lines(file))'  BY <2>2, <2>3
  <2>5. OnDisk'  BY <1>1, <1>2, <1>6, <1>8, <2>4, OneFile DEF FileNames
  <2>6. QED  BY <1>6, <1>8, <2>5, DoneSaves
<1>9. ASSUME NEW next, Unquoted => Foreign("conf", next) = user.wrote.conf, Replaces(p, next), UNCHANGED disk
      PROVE  Saves(p)
  BY <1>1, <1>9, ReplacesSaves DEF Fits
<1>10. ASSUME NEW ok \in BOOLEAN, Done(p, ok), UNCHANGED disk PROVE Saves(p)
  BY <1>1, <1>10, QuietDone
<1>11. CASE ClaimChooser(p)
  <2>1. PICK next : next = SetPreferred(lines)  OBVIOUS
  <2>2. PICK heading : heading = <<<<"group", "preferred">>, ChooserLine>>  OBVIOUS
  <2>3. \/ UNCHANGED disk /\ \E ok \in BOOLEAN : Done(p, ok)
        \/ disk' = [disk EXCEPT !["conf"] = <<heading>>] /\ Done(p, TRUE) /\ Absent(p)
        \/ UNCHANGED disk /\ Replaces(p, next)
    BY <1>1, <1>5, <1>11, <2>1, <2>2 DEF ClaimChooser, Creates
  <2>4. CASE disk' = [disk EXCEPT !["conf"] = <<heading>>] /\ Done(p, TRUE) /\ Absent(p)
    <3>1. Unquoted => user.wrote.conf = {}  BY <1>4, <1>5, <1>7, <2>4
    <3>2. Unquoted => Foreign("conf", heading) = user.wrote.conf  BY <2>2, <3>1, HeadingIs
    <3>3. PICK file : file = <<heading>>  OBVIOUS
    <3>4. Lines(file) = heading  BY <3>3 DEF Lines
    <3>5. QED  BY <1>8, <2>4, <3>2, <3>3, <3>4
  <2>5. Unquoted => Foreign("conf", next) = user.wrote.conf  BY <1>4, <2>1, SetTakes
  <2>6. QED  BY <1>9, <1>10, <2>3, <2>4, <2>5
<1>12. CASE ReleaseChooser(p)
  <2>1. PICK next : next = DropPreferred(lines)  OBVIOUS
  <2>2. \/ UNCHANGED disk /\ \E ok \in BOOLEAN : Done(p, ok)
        \/ disk' = [disk EXCEPT !["conf"] = <<>>] /\ Done(p, TRUE) /\ OnlyHeading(next)
        \/ UNCHANGED disk /\ Replaces(p, next)
    BY <1>1, <1>5, <1>12, <2>1 DEF ReleaseChooser, Removes
  <2>3. Unquoted => Foreign("conf", next) = user.wrote.conf
    <3>1. Sequence(lines)  BY <1>4 DEF Keyed, Sequence
    <3>2. QED  BY <1>4, <2>1, <3>1, DropKeeps
  <2>4. CASE disk' = [disk EXCEPT !["conf"] = <<>>] /\ Done(p, TRUE) /\ OnlyHeading(next)
    <3>1. \A i \in DOMAIN next : next[i][1] # "key"
      <4>1. next = <<<<"group", "preferred">>>>  BY <2>4 DEF OnlyHeading
      <4>2. DOMAIN next = {1} /\ next[1] = <<"group", "preferred">>  BY <4>1
      <4>3. QED  BY <4>2
    <3>2. Unquoted => user.wrote.conf = {}
      <4>1. Sequence(next)  BY <1>4, <2>1, DropIsText DEF Keyed, Sequence
      <4>2. QED  BY <2>3, <3>1, <4>1, NoKeys
    <3>3. PICK none : none = <<>>  OBVIOUS
    <3>4. (Unquoted => Foreign("conf", none) = user.wrote.conf) /\ Lines(none) = none
      BY <1>7, <3>2, <3>3 DEF Lines
    <3>5. QED  BY <1>8, <2>4, <3>3, <3>4
  <2>5. QED  BY <1>9, <1>10, <2>2, <2>3, <2>4
<1>13. QED  BY <1>11, <1>12

LEMMA BothSaves ==
  ASSUME Stands, NEW p \in Commands, Both(p) \/ ReadFails(p)
  PROVE  Saves(p)
<1>1. UNCHANGED <<disk, user>> /\ Shaped /\ OnDisk /\ Noted
  BY DEF Both, ReadFails, Quiet, Calm, Stands, IInv
<1>2. \/ \E ok \in BOOLEAN : Done(p, ok)
      \/ cmd' = [cmd EXCEPT ![p].todo = <<>>, ![p].pc = "ended"]
  BY DEF Both, ReadFails
<1>3. CASE \E ok \in BOOLEAN : Done(p, ok)  BY <1>1, <1>3, QuietDone
<1>4. CASE cmd' = [cmd EXCEPT ![p].todo = <<>>, ![p].pc = "ended"]
  <2>1. cmd'[p].pc = "ended"  BY <1>1, <1>4, EndsIs
  <2>2. Holds(p)'  BY <2>1, RestHolds
  <2>3. QED  BY <1>1, <2>2, SameDisk DEF Saves
<1>5. QED  BY <1>2, <1>3, <1>4

LEMMA FailSaves ==
  ASSUME Stands, NEW p \in Commands, WriteFails(p), UNCHANGED user
  PROVE  Saves(p)
<1>1. UNCHANGED <<disk, user>> /\ Shaped /\ OnDisk /\ Noted  BY DEF WriteFails, Stands, IInv
<1>2. cmd'[p].pc \in {"next", "ended"}  BY <1>1, FailsIs
<1>3. Holds(p)'  BY <1>2, RestHolds
<1>4. QED  BY <1>1, <1>3, SameDisk DEF Saves

LEMMA WriteSaves ==
  ASSUME Stands, NEW p \in Commands, WriteNew(p)
  PROVE  Saves(p)
<1>1. UNCHANGED user /\ Shaped /\ OnDisk /\ Noted /\ Holds(p) /\ cmd[p].pc = "write"
  BY DEF WriteNew, Calm, Stands, IInv
<1>2. CASE WriteFails(p)  BY <1>1, <1>2, FailSaves
<1>3. CASE cmd' = [cmd EXCEPT ![p].pc = "rename"] /\ UNCHANGED disk
  <2>1. /\ Moves(p) /\ cmd'[p].pc = "rename" /\ cmd'[p].todo = cmd[p].todo
        /\ cmd'[p].next = cmd[p].next /\ cmd'[p].seen = cmd[p].seen
    BY <1>1, <1>3, GoesIs DEF Stages
  <2>2. PICK file, next, seen : file = FileOf(p) /\ next = cmd[p].next /\ seen = cmd[p].seen
    OBVIOUS
  <2>3. FileOf(p)' = file /\ cmd'[p].on = cmd[p].on  BY <2>1, <2>2 DEF FileOf, Moves
  <2>4. Fits(file, next) /\ (cmd[p].on /\ file = "bindings" => Fits("bindings", seen))
    BY <1>1, <2>2 DEF Holds
  <2>5. Less /\ OnDisk'  BY <1>1, <1>3, SameDisk
  <2>6. Fits(file, next)'  BY <2>4, <2>5, FitsStill
  <2>7. cmd[p].on /\ file = "bindings" => Fits("bindings", seen)'  BY <2>4, <2>5, FitsStill
  <2>8. Holds(p)'  BY <2>1, <2>2, <2>3, <2>6, <2>7 DEF Holds
  <2>9. QED  BY <2>5, <2>8 DEF Saves
<1>4. QED  BY <1>2, <1>3 DEF WriteNew

LEMMA RenameSaves ==
  ASSUME Stands, NEW p \in Commands, Rename(p)
  PROVE  Saves(p)
<1>1. UNCHANGED user /\ Shaped /\ OnDisk /\ Noted /\ Holds(p) /\ cmd[p].pc = "rename"
  BY DEF Rename, Calm, Stands, IInv
<1>2. CASE WriteFails(p)  BY <1>1, <1>2, FailSaves
<1>3. ASSUME disk' = [disk EXCEPT ![FileOf(p)] = <<cmd[p].next>>]
      PROVE  Less /\ OnDisk'
  <2>1. PICK file, next : file = FileOf(p) /\ next = cmd[p].next  OBVIOUS
  <2>2. Fits(file, next)  BY <1>1, <2>1 DEF Holds
  <2>3. Less  BY <1>1, SameNotes
  <2>4. Fits(file, next)'  BY <2>2, <2>3, FitsStill
  <2>5. PICK whole : whole = <<next>>  OBVIOUS
  <2>6. disk' = [disk EXCEPT ![file] = whole]  BY <1>3, <2>1, <2>5
  <2>7. Lines(whole) = next /\ Lines(whole)' = next  BY <2>5 DEF Lines
  <2>8. DOMAIN disk = FileNames  BY OnDiskIs
  <2>9. CASE file \in FileNames
    <3>1. file \in Texted => Fits(file, Lines(whole))'  BY <2>4, <2>7
    <3>2. file = "service" =>
            user.wrote.service = IF OwnService(Lines(whole)) THEN <<>> ELSE whole
      BY <2>2, <2>7 DEF Fits
    <3>3. OnDisk'  BY <1>1, <2>3, <2>6, <2>8, <2>9, <3>1, <3>2, OneFile
    <3>4. QED  BY <2>3, <3>3
  <2>10. CASE file \notin FileNames
    <3>1. \A name \in FileNames : disk'[name] = disk[name]  BY <2>6, <2>8, <2>10
    <3>2. Texted \subseteq FileNames /\ "service" \in FileNames  BY DEF Texted, FileNames
    <3>3. \A name \in Texted : Fits(name, Lines(disk[name]))'
      BY <1>1, <2>3, <3>1, <3>2 DEF OnDisk, Fits, Less, Lines
    <3>4. QED  BY <1>1, <2>3, <3>1, <3>2, <3>3 DEF OnDisk, Less
  <2>11. QED  BY <2>9, <2>10
<1>4. CASE /\ disk' = [disk EXCEPT ![FileOf(p)] = <<cmd[p].next>>] /\ FileOf(p) = "bindings"
           /\ cmd' = [cmd EXCEPT ![p].pc = "reload"]
  <2>1. /\ Moves(p) /\ cmd'[p].pc = "reload" /\ cmd'[p].todo = cmd[p].todo
        /\ cmd'[p].seen = cmd[p].seen
    BY <1>1, <1>4, GoesIs DEF Stages
  <2>2. PICK seen : seen = cmd[p].seen  OBVIOUS
  <2>3. cmd'[p].on = cmd[p].on  BY <2>1 DEF Moves
  <2>4. cmd[p].on => Fits("bindings", seen)  BY <1>1, <1>4, <2>2 DEF Holds
  <2>5. Less /\ OnDisk'  BY <1>3, <1>4
  <2>6. cmd[p].on => Fits("bindings", seen)'  BY <2>4, <2>5, FitsStill
  <2>7. Holds(p)'  BY <2>1, <2>2, <2>3, <2>6 DEF Holds
  <2>8. QED  BY <2>5, <2>7 DEF Saves
<1>5. CASE /\ disk' = [disk EXCEPT ![FileOf(p)] = <<cmd[p].next>>]
           /\ \E ok \in BOOLEAN : Done(p, ok)
  BY <1>3, <1>5, DoneSaves
<1>6. QED
  <2>1. \/ WriteFails(p)
        \/ /\ disk' = [disk EXCEPT ![FileOf(p)] = <<cmd[p].next>>] /\ FileOf(p) = "bindings"
           /\ cmd' = [cmd EXCEPT ![p].pc = "reload"]
        \/ /\ disk' = [disk EXCEPT ![FileOf(p)] = <<cmd[p].next>>]
           /\ \E ok \in {TRUE, FileOf(p) # "mime"} : Done(p, ok)
    BY DEF Rename
  <2>2. {TRUE, FileOf(p) # "mime"} \subseteq BOOLEAN  OBVIOUS
  <2>3. QED  BY <1>2, <1>4, <1>5, <2>1, <2>2

LEMMA WorksSaves ==
  ASSUME Stands, NEW p \in Commands, Works(p)
  PROVE  Saves(p)
<1>1. CASE Both(p) \/ ReadFails(p)  BY <1>1, BothSaves
<1>2. CASE Bindings(p)  BY <1>2, BindingsSaves
<1>3. CASE Reload(p) \/ Check(p)  BY <1>3, ReloadSaves
<1>4. CASE ClaimMime(p) \/ ReleaseMime(p)  BY <1>4, MimeSaves
<1>5. CASE ClaimService(p) \/ ReleaseService(p)  BY <1>5, ServiceSaves
<1>6. CASE ClaimChooser(p) \/ ReleaseChooser(p)  BY <1>6, ChooserSaves
<1>7. CASE WriteNew(p)  BY <1>7, WriteSaves
<1>8. CASE Rename(p)  BY <1>8, RenameSaves
<1>9. QED  BY <1>1, <1>2, <1>3, <1>4, <1>5, <1>6, <1>7, <1>8 DEF Works

-----------------------------------------------------------------------------
(* Every step keeps it.                                                    *)

LEMMA HoldsStill ==
  ASSUME Less, NEW q \in Commands, Holds(q), cmd'[q].pc = cmd[q].pc, cmd'[q].todo = cmd[q].todo,
         cmd'[q].next = cmd[q].next, cmd'[q].seen = cmd[q].seen, cmd'[q].on = cmd[q].on
  PROVE  Holds(q)'
<1>1. PICK file, next, seen : file = FileOf(q) /\ next = cmd[q].next /\ seen = cmd[q].seen
  OBVIOUS
<1>2. FileOf(q)' = file  BY <1>1 DEF FileOf
<1>3. cmd[q].pc \in {"write", "rename"} => Fits(file, next)'
  <2>1. cmd[q].pc \in {"write", "rename"} => Fits(file, next)  BY <1>1 DEF Holds
  <2>2. QED  BY <2>1, FitsStill
<1>4. cmd[q].pc \in {"write", "rename", "reload", "check"} /\ cmd[q].on /\ file = "bindings" =>
        Fits("bindings", seen)'
  <2>1. cmd[q].pc \in {"write", "rename", "reload", "check"} /\ cmd[q].on /\ file = "bindings" =>
          Fits("bindings", seen)
    BY <1>1 DEF Holds
  <2>2. QED  BY <2>1, FitsStill
<1>5. QED  BY <1>1, <1>2, <1>3, <1>4 DEF Holds

LEMMA SavesKeeps ==
  ASSUME Stands, NEW p \in Commands, Works(p)
  PROVE  Stands'
<1>1. IInv /\ \A q \in Commands : Holds(q)  BY DEF Stands
<1>2. Good(p) /\ Busy(p)  BY <1>1, WorksGood
<1>3. IInv'  BY <1>1, <1>2, GoodKeeps
<1>4. Saves(p)  BY WorksSaves
<1>5. ASSUME NEW q \in Commands \ {p} PROVE Holds(q)'
  <2>1. cmd'[q] = cmd[q]  BY <1>2 DEF Good, Moves
  <2>2. QED  BY <1>1, <1>4, <2>1, HoldsStill DEF Saves
<1>6. QED  BY <1>3, <1>4, <1>5 DEF Saves, Less, Stands

LEMMA LessAlone ==
  ASSUME Shaped, NEW q \in Commands, cmd'[q] = [cmd[q] EXCEPT !.alone = FALSE]
  PROVE  /\ cmd'[q].pc = cmd[q].pc /\ cmd'[q].todo = cmd[q].todo
         /\ cmd'[q].next = cmd[q].next /\ cmd'[q].seen = cmd[q].seen
         /\ cmd'[q].on = cmd[q].on
<1>1. PICK V : cmd \in [Commands -> CmdOf(V)]  BY DEF Shaped
<1>2. PICK r : r = cmd[q]  OBVIOUS
<1> DEFINE s == [r EXCEPT !.alone = FALSE]
<1>3. r \in CmdOf(V) /\ cmd'[q] = s  BY <1>1, <1>2
<1>4. s.pc = r.pc /\ s.todo = r.todo /\ s.next = r.next /\ s.seen = r.seen  BY <1>3 DEF CmdOf
<1>5. s.on = r.on  BY <1>3 DEF CmdOf
<1> HIDE DEF s
<1>6. QED  BY <1>2, <1>3, <1>4, <1>5

LEMMA StartStands ==
  ASSUME Stands, NEW p \in Commands, NEW kind \in {"default", "picker"}, NEW on \in BOOLEAN,
         Start(p, kind, on)
  PROVE  Stands'
<1>1. IInv /\ Noted /\ OnDisk /\ Shaped /\ \A q \in Commands : Holds(q)  BY DEF Stands, IInv
<1>2. IInv'  BY <1>1, StartKeeps
<1>3. UNCHANGED <<disk, user>>  BY DEF Start
<1>4. Less /\ OnDisk'  BY <1>1, <1>3, SameDisk
<1>5. Holds(p)'
  <2> DEFINE needs == IF kind = "picker" THEN "portal" ELSE "entry"
             alone == \A q \in Commands : ~Busy(q)
             todo == IF on /\ ~Installed(needs) THEN <<>> ELSE Halves(kind, on)
             pc == IF todo = <<>> THEN "ended" ELSE "next"
             failed == todo = <<>>
             sound == ~Refused(loaded) /\ ~Refused(Content(disk, "bindings"))
             new == [Idle EXCEPT !.kind = kind, !.on = on, !.todo = todo, !.alone = alone,
                                 !.pc = pc, !.failed = failed, !.sound = sound]
  <2>1. cmd' = [q \in Commands |-> IF q = p THEN new ELSE [cmd[q] EXCEPT !.alone = FALSE]]
    BY DEF Start
  <2>2. pc \in {"next", "ended"}  OBVIOUS
  <2> HIDE DEF needs, alone, todo, pc, failed, sound
  <2>3. new.pc = pc  BY DEF Idle
  <2> HIDE DEF new
  <2>4. cmd'[p].pc \in {"next", "ended"}  BY <2>1, <2>2, <2>3
  <2>5. QED  BY <2>4, RestHolds
<1>6. ASSUME NEW q \in Commands \ {p} PROVE Holds(q)'
  <2>1. cmd'[q] = [cmd[q] EXCEPT !.alone = FALSE]  BY DEF Start
  <2>2. QED  BY <1>1, <1>4, <2>1, LessAlone, HoldsStill
<1>7. QED  BY <1>2, <1>4, <1>5, <1>6 DEF Less, Stands

LEMMA DiesStands ==
  ASSUME Stands, NEW p \in Commands, Dies(p)
  PROVE  Stands'
<1>1. IInv /\ Noted /\ OnDisk /\ Shaped /\ \A q \in Commands : Holds(q)  BY DEF Stands, IInv
<1>2. IInv'  BY <1>1, DiesKeeps
<1>3. UNCHANGED <<disk, user>> /\ cmd' = [cmd EXCEPT ![p] = Idle]  BY DEF Dies
<1>4. Less /\ OnDisk'  BY <1>1, <1>3, SameDisk
<1>5. PICK V : cmd \in [Commands -> CmdOf(V)]  BY <1>1 DEF Shaped
<1>6. cmd'[p] = Idle /\ \A q \in Commands \ {p} : cmd'[q] = cmd[q]  BY <1>3, <1>5
<1>7. Holds(p)'
  <2>1. cmd'[p].pc = "idle"  BY <1>6, IdleIs
  <2>2. QED  BY <2>1, RestHolds
<1>8. ASSUME NEW q \in Commands \ {p} PROVE Holds(q)'  BY <1>1, <1>4, <1>6, HoldsStill
<1>9. QED  BY <1>2, <1>4, <1>7, <1>8 DEF Less, Stands

LEMMA RestStands ==
  ASSUME Stands, Upgrade \/ Reachable \/ UNCHANGED vars
  PROVE  Stands'
<1>1. IInv /\ Noted /\ OnDisk /\ Shaped /\ \A q \in Commands : Holds(q)  BY DEF Stands, IInv
<1>2. IInv'  BY <1>1, RestKeeps
<1>3. UNCHANGED <<disk, user>>  BY DEF Upgrade, Reachable, vars
<1>4. Less /\ OnDisk'  BY <1>1, <1>3, SameDisk
<1>5. ASSUME NEW q \in Commands PROVE Holds(q)'
  <2>1. CASE cmd' = cmd  BY <1>1, <1>4, <2>1, HoldsStill
  <2>2. CASE Reachable
    <3>1. cmd'[q] = [cmd[q] EXCEPT !.alone = FALSE]  BY <2>2 DEF Reachable
    <3>2. QED  BY <1>1, <1>4, <3>1, LessAlone, HoldsStill
  <2>3. QED  BY <2>1, <2>2 DEF Upgrade, vars
<1>6. QED  BY <1>2, <1>4, <1>5 DEF Less, Stands

\* What is noted of the files as they are.
LEMMA WrittenIs ==
  ASSUME NEW d, NEW u, u = Written(d)
  PROVE  /\ \E w, l : u = [wrote |-> w, left |-> l]
         /\ u.wrote.bindings = UserLines(Content(d, "bindings"))
         /\ u.wrote.conf = Foreign("conf", Content(d, "conf"))
         /\ u.wrote.mime = Foreign("mime", Content(d, "mime"))
         /\ u.left = Foreign("mime", Content(d, "mime"))
         /\ u.wrote.service = IF OwnService(Content(d, "service")) THEN <<>> ELSE d["service"]
<1>1. Theirs(d).conf = Foreign("conf", Content(d, "conf"))
  <2>1. Theirs(d).conf = {t \in Pairs(Content(d, "conf")) : ~(t[1] = "preferred" /\ t[2] = "chooser")}
    BY DEF Theirs
  <2>2. QED  BY <2>1 DEF Foreign, OursIn
<1>2. Theirs(d).mime = Foreign("mime", Content(d, "mime"))
  <2>1. Theirs(d).mime = {t \in Pairs(Content(d, "mime")) : t # <<"defaults", "dir", Own>>}
    BY DEF Theirs
  <2>2. QED  BY <2>1 DEF Foreign, OursIn
<1>3. /\ Theirs(d).bindings = UserLines(Content(d, "bindings"))
      /\ Theirs(d).service = IF OwnService(Content(d, "service")) THEN <<>> ELSE d["service"]
  BY DEF Theirs
<1>4. PICK t : t = Theirs(d)  OBVIOUS
<1>5. u = [wrote |-> t, left |-> t.mime]  BY <1>4 DEF Written
<1>6. u.wrote = t /\ u.left = t.mime  BY <1>5
<1>7. QED  BY <1>1, <1>2, <1>3, <1>4, <1>5, <1>6

LEMMA ListedJoin ==
  ASSUME NEW u, NEW v, Listed(u), Listed(v)
  PROVE  Listed(u \o v)
<1>1. PICK S : u \in Seq(S)  BY DEF Listed, Sequence
<1>2. PICK T : v \in Seq(T)  BY DEF Listed, Sequence
<1> DEFINE R == S \cup T
           w == u \o v
<1>3. u \in Seq(R) /\ v \in Seq(R)  BY <1>1, <1>2, SeqMonotonic
<1> HIDE DEF R
<1>4. Len(u) \in Nat /\ Len(v) \in Nat /\ DOMAIN u = 1..Len(u) /\ DOMAIN v = 1..Len(v)
  BY <1>3, LenProperties
<1>5. /\ w \in Seq(R) /\ Len(w) = Len(u) + Len(v)
      /\ \A i \in 1..(Len(u) + Len(v)) : w[i] = IF i <= Len(u) THEN u[i] ELSE v[i - Len(u)]
  BY <1>3, ConcatProperties
<1>6. DOMAIN w = 1..(Len(u) + Len(v))  BY <1>5, LenProperties
<1> HIDE DEF w
<1>7. ASSUME NEW i \in DOMAIN w, w[i][1] = "key" PROVE Sequence(w[i][3])
  <2>1. i \in 1..(Len(u) + Len(v))  BY <1>6
  <2>2. CASE i <= Len(u)
    <3>1. w[i] = u[i] /\ i \in DOMAIN u  BY <1>4, <1>5, <2>1, <2>2
    <3>2. QED  BY <1>7, <3>1 DEF Listed
  <2>3. CASE ~(i <= Len(u))
    <3>1. PICK j : j = i - Len(u)  OBVIOUS
    <3>2. w[i] = v[j] /\ j \in DOMAIN v  BY <1>4, <1>5, <2>1, <2>3, <3>1
    <3>3. QED  BY <1>7, <3>2 DEF Listed
  <2>4. QED  BY <2>2, <2>3
<1>8. Listed(w)  BY <1>5, <1>7 DEF Listed, Sequence
<1>9. QED  BY <1>8 DEF w

LEMMA TextListed ==
  ASSUME NEW lines, IsText(lines)
  PROVE  Listed(lines)
BY DEF IsText, Listed, Sequence

LEMMA EditStands ==
  ASSUME Stands, NEW e \in Edits, UserEdits(e)
  PROVE  Stands'
<1>1. IInv /\ OnDisk  BY DEF Stands
<1>2. IInv'  BY <1>1, EditKeeps
<1>3. PICK name, lines, old, d :
        name = e.file /\ lines = e.lines /\ old = Content(disk, name) /\ d = disk'
  OBVIOUS
<1>4. PICK text : text = old \o lines  OBVIOUS
<1>5. /\ \A p \in Commands : ~Busy(p)
      /\ disk' = [disk EXCEPT ![name] = <<text>>] /\ user' = Written(d) /\ cmd' = cmd
  BY <1>3, <1>4 DEF UserEdits
<1>6. name \in FileNames /\ IsText(lines)  BY <1>3, DesktopAssumption
<1>7. DOMAIN disk = FileNames /\ \A other : Content(disk, other) = Lines(disk[other])
  BY OnDiskIs
<1>8. d[name] = <<text>> /\ \A other \in FileNames \ {name} : d[other] = disk[other]
  BY <1>3, <1>5, <1>6, <1>7
<1>9. Content(d, name) = text
  BY <1>8 DEF Content
<1>10. \A other \in FileNames \ {name} : Content(d, other) = Content(disk, other)
  BY <1>8 DEF Content
<1>11. /\ Framed => Apart(Content(d, "bindings"))
       /\ Once => Single(Content(d, "bindings"))
  <2>1. /\ Framed => Apart(Content(disk, "bindings"))
        /\ Once => Single(Content(disk, "bindings"))
    BY OnDiskIs DEF Fits
  <2>2. CASE name # "bindings"  BY <1>10, <2>1, <2>2 DEF FileNames
  <2>3. CASE name = "bindings"
    <3>1. Sequence(old) /\ (Framed => Apart(old)) /\ (Once => Single(old))
      BY <1>3, <2>1, <2>3, OnDiskIs
    <3>2. PICK S : old \in Seq(S)  BY <3>1 DEF Sequence
    <3>3. PICK R : R = S \cup ToSet(lines)  OBVIOUS
    <3>4. old \in Seq(R) /\ lines \in Seq(R)
      <4>1. lines \in Seq(ToSet(lines))  BY <1>6 DEF IsText
      <4>2. QED  BY <3>2, <3>3, <4>1, SeqMonotonic
    <3>5. ASSUME Framed PROVE Apart(text)
      <4>1. \A b \in Blocks : \A i \in DOMAIN lines : lines[i] # <<"end", b>>
        BY <1>3, <2>3, <3>5 DEF Framed
      <4>2. Apart(lines)  BY <4>1 DEF Apart
      <4>3. QED  BY <1>4, <3>1, <3>4, <3>5, <4>1, <4>2, ApartJoin
    <3>6. ASSUME Once PROVE Single(text)
      <4>1. \A b \in Blocks : ~HasBlock(lines, b)  BY <1>3, <2>3, <3>6 DEF Once
      <4>2. Single(lines)  BY <4>1 DEF Single, HasBlock, Begins
      <4>3. QED  BY <1>4, <3>1, <3>4, <3>6, <4>1, <4>2, SingleJoin
    <3>7. QED  BY <1>9, <2>3, <3>5, <3>6
  <2>4. QED  BY <2>2, <2>3
<1>12. Listed(Content(d, "mime"))
  <2>1. Listed(Content(disk, "mime"))  BY OnDiskIs DEF Fits
  <2>2. CASE name # "mime"  BY <1>10, <2>1, <2>2 DEF FileNames
  <2>3. CASE name = "mime"
    <3>1. Listed(old) /\ Listed(lines)  BY <1>3, <1>6, <2>1, <2>3, TextListed
    <3>2. Listed(text)  BY <1>4, <3>1, ListedJoin
    <3>3. QED  BY <1>9, <2>3, <3>2
  <2>4. QED  BY <2>2, <2>3
<1>13. PICK u : u = user'  OBVIOUS
<1>14. u = Written(d)  BY <1>5, <1>13
<1>15. Noted'
  <2>1. \E w, l : u = [wrote |-> w, left |-> l]  BY <1>14, WrittenIs
  <2>2. QED  BY <1>13, <2>1 DEF Noted
<1>16. /\ u.wrote.bindings = UserLines(Content(d, "bindings"))
       /\ u.wrote.conf = Foreign("conf", Content(d, "conf"))
       /\ u.wrote.mime = Foreign("mime", Content(d, "mime"))
       /\ u.left = Foreign("mime", Content(d, "mime"))
       /\ u.wrote.service = IF OwnService(Content(d, "service")) THEN <<>> ELSE d["service"]
  BY <1>14, WrittenIs
<1>17. \A other : Content(d, other) = Lines(d[other])  BY DEF Content, Lines
<1>18. OnDisk'
  <2>1. ASSUME NEW file \in Texted PROVE Fits(file, Lines(disk[file]))'
    <3>1. PICK now : now = Content(d, file)  OBVIOUS
    <3>2. Lines(disk[file])' = now  BY <1>3, <1>17, <3>1 DEF Lines
    <3>3. Fits(file, now)'  BY <1>11, <1>12, <1>13, <1>16, <2>1, <3>1 DEF Fits, Texted
    <3>4. QED  BY <3>2, <3>3
  <2>2. user'.wrote.service = IF OwnService(Lines(disk'["service"])) THEN <<>> ELSE disk'["service"]
    BY <1>3, <1>13, <1>16, <1>17
  <2>3. QED  BY <2>1, <2>2 DEF OnDisk, Lines
<1>19. ASSUME NEW p \in Commands PROVE Holds(p)'
  BY <1>5, RestHolds DEF Busy
<1>20. QED  BY <1>2, <1>15, <1>18, <1>19 DEF Stands

LEMMA InitStands ==
  ASSUME Init
  PROVE  Stands
<1>1. IInv  BY InitKeeps
<1>2. PICK s \in Scenarios : disk = s.files  BY DEF Init
<1>3. PICK d, u : d = disk /\ u = user  OBVIOUS
<1>4. u = Written(d)  BY <1>3 DEF Init
<1>5. Noted
  <2>1. \E w, l : u = [wrote |-> w, left |-> l]  BY <1>4, WrittenIs
  <2>2. QED  BY <1>3, <2>1 DEF Noted
<1>6. /\ u.wrote.bindings = UserLines(Content(d, "bindings"))
      /\ u.wrote.conf = Foreign("conf", Content(d, "conf"))
      /\ u.wrote.mime = Foreign("mime", Content(d, "mime"))
      /\ u.left = Foreign("mime", Content(d, "mime"))
      /\ u.wrote.service = IF OwnService(Content(d, "service")) THEN <<>> ELSE d["service"]
  BY <1>4, WrittenIs
<1>7. \A other : Content(d, other) = Lines(d[other])  BY DEF Content, Lines
<1>8. PICK none : none = <<>>  OBVIOUS
<1>9. DOMAIN none = {} /\ Sequence(none)
  <2>1. PICK S : S = {}  OBVIOUS
  <2>2. QED  BY <1>8, <2>1, EmptySeq DEF Sequence
<1>10. /\ Framed => Apart(Content(d, "bindings"))
       /\ Once => Single(Content(d, "bindings"))
  <2>1. CASE d["bindings"] = <<>>
    <3>1. Content(d, "bindings") = none  BY <1>8, <2>1 DEF Content
    <3>2. Apart(none) /\ Single(none)  BY <1>9 DEF Apart, Single
    <3>3. QED  BY <3>1, <3>2
  <2>2. CASE d["bindings"] # <<>>
    <3>1. Content(d, "bindings") = d["bindings"][1]  BY <2>2 DEF Content
    <3>2. QED  BY <1>2, <1>3, <2>2, <3>1 DEF Framed, Once
  <2>3. QED  BY <2>1, <2>2
<1>11. Listed(Content(d, "mime"))
  <2>1. CASE d["mime"] = <<>>
    <3>1. Content(d, "mime") = none  BY <1>8, <2>1 DEF Content
    <3>2. Listed(none)  BY <1>9 DEF Listed
    <3>3. QED  BY <3>1, <3>2
  <2>2. CASE d["mime"] # <<>>
    <3>1. Content(d, "mime") = d["mime"][1]  BY <2>2 DEF Content
    <3>2. IsText(d["mime"][1])  BY <1>2, <1>3, <2>2, DesktopAssumption DEF FileNames
    <3>3. QED  BY <3>1, <3>2, TextListed
  <2>3. QED  BY <2>1, <2>2
<1>12. OnDisk
  <2>1. ASSUME NEW file \in Texted PROVE Fits(file, Lines(disk[file]))
    <3>1. PICK now : now = Content(d, file)  OBVIOUS
    <3>2. Lines(disk[file]) = now  BY <1>3, <1>7, <3>1
    <3>3. Fits(file, now)  BY <1>3, <1>6, <1>10, <1>11, <2>1, <3>1 DEF Fits, Texted
    <3>4. QED  BY <3>2, <3>3
  <2>2. user.wrote.service = IF OwnService(Lines(disk["service"])) THEN <<>> ELSE disk["service"]
    BY <1>3, <1>6, <1>7
  <2>3. QED  BY <2>1, <2>2 DEF OnDisk
<1>13. ASSUME NEW p \in Commands PROVE Holds(p)
  <2>1. cmd[p].pc = "idle"  BY IdleIs DEF Init
  <2>2. QED  BY <2>1 DEF Holds
<1>14. QED  BY <1>1, <1>5, <1>12, <1>13 DEF Stands

LEMMA NextStands ==
  ASSUME Stands, [Next]_vars
  PROVE  Stands'
<1>1. ASSUME NEW p \in Commands, Step(p) PROVE Stands'
  <2>1. CASE \E kind \in {"default", "picker"}, on \in BOOLEAN : Start(p, kind, on)
    BY <2>1, StartStands
  <2>2. CASE Dies(p)  BY <2>2, DiesStands
  <2>3. CASE Works(p)  BY <2>3, SavesKeeps
  <2>4. QED  BY <1>1, <2>1, <2>2, <2>3 DEF Step, Works
<1>2. ASSUME NEW e \in Edits, UserEdits(e) PROVE Stands'  BY <1>2, EditStands
<1>3. CASE Upgrade \/ Reachable \/ UNCHANGED vars  BY <1>3, RestStands
<1>4. QED  BY <1>1, <1>2, <1>3 DEF Next

\* What is the user's and other programs' in each file, and in the lines each
\* command is to write: of mimeapps.list and the registration with no hypothesis
\* at all, of the other two under the one of Unquoted, Framed and Once it needs.
THEOREM TheirsStand == Spec => []Stands
BY InitStands, NextStands, PTL DEF Spec

\* What the user and other programs wrote in the four files stands through
\* claims, releases, failed writes and deaths of any number of commands at once
\* (hyprkeys.rs, chooser.rs, defaults.rs, userfile.rs), when no comment quotes
\* the heading chooser.rs looks for, the markers of a block hold nothing of the
\* user's at first, and nothing the user adds is an end marker.
THEOREM OthersKept == (Unquoted /\ Framed) => (Spec => []OthersStand)
<1> SUFFICES ASSUME Unquoted /\ Framed PROVE Spec => []OthersStand  OBVIOUS
<1>1. Stands => OthersStand
  <2> SUFFICES ASSUME Stands PROVE OthersStand  OBVIOUS
  <2>1. PICK d : d = disk  OBVIOUS
  <2>2. PICK w : w = Written(d)  OBVIOUS
  <2>3. Theirs(d) = w.wrote  BY <2>2 DEF Written
  <2>4. /\ w.wrote.bindings = UserLines(Content(d, "bindings"))
        /\ w.wrote.conf = Foreign("conf", Content(d, "conf"))
        /\ w.wrote.mime = Foreign("mime", Content(d, "mime"))
        /\ w.wrote.service = IF OwnService(Content(d, "service")) THEN <<>> ELSE d["service"]
    BY <2>2, WrittenIs
  <2>5. /\ UserLines(Content(d, "bindings")) = user.wrote.bindings
        /\ Foreign("conf", Content(d, "conf")) = user.wrote.conf
        /\ user.left \subseteq Foreign("mime", Content(d, "mime"))
        /\ Foreign("mime", Content(d, "mime")) \subseteq user.wrote.mime
    BY <2>1, OnDiskIs DEF Fits
  <2>6. user.wrote.service = IF OwnService(Content(d, "service")) THEN <<>> ELSE d["service"]
    BY <2>1, OnDiskIs DEF Stands, OnDisk
  <2>7. QED  BY <2>1, <2>3, <2>4, <2>5, <2>6 DEF OthersStand
<1>2. QED  BY <1>1, TheirsStand, PTL
-----------------------------------------------------------------------------
(* A release that runs alone, half by half.                                *)

\* The halves a release has to do yet, after the first k of --default's; the
\* picker's are the last two.
Rest(k) ==
  CASE k = 0 -> <<"keys", "mime", "service", "window", "routing">>
    [] k = 1 -> <<"mime", "service", "window", "routing">>
    [] k = 2 -> <<"service", "window", "routing">>
    [] k = 3 -> <<"window", "routing">>
    [] k = 4 -> <<"routing">>
    [] k = 5 -> <<>>
HalfAt(k) ==
  CASE k = 0 -> "keys" [] k = 1 -> "mime" [] k = 2 -> "service" [] k = 3 -> "window"
    [] k = 4 -> "routing"
FileAt(k) ==
  IF k = 1 THEN "mime" ELSE IF k = 2 THEN "service" ELSE IF k = 4 THEN "conf" ELSE "bindings"

LEMMA RestIs ==
  ASSUME NEW k \in 0..4
  PROVE  /\ Rest(k) # <<>> /\ Head(Rest(k)) = HalfAt(k) /\ Tail(Rest(k)) = Rest(k + 1)
         /\ Rest(5) = <<>>
<1>1. CASE k = 0  BY <1>1 DEF Rest, HalfAt
<1>2. CASE k = 1  BY <1>2 DEF Rest, HalfAt
<1>3. CASE k = 2  BY <1>3 DEF Rest, HalfAt
<1>4. CASE k = 3  BY <1>4 DEF Rest, HalfAt
<1>5. CASE k = 4  BY <1>5 DEF Rest, HalfAt
<1>6. QED  BY <1>1, <1>2, <1>3, <1>4, <1>5

\* What of the first k halves' is gone.
Clean(kind, k, d) ==
  /\ kind = "default" => /\ k > 0 => ~HasBlock(Content(d, "bindings"), "keys")
                         /\ k > 1 => Claims(Content(d, "mime")) = {}
                         /\ k > 2 => ~OwnService(Content(d, "service"))
  /\ k > 3 => ~HasBlock(Content(d, "bindings"), "float")
  /\ k > 4 => Held(Content(d, "conf"), "preferred", "chooser") = {}

\* What a half does to be over.
Clears(k, d, then) ==
  /\ \A name \in FileNames \ {FileAt(k)} : Content(then, name) = Content(d, name)
  /\ k = 0 => ~HasBlock(Content(then, "bindings"), "keys")
  /\ k = 1 => Claims(Content(then, "mime")) = {}
  /\ k = 2 => ~OwnService(Content(then, "service"))
  /\ k = 3 => /\ ~HasBlock(Content(then, "bindings"), "float")
              /\ HasBlock(Content(then, "bindings"), "keys") => HasBlock(Content(d, "bindings"), "keys")
  /\ k = 4 => Held(Content(then, "conf"), "preferred", "chooser") = {}

LEMMA NextClean ==
  ASSUME NEW kind, NEW k \in 0..4, NEW d, NEW then, Clean(kind, k, d), Clears(k, d, then)
  PROVE  Clean(kind, k + 1, then)
<1>1. CASE k = 0  BY <1>1 DEF Clean, Clears, FileAt, FileNames
<1>2. CASE k = 1  BY <1>2 DEF Clean, Clears, FileAt, FileNames
<1>3. CASE k = 2  BY <1>3 DEF Clean, Clears, FileAt, FileNames
<1>4. CASE k = 3  BY <1>4 DEF Clean, Clears, FileAt, FileNames
<1>5. CASE k = 4  BY <1>5 DEF Clean, Clears, FileAt, FileNames
<1>6. QED  BY <1>1, <1>2, <1>3, <1>4, <1>5

With(d, name, lines) == [d EXCEPT ![name] = <<lines>>]

LEMMA WithIs ==
  ASSUME NEW d, DOMAIN d = FileNames, NEW name \in FileNames, NEW lines
  PROVE  /\ Content(With(d, name, lines), name) = lines
         /\ \A other \in FileNames \ {name} : Content(With(d, name, lines), other) = Content(d, other)
<1>1. PICK then : then = With(d, name, lines)  OBVIOUS
<1>2. then[name] = <<lines>> /\ \A other \in FileNames \ {name} : then[other] = d[other]
  BY <1>1 DEF With
<1>3. Content(then, name) = lines  BY <1>2 DEF Content
<1>4. \A other \in FileNames \ {name} : Content(then, other) = Content(d, other)
  BY <1>2 DEF Content
<1>5. QED  BY <1>1, <1>3, <1>4

\* What a release has behind it, and what its file is to be.
At(p, k) ==
  /\ cmd[p].todo = Rest(k) /\ (cmd[p].kind = "picker" => k >= 3)
  /\ cmd[p].pc # "ended" => k < 5
  /\ cmd[p].pc \in {"next", "ended"} => Clean(cmd[p].kind, k, disk)
  /\ cmd[p].pc \in {"write", "rename"} =>
       Clean(cmd[p].kind, k + 1, With(disk, FileOf(p), cmd[p].next))
  /\ cmd[p].pc = "reload" => Clean(cmd[p].kind, k + 1, disk)

Counted(p) == cmd[p].alone /\ ~cmd[p].on /\ ~cmd[p].failed
Past(p) == Counted(p) => \E k \in 0..5 : At(p, k)
Releasing == Stands /\ \A p \in Commands : Busy(p) => Past(p)

LEMMA DonePast ==
  ASSUME Shaped, NEW p \in Commands, NEW ok \in BOOLEAN, Done(p, ok), NEW k \in 0..4,
         cmd[p].todo = Rest(k), cmd[p].kind = "picker" => k >= 3,
         ok => Clean(cmd[p].kind, k + 1, disk')
  PROVE  Past(p)'
<1> SUFFICES ASSUME Counted(p)' PROVE \E n \in 0..5 : At(p, n)'  BY DEF Past
<1>1. /\ Moves(p) /\ cmd'[p].failed = (cmd[p].failed \/ ~ok)
      /\ cmd'[p].todo = Tail(cmd[p].todo)
      /\ cmd'[p].pc = IF Tail(cmd[p].todo) = <<>> THEN "ended" ELSE "next"
  BY DoneIs
<1>2. ok  BY <1>1 DEF Counted
<1>3. PICK n : n = k + 1  OBVIOUS
<1>4. n \in 1..5 /\ n \in 0..5  BY <1>3
<1>5. cmd'[p].todo = Rest(n) /\ cmd'[p].kind = cmd[p].kind  BY <1>1, <1>3, RestIs DEF Moves
<1>6. cmd'[p].pc = IF Rest(n) = <<>> THEN "ended" ELSE "next"  BY <1>1, <1>3, RestIs
<1>7. cmd'[p].pc # "ended" => n < 5
  <2>1. Rest(5) = <<>>  BY RestIs
  <2>2. QED  BY <1>4, <1>6, <2>1
<1>8. Clean(cmd'[p].kind, n, disk')  BY <1>2, <1>3, <1>5
<1>9. At(p, n)'  BY <1>3, <1>4, <1>5, <1>6, <1>7, <1>8 DEF At
<1>10. QED  BY <1>4, <1>9

LEMMA ReplacesPast ==
  ASSUME Shaped, NEW p \in Commands, NEW lines, Replaces(p, lines), NEW k \in 0..4,
         cmd[p].todo = Rest(k), cmd[p].kind = "picker" => k >= 3, UNCHANGED disk,
         Clean(cmd[p].kind, k + 1, With(disk, FileOf(p), lines))
  PROVE  Past(p)'
<1>1. /\ Moves(p) /\ cmd'[p].pc = "write" /\ cmd'[p].todo = cmd[p].todo
      /\ cmd'[p].next = lines
  BY ReplacesIs
<1>2. FileOf(p)' = FileOf(p) /\ cmd'[p].kind = cmd[p].kind  BY <1>1 DEF FileOf, Moves
<1>3. At(p, k)'  BY <1>1, <1>2 DEF At
<1>4. k \in 0..5  OBVIOUS
<1>5. QED  BY <1>3, <1>4 DEF Past

\* A counted command was so before, by each of its own steps.
LEMMA AtNow ==
  ASSUME Releasing, NEW p \in Commands, Busy(p), Counted(p)
  PROVE  \E k \in 0..4 : At(p, k)
<1>1. PICK k \in 0..5 : At(p, k)  BY DEF Releasing, Past
<1>2. k < 5  BY <1>1 DEF At, Busy
<1>3. k \in 0..4  BY <1>2
<1>4. QED  BY <1>1, <1>3

\* It is about to begin a half.
LEMMA NextAt ==
  ASSUME Releasing, NEW p \in Commands, cmd[p].pc = "next", Counted(p)
  PROVE  \E k \in 0..4 : /\ cmd[p].todo = Rest(k) /\ (cmd[p].kind = "picker" => k >= 3)
                         /\ Clean(cmd[p].kind, k, disk) /\ Head(cmd[p].todo) = HalfAt(k)
<1>1. PICK k \in 0..4 : At(p, k)  BY AtNow DEF Busy
<1>2. QED  BY <1>1, RestIs DEF At

LEMMA BindingsPast ==
  ASSUME Once, Releasing, NEW p \in Commands, Bindings(p), Counted(p)
  PROVE  Past(p)'
<1>1. /\ cmd[p].pc = "next" /\ FileOf(p) = "bindings" /\ ~cmd[p].on /\ UNCHANGED disk
      /\ Shaped /\ DOMAIN disk = FileNames /\ Stands
  BY AtBindings DEF Bindings, Quiet, Counted, Releasing, Stands, IInv, Texts
<1>2. PICK k \in 0..4 : /\ cmd[p].todo = Rest(k) /\ (cmd[p].kind = "picker" => k >= 3)
                        /\ Clean(cmd[p].kind, k, disk) /\ Head(cmd[p].todo) = HalfAt(k)
  BY <1>1, NextAt
<1>3. k = 0 \/ k = 3
  <2>1. HalfAt(k) \in {"keys", "window"}  BY <1>2 DEF Bindings, Half
  <2>2. QED  BY <2>1 DEF HalfAt
<1>4. PICK lines, b, d, kind :
        /\ lines = Content(disk, "bindings") /\ b = BlockOf(p) /\ d = disk /\ kind = cmd[p].kind
  OBVIOUS
<1>5. b = (IF k = 0 THEN "keys" ELSE "float") /\ b \in Blocks
  BY <1>2, <1>3, <1>4 DEF BlockOf, HalfAt, Blocks
<1>6. Text(p) = lines /\ (~IsOmarchy => lines = <<>>)
  BY <1>1, <1>4 DEF Text, IsOmarchy, Content
<1>7. \/ \E ok \in BOOLEAN : Done(p, ok) /\ (ok => ~HasBlock(lines, b))
      \/ HasBlock(lines, b) /\ Cuttable(lines, b) /\ Replaces(p, Cut(lines, b))
  <2>1. \/ ~IsOmarchy /\ Done(p, TRUE)
        \/ Done(p, FALSE)
        \/ ~HasBlock(lines, b) /\ Done(p, TRUE)
        \/ HasBlock(lines, b) /\ Cuttable(lines, b) /\ Replaces(p, Cut(lines, b))
    BY <1>1, <1>4, <1>6 DEF Bindings, On
  <2>2. lines = <<>> => ~HasBlock(lines, b)
    <3>1. lines = <<>> => DOMAIN lines = {}  OBVIOUS
    <3>2. QED  BY <3>1 DEF HasBlock, Begins
  <2>3. QED  BY <1>6, <2>1, <2>2
<1>8. ASSUME NEW then, \A other \in FileNames \ {"bindings"} : Content(then, other) = Content(d, other),
             ~HasBlock(Content(then, "bindings"), b),
             HasBlock(Content(then, "bindings"), "keys") => HasBlock(lines, "keys")
      PROVE  Clean(kind, k + 1, then)
  <2>1. FileAt(k) = "bindings"  BY <1>3 DEF FileAt
  <2>2. Clears(k, d, then)  BY <1>3, <1>4, <1>5, <1>8, <2>1 DEF Clears
  <2>3. QED  BY <1>2, <1>4, <2>2, NextClean
<1>9. CASE \E ok \in BOOLEAN : Done(p, ok) /\ (ok => ~HasBlock(lines, b))
  <2>1. PICK ok \in BOOLEAN : Done(p, ok) /\ (ok => ~HasBlock(lines, b))  BY <1>9
  <2>2. ok => Clean(kind, k + 1, d)  BY <1>4, <1>8, <2>1
  <2>3. ok => Clean(cmd[p].kind, k + 1, disk')  BY <1>1, <1>4, <2>2
  <2>4. QED  BY <1>1, <1>2, <2>1, <2>3, DonePast
<1>10. CASE HasBlock(lines, b) /\ Cuttable(lines, b) /\ Replaces(p, Cut(lines, b))
  <2>1. Single(lines) /\ Sequence(lines)  BY <1>1, <1>4, OnDiskIs DEF Fits
  <2>2. PICK cut : cut = Cut(lines, b)  OBVIOUS
  <2>3. ~HasBlock(cut, b) /\ (HasBlock(cut, "keys") => HasBlock(lines, "keys"))
    BY <1>5, <1>10, <2>1, <2>2, CutSingle
  <2>4. PICK then : then = With(d, "bindings", cut)  OBVIOUS
  <2>5. /\ Content(then, "bindings") = cut
        /\ \A other \in FileNames \ {"bindings"} : Content(then, other) = Content(d, other)
    BY <1>1, <1>4, <2>4, WithIs DEF FileNames
  <2>6. Clean(kind, k + 1, then)  BY <1>8, <2>3, <2>5
  <2>7. Clean(cmd[p].kind, k + 1, With(disk, FileOf(p), cut))  BY <1>1, <1>4, <2>4, <2>6
  <2>8. Replaces(p, cut)  BY <1>10, <2>2
  <2>9. QED  BY <1>1, <1>2, <2>7, <2>8, ReplacesPast
<1>11. QED  BY <1>7, <1>9, <1>10

\* The halves that have a file of their own.
LEMMA HalfIs ==
  ASSUME Releasing, NEW p \in Commands, NEW k \in {1, 2, 4}, Half(p, HalfAt(k)), Counted(p)
  PROVE  /\ cmd[p].todo = Rest(k) /\ (cmd[p].kind = "picker" => k >= 3)
         /\ Clean(cmd[p].kind, k, disk) /\ FileOf(p) = FileAt(k)
<1>1. PICK n \in 0..4 : /\ cmd[p].todo = Rest(n) /\ (cmd[p].kind = "picker" => n >= 3)
                        /\ Clean(cmd[p].kind, n, disk) /\ Head(cmd[p].todo) = HalfAt(n)
  BY NextAt DEF Half
<1>2. n = k  BY <1>1 DEF Half, HalfAt
<1>3. FileOf(p) = FileAt(k)  BY <1>1, <1>2 DEF FileOf, FileAt, HalfAt
<1>4. QED  BY <1>1, <1>2, <1>3

\* Such a half is over with a step that does it.
LEMMA HalfDone ==
  ASSUME Releasing, NEW p \in Commands, NEW k \in {1, 2, 4}, Half(p, HalfAt(k)), Counted(p),
         NEW ok \in BOOLEAN, Done(p, ok), NEW d, NEW then, d = disk, then = disk',
         ok => Clears(k, d, then)
  PROVE  Past(p)'
<1>1. /\ cmd[p].todo = Rest(k) /\ (cmd[p].kind = "picker" => k >= 3)
      /\ Clean(cmd[p].kind, k, disk) /\ Shaped
  BY HalfIs DEF Releasing, Stands, IInv
<1>2. PICK kind : kind = cmd[p].kind  OBVIOUS
<1>3. k \in 0..4 /\ Clean(kind, k, d)  BY <1>1, <1>2
<1>4. ok => Clean(kind, k + 1, then)  BY <1>3, NextClean
<1>5. ok => Clean(cmd[p].kind, k + 1, disk')  BY <1>2, <1>4
<1>6. QED  BY <1>1, <1>3, <1>5, DonePast

\* Or begins to write what does it.
LEMMA HalfReplaces ==
  ASSUME Releasing, NEW p \in Commands, NEW k \in {1, 2, 4}, Half(p, HalfAt(k)), Counted(p),
         NEW lines, Replaces(p, lines), UNCHANGED disk, NEW d, d = disk,
         Clears(k, d, With(d, FileAt(k), lines))
  PROVE  Past(p)'
<1>1. /\ cmd[p].todo = Rest(k) /\ (cmd[p].kind = "picker" => k >= 3)
      /\ Clean(cmd[p].kind, k, disk) /\ FileOf(p) = FileAt(k) /\ Shaped
  BY HalfIs DEF Releasing, Stands, IInv
<1>2. PICK kind, then : kind = cmd[p].kind /\ then = With(d, FileAt(k), lines)  OBVIOUS
<1>3. k \in 0..4 /\ Clean(kind, k, d)  BY <1>1, <1>2
<1>4. Clean(kind, k + 1, then)  BY <1>2, <1>3, NextClean
<1>5. Clean(cmd[p].kind, k + 1, With(disk, FileOf(p), lines))  BY <1>1, <1>2, <1>4
<1>6. QED  BY <1>1, <1>3, <1>5, ReplacesPast

LEMMA NowIs ==
  ASSUME Releasing
  PROVE  Stands /\ Shaped /\ DOMAIN disk = FileNames
BY DEF Releasing, Stands, IInv, Texts

LEMMA MimePast ==
  ASSUME Releasing, NEW p \in Commands, ReleaseMime(p), Counted(p)
  PROVE  Past(p)'
<1>1. PICK k : k = 1  OBVIOUS
<1>2. k \in {1, 2, 4} /\ HalfAt(k) = "mime" /\ FileAt(k) = "mime"  BY <1>1 DEF HalfAt, FileAt
<1>3. Half(p, HalfAt(k)) /\ UNCHANGED disk  BY <1>2 DEF ReleaseMime, Quiet
<1>4. FileOf(p) = "mime"  BY <1>2, <1>3, HalfIs
<1>5. PICK d, lines : d = disk /\ lines = Content(disk, "mime")  OBVIOUS
<1>6. Text(p) = lines  BY <1>4, <1>5 DEF Text
<1>7. CASE Claims(lines) = {} /\ Done(p, TRUE)
  <2>1. Clears(k, d, d)  BY <1>1, <1>5, <1>7 DEF Clears
  <2>2. QED  BY <1>2, <1>3, <1>5, <1>7, <2>1, HalfDone
<1>8. CASE Replaces(p, DropDefault(lines))
  <2>1. PICK next : next = DropDefault(lines)  OBVIOUS
  <2>2. Claims(next) = {}
    <3>1. Listed(lines)  BY <1>5, NowIs, OnDiskIs DEF Fits
    <3>2. QED  BY <2>1, <3>1, DropDefaultKeeps
  <2>3. PICK then : then = With(d, "mime", next)  OBVIOUS
  <2>4. /\ Content(then, "mime") = next
        /\ \A other \in FileNames \ {"mime"} : Content(then, other) = Content(d, other)
    BY <1>5, <2>3, NowIs, WithIs DEF FileNames
  <2>5. Clears(k, d, then)  BY <1>1, <1>2, <2>2, <2>4 DEF Clears
  <2>6. Replaces(p, next) /\ then = With(d, FileAt(k), next)  BY <1>2, <1>8, <2>1, <2>3
  <2>7. QED  BY <1>2, <1>3, <1>5, <2>5, <2>6, HalfReplaces
<1>9. QED  BY <1>6, <1>7, <1>8 DEF ReleaseMime

LEMMA ServicePast ==
  ASSUME Releasing, NEW p \in Commands, ReleaseService(p), Counted(p)
  PROVE  Past(p)'
<1>1. PICK k : k = 2  OBVIOUS
<1>2. k \in {1, 2, 4} /\ HalfAt(k) = "service" /\ FileAt(k) = "service"
  BY <1>1 DEF HalfAt, FileAt
<1>3. Half(p, HalfAt(k))  BY <1>2 DEF ReleaseService
<1>4. FileOf(p) = "service"  BY <1>2, <1>3, HalfIs
<1>5. PICK d, then, lines : d = disk /\ then = disk' /\ lines = Content(disk, "service")  OBVIOUS
<1>6. Text(p) = lines /\ (Absent(p) => lines = <<>>)
  BY <1>4, <1>5 DEF Text, Absent, Content
<1>7. ~OwnService(<<>>)  BY DEF OwnService
<1>8. \/ \E ok \in BOOLEAN : Done(p, ok) /\ then = d /\ (ok => ~OwnService(lines))
      \/ Done(p, TRUE) /\ then = [d EXCEPT !["service"] = <<>>]
  BY <1>4, <1>5, <1>6, <1>7 DEF ReleaseService, Removes, Marked
<1>9. CASE \E ok \in BOOLEAN : Done(p, ok) /\ then = d /\ (ok => ~OwnService(lines))
  <2>1. PICK ok \in BOOLEAN : Done(p, ok) /\ then = d /\ (ok => ~OwnService(lines))  BY <1>9
  <2>2. ok => Clears(k, d, then)  BY <1>1, <1>5, <2>1 DEF Clears
  <2>3. QED  BY <1>2, <1>3, <1>5, <2>1, <2>2, HalfDone
<1>10. CASE Done(p, TRUE) /\ then = [d EXCEPT !["service"] = <<>>]
  <2>1. then["service"] = <<>> /\ \A other \in FileNames \ {"service"} : then[other] = d[other]
    BY <1>5, <1>10, NowIs DEF FileNames
  <2>2. /\ Content(then, "service") = <<>>
        /\ \A other \in FileNames \ {"service"} : Content(then, other) = Content(d, other)
    BY <2>1 DEF Content
  <2>3. Clears(k, d, then)  BY <1>1, <1>2, <1>7, <2>2 DEF Clears
  <2>4. QED  BY <1>2, <1>3, <1>5, <1>10, <2>3, HalfDone
<1>11. QED  BY <1>8, <1>9, <1>10

LEMMA ChooserPast ==
  ASSUME Releasing, NEW p \in Commands, ReleaseChooser(p), Counted(p)
  PROVE  Past(p)'
<1>1. PICK k : k = 4  OBVIOUS
<1>2. k \in {1, 2, 4} /\ HalfAt(k) = "routing" /\ FileAt(k) = "conf"
  BY <1>1 DEF HalfAt, FileAt
<1>3. Half(p, HalfAt(k))  BY <1>2 DEF ReleaseChooser
<1>4. FileOf(p) = "conf"  BY <1>2, <1>3, HalfIs
<1>5. PICK d, then, lines : d = disk /\ then = disk' /\ lines = Content(disk, "conf")  OBVIOUS
<1>6. Text(p) = lines  BY <1>4, <1>5 DEF Text
<1>7. PICK next : next = DropPreferred(lines)  OBVIOUS
<1>8. Held(next, "preferred", "chooser") = {}
  <2>1. Sequence(lines)  BY <1>5, NowIs, OnDiskIs DEF Keyed, Sequence
  <2>2. QED  BY <1>7, <2>1, DropKeeps
<1>9. \/ Done(p, FALSE) /\ then = d
      \/ Done(p, TRUE) /\ then = d /\ next = lines
      \/ Done(p, TRUE) /\ then = [d EXCEPT !["conf"] = <<>>]
      \/ Replaces(p, next) /\ then = d
  BY <1>4, <1>5, <1>6, <1>7 DEF ReleaseChooser, Removes
<1>10. CASE Done(p, FALSE) /\ then = d  BY <1>2, <1>3, <1>5, <1>10, HalfDone
<1>11. CASE Done(p, TRUE) /\ then = d /\ next = lines
  <2>1. Clears(k, d, then)  BY <1>1, <1>5, <1>8, <1>11 DEF Clears
  <2>2. QED  BY <1>2, <1>3, <1>5, <1>11, <2>1, HalfDone
<1>12. CASE Done(p, TRUE) /\ then = [d EXCEPT !["conf"] = <<>>]
  <2>1. then["conf"] = <<>> /\ \A other \in FileNames \ {"conf"} : then[other] = d[other]
    BY <1>5, <1>12, NowIs DEF FileNames
  <2>2. /\ Content(then, "conf") = <<>>
        /\ \A other \in FileNames \ {"conf"} : Content(then, other) = Content(d, other)
    BY <2>1 DEF Content
  <2>3. Held(<<>>, "preferred", "chooser") = {}
    <3>1. PICK none : none = <<>>  OBVIOUS
    <3>2. DOMAIN none = {}  BY <3>1
    <3>3. Held(none, "preferred", "chooser") = {}  BY <3>2 DEF Held
    <3>4. QED  BY <3>1, <3>3
  <2>4. Clears(k, d, then)  BY <1>1, <1>2, <2>2, <2>3 DEF Clears
  <2>5. QED  BY <1>2, <1>3, <1>5, <1>12, <2>4, HalfDone
<1>13. CASE Replaces(p, next) /\ then = d
  <2>1. PICK whole : whole = With(d, "conf", next)  OBVIOUS
  <2>2. /\ Content(whole, "conf") = next
        /\ \A other \in FileNames \ {"conf"} : Content(whole, other) = Content(d, other)
    BY <1>5, <2>1, NowIs, WithIs DEF FileNames
  <2>3. Clears(k, d, whole)  BY <1>1, <1>2, <1>8, <2>2 DEF Clears
  <2>4. whole = With(d, FileAt(k), next) /\ disk' = disk  BY <1>2, <1>5, <1>13, <2>1
  <2>5. QED  BY <1>2, <1>3, <1>5, <1>13, <2>3, <2>4, HalfReplaces
<1>14. QED  BY <1>9, <1>10, <1>11, <1>12, <1>13

LEMMA FailedPast ==
  ASSUME NEW p \in Commands, cmd'[p].failed
  PROVE  Past(p)'
BY DEF Past, Counted

LEMMA WritePast ==
  ASSUME Releasing, NEW p \in Commands, WriteNew(p), Counted(p)
  PROVE  Past(p)'
<1>1. Shaped /\ cmd[p].pc = "write"  BY NowIs DEF WriteNew
<1>2. CASE WriteFails(p)
  <2>1. cmd'[p].failed  BY <1>1, <1>2, FailsIs
  <2>2. QED  BY <2>1, FailedPast
<1>3. CASE cmd' = [cmd EXCEPT ![p].pc = "rename"] /\ UNCHANGED disk
  <2>1. /\ Moves(p) /\ cmd'[p].pc = "rename" /\ cmd'[p].todo = cmd[p].todo
        /\ cmd'[p].next = cmd[p].next
    BY <1>1, <1>3, GoesIs DEF Stages
  <2>2. FileOf(p)' = FileOf(p) /\ cmd'[p].kind = cmd[p].kind  BY <2>1 DEF FileOf, Moves
  <2>3. PICK k \in 0..4 : At(p, k)  BY <1>1, AtNow DEF Busy
  <2>4. At(p, k)'  BY <1>1, <1>3, <2>1, <2>2, <2>3 DEF At
  <2>5. k \in 0..5  OBVIOUS
  <2>6. QED  BY <2>4, <2>5 DEF Past
<1>4. QED  BY <1>2, <1>3 DEF WriteNew

LEMMA RenamePast ==
  ASSUME Releasing, NEW p \in Commands, Rename(p), Counted(p)
  PROVE  Past(p)'
<1>1. Shaped /\ cmd[p].pc = "rename"  BY NowIs DEF Rename
<1>2. PICK k \in 0..4 : At(p, k)  BY <1>1, AtNow DEF Busy
<1>3. /\ cmd[p].todo = Rest(k) /\ (cmd[p].kind = "picker" => k >= 3)
      /\ Clean(cmd[p].kind, k + 1, With(disk, FileOf(p), cmd[p].next))
  BY <1>1, <1>2 DEF At
<1>4. CASE WriteFails(p)
  <2>1. cmd'[p].failed  BY <1>1, <1>4, FailsIs
  <2>2. QED  BY <2>1, FailedPast
<1>5. ASSUME disk' = [disk EXCEPT ![FileOf(p)] = <<cmd[p].next>>]
      PROVE  Clean(cmd[p].kind, k + 1, disk')
  BY <1>3, <1>5 DEF With
<1>6. CASE /\ disk' = [disk EXCEPT ![FileOf(p)] = <<cmd[p].next>>]
           /\ cmd' = [cmd EXCEPT ![p].pc = "reload"]
  <2>1. Moves(p) /\ cmd'[p].pc = "reload" /\ cmd'[p].todo = cmd[p].todo
    BY <1>1, <1>6, GoesIs DEF Stages
  <2>2. cmd'[p].kind = cmd[p].kind  BY <2>1 DEF Moves
  <2>3. Clean(cmd[p].kind, k + 1, disk')  BY <1>5, <1>6
  <2>4. Clean(cmd'[p].kind, k + 1, disk')  BY <2>2, <2>3
  <2>5. cmd'[p].todo = Rest(k) /\ (cmd'[p].kind = "picker" => k >= 3)  BY <1>3, <2>1, <2>2
  <2>6. At(p, k)'  BY <2>1, <2>4, <2>5 DEF At
  <2>7. k \in 0..5  OBVIOUS
  <2>8. QED  BY <2>6, <2>7 DEF Past
<1>7. CASE /\ disk' = [disk EXCEPT ![FileOf(p)] = <<cmd[p].next>>]
           /\ \E ok \in BOOLEAN : Done(p, ok)
  BY <1>1, <1>3, <1>5, <1>7, DonePast
<1>8. QED
  <2>1. \/ WriteFails(p)
        \/ /\ disk' = [disk EXCEPT ![FileOf(p)] = <<cmd[p].next>>]
           /\ cmd' = [cmd EXCEPT ![p].pc = "reload"]
        \/ /\ disk' = [disk EXCEPT ![FileOf(p)] = <<cmd[p].next>>]
           /\ \E ok \in {TRUE, FileOf(p) # "mime"} : Done(p, ok)
    BY DEF Rename
  <2>2. {TRUE, FileOf(p) # "mime"} \subseteq BOOLEAN  OBVIOUS
  <2>3. QED  BY <1>4, <1>6, <1>7, <2>1, <2>2

LEMMA ReloadPast ==
  ASSUME Releasing, NEW p \in Commands, Reload(p), Counted(p)
  PROVE  Past(p)'
<1>1. Shaped /\ cmd[p].pc = "reload" /\ UNCHANGED disk  BY NowIs DEF Reload
<1>2. PICK k \in 0..4 : At(p, k)  BY <1>1, AtNow DEF Busy
<1>3. /\ cmd[p].todo = Rest(k) /\ (cmd[p].kind = "picker" => k >= 3)
      /\ Clean(cmd[p].kind, k + 1, disk)
  BY <1>1, <1>2 DEF At
<1>4. Clean(cmd[p].kind, k + 1, disk')  BY <1>1, <1>3
<1>5. Done(p, FALSE) \/ Done(p, TRUE)  BY DEF Reload, Counted, On
<1>6. QED  BY <1>1, <1>3, <1>4, <1>5, DonePast

\* A release that failed has failed for good.
LEMMA FailedStays ==
  ASSUME Shaped, NEW p \in Commands, Stage(p), Works(p), ~cmd[p].on, cmd[p].failed
  PROVE  cmd'[p].failed
<1>1. \A ok \in BOOLEAN : Done(p, ok) => cmd'[p].failed  BY DoneIs
<1>2. \A lines : Replaces(p, lines) => cmd'[p].failed  BY ReplacesIs
<1>3. \A stage \in Stages : cmd' = [cmd EXCEPT ![p].pc = stage] => cmd'[p].failed  BY GoesIs
<1>4. WriteFails(p) => cmd'[p].failed  BY FailsIs
<1>5. CASE Both(p)
  <2>1. \/ cmd' = [cmd EXCEPT ![p].todo = <<>>, ![p].pc = "ended"]
        \/ Done(p, TRUE)
    BY <1>5 DEF Both
  <2>2. QED  BY <1>1, <2>1, EndsIs
<1>6. CASE Bindings(p)
  <2>1. PICK lines, b : lines = Text(p) /\ b = BlockOf(p)  OBVIOUS
  <2>2. Done(p, TRUE) \/ Done(p, FALSE) \/ Replaces(p, Cut(lines, b))
    BY <1>6, <2>1 DEF Bindings, On
  <2>3. QED  BY <1>1, <1>2, <2>2
<1>7. CASE ReadFails(p)  BY <1>1, <1>7 DEF ReadFails
<1>8. CASE Reload(p)
  <2>1. Done(p, TRUE) \/ Done(p, FALSE)  BY <1>8 DEF Reload, On
  <2>2. QED  BY <1>1, <2>1
<1>9. CASE Check(p)  BY <1>9 DEF Check, Stage
<1>10. CASE ReleaseMime(p)
  <2>1. PICK next : next = DropDefault(Text(p))  OBVIOUS
  <2>2. Done(p, TRUE) \/ Replaces(p, next)  BY <1>10, <2>1 DEF ReleaseMime
  <2>3. QED  BY <1>1, <1>2, <2>2
<1>11. CASE ReleaseService(p)
  <2>1. Done(p, TRUE) \/ Done(p, FALSE)  BY <1>11 DEF ReleaseService, Removes
  <2>2. QED  BY <1>1, <2>1
<1>12. CASE ReleaseChooser(p)
  <2>1. PICK next : next = DropPreferred(Text(p))  OBVIOUS
  <2>2. Done(p, TRUE) \/ Done(p, FALSE) \/ Replaces(p, next)
    BY <1>12, <2>1 DEF ReleaseChooser, Removes
  <2>3. QED  BY <1>1, <1>2, <2>2
<1>13. CASE WriteNew(p)  BY <1>3, <1>4, <1>13 DEF WriteNew, Stages
<1>14. CASE Rename(p)
  <2>1. {TRUE, FileOf(p) # "mime"} \subseteq BOOLEAN  OBVIOUS
  <2>2. \/ WriteFails(p)
        \/ cmd' = [cmd EXCEPT ![p].pc = "reload"]
        \/ \E ok \in BOOLEAN : Done(p, ok)
    BY <1>14, <2>1 DEF Rename
  <2>3. QED  BY <1>1, <1>3, <1>4, <2>2 DEF Stages
<1>15. ~(ClaimMime(p) \/ ClaimService(p) \/ ClaimChooser(p))
  BY DEF ClaimMime, ClaimService, ClaimChooser, On
<1>16. QED
  BY <1>5, <1>6, <1>7, <1>8, <1>9, <1>10, <1>11, <1>12, <1>13, <1>14, <1>15 DEF Works

LEMMA WorksPast ==
  ASSUME Once, Releasing, NEW p \in Commands, Works(p)
  PROVE  Past(p)'
<1> SUFFICES ASSUME Counted(p)' PROVE Past(p)'  BY DEF Past
<1>1. IInv /\ Shaped /\ Stage(p)  BY NowIs DEF Stands, IInv
<1>2. Good(p) /\ Busy(p)  BY <1>1, WorksGood
<1>3. ~cmd[p].on /\ cmd[p].alone  BY <1>2 DEF Good, Moves, Counted
<1>4. ~cmd[p].failed
  <2>1. ~cmd'[p].failed  BY DEF Counted
  <2>2. QED  BY <1>1, <1>3, <2>1, FailedStays
<1>5. Counted(p)  BY <1>3, <1>4 DEF Counted
<1>6. CASE Bindings(p)  BY <1>5, <1>6, BindingsPast
<1>7. CASE ReleaseMime(p)  BY <1>5, <1>7, MimePast
<1>8. CASE ReleaseService(p)  BY <1>5, <1>8, ServicePast
<1>9. CASE ReleaseChooser(p)  BY <1>5, <1>9, ChooserPast
<1>10. CASE WriteNew(p)  BY <1>5, <1>10, WritePast
<1>11. CASE Rename(p)  BY <1>5, <1>11, RenamePast
<1>12. CASE Reload(p)  BY <1>5, <1>12, ReloadPast
<1>13. ~Check(p)  BY <1>1, <1>3 DEF Check, Stage
<1>14. ~(ClaimMime(p) \/ ClaimService(p) \/ ClaimChooser(p))
  BY <1>3 DEF ClaimMime, ClaimService, ClaimChooser, On
<1>15. ~ReadFails(p)
  <2>1. Done(p, FALSE) => cmd'[p].failed  BY <1>1, DoneIs
  <2>2. QED  BY <2>1 DEF ReadFails, Counted
<1>16. ~Both(p)
  <2> SUFFICES ASSUME Both(p) PROVE FALSE  OBVIOUS
  <2>1. cmd[p].pc = "next" /\ Head(cmd[p].todo) = "both"  BY DEF Both, Half
  <2>2. PICK k \in 0..4 : Head(cmd[p].todo) = HalfAt(k)  BY <1>5, <2>1, NextAt
  <2>3. QED  BY <2>1, <2>2 DEF HalfAt
<1>17. QED
  BY <1>6, <1>7, <1>8, <1>9, <1>10, <1>11, <1>12, <1>13, <1>14, <1>15, <1>16 DEF Works

\* A command that begins has nothing behind it yet.
LEMMA StartPast ==
  ASSUME Releasing, NEW p \in Commands, NEW kind \in {"default", "picker"}, NEW on \in BOOLEAN,
         Start(p, kind, on)
  PROVE  \A q \in Commands : Past(q)'
<1> DEFINE needs == IF kind = "picker" THEN "portal" ELSE "entry"
           alone == \A q \in Commands : ~Busy(q)
           todo == IF on /\ ~Installed(needs) THEN <<>> ELSE Halves(kind, on)
           pc == IF todo = <<>> THEN "ended" ELSE "next"
           failed == todo = <<>>
           sound == ~Refused(loaded) /\ ~Refused(Content(disk, "bindings"))
           new == [Idle EXCEPT !.kind = kind, !.on = on, !.todo = todo, !.alone = alone, !.pc = pc,
                               !.failed = failed, !.sound = sound]
<1>1. cmd' = [q \in Commands |-> IF q = p THEN new ELSE [cmd[q] EXCEPT !.alone = FALSE]]
  BY DEF Start
<1>2. ~on => todo = Rest(IF kind = "picker" THEN 3 ELSE 0) /\ pc = "next"
  BY DEF Halves, Rest
<1> HIDE DEF needs, alone, todo, pc, failed, sound
<1>3. new.kind = kind /\ new.on = on /\ new.todo = todo /\ new.pc = pc  BY DEF Idle
<1> HIDE DEF new
<1>4. cmd'[p] = new  BY <1>1
<1>5. Past(p)'
  <2> SUFFICES ASSUME Counted(p)' PROVE \E k \in 0..5 : At(p, k)'  BY DEF Past
  <2>1. ~on  BY <1>3, <1>4 DEF Counted
  <2>2. PICK k \in 0..5 : k = IF kind = "picker" THEN 3 ELSE 0  OBVIOUS
  <2>3. cmd'[p].todo = Rest(k) /\ cmd'[p].pc = "next" /\ cmd'[p].kind = kind
    BY <1>2, <1>3, <1>4, <2>1, <2>2
  <2>4. Clean(kind, k, disk')  BY <2>2 DEF Clean
  <2>5. Clean(cmd'[p].kind, k, disk')  BY <2>3, <2>4
  <2>6. At(p, k)'  BY <2>2, <2>3, <2>5 DEF At
  <2>7. QED  BY <2>6
<1>6. ASSUME NEW q \in Commands \ {p} PROVE Past(q)'
  <2>1. PICK V : cmd \in [Commands -> CmdOf(V)]  BY NowIs DEF Shaped
  <2>2. PICK r : r = cmd[q]  OBVIOUS
  <2>3. cmd'[q] = [r EXCEPT !.alone = FALSE] /\ r \in CmdOf(V)  BY <1>1, <2>1, <2>2
  <2>4. ~cmd'[q].alone  BY <2>3 DEF CmdOf
  <2>5. QED  BY <2>4 DEF Past, Counted
<1>7. QED  BY <1>5, <1>6

LEMMA NextReleasing ==
  ASSUME Once, Releasing, [Next]_vars
  PROVE  Releasing'
<1>1. Stands' /\ IInv /\ IInv'  BY NextStands DEF Releasing, Stands
<1>2. PICK V : cmd \in [Commands -> CmdOf(V)]  BY <1>1 DEF IInv, Shaped
<1>3. \A q \in Commands : ~cmd'[q].alone => Past(q)'  BY DEF Past, Counted
<1>4. ASSUME NEW p \in Commands, Step(p), NEW q \in Commands, Busy(q)' PROVE Past(q)'
  <2>1. CASE \E kind \in {"default", "picker"}, on \in BOOLEAN : Start(p, kind, on)
    BY <2>1, StartPast
  <2>2. CASE Dies(p)
    <3>1. Busy(p) /\ cmd' = [cmd EXCEPT ![p] = Idle]  BY <2>2 DEF Dies
    <3>2. cmd'[p] = Idle /\ \A other \in Commands \ {p} : cmd'[other] = cmd[other]
      BY <1>2, <3>1
    <3>3. q # p  BY <1>4, <3>2, IdleIs DEF Busy
    <3>4. ~cmd'[q].alone  BY <1>1, <3>1, <3>2, <3>3 DEF IInv, Alone
    <3>5. QED  BY <1>3, <3>4
  <2>3. CASE Works(p)
    <3>1. Good(p) /\ Busy(p)  BY <1>1, <2>3, WorksGood
    <3>2. CASE q = p  BY <2>3, <3>2, WorksPast
    <3>3. CASE q # p
      <4>1. cmd'[q] = cmd[q] /\ ~cmd[q].alone  BY <1>1, <3>1, <3>3 DEF Good, Moves, IInv, Alone
      <4>2. QED  BY <1>3, <4>1
    <3>4. QED  BY <3>2, <3>3
  <2>4. QED  BY <1>4, <2>1, <2>2, <2>3 DEF Step, Works
<1>5. ASSUME NEW e \in Edits, UserEdits(e), NEW q \in Commands PROVE ~Busy(q)'
  BY <1>5 DEF UserEdits, Busy
<1>6. ASSUME Upgrade \/ UNCHANGED vars, NEW q \in Commands, Busy(q)' PROVE Past(q)'
  <2>1. cmd' = cmd /\ disk' = disk  BY <1>6 DEF Upgrade, vars
  <2>2. Past(q)  BY <1>6, <2>1 DEF Releasing, Busy
  <2>3. QED  BY <2>1, <2>2 DEF Past, Counted, At, FileOf
<1>7. ASSUME Reachable, NEW q \in Commands PROVE Past(q)'
  <2>1. PICK r : r = cmd[q]  OBVIOUS
  <2>2. cmd'[q] = [r EXCEPT !.alone = FALSE] /\ r \in CmdOf(V)
    BY <1>2, <1>7, <2>1 DEF Reachable
  <2>3. ~cmd'[q].alone  BY <2>2 DEF CmdOf
  <2>4. QED  BY <1>3, <2>3
<1>8. QED  BY <1>1, <1>4, <1>5, <1>6, <1>7 DEF Next, Releasing

\* What a release that ends has behind it.
LEMMA ReleaseEnds ==
  ASSUME Once, Releasing, [Next]_vars, NEW p \in Commands, Busy(p), cmd'[p].pc = "ended",
         ~cmd[p].on, cmd[p].alone, ~cmd'[p].failed
  PROVE  Clean(cmd[p].kind, 5, disk')
<1>1. IInv /\ IInv' /\ Works(p)  BY NowIs, NextKeeps, WhoEnds DEF Stands
<1>2. Moves(p) /\ Past(p)'  BY <1>1, WorksGood, WorksPast DEF Good
<1>3. Counted(p)'  BY <1>2 DEF Moves, Counted
<1>4. PICK k \in 0..5 : At(p, k)'  BY <1>2, <1>3 DEF Past
<1>5. cmd'[p].todo = <<>>  BY <1>1 DEF IInv, Stage
<1>6. cmd'[p].todo = Rest(k) /\ Clean(cmd'[p].kind, k, disk')  BY <1>4 DEF At
<1>7. k = 5
  <2>1. k \in 0..4 => Rest(k) # <<>>  BY RestIs
  <2>2. QED  BY <1>5, <1>6, <2>1
<1>8. QED  BY <1>2, <1>6, <1>7 DEF Moves

\* A release that ran alone and did not fail leaves nothing of what it releases:
\* its blocks, its key, its handler's name and its registration, whatever was in
\* the files and whichever version of the package wrote it (defaults.rs and
\* chooser.rs release, hyprkeys.rs release and float_release). The cut takes the first block of its name, so no block may
\* begin twice by a hand other than Philemon's.
THEOREM ReleasedAll == Once => (Spec => ReleasesAll)
<1> SUFFICES ASSUME Once PROVE Spec => ReleasesAll  OBVIOUS
<1> DEFINE Cleared ==
      \A p \in Commands :
        (Busy(p) /\ cmd'[p].pc = "ended" /\ ~On(p) /\ cmd[p].alone /\ ~cmd'[p].failed)
        => /\ ~HasBlock(Content(disk', "bindings"), "float")
           /\ Held(Content(disk', "conf"), "preferred", "chooser") = {}
           /\ cmd[p].kind = "default" =>
                /\ ~HasBlock(Content(disk', "bindings"), "keys")
                /\ Claims(Content(disk', "mime")) = {}
                /\ ~OwnService(Content(disk', "service"))
<1>1. Init => Releasing
  <2> SUFFICES ASSUME Init PROVE Releasing  OBVIOUS
  <2>1. \A p \in Commands : ~Busy(p)  BY IdleIs DEF Init, Busy
  <2>2. QED  BY <2>1, InitStands DEF Releasing
<1>2. Releasing /\ [Next]_vars => Releasing'  BY NextReleasing
<1>3. Releasing /\ [Next]_vars => Cleared
  <2> SUFFICES ASSUME Releasing, [Next]_vars, NEW p \in Commands, Busy(p), cmd'[p].pc = "ended",
                      ~On(p), cmd[p].alone, ~cmd'[p].failed
               PROVE  /\ ~HasBlock(Content(disk', "bindings"), "float")
                      /\ Held(Content(disk', "conf"), "preferred", "chooser") = {}
                      /\ cmd[p].kind = "default" =>
                           /\ ~HasBlock(Content(disk', "bindings"), "keys")
                           /\ Claims(Content(disk', "mime")) = {}
                           /\ ~OwnService(Content(disk', "service"))
    OBVIOUS
  <2>1. PICK kind, then : kind = cmd[p].kind /\ then = disk'  OBVIOUS
  <2>2. Clean(kind, 5, then)  BY <2>1, ReleaseEnds DEF On
  <2>3. QED  BY <2>1, <2>2 DEF Clean
<1>4. QED  BY <1>1, <1>2, <1>3, PTL DEF Spec, ReleasesAll
=============================================================================
