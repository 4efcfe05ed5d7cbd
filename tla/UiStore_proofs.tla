---------------------------- MODULE UiStore_proofs ----------------------------
(***************************************************************************)
(* Proofs about UiStore, for any set of windows, settings and values, any  *)
(* file found at the start and any number of changes, commands and faults. *)
(***************************************************************************)
EXTENDS UiStore, TLAPS

-----------------------------------------------------------------------------
(* Documents and patches.                                                  *)

\* A partial map of the leaves is its domain and its values.
LEMMA PartialMap ==
  ASSUME NEW V, NEW f
  PROVE  f \in UNION {[S -> V] : S \in SUBSET Leaves} <=>
           /\ DOMAIN f \in SUBSET Leaves
           /\ f = [l \in DOMAIN f |-> f[l]]
           /\ \A l \in DOMAIN f : f[l] \in V
<1>1. ASSUME f \in UNION {[S -> V] : S \in SUBSET Leaves}
      PROVE  /\ DOMAIN f \in SUBSET Leaves
             /\ f = [l \in DOMAIN f |-> f[l]]
             /\ \A l \in DOMAIN f : f[l] \in V
  <2>1. PICK S \in SUBSET Leaves : f \in [S -> V]  BY <1>1
  <2>2. QED  BY <2>1
<1>2. ASSUME DOMAIN f \in SUBSET Leaves, f = [l \in DOMAIN f |-> f[l]],
             \A l \in DOMAIN f : f[l] \in V
      PROVE  f \in UNION {[S -> V] : S \in SUBSET Leaves}
  <2>1. f \in [DOMAIN f -> V]  BY <1>2
  <2>2. QED  BY <1>2, <2>1
<1>3. QED  BY <1>1, <1>2

LEMMA DocumentMap ==
  ASSUME NEW f
  PROVE  f \in Documents <=> /\ DOMAIN f \in SUBSET Leaves
                             /\ f = [l \in DOMAIN f |-> f[l]]
                             /\ \A l \in DOMAIN f : f[l] \in Values \cup {Junk}
  BY PartialMap DEF Documents

LEMMA PatchMap ==
  ASSUME NEW f
  PROVE  f \in Patches <=> /\ DOMAIN f \in SUBSET Leaves
                           /\ f = [l \in DOMAIN f |-> f[l]]
                           /\ \A l \in DOMAIN f : f[l] \in Values
  BY PartialMap DEF Patches

LEMMA PatchesAreDocuments == Patches \subseteq Documents
  BY PatchMap, DocumentMap

LEMMA ApplyIs ==
  ASSUME NEW doc, NEW patch
  PROVE  /\ DOMAIN Apply(doc, patch) = DOMAIN doc \cup DOMAIN patch
         /\ Apply(doc, patch) = [l \in DOMAIN Apply(doc, patch) |-> Apply(doc, patch)[l]]
         /\ \A l \in DOMAIN patch : Apply(doc, patch)[l] = patch[l]
         /\ \A l \in DOMAIN doc \ DOMAIN patch : Apply(doc, patch)[l] = doc[l]
  BY DEF Apply

LEMMA ApplyDocument ==
  ASSUME NEW doc \in Documents, NEW patch \in Patches
  PROVE  Apply(doc, patch) \in Documents
<1>1. /\ DOMAIN doc \in SUBSET Leaves /\ DOMAIN patch \in SUBSET Leaves
      /\ \A l \in DOMAIN doc : doc[l] \in Values \cup {Junk}
      /\ \A l \in DOMAIN patch : patch[l] \in Values
  BY DocumentMap, PatchMap
<1> DEFINE r == Apply(doc, patch)
<1>2. /\ DOMAIN r = DOMAIN doc \cup DOMAIN patch
      /\ r = [l \in DOMAIN r |-> r[l]]
      /\ \A l \in DOMAIN patch : r[l] = patch[l]
      /\ \A l \in DOMAIN doc \ DOMAIN patch : r[l] = doc[l]
  BY ApplyIs, Zenon
<1> HIDE DEF r
<1>3. DOMAIN r \in SUBSET Leaves /\ \A l \in DOMAIN r : r[l] \in Values \cup {Junk}
  BY <1>1, <1>2
<1>4. r \in Documents  BY <1>2, <1>3, DocumentMap
<1>5. QED  BY <1>4 DEF r

LEMMA ApplyPatch ==
  ASSUME NEW doc \in Patches, NEW patch \in Patches
  PROVE  Apply(doc, patch) \in Patches
<1>1. /\ DOMAIN doc \in SUBSET Leaves /\ DOMAIN patch \in SUBSET Leaves
      /\ \A l \in DOMAIN doc : doc[l] \in Values
      /\ \A l \in DOMAIN patch : patch[l] \in Values
  BY PatchMap
<1> DEFINE r == Apply(doc, patch)
<1>2. /\ DOMAIN r = DOMAIN doc \cup DOMAIN patch
      /\ r = [l \in DOMAIN r |-> r[l]]
      /\ \A l \in DOMAIN patch : r[l] = patch[l]
      /\ \A l \in DOMAIN doc \ DOMAIN patch : r[l] = doc[l]
  BY ApplyIs, Zenon
<1> HIDE DEF r
<1>3. DOMAIN r \in SUBSET Leaves /\ \A l \in DOMAIN r : r[l] \in Values
  BY <1>1, <1>2
<1>4. r \in Patches  BY <1>2, <1>3, PatchMap
<1>5. QED  BY <1>4 DEF r

LEMMA OneLeaf ==
  ASSUME NEW l \in Leaves, NEW v \in Values
  PROVE  [m \in {l} |-> v] \in Patches
<1> DEFINE f == [m \in {l} |-> v]
<1>1. DOMAIN f = {l} /\ f = [m \in DOMAIN f |-> f[m]] /\ \A m \in DOMAIN f : f[m] \in Values
  OBVIOUS
<1>2. QED  BY <1>1, PatchMap

LEMMA NothingIs == Nothing \in Patches /\ DOMAIN Nothing = {}
<1>1. DOMAIN Nothing = {} /\ Nothing = [l \in DOMAIN Nothing |-> Nothing[l]]  BY DEF Nothing
<1>2. QED  BY <1>1, PatchMap

\* What the merge keeps: a leaf the document holds acceptably stands, every
\* setting ends up with a value the schema accepts, and nothing else is added.
LEMMA FilledIs ==
  ASSUME NEW doc \in Documents
  PROVE  /\ Filled(doc) \in Documents
         /\ Settings \subseteq DOMAIN Filled(doc)
         /\ \A l \in Settings : Filled(doc)[l] \in Values
         /\ \A l \in DOMAIN doc : doc[l] \in Values => /\ l \in DOMAIN Filled(doc)
                                                       /\ Filled(doc)[l] = doc[l]
<1> DEFINE kept == [l \in {m \in DOMAIN doc : m \in Settings => doc[m] \in Values} |-> doc[l]]
<1>1. /\ DOMAIN kept \subseteq DOMAIN doc
      /\ \A l \in DOMAIN kept : kept[l] = doc[l] /\ (l \in Settings => doc[l] \in Values)
      /\ \A l \in DOMAIN doc : doc[l] \in Values => l \in DOMAIN kept
  OBVIOUS
<1>2. DOMAIN Defaults = Settings /\ \A l \in Settings : Defaults[l] \in Values
  BY StoreAssumption DEF Defaults
<1>3. Filled(doc) = Apply(Defaults, kept)  BY DEF Filled
<1>4. DOMAIN doc \subseteq Leaves /\ \A l \in DOMAIN doc : doc[l] \in Values \cup {Junk}
  BY DocumentMap
<1>a. /\ DOMAIN Apply(Defaults, kept) = DOMAIN Defaults \cup DOMAIN kept
      /\ Apply(Defaults, kept) =
           [l \in DOMAIN Apply(Defaults, kept) |-> Apply(Defaults, kept)[l]]
      /\ \A l \in DOMAIN kept : Apply(Defaults, kept)[l] = kept[l]
      /\ \A l \in DOMAIN Defaults \ DOMAIN kept : Apply(Defaults, kept)[l] = Defaults[l]
  BY ApplyIs
<1> HIDE DEF kept
<1>5. /\ DOMAIN Filled(doc) = Settings \cup DOMAIN kept
      /\ Filled(doc) = [l \in DOMAIN Filled(doc) |-> Filled(doc)[l]]
      /\ \A l \in DOMAIN kept : Filled(doc)[l] = kept[l]
      /\ \A l \in Settings \ DOMAIN kept : Filled(doc)[l] = Defaults[l]
  BY <1>2, <1>3, <1>a
<1>6. \A l \in Settings : Filled(doc)[l] \in Values  BY <1>1, <1>2, <1>5
<1>7. \A l \in DOMAIN Filled(doc) : Filled(doc)[l] \in Values \cup {Junk}
  BY <1>1, <1>4, <1>5, <1>6
<1>8. DOMAIN Filled(doc) \in SUBSET Leaves  BY <1>1, <1>4, <1>5 DEF Leaves
<1>9. Filled(doc) \in Documents  BY <1>5, <1>7, <1>8, DocumentMap
<1>10. QED  BY <1>1, <1>5, <1>6, <1>9

\* What a writer makes of what it read and its patch.
LEMMA PatchedIs ==
  ASSUME NEW doc \in Documents, NEW patch \in Patches
  PROVE  /\ Patched(doc, patch) \in Documents
         /\ Clean(Patched(doc, patch))
         /\ \A l \in DOMAIN patch : Patched(doc, patch)[l] = patch[l]
         /\ \A l \in DOMAIN doc \ DOMAIN patch :
              doc[l] \in Values => /\ l \in DOMAIN Patched(doc, patch)
                                   /\ Patched(doc, patch)[l] = doc[l]
<1>1. Patched(doc, patch) = Apply(Filled(doc), patch)  BY DEF Patched
<1>2. DOMAIN patch \subseteq Leaves /\ \A l \in DOMAIN patch : patch[l] \in Values
  BY PatchMap
<1>3. Patched(doc, patch) \in Documents  BY <1>1, FilledIs, ApplyDocument
<1>4. /\ DOMAIN Patched(doc, patch) = DOMAIN Filled(doc) \cup DOMAIN patch
      /\ \A l \in DOMAIN patch : Patched(doc, patch)[l] = patch[l]
      /\ \A l \in DOMAIN Filled(doc) \ DOMAIN patch : Patched(doc, patch)[l] = Filled(doc)[l]
  BY <1>1, ApplyIs
<1>5. Clean(Patched(doc, patch))  BY <1>2, <1>4, FilledIs DEF Clean
<1>6. QED  BY <1>3, <1>4, <1>5, FilledIs

LEMMA ReadOfIs ==
  ASSUME NEW f \in Documents \cup {Absent, Malformed, Unreadable}
  PROVE  ReadOf(f) \in Documents /\ (IsDocument(f) => f \in Documents /\ ReadOf(f) = f)
<1>1. IsDocument(f) => f \in Documents  BY DEF IsDocument
<1>2. Defaults \in Documents
  <2>1. /\ DOMAIN Defaults = Settings /\ Defaults = [l \in DOMAIN Defaults |-> Defaults[l]]
        /\ \A l \in Settings : Defaults[l] \in Values
    BY StoreAssumption DEF Defaults
  <2>2. QED  BY <2>1, DocumentMap DEF Leaves
<1>3. Legacy # Absent => Legacy \in Documents
  <2>1. Legacy # Absent => Legacy \in [Settings -> Values]  BY StoreAssumption
  <2>2. Legacy # Absent => /\ DOMAIN Legacy = Settings
                           /\ Legacy = [l \in DOMAIN Legacy |-> Legacy[l]]
                           /\ \A l \in Settings : Legacy[l] \in Values
    BY <2>1
  <2>3. QED  BY <2>2, DocumentMap DEF Leaves
<1>4. QED  BY <1>1, <1>2, <1>3 DEF ReadOf

LEMMA AcknowledgedIs ==
  ASSUME NEW owed \in Patches, NEW patch \in Patches
  PROVE  /\ Acknowledged(owed, patch) \in Patches
         /\ DOMAIN Acknowledged(owed, patch) =
              {m \in DOMAIN owed : ~(m \in DOMAIN patch /\ patch[m] = owed[m])}
         /\ \A l \in DOMAIN Acknowledged(owed, patch) : Acknowledged(owed, patch)[l] = owed[l]
<1>1. /\ DOMAIN Acknowledged(owed, patch) =
           {m \in DOMAIN owed : ~(m \in DOMAIN patch /\ patch[m] = owed[m])}
      /\ Acknowledged(owed, patch) =
           [l \in DOMAIN Acknowledged(owed, patch) |-> Acknowledged(owed, patch)[l]]
      /\ \A l \in DOMAIN Acknowledged(owed, patch) : Acknowledged(owed, patch)[l] = owed[l]
  BY DEF Acknowledged
<1>2. DOMAIN owed \subseteq Leaves /\ \A l \in DOMAIN owed : owed[l] \in Values  BY PatchMap
<1>3. QED  BY <1>1, <1>2, PatchMap

-----------------------------------------------------------------------------
(* Type correctness.                                                       *)

Stages == {"idle", "waiting", "done", "failed"} \cup Holding
Process == [stage : Stages, patch : Patches, next : Documents]
Book == [saved : Patches, inflight : Patches, pending : Patches]

LEMMA IdleIs ==
  /\ Idle \in Process /\ Idle.stage = "idle" /\ Idle.patch = Nothing
  /\ \A patch \in Patches :
       Asking(patch) \in Process /\ Asking(patch).stage = "waiting" /\ Asking(patch).patch = patch
  BY NothingIs, PatchesAreDocuments DEF Idle, Asking, Process, Stages

\* The next book when a change is asked for.
LEMMA AskedIs ==
  ASSUME NEW b \in Book, NEW patch \in Patches, NEW same \in BOOLEAN
  PROVE  /\ Asked(b, patch, same) \in Book
         /\ b.inflight # Nothing => Asked(b, patch, same).inflight = b.inflight
         /\ b.inflight = Nothing /\ same => Asked(b, patch, same) = b
         /\ b.inflight = Nothing /\ ~same => /\ Asked(b, patch, same).inflight = patch
                                             /\ Asked(b, patch, same).pending = Nothing
<1>1. CASE same  BY <1>1 DEF Asked
<1>2. CASE ~same /\ b.inflight # Nothing  BY <1>2 DEF Asked, Book
<1>3. CASE ~same /\ b.inflight = Nothing  BY <1>3, NothingIs DEF Asked, Book
<1>4. QED  BY <1>1, <1>2, <1>3

LEMMA ExitedIs ==
  ASSUME NEW b \in Book, NEW ok \in BOOLEAN, NEW owed \in Patches
  PROVE  /\ Exited(b, ok, owed) \in Book
         /\ Exited(b, ok, owed).inflight \in {owed, Nothing}
         /\ Exited(b, ok, owed).pending = Nothing
  BY NothingIs DEF Exited, Book

LEMMA SameIsBoolean ==
  ASSUME NEW p, NEW q, NEW same \in SameBytes(p, q)
  PROVE  same \in BOOLEAN
  BY DEF SameBytes

\* A writer that leaves changes its own place and the lock, nothing else.
LEMMA LeaveIs ==
  ASSUME Types, NEW p \in Processes, NEW stage \in {"done", "failed"}, Leave(p, stage)
  PROVE  /\ lock' = IF lock = p THEN Absent ELSE lock
         /\ proc' \in [Processes -> Process]
         /\ proc'[p].patch = Nothing
         /\ proc'[p].stage = IF p = Cli THEN "idle" ELSE stage
         /\ \A q \in Processes \ {p} : proc'[q] = proc[q]
         /\ UNCHANGED <<file, window, writer>>
<1>1. proc \in [Processes -> Process]  BY DEF Types, Process, Stages
<1>2. [Idle EXCEPT !.stage = stage] \in Process /\ [Idle EXCEPT !.stage = stage].stage = stage
        /\ [Idle EXCEPT !.stage = stage].patch = Nothing
  BY IdleIs, NothingIs, PatchesAreDocuments DEF Idle, Process, Stages
<1>3. QED  BY <1>1, <1>2, IdleIs DEF Leave

LEMMA TypesStep == Types /\ [Next]_vars => Types'
<1> SUFFICES ASSUME Types, [Next]_vars PROVE Types'
  OBVIOUS
<1> USE DEF Types
<1>0. /\ proc \in [Processes -> Process] /\ book \in [Windows -> Book]
      /\ Absent \notin Processes /\ Windows \subseteq Processes /\ Cli \in Processes
  BY StoreAssumption DEF Process, Stages, Book, Processes
<1>1. ASSUME NEW w \in Windows, Launch(w) PROVE Types'
  <2>1. [Idle EXCEPT !.stage = "done"] \in Process /\ Asking(Nothing) \in Process
    BY IdleIs, NothingIs DEF Process, Stages
  <2>4. proc' \in [Processes -> Process]  BY <1>0, <1>1, <2>1, ZenonT(60) DEF Launch
  <2>2. phase' \in [Windows -> {"closed", "settling", "open"}]  BY <1>1 DEF Launch
  <2>3. QED  BY <2>4, <2>2, <1>1 DEF Launch, Process, Stages
<1>2. ASSUME NEW w \in Windows, Open(w) PROVE Types'
  <2>1. proc' \in [Processes -> Process]  BY <1>0, <1>2, IdleIs DEF Open
  <2>2. shown' \in [Windows -> Documents]
    BY <1>2, NothingIs, PatchesAreDocuments DEF Open, IsDocument
  <2>3. QED  BY <2>1, <2>2, <1>2 DEF Open, Process, Stages
<1>3. ASSUME NEW w \in Windows, Wrote(w) PROVE Types'
  <2> DEFINE ok == proc[w].stage = "done"
             sent == book[w].inflight
             owed == IF ok THEN Acknowledged(unsaved[w], sent) ELSE unsaved[w]
             next == Exited(book[w], ok, owed)
  <2>1. sent \in Patches /\ unsaved[w] \in Patches /\ ok \in BOOLEAN /\ book[w] \in Book
    BY <1>0 DEF Book
  <2>2. owed \in Patches  BY <2>1, AcknowledgedIs
  <2>3. next \in Book /\ next.inflight \in Patches  BY <2>1, <2>2, ExitedIs DEF Book
  <2>4. /\ unsaved' = [unsaved EXCEPT ![w] = owed]
        /\ book' = [book EXCEPT ![w] = next]
        /\ refused' = [refused EXCEPT ![w] = ~ok]
        /\ landed' = [landed EXCEPT ![w] = @ \cup {l \in DOMAIN sent : ok /\ shown[w][l] = sent[l]}]
        /\ proc' = [proc EXCEPT ![w] = IF next.inflight # Nothing THEN Asking(next.inflight) ELSE Idle]
        /\ UNCHANGED <<file, lock, phase, shown, writer, used>>
    BY <1>3 DEF Wrote
  <2>5. Asking(next.inflight) \in Process /\ Idle \in Process  BY <2>3, IdleIs
  <2> HIDE DEF next, owed, sent, ok
  <2>6. proc' \in [Processes -> Process]  BY <1>0, <2>4, <2>5
  <2>7. unsaved' \in [Windows -> Patches] /\ book' \in [Windows -> Book]
    BY <1>0, <2>2, <2>3, <2>4
  <2>8. refused' \in [Windows -> BOOLEAN]  BY <2>4 DEF ok
  <2>9. DOMAIN sent \subseteq Leaves  BY <2>1, PatchMap
  <2>10. landed' \in [Windows -> SUBSET Leaves]  BY <2>4, <2>9
  <2>11. QED  BY <2>4, <2>6, <2>7, <2>8, <2>10 DEF Process, Stages, Book
<1>4. ASSUME NEW w \in Windows, NEW l \in Settings, NEW v \in Values, Change(w, l, v) PROVE Types'
  <2> DEFINE one == [m \in {l} |-> v]
             owed == Apply(unsaved[w], one)
  <2>1. one \in Patches  BY OneLeaf DEF Leaves
  <2>2. owed \in Patches /\ Apply(shown[w], one) \in Documents
    BY <2>1, ApplyPatch, ApplyDocument
  <2>3. /\ shown' = [shown EXCEPT ![w] = Apply(shown[w], one)]
        /\ unsaved' = [unsaved EXCEPT ![w] = owed]
        /\ landed' = [landed EXCEPT ![w] = @ \ {l}]
        /\ used.changes < MaxChanges /\ used' = [used EXCEPT !.changes = @ + 1]
        /\ UNCHANGED <<file, lock, phase, refused, writer>>
    BY <1>4 DEF Change
  <2>4. unsaved'[w] = owed  BY <2>3
  <2>5. PICK same \in SameBytes(owed, Newest(book[w])) :
          /\ book' = [book EXCEPT ![w] = Asked(book[w], owed, same)]
          /\ proc' = IF book[w].inflight = Nothing /\ ~same
                     THEN [proc EXCEPT ![w] = Asking(book'[w].inflight)] ELSE proc
    BY <1>4, <2>4 DEF Change
  <2>6. book[w] \in Book /\ same \in BOOLEAN  BY <1>0, SameIsBoolean
  <2>7. Asked(book[w], owed, same) \in Book  BY <2>2, <2>6, AskedIs
  <2> HIDE DEF owed, one
  <2>8. book' \in [Windows -> Book] /\ book'[w] = Asked(book[w], owed, same)  BY <1>0, <2>5, <2>7
  <2>9. Asking(book'[w].inflight) \in Process  BY <2>7, <2>8, IdleIs DEF Book
  <2>10. proc' \in [Processes -> Process]  BY <1>0, <2>5, <2>9
  <2>11. unsaved' \in [Windows -> Patches] /\ shown' \in [Windows -> Documents]
           /\ landed' \in [Windows -> SUBSET Leaves]
    BY <2>2, <2>3
  <2>12. used' \in [changes : 0..MaxChanges, commands : 0..MaxCommands, faults : 0..MaxFaults]
    BY <2>3, StoreAssumption, SMTT(30)
  <2>13. QED  BY <2>3, <2>8, <2>10, <2>11, <2>12 DEF Process, Stages, Book
<1>5. ASSUME NEW p \in Processes, TakeLock(p) PROVE Types'
  <2>1. proc' \in [Processes -> Process]
    BY <1>0, <1>5, SMTT(30) DEF TakeLock, Process, Stages, Holding
  <2>2. QED  BY <1>5, <2>1 DEF TakeLock, window, Process, Stages
<1>6. ASSUME NEW p \in Processes, NEW stage \in {"done", "failed"}, Leave(p, stage),
             used' \in [changes : 0..MaxChanges, commands : 0..MaxCommands, faults : 0..MaxFaults]
      PROVE  Types'
  <2>1. proc' \in [Processes -> Process] /\ UNCHANGED <<file, window, writer>>
    BY <1>6, LeaveIs
  <2>2. lock' \in Processes \cup {Absent}  BY <1>6 DEF Leave
  <2>3. UNCHANGED <<file, phase, shown, unsaved, book, refused, landed, writer>>
    BY <2>1 DEF window
  <2>4. proc' \in [Processes -> [stage : {"idle", "waiting", "done", "failed"} \cup Holding,
                                 patch : Patches, next : Documents]]
    BY <2>1 DEF Process, Stages
  <2>5. QED  BY <1>6, <2>2, <2>3, <2>4
<1>7. ASSUME NEW p \in Processes, Merge(p) PROVE Types'
  <2>1. CASE Accepted(proc[p].patch)
    <3> DEFINE next == Patched(ReadOf(file), proc[p].patch)
    <3>1. proc[p].patch \in Patches  BY <1>0 DEF Process
    <3>2. next \in Documents  BY <3>1, ReadOfIs, PatchedIs
    <3>3. proc' = [proc EXCEPT ![p] = [stage |-> "merged", patch |-> proc[p].patch, next |-> next]]
      BY <1>7, <2>1 DEF Merge
    <3> HIDE DEF next
    <3>4. proc' \in [Processes -> Process]  BY <1>0, <3>1, <3>2, <3>3 DEF Process, Stages, Holding
    <3>5. QED  BY <1>7, <2>1, <3>4 DEF Merge, window, Process, Stages
  <2>2. CASE ~Accepted(proc[p].patch)  BY <1>6, <1>7, <2>2 DEF Merge
  <2>3. QED  BY <2>1, <2>2
<1>8. ASSUME NEW p \in Processes, Rename(p) PROVE Types'
  <2>1. CASE Replaceable(file)
    <3>1. proc' = [proc EXCEPT ![p].stage = "landed"] /\ file' = proc[p].next
      BY <1>8, <2>1 DEF Rename
    <3>2. proc' \in [Processes -> Process] /\ file' \in Documents
      BY <1>0, <3>1, SMTT(30) DEF Process, Stages, Holding
    <3>3. writer' \in [Settings -> Processes \cup {Absent}]  BY <1>8, <2>1 DEF Rename
    <3>4. QED  BY <1>8, <2>1, <3>2, <3>3 DEF Rename, window, Process, Stages
  <2>2. CASE ~Replaceable(file)  BY <1>6, <1>8, <2>2 DEF Rename
  <2>3. QED  BY <2>1, <2>2
<1>9. ASSUME NEW p \in Processes, Unlock(p) PROVE Types'
  BY <1>6, <1>9 DEF Unlock
<1>10. ASSUME NEW p \in Processes, Fault(p) PROVE Types'
  <2>1. used' \in [changes : 0..MaxChanges, commands : 0..MaxCommands, faults : 0..MaxFaults]
    BY <1>10, StoreAssumption DEF Fault
  <2>2. QED  BY <1>6, <1>10, <2>1 DEF Fault
<1>11. ASSUME NEW patch \in Commands, Command(patch) PROVE Types'
  <2>1. patch \in Patches  BY StoreAssumption
  <2>2. proc' \in [Processes -> Process]  BY <1>0, <1>11, <2>1, IdleIs DEF Command
  <2>3. used' \in [changes : 0..MaxChanges, commands : 0..MaxCommands, faults : 0..MaxFaults]
    BY <1>11, StoreAssumption DEF Command
  <2>4. QED  BY <1>11, <2>2, <2>3 DEF Command, window, Process, Stages
<1>12. CASE UNCHANGED vars
  BY <1>12 DEF vars, window
<1>13. QED
  BY <1>1, <1>2, <1>3, <1>4, <1>5, <1>7, <1>8, <1>9, <1>10, <1>11, <1>12 DEF Next, Steps

-----------------------------------------------------------------------------
(* What a window's two handlers do, leaf by leaf.                          *)

\* The update of one place of a family of windows.
LEMMA Except ==
  ASSUME NEW f, DOMAIN f = Windows, NEW w \in Windows, NEW e
  PROVE  [f EXCEPT ![w] = e][w] = e /\ \A u \in Windows \ {w} : [f EXCEPT ![w] = e][u] = f[u]
  OBVIOUS

LEMMA ChangeIs ==
  ASSUME Types, NEW w \in Windows, NEW l \in Settings, NEW v \in Values, Change(w, l, v)
  PROVE  /\ phase[w] = "open" /\ UNCHANGED <<file, lock, phase, writer>>
         /\ DOMAIN shown'[w] = DOMAIN shown[w] \cup {l} /\ shown'[w][l] = v
         /\ \A m \in DOMAIN shown[w] \ {l} : shown'[w][m] = shown[w][m]
         /\ DOMAIN unsaved'[w] = DOMAIN unsaved[w] \cup {l} /\ unsaved'[w][l] = v
         /\ \A m \in DOMAIN unsaved[w] \ {l} : unsaved'[w][m] = unsaved[w][m]
         /\ landed'[w] = landed[w] \ {l}
         /\ \A u \in Windows \ {w} : /\ shown'[u] = shown[u] /\ unsaved'[u] = unsaved[u]
                                     /\ landed'[u] = landed[u] /\ book'[u] = book[u]
         /\ \A p \in Processes \ {w} : proc'[p] = proc[p]
         /\ \/ /\ book'[w].inflight = book[w].inflight /\ proc'[w] = proc[w]
               /\ book[w].inflight = Nothing => book'[w] = book[w]
            \/ /\ book[w].inflight = Nothing /\ book'[w].inflight = unsaved'[w]
               /\ book'[w].inflight # Nothing /\ book'[w].pending = Nothing
               /\ proc'[w].stage = "waiting" /\ proc'[w].patch = book'[w].inflight
<1> DEFINE one == [m \in {l} |-> v]
           owed == Apply(unsaved[w], one)
<1>0. /\ proc \in [Processes -> Process] /\ book \in [Windows -> Book] /\ w \in Processes
      /\ DOMAIN shown = Windows /\ DOMAIN unsaved = Windows /\ DOMAIN landed = Windows
      /\ unsaved[w] \in Patches
  BY DEF Types, Process, Stages, Book, Processes
<1>1. /\ shown' = [shown EXCEPT ![w] = Apply(shown[w], one)]
      /\ unsaved' = [unsaved EXCEPT ![w] = owed]
      /\ landed' = [landed EXCEPT ![w] = landed[w] \ {l}]
      /\ phase[w] = "open" /\ UNCHANGED <<file, lock, phase, writer>>
  BY <1>0 DEF Change
<1>2. unsaved'[w] = owed  BY <1>0, <1>1
<1>14. owed \in Patches
  BY <1>0, OneLeaf, ApplyPatch DEF Leaves
<1>5. /\ DOMAIN Apply(shown[w], one) = DOMAIN shown[w] \cup {l} /\ Apply(shown[w], one)[l] = v
      /\ \A m \in DOMAIN shown[w] \ {l} : Apply(shown[w], one)[m] = shown[w][m]
  BY DEF Apply
<1>6. /\ DOMAIN owed = DOMAIN unsaved[w] \cup {l} /\ owed[l] = v
      /\ \A m \in DOMAIN unsaved[w] \ {l} : owed[m] = unsaved[w][m]
  BY DEF Apply
<1>7. owed # Nothing  BY <1>6, NothingIs
<1> HIDE DEF owed, one
<1>3. PICK same \in SameBytes(owed, Newest(book[w])) :
        /\ book' = [book EXCEPT ![w] = Asked(book[w], owed, same)]
        /\ proc' = IF book[w].inflight = Nothing /\ ~same
                   THEN [proc EXCEPT ![w] = Asking(book'[w].inflight)] ELSE proc
  BY <1>2 DEF Change
<1>4. book[w] \in Book /\ same \in BOOLEAN /\ owed \in Patches
  BY <1>0, <1>14, SameIsBoolean
<1>8. /\ shown'[w] = Apply(shown[w], one) /\ landed'[w] = landed[w] \ {l}
      /\ \A u \in Windows \ {w} : shown'[u] = shown[u] /\ unsaved'[u] = unsaved[u]
                                  /\ landed'[u] = landed[u]
  BY <1>0, <1>1
<1>9. /\ book'[w] = Asked(book[w], owed, same)
      /\ \A u \in Windows \ {w} : book'[u] = book[u]
  BY <1>0, <1>3
<1>10. \A p \in Processes \ {w} : proc'[p] = proc[p]  BY <1>0, <1>3
<1>11. CASE book[w].inflight = Nothing /\ ~same
  <2>1. book'[w].inflight = owed /\ book'[w].pending = Nothing  BY <1>4, <1>9, <1>11, AskedIs
  <2>2. proc'[w] = Asking(owed)  BY <1>0, <1>3, <1>11, <2>1
  <2>3. proc'[w].stage = "waiting" /\ proc'[w].patch = owed  BY <1>4, <2>2, IdleIs
  <2>4. QED  BY <1>1, <1>2, <1>5, <1>6, <1>7, <1>8, <1>9, <1>10, <1>11, <2>1, <2>3
<1>12. CASE ~(book[w].inflight = Nothing /\ ~same)
  <2>1. proc'[w] = proc[w]  BY <1>3, <1>12
  <2>2. /\ book'[w].inflight = book[w].inflight
        /\ book[w].inflight = Nothing => book'[w] = book[w]
    BY <1>4, <1>9, <1>12, AskedIs
  <2>3. QED  BY <1>1, <1>2, <1>5, <1>6, <1>8, <1>9, <1>10, <2>1, <2>2
<1>13. QED  BY <1>11, <1>12

LEMMA WroteIs ==
  ASSUME Types, NEW w \in Windows, Wrote(w)
  PROVE  /\ phase[w] = "open" /\ Over(w) /\ UNCHANGED <<file, lock, phase, shown, writer>>
         /\ DOMAIN unsaved'[w] \subseteq DOMAIN unsaved[w]
         /\ \A l \in DOMAIN unsaved'[w] : unsaved'[w][l] = unsaved[w][l]
         /\ \A l \in DOMAIN unsaved[w] \ DOMAIN unsaved'[w] :
              /\ proc[w].stage = "done" /\ l \in DOMAIN book[w].inflight
              /\ book[w].inflight[l] = unsaved[w][l]
         /\ \A l \in landed'[w] \ landed[w] :
              /\ proc[w].stage = "done" /\ l \in DOMAIN book[w].inflight
              /\ shown[w][l] = book[w].inflight[l]
         /\ proc[w].stage = "done" =>
              \A l \in DOMAIN unsaved'[w] :
                ~(l \in DOMAIN book[w].inflight /\ book[w].inflight[l] = unsaved[w][l])
         /\ \A u \in Windows \ {w} : /\ unsaved'[u] = unsaved[u] /\ landed'[u] = landed[u]
                                     /\ book'[u] = book[u]
         /\ \A p \in Processes \ {w} : proc'[p] = proc[p]
         /\ book'[w].inflight \in {unsaved'[w], Nothing} /\ book'[w].pending = Nothing
         /\ \/ book'[w].inflight = Nothing /\ proc'[w] = Idle
            \/ /\ book'[w].inflight # Nothing /\ proc'[w].stage = "waiting"
               /\ proc'[w].patch = book'[w].inflight
<1> DEFINE ok == proc[w].stage = "done"
           sent == book[w].inflight
           owed == IF ok THEN Acknowledged(unsaved[w], sent) ELSE unsaved[w]
           next == Exited(book[w], ok, owed)
<1>0. /\ proc \in [Processes -> Process] /\ book \in [Windows -> Book] /\ w \in Processes
      /\ DOMAIN unsaved = Windows /\ DOMAIN landed = Windows
      /\ unsaved[w] \in Patches /\ sent \in Patches /\ ok \in BOOLEAN /\ book[w] \in Book
  BY DEF Types, Process, Stages, Book, Processes
<1>1. /\ unsaved' = [unsaved EXCEPT ![w] = owed]
      /\ book' = [book EXCEPT ![w] = next]
      /\ landed' = [landed EXCEPT ![w] =
                      landed[w] \cup {l \in DOMAIN sent : ok /\ shown[w][l] = sent[l]}]
      /\ proc' = [proc EXCEPT ![w] = IF next.inflight # Nothing THEN Asking(next.inflight) ELSE Idle]
      /\ phase[w] = "open" /\ Over(w) /\ UNCHANGED <<file, lock, phase, shown, writer>>
  BY <1>0 DEF Wrote
<1>2. /\ owed \in Patches /\ DOMAIN owed \subseteq DOMAIN unsaved[w]
      /\ \A l \in DOMAIN owed : owed[l] = unsaved[w][l]
      /\ \A l \in DOMAIN unsaved[w] \ DOMAIN owed :
           ok /\ l \in DOMAIN sent /\ sent[l] = unsaved[w][l]
      /\ ok => \A l \in DOMAIN owed : ~(l \in DOMAIN sent /\ sent[l] = unsaved[w][l])
  <2>1. CASE ok
    <3>1. owed = Acknowledged(unsaved[w], sent)  BY <2>1
    <3> HIDE DEF owed, sent, ok
    <3>2. /\ owed \in Patches
          /\ DOMAIN owed = {m \in DOMAIN unsaved[w] : ~(m \in DOMAIN sent /\ sent[m] = unsaved[w][m])}
          /\ \A l \in DOMAIN owed : owed[l] = unsaved[w][l]
      BY <1>0, <3>1, AcknowledgedIs
    <3>3. QED  BY <2>1, <3>2
  <2>2. CASE ~ok  BY <1>0, <2>2
  <2>3. QED  BY <2>1, <2>2
<1>3. next \in Book /\ next.inflight \in {owed, Nothing} /\ next.pending = Nothing
  BY <1>0, <1>2, ExitedIs
<1> HIDE DEF next, owed
<1>4. /\ unsaved'[w] = owed /\ book'[w] = next
      /\ landed'[w] = landed[w] \cup {l \in DOMAIN sent : ok /\ shown[w][l] = sent[l]}
      /\ proc'[w] = IF next.inflight # Nothing THEN Asking(next.inflight) ELSE Idle
      /\ \A u \in Windows \ {w} : /\ unsaved'[u] = unsaved[u] /\ landed'[u] = landed[u]
                                  /\ book'[u] = book[u]
      /\ \A p \in Processes \ {w} : proc'[p] = proc[p]
  BY <1>0, <1>1
<1>5. \/ next.inflight = Nothing /\ proc'[w] = Idle
      \/ /\ next.inflight # Nothing /\ proc'[w].stage = "waiting"
         /\ proc'[w].patch = next.inflight
  BY <1>2, <1>3, <1>4, IdleIs, NothingIs
<1>6. QED  BY <1>1, <1>2, <1>3, <1>4, <1>5

-----------------------------------------------------------------------------
(* What a writer's steps do. A writer takes the lock, merges, lands, or    *)
(* leaves.                                                                 *)

WriterStep(p) == Steps(p) \/ Fault(p)

Takes(p) ==
  /\ proc[p].stage = "waiting" /\ lock = Absent
  /\ lock' = p /\ proc'[p].stage = "locked" /\ proc'[p].patch = proc[p].patch
  /\ file' = file /\ writer' = writer

Merges(p) ==
  /\ proc[p].stage = "locked"
  /\ proc'[p].stage = "merged" /\ proc'[p].patch = proc[p].patch
  /\ proc'[p].next = Patched(ReadOf(file), proc[p].patch)
  /\ lock' = lock /\ file' = file /\ writer' = writer

Renames(p) ==
  /\ proc[p].stage = "merged"
  /\ proc'[p].stage = "landed" /\ proc'[p].patch = proc[p].patch
  /\ file' = proc[p].next /\ lock' = lock
  /\ \A l \in Settings : writer'[l] = IF l \in DOMAIN proc[p].patch THEN p ELSE writer[l]

Quits(p) ==
  /\ proc[p].stage \in {"waiting"} \cup Holding
  /\ proc'[p].stage \in {"idle", "done", "failed"} /\ proc'[p].patch = Nothing
  /\ proc'[p].stage = "idle" <=> p = Cli
  /\ proc'[p].stage = "done" => proc[p].stage = "landed"
  /\ lock' = IF lock = p THEN Absent ELSE lock
  /\ file' = file /\ writer' = writer

LEMMA StepIs ==
  ASSUME Types, NEW p \in Processes, WriterStep(p)
  PROVE  /\ UNCHANGED window
         /\ \A q \in Processes \ {p} : proc'[q] = proc[q]
         /\ Takes(p) \/ Merges(p) \/ Renames(p) \/ Quits(p)
<1>0. proc \in [Processes -> Process]  BY DEF Types, Process, Stages
<1>1. CASE TakeLock(p)
  <2>1. proc' = [proc EXCEPT ![p].stage = "locked"] /\ UNCHANGED window  BY <1>1 DEF TakeLock
  <2>2. proc'[p].stage = "locked" /\ proc'[p].patch = proc[p].patch
        /\ \A q \in Processes \ {p} : proc'[q] = proc[q]
    BY <1>0, <2>1 DEF Process
  <2>3. Takes(p)  BY <1>1, <2>2 DEF TakeLock, Takes
  <2>4. QED  BY <2>1, <2>2, <2>3
<1>2. ASSUME NEW stage \in {"done", "failed"}, Leave(p, stage),
             proc[p].stage \in {"waiting"} \cup Holding,
             stage = "done" => proc[p].stage = "landed"
      PROVE  /\ UNCHANGED window
             /\ \A q \in Processes \ {p} : proc'[q] = proc[q]
             /\ Quits(p)
  BY <1>2, LeaveIs DEF Quits
<1>3. CASE Merge(p)
  <2>1. CASE Accepted(proc[p].patch)
    <3> DEFINE next == Patched(ReadOf(file), proc[p].patch)
    <3>1. proc' = [proc EXCEPT ![p] = [stage |-> "merged", patch |-> proc[p].patch, next |-> next]]
          /\ UNCHANGED <<file, lock, window, writer>>
      BY <1>3, <2>1 DEF Merge
    <3>2. /\ proc'[p].stage = "merged" /\ proc'[p].patch = proc[p].patch /\ proc'[p].next = next
          /\ \A q \in Processes \ {p} : proc'[q] = proc[q]
      BY <1>0, <3>1
    <3>3. Merges(p)  BY <1>3, <3>1, <3>2 DEF Merge, Merges
    <3>4. QED  BY <3>1, <3>2, <3>3
  <2>2. CASE ~Accepted(proc[p].patch)  BY <1>2, <1>3, <2>2 DEF Merge, Holding
  <2>3. QED  BY <2>1, <2>2
<1>4. CASE Rename(p)
  <2>1. CASE Replaceable(file)
    <3>1. /\ proc' = [proc EXCEPT ![p].stage = "landed"] /\ file' = proc[p].next
          /\ writer' = [l \in Settings |-> IF l \in DOMAIN proc[p].patch THEN p ELSE writer[l]]
          /\ UNCHANGED <<lock, window>>
      BY <1>4, <2>1 DEF Rename
    <3>2. /\ proc'[p].stage = "landed" /\ proc'[p].patch = proc[p].patch
          /\ \A q \in Processes \ {p} : proc'[q] = proc[q]
      BY <1>0, <3>1 DEF Process
    <3>3. Renames(p)  BY <1>4, <3>1, <3>2 DEF Rename, Renames
    <3>4. QED  BY <3>1, <3>2, <3>3
  <2>2. CASE ~Replaceable(file)  BY <1>2, <1>4, <2>2 DEF Rename, Holding
  <2>3. QED  BY <2>1, <2>2
<1>5. CASE Unlock(p)  BY <1>2, <1>5 DEF Unlock, Holding
<1>6. CASE Fault(p)  BY <1>2, <1>6 DEF Fault
<1>7. QED  BY <1>1, <1>3, <1>4, <1>5, <1>6 DEF WriterStep, Steps

\* The other steps give a process to somebody who had none, or take it.
LEMMA LaunchIs ==
  ASSUME Types, NEW w \in Windows, Launch(w)
  PROVE  /\ phase[w] = "closed" /\ phase'[w] = "settling"
         /\ proc'[w].stage \in {"waiting", "done"} /\ proc'[w].patch = Nothing
         /\ \A u \in Windows \ {w} : phase'[u] = phase[u]
         /\ \A q \in Processes \ {w} : proc'[q] = proc[q]
         /\ UNCHANGED <<file, lock, shown, unsaved, book, landed, writer>>
<1>0. proc \in [Processes -> Process] /\ w \in Processes
  BY DEF Types, Process, Stages, Processes
<1>1. [Idle EXCEPT !.stage = "done"].stage = "done" /\ [Idle EXCEPT !.stage = "done"].patch = Nothing
  BY IdleIs DEF Idle
<1>2. QED  BY <1>0, <1>1, IdleIs, NothingIs, ZenonT(60) DEF Launch, Types

LEMMA OpenIs ==
  ASSUME Types, NEW w \in Windows, Open(w)
  PROVE  /\ phase[w] = "settling" /\ phase'[w] = "open" /\ proc'[w] = Idle
         /\ \A u \in Windows \ {w} : phase'[u] = phase[u] /\ shown'[u] = shown[u]
         /\ \A q \in Processes \ {w} : proc'[q] = proc[q]
         /\ Over(w) /\ UNCHANGED <<file, lock, unsaved, book, landed, writer>>
  BY DEF Open, Types, Processes

LEMMA CommandIs ==
  ASSUME Types, NEW patch \in Commands, Command(patch)
  PROVE  /\ proc[Cli].stage = "idle" /\ proc'[Cli].stage = "waiting"
         /\ \A q \in Processes \ {Cli} : proc'[q] = proc[q]
         /\ UNCHANGED <<file, lock, window, writer>>
<1>1. patch \in Patches /\ Cli \in Processes  BY StoreAssumption DEF Processes
<1>2. QED  BY <1>1, IdleIs DEF Command, Types

LEMMA NextIs ==
  ASSUME [Next]_vars
  PROVE  \/ \E w \in Windows : Launch(w) \/ Open(w) \/ Wrote(w)
         \/ \E w \in Windows, l \in Settings, v \in Values : Change(w, l, v)
         \/ \E p \in Processes : WriterStep(p)
         \/ \E patch \in Commands : Command(patch)
         \/ UNCHANGED vars
  BY DEF Next, WriterStep

-----------------------------------------------------------------------------
(* The inductive invariant.                                                *)

\* A window's process follows its life: none before the launch, the settle
\* with its empty patch, then the writer its book names.
Lifecycle ==
  \A w \in Windows :
    /\ phase[w] = "closed" => proc[w].stage = "idle"
    /\ phase[w] = "settling" => proc[w].patch = Nothing
    /\ phase[w] # "open" => /\ book[w].inflight = Nothing /\ book[w].pending = Nothing
                            /\ unsaved[w] = Nothing
                            /\ \A l \in Settings : writer[l] # w
    /\ phase[w] = "open" => BookMatchesWriter(w)

\* What a window owes is what it shows; what its writer carries it still owes;
\* what it knows stored it does not owe.
Owing ==
  \A w \in Windows :
    /\ DOMAIN unsaved[w] \subseteq Settings
    /\ \A l \in DOMAIN unsaved[w] : l \in DOMAIN shown[w] /\ shown[w][l] = unsaved[w][l]
    /\ DOMAIN book[w].inflight \subseteq DOMAIN unsaved[w]
    /\ landed[w] \cap DOMAIN unsaved[w] = {}

\* A setting somebody wrote is in the file, as long as it was the last to
\* write it in the value its writer carried or its window shows.
Stored ==
  /\ \A l \in Settings : writer[l] # Absent =>
       IsDocument(file) /\ l \in DOMAIN file /\ file[l] \in Values
  /\ \A w \in Windows, l \in Settings :
       /\ phase[w] = "open" /\ proc[w].stage \in {"landed", "done"} /\ writer[l] = w
            /\ l \in DOMAIN book[w].inflight => file[l] = book[w].inflight[l]
       /\ writer[l] = w /\ l \notin DOMAIN unsaved[w] =>
            l \in DOMAIN shown[w] /\ file[l] = shown[w][l]

IInv == Types /\ Lifecycle /\ ReadIsFresh /\ Owing /\ Stored

\* Nobody but a writer's own steps moves the lock, and it is theirs alone from
\* the re-read to the unlock: what they are about to rename into place is the
\* merge onto the file as it is now.
LEMMA FreshStep == Types /\ Lifecycle /\ ReadIsFresh /\ [Next]_vars => ReadIsFresh'
<1> SUFFICES ASSUME Types, Lifecycle, ReadIsFresh, [Next]_vars PROVE ReadIsFresh'
  OBVIOUS
<1>0. Windows \subseteq Processes /\ Absent \notin Processes /\ Cli \in Processes
  BY StoreAssumption DEF Processes
<1>1. ASSUME NEW p \in Processes, UNCHANGED <<file, lock>>, proc[p].stage \notin Holding,
             proc'[p].stage \notin Holding, \A q \in Processes \ {p} : proc'[q] = proc[q]
      PROVE  ReadIsFresh'
  BY <1>1 DEF ReadIsFresh, Holding
<1>2. ASSUME NEW w \in Windows, Launch(w) PROVE ReadIsFresh'
  BY <1>0, <1>1, <1>2, LaunchIs DEF Lifecycle, Holding
<1>3. ASSUME NEW w \in Windows, Open(w) PROVE ReadIsFresh'
  BY <1>0, <1>1, <1>3, OpenIs, IdleIs DEF Over, Holding
<1>4. ASSUME NEW w \in Windows, Wrote(w) PROVE ReadIsFresh'
  BY <1>0, <1>1, <1>4, WroteIs, IdleIs DEF Over, Holding
<1>5. ASSUME NEW w \in Windows, NEW l \in Settings, NEW v \in Values, Change(w, l, v)
      PROVE  ReadIsFresh'
  <2>1. BookMatchesWriter(w)  BY <1>5, ChangeIs DEF Lifecycle
  <2>2. CASE proc'[w] = proc[w]
    <3>1. \A q \in Processes : proc'[q] = proc[q]  BY <1>5, <2>2, ChangeIs
    <3>2. UNCHANGED <<file, lock>>  BY <1>5, ChangeIs
    <3>3. QED  BY <3>1, <3>2 DEF ReadIsFresh
  <2>3. CASE proc'[w] # proc[w]
    <3>1. book[w].inflight = Nothing /\ proc'[w].stage = "waiting" /\ UNCHANGED <<file, lock>>
          /\ \A q \in Processes \ {w} : proc'[q] = proc[q]
      BY <1>5, <2>3, ChangeIs
    <3>2. proc[w].stage = "idle"  BY <2>1, <3>1 DEF BookMatchesWriter
    <3>3. QED  BY <1>0, <1>1, <3>1, <3>2 DEF Holding
  <2>4. QED  BY <2>2, <2>3
<1>6. ASSUME NEW patch \in Commands, Command(patch) PROVE ReadIsFresh'
  BY <1>0, <1>1, <1>6, CommandIs DEF Holding
<1>7. ASSUME NEW p \in Processes, WriterStep(p) PROVE ReadIsFresh'
  <2>0. \A q \in Processes \ {p} : proc'[q] = proc[q]  BY <1>7, StepIs
  <2>1. CASE Takes(p)  BY <1>0, <2>0, <2>1 DEF Takes, ReadIsFresh, Holding
  <2>2. CASE Merges(p)  BY <1>0, <2>0, <2>2 DEF Merges, ReadIsFresh, Holding
  <2>3. CASE Renames(p)
    <3>1. lock = p /\ lock' = p  BY <2>3 DEF Renames, ReadIsFresh, Holding
    <3>2. \A q \in Processes \ {p} : proc[q].stage \notin Holding  BY <3>1 DEF ReadIsFresh
    <3>3. QED  BY <2>0, <2>3, <3>1, <3>2 DEF Renames, ReadIsFresh, Holding
  <2>4. CASE Quits(p)  BY <1>0, <2>0, <2>4 DEF Quits, ReadIsFresh, Holding
  <2>5. QED  BY <1>7, <2>1, <2>2, <2>3, <2>4, StepIs
<1>8. CASE UNCHANGED vars  BY <1>8 DEF vars, ReadIsFresh
<1>9. QED  BY <1>2, <1>3, <1>4, <1>5, <1>6, <1>7, <1>8, NextIs

LEMMA LifecycleStep == Types /\ Lifecycle /\ [Next]_vars => Lifecycle'
<1> SUFFICES ASSUME Types, Lifecycle, [Next]_vars PROVE Lifecycle'
  OBVIOUS
<1> DEFINE Ok(u) ==
      /\ phase[u] = "closed" => proc[u].stage = "idle"
      /\ phase[u] = "settling" => proc[u].patch = Nothing
      /\ phase[u] # "open" => /\ book[u].inflight = Nothing /\ book[u].pending = Nothing
                              /\ unsaved[u] = Nothing
                              /\ \A l \in Settings : writer[l] # u
      /\ phase[u] = "open" => BookMatchesWriter(u)
<1>0. Windows \subseteq Processes /\ Cli \notin Windows /\ \A u \in Windows : Ok(u)
  BY StoreAssumption DEF Processes, Lifecycle
<1>s. SUFFICES ASSUME NEW u \in Windows PROVE Ok(u)'
  BY DEF Lifecycle, BookMatchesWriter
<1>1. ASSUME phase'[u] = phase[u], book'[u] = book[u], writer' = writer, proc'[u] = proc[u],
             unsaved'[u] = unsaved[u]
      PROVE  Ok(u)'
  BY <1>0, <1>1 DEF BookMatchesWriter
<1>2. ASSUME NEW w \in Windows, Launch(w) PROVE Ok(u)'
  BY <1>0, <1>1, <1>2, LaunchIs DEF BookMatchesWriter
<1>3. ASSUME NEW w \in Windows, Open(w) PROVE Ok(u)'
  BY <1>0, <1>1, <1>3, OpenIs, IdleIs DEF BookMatchesWriter
<1>4. ASSUME NEW w \in Windows, Wrote(w) PROVE Ok(u)'
  <2>1. CASE u = w  BY <1>0, <1>4, <2>1, WroteIs, IdleIs DEF BookMatchesWriter
  <2>2. CASE u # w  BY <1>0, <1>1, <1>4, <2>2, WroteIs
  <2>3. QED  BY <2>1, <2>2
<1>5. ASSUME NEW w \in Windows, NEW l \in Settings, NEW v \in Values, Change(w, l, v)
      PROVE  Ok(u)'
  <2>1. CASE u = w  BY <1>0, <1>5, <2>1, ChangeIs DEF BookMatchesWriter, Holding
  <2>2. CASE u # w  BY <1>0, <1>1, <1>5, <2>2, ChangeIs
  <2>3. QED  BY <2>1, <2>2
<1>6. ASSUME NEW patch \in Commands, Command(patch) PROVE Ok(u)'
  BY <1>0, <1>1, <1>6, CommandIs DEF window
<1>7. ASSUME NEW p \in Processes, WriterStep(p) PROVE Ok(u)'
  <2>0. /\ \A q \in Processes \ {p} : proc'[q] = proc[q]
        /\ phase'[u] = phase[u] /\ book'[u] = book[u] /\ unsaved'[u] = unsaved[u]
    BY <1>7, StepIs DEF window
  <2>1. CASE u # p /\ writer' = writer  BY <1>0, <1>1, <2>0, <2>1
  <2>2. CASE Takes(p)  BY <1>0, <2>0, <2>1, <2>2 DEF Takes, BookMatchesWriter, Holding
  <2>3. CASE Merges(p)  BY <1>0, <2>0, <2>1, <2>3 DEF Merges, BookMatchesWriter, Holding
  <2>4. CASE Renames(p)
    <3>1. CASE u # p
      BY <1>0, <2>0, <2>4, <3>1 DEF Renames, BookMatchesWriter
    <3>2. CASE u = p
      <4>1. phase[u] # "closed"  BY <1>0, <2>4, <3>2 DEF Renames
      <4>2. CASE phase[u] = "settling"
        BY <1>0, <2>0, <2>4, <3>2, <4>2, NothingIs DEF Renames
      <4>3. CASE phase[u] = "open"
        BY <1>0, <2>0, <2>4, <3>2, <4>3 DEF Renames, BookMatchesWriter, Holding
      <4>4. QED  BY <4>1, <4>2, <4>3 DEF Types
    <3>3. QED  BY <3>1, <3>2
  <2>5. CASE Quits(p)  BY <1>0, <2>0, <2>1, <2>5 DEF Quits, BookMatchesWriter, Holding
  <2>6. QED  BY <1>7, <2>2, <2>3, <2>4, <2>5, StepIs
<1>8. CASE UNCHANGED vars  BY <1>1, <1>8 DEF vars, window
<1>9. QED  BY <1>2, <1>3, <1>4, <1>5, <1>6, <1>7, <1>8, NextIs

LEMMA OwingStep == Types /\ Lifecycle /\ Owing /\ [Next]_vars => Owing'
<1> SUFFICES ASSUME Types, Lifecycle, Owing, [Next]_vars PROVE Owing'
  OBVIOUS
<1> DEFINE Ok(u) ==
      /\ DOMAIN unsaved[u] \subseteq Settings
      /\ \A m \in DOMAIN unsaved[u] : m \in DOMAIN shown[u] /\ shown[u][m] = unsaved[u][m]
      /\ DOMAIN book[u].inflight \subseteq DOMAIN unsaved[u]
      /\ landed[u] \cap DOMAIN unsaved[u] = {}
<1>0. \A u \in Windows : Ok(u)  BY DEF Owing
<1>s. SUFFICES ASSUME NEW u \in Windows PROVE Ok(u)'
  BY DEF Owing
<1>1. ASSUME unsaved'[u] = unsaved[u], shown'[u] = shown[u], book'[u] = book[u],
             landed'[u] = landed[u]
      PROVE  Ok(u)'
  BY <1>0, <1>1
<1>2. ASSUME NEW w \in Windows, Launch(w) PROVE Ok(u)'  BY <1>1, <1>2, LaunchIs
<1>3. ASSUME NEW w \in Windows, Open(w) PROVE Ok(u)'
  <2>1. CASE u = w
    <3>1. DOMAIN unsaved[u] = {}
      BY <1>3, <2>1, OpenIs, NothingIs DEF Lifecycle
    <3>2. QED  BY <1>0, <1>3, <2>1, <3>1, OpenIs
  <2>2. CASE u # w  BY <1>1, <1>3, <2>2, OpenIs
  <2>3. QED  BY <2>1, <2>2
<1>4. ASSUME NEW w \in Windows, Wrote(w) PROVE Ok(u)'
  <2>1. CASE u = w
    <3>1. DOMAIN unsaved'[u] \subseteq DOMAIN unsaved[u] /\ shown' = shown
          /\ \A m \in DOMAIN unsaved'[u] : unsaved'[u][m] = unsaved[u][m]
      BY <1>4, <2>1, WroteIs
    <3>2. DOMAIN book'[u].inflight \subseteq DOMAIN unsaved'[u]
      BY <1>4, <2>1, WroteIs, NothingIs
    <3>3. ASSUME NEW m \in landed'[u] PROVE m \notin DOMAIN unsaved'[u]
      <4>1. CASE m \in landed[u]  BY <1>0, <3>1, <4>1
      <4>2. CASE m \notin landed[u]
        <5>1. proc[u].stage = "done" /\ m \in DOMAIN book[u].inflight
              /\ shown[u][m] = book[u].inflight[m]
          BY <1>4, <2>1, <3>3, <4>2, WroteIs
        <5>2. m \in DOMAIN unsaved[u] /\ unsaved[u][m] = book[u].inflight[m]  BY <1>0, <5>1
        <5>3. QED  BY <1>4, <2>1, <5>1, <5>2, WroteIs
      <4>3. QED  BY <4>1, <4>2
    <3>4. QED  BY <1>0, <3>1, <3>2, <3>3
  <2>2. CASE u # w  BY <1>1, <1>4, <2>2, WroteIs
  <2>3. QED  BY <2>1, <2>2
<1>5. ASSUME NEW w \in Windows, NEW l \in Settings, NEW v \in Values, Change(w, l, v)
      PROVE  Ok(u)'
  <2>1. CASE u = w
    <3>1. /\ DOMAIN unsaved'[u] = DOMAIN unsaved[u] \cup {l} /\ unsaved'[u][l] = v
          /\ \A m \in DOMAIN unsaved[u] \ {l} : unsaved'[u][m] = unsaved[u][m]
          /\ DOMAIN shown'[u] = DOMAIN shown[u] \cup {l} /\ shown'[u][l] = v
          /\ \A m \in DOMAIN shown[u] \ {l} : shown'[u][m] = shown[u][m]
          /\ landed'[u] = landed[u] \ {l}
      BY <1>5, <2>1, ChangeIs
    <3>2. DOMAIN book'[u].inflight \subseteq DOMAIN unsaved'[u]
      BY <1>0, <1>5, <2>1, <3>1, ChangeIs
    <3>3. QED  BY <1>0, <3>1, <3>2
  <2>2. CASE u # w  BY <1>1, <1>5, <2>2, ChangeIs
  <2>3. QED  BY <2>1, <2>2
<1>6. ASSUME NEW patch \in Commands, Command(patch) PROVE Ok(u)'
  BY <1>1, <1>6, CommandIs DEF window
<1>7. ASSUME NEW p \in Processes, WriterStep(p) PROVE Ok(u)'
  BY <1>1, <1>7, StepIs DEF window
<1>8. CASE UNCHANGED vars  BY <1>1, <1>8 DEF vars, window
<1>9. QED  BY <1>2, <1>3, <1>4, <1>5, <1>6, <1>7, <1>8, NextIs

\* Only a rename makes a writer land.
LEMMA RenamesOnly ==
  ASSUME Types, Lifecycle, [Next]_vars, NEW p \in Processes, Lands(p)
  PROVE  Renames(p)
<1>0. Windows \subseteq Processes /\ Cli \in Processes /\ proc[p].stage = "merged"
      /\ proc'[p].stage = "landed"
  BY DEF Processes, Lands
<1>1. ASSUME NEW w \in Windows, Launch(w) \/ Open(w) \/ Wrote(w) PROVE FALSE
  BY <1>0, <1>1, LaunchIs, OpenIs, WroteIs, IdleIs
<1>2. ASSUME NEW w \in Windows, NEW l \in Settings, NEW v \in Values, Change(w, l, v) PROVE FALSE
  BY <1>0, <1>2, ChangeIs
<1>3. ASSUME NEW patch \in Commands, Command(patch) PROVE FALSE
  BY <1>0, <1>3, CommandIs
<1>4. ASSUME NEW q \in Processes, WriterStep(q) PROVE Renames(p)
  <2>1. q = p  BY <1>0, <1>4, StepIs
  <2>2. QED  BY <1>0, <1>4, <2>1, StepIs DEF Takes, Merges, Quits
<1>5. ~ UNCHANGED vars  BY <1>0 DEF vars
<1>6. QED  BY <1>1, <1>2, <1>3, <1>4, <1>5, NextIs

LEMMA StoredStep ==
  Types /\ Lifecycle /\ ReadIsFresh /\ Owing /\ Stored /\ [Next]_vars => Stored'
<1> SUFFICES ASSUME Types, Lifecycle, ReadIsFresh, Owing, Stored, [Next]_vars PROVE Stored'
  OBVIOUS
<1> DEFINE Good(l) == writer[l] # Absent => IsDocument(file) /\ l \in DOMAIN file /\ file[l] \in Values
           Sent(u, l) ==
             /\ phase[u] = "open" /\ proc[u].stage \in {"landed", "done"} /\ writer[l] = u
             /\ l \in DOMAIN book[u].inflight
             => file[l] = book[u].inflight[l]
           Kept(u, l) ==
             /\ writer[l] = u /\ l \notin DOMAIN unsaved[u]
             => l \in DOMAIN shown[u] /\ file[l] = shown[u][l]
           Ok(u, l) == u \in Windows => Sent(u, l) /\ Kept(u, l)
<1>0. /\ Windows \subseteq Processes /\ Cli \in Processes \ Windows /\ Absent \notin Processes
      /\ \A l \in Settings : Good(l)
      /\ \A u \in Windows, l \in Settings : Ok(u, l)
  BY StoreAssumption DEF Processes, Stored
<1>s. SUFFICES /\ \A l \in Settings : Good(l)'
               /\ \A u \in Windows, l \in Settings : Ok(u, l)'
  BY DEF Stored, IsDocument
<1>r. SUFFICES ASSUME NEW u \in Processes, NEW l \in Settings PROVE Good(l)' /\ Ok(u, l)'
  BY <1>0
<1>1. ASSUME file' = file, writer' = writer PROVE Good(l)'
  BY <1>0, <1>1 DEF IsDocument
<1>2. ASSUME file' = file, writer' = writer,
             u \in Windows =>
               /\ phase'[u] = phase[u] /\ proc'[u] = proc[u] /\ book'[u] = book[u]
               /\ unsaved'[u] = unsaved[u] /\ shown'[u] = shown[u]
      PROVE  Ok(u, l)'
  BY <1>0, <1>2
<1>3. ASSUME NEW w \in Windows, Launch(w) PROVE Good(l)' /\ Ok(u, l)'
  <2>1. Good(l)'  BY <1>1, <1>3, LaunchIs
  <2>2. CASE u = w  BY <1>0, <1>3, <2>1, <2>2, LaunchIs
  <2>3. CASE u # w  BY <1>0, <1>2, <1>3, <2>1, <2>3, LaunchIs
  <2>4. QED  BY <2>2, <2>3
<1>4. ASSUME NEW w \in Windows, Open(w) PROVE Good(l)' /\ Ok(u, l)'
  <2>1. Good(l)'  BY <1>1, <1>4, OpenIs
  <2>2. CASE u = w
    <3>1. writer'[l] # u /\ proc'[u].stage = "idle"
      BY <1>4, <2>2, OpenIs, IdleIs DEF Lifecycle
    <3>2. QED  BY <2>1, <3>1
  <2>3. CASE u # w  BY <1>0, <1>2, <1>4, <2>1, <2>3, OpenIs
  <2>4. QED  BY <2>2, <2>3
<1>5. ASSUME NEW w \in Windows, Wrote(w) PROVE Good(l)' /\ Ok(u, l)'
  <2>1. Good(l)'  BY <1>1, <1>5, WroteIs
  <2>2. CASE u = w
    <3>1. proc'[u].stage \in {"idle", "waiting"} /\ UNCHANGED <<file, shown, writer>>
          /\ phase[u] = "open"
      BY <1>5, <2>2, WroteIs, IdleIs
    <3>2. Sent(u, l)'  BY <3>1
    <3>3. ASSUME writer[l] = u, l \notin DOMAIN unsaved'[u]
          PROVE  l \in DOMAIN shown[u] /\ file[l] = shown[u][l]
      <4>1. CASE l \notin DOMAIN unsaved[u]  BY <1>0, <2>2, <3>3, <4>1
      <4>2. CASE l \in DOMAIN unsaved[u]
        <5>1. proc[u].stage = "done" /\ l \in DOMAIN book[u].inflight
              /\ book[u].inflight[l] = unsaved[u][l]
          BY <1>5, <2>2, <3>3, <4>2, WroteIs
        <5>2. file[l] = book[u].inflight[l]  BY <1>0, <2>2, <3>1, <3>3, <5>1
        <5>3. l \in DOMAIN shown[u] /\ shown[u][l] = unsaved[u][l]  BY <2>2, <4>2 DEF Owing
        <5>4. QED  BY <5>1, <5>2, <5>3
      <4>3. QED  BY <4>1, <4>2
    <3>4. Kept(u, l)'  BY <3>1, <3>3
    <3>5. QED  BY <2>1, <3>2, <3>4
  <2>3. CASE u # w  BY <1>0, <1>2, <1>5, <2>1, <2>3, WroteIs
  <2>4. QED  BY <2>2, <2>3
<1>6. ASSUME NEW w \in Windows, NEW m \in Settings, NEW v \in Values, Change(w, m, v)
      PROVE  Good(l)' /\ Ok(u, l)'
  <2>1. Good(l)' /\ UNCHANGED <<file, phase, writer>>  BY <1>1, <1>6, ChangeIs
  <2>2. CASE u = w
    <3>1. Sent(u, l)'  BY <1>0, <1>6, <2>1, <2>2, ChangeIs
    <3>2. ASSUME writer[l] = u, l \notin DOMAIN unsaved'[u]
          PROVE  l \in DOMAIN shown'[u] /\ file[l] = shown'[u][l]
      <4>1. /\ DOMAIN unsaved'[u] = DOMAIN unsaved[u] \cup {m}
            /\ DOMAIN shown'[u] = DOMAIN shown[u] \cup {m}
            /\ \A n \in DOMAIN shown[u] \ {m} : shown'[u][n] = shown[u][n]
        BY <1>6, <2>2, ChangeIs
      <4>2. l # m /\ l \notin DOMAIN unsaved[u]  BY <3>2, <4>1
      <4>3. l \in DOMAIN shown[u] /\ file[l] = shown[u][l]  BY <1>0, <2>2, <3>2, <4>2
      <4>4. QED  BY <4>1, <4>2, <4>3
    <3>3. Kept(u, l)'  BY <2>1, <3>2
    <3>4. QED  BY <2>1, <3>1, <3>3
  <2>3. CASE u # w  BY <1>0, <1>2, <1>6, <2>1, <2>3, ChangeIs
  <2>4. QED  BY <2>2, <2>3
<1>7. ASSUME NEW patch \in Commands, Command(patch) PROVE Good(l)' /\ Ok(u, l)'
  BY <1>0, <1>1, <1>2, <1>7, CommandIs DEF window
<1>8. ASSUME NEW p \in Processes, WriterStep(p) PROVE Good(l)' /\ Ok(u, l)'
  <2>0. /\ \A q \in Processes \ {p} : proc'[q] = proc[q]
        /\ UNCHANGED <<phase, book, unsaved, shown>>
    BY <1>8, StepIs DEF window
  <2>1. CASE Takes(p)  BY <1>0, <1>1, <1>2, <2>0, <2>1 DEF Takes
  <2>2. CASE Merges(p)  BY <1>0, <1>1, <1>2, <2>0, <2>2 DEF Merges
  <2>3. CASE Quits(p)  BY <1>0, <1>1, <1>2, <2>0, <2>3 DEF Quits
  <2>4. CASE Renames(p)
    <3> DEFINE patch == proc[p].patch
    <3>1. patch \in Patches /\ file \in Documents \cup {Absent, Malformed, Unreadable}
      BY DEF Types
    <3>2. file' = Patched(ReadOf(file), patch) /\ ReadOf(file) \in Documents
      BY <2>4, <3>1, ReadOfIs DEF Renames, ReadIsFresh
    <3>3. /\ file' \in Documents /\ Clean(file')
          /\ \A m \in DOMAIN patch : file'[m] = patch[m]
      BY <3>1, <3>2, PatchedIs
    <3>4. IsDocument(file')  BY <3>3, StoreAssumption DEF IsDocument
    <3>5. Good(l)'  BY <3>3, <3>4 DEF Clean
    <3>6. writer'[l] = IF l \in DOMAIN patch THEN p ELSE writer[l]  BY <2>4 DEF Renames
    <3>7. ASSUME writer[l] = u, l \notin DOMAIN patch PROVE file'[l] = file[l]
      <4>1. IsDocument(file) /\ l \in DOMAIN file /\ file[l] \in Values  BY <1>0, <3>7
      <4>2. ReadOf(file) = file  BY <3>1, <4>1, ReadOfIs
      <4>3. QED  BY <3>1, <3>2, <3>7, <4>1, <4>2, PatchedIs
    <3>8. CASE u # p
      BY <1>0, <2>0, <3>5, <3>6, <3>7, <3>8
    <3>9. CASE u = p /\ u \in Windows
      <4>1. phase[u] = "open" => patch = book[u].inflight
        BY <2>4, <3>9 DEF Lifecycle, BookMatchesWriter, Renames, Holding
      <4>2. DOMAIN patch \subseteq DOMAIN unsaved[u]
        <5>1. CASE phase[u] = "open"  BY <3>9, <4>1, <5>1 DEF Owing
        <5>2. CASE phase[u] = "settling"  BY <3>9, <5>2, NothingIs DEF Lifecycle
        <5>3. phase[u] # "closed"  BY <2>4, <3>9 DEF Lifecycle, Renames
        <5>4. QED  BY <3>9, <5>1, <5>2, <5>3 DEF Types
      <4>3. Sent(u, l)'  BY <2>0, <3>3, <4>1
      <4>4. Kept(u, l)'
        <5>1. ASSUME writer'[l] = u, l \notin DOMAIN unsaved[u]
              PROVE  l \in DOMAIN shown[u] /\ file'[l] = shown[u][l]
          BY <1>0, <3>6, <3>7, <3>9, <4>2, <5>1
        <5>2. QED  BY <2>0, <5>1
      <4>5. QED  BY <3>5, <4>3, <4>4
    <3>10. CASE u \notin Windows  BY <3>5, <3>10
    <3>11. QED  BY <3>8, <3>9, <3>10
  <2>5. QED  BY <1>8, <2>1, <2>2, <2>3, <2>4, StepIs
<1>9. CASE UNCHANGED vars  BY <1>0, <1>1, <1>2, <1>9 DEF vars, window
<1>10. QED  BY <1>3, <1>4, <1>5, <1>6, <1>7, <1>8, <1>9, NextIs

-----------------------------------------------------------------------------
(* The theorems.                                                           *)

LEMMA InitIInv == Init => IInv
<1> SUFFICES ASSUME Init PROVE IInv
  OBVIOUS
<1>1. Types
  <2>1. EmptyBook \in Book  BY NothingIs DEF EmptyBook, Book
  <2>2. proc \in [Processes -> Process]  BY IdleIs DEF Init
  <2>3. Nothing \in Documents  BY NothingIs, PatchesAreDocuments
  <2>4. file \in Documents \cup {Absent, Malformed, Unreadable}  BY StoreAssumption DEF Init
  <2>5. used \in [changes : 0..MaxChanges, commands : 0..MaxCommands, faults : 0..MaxFaults]
    BY StoreAssumption DEF Init
  <2>6. book \in [Windows -> Book]  BY <2>1 DEF Init
  <2>7. QED  BY <2>2, <2>3, <2>4, <2>5, <2>6, NothingIs DEF Init, Types, Process, Stages, Book
<1>2. \A p \in Processes : proc[p].stage = "idle"  BY IdleIs DEF Init
<1>3. \A l \in Settings : writer[l] = Absent  BY DEF Init
<1>4. Absent \notin Processes /\ Windows \subseteq Processes
  BY StoreAssumption DEF Processes
<1>5. \A w \in Windows : /\ phase[w] = "closed" /\ unsaved[w] = Nothing /\ landed[w] = {}
                         /\ book[w].inflight = Nothing /\ book[w].pending = Nothing
  BY DEF Init, EmptyBook
<1>6. Lifecycle  BY <1>2, <1>3, <1>4, <1>5 DEF Lifecycle
<1>7. ReadIsFresh  BY <1>2, <1>4 DEF Init, ReadIsFresh, Holding
<1>8. Owing  BY <1>5, NothingIs DEF Owing
<1>9. Stored  BY <1>3, <1>4 DEF Stored
<1>10. QED  BY <1>1, <1>6, <1>7, <1>8, <1>9 DEF IInv

THEOREM Invariance == Spec => []IInv
<1>1. Init => IInv  BY InitIInv
<1>2. IInv /\ [Next]_vars => IInv'
  BY TypesStep, LifecycleStep, FreshStep, OwingStep, StoredStep DEF IInv
<1>3. QED  BY <1>1, <1>2, PTL DEF Spec

\* Every variable keeps its type, and an open window's book carries a patch
\* exactly while its writer runs, with that patch.
THEOREM TypeCorrect == Spec => []TypeOK
<1>1. IInv => TypeOK  BY DEF IInv, Lifecycle, TypeOK
<1>2. QED  BY <1>1, Invariance, PTL

\* The lock does its work: the merge about to be renamed is onto the file as
\* it is.
THEOREM LockKeepsReadFresh == Spec => []ReadIsFresh
<1>1. IInv => ReadIsFresh  BY DEF IInv
<1>2. QED  BY <1>1, Invariance, PTL

\* No window sends again what a writer stored and the user left alone.
THEOREM NoSecondSending == Spec => []NothingSentTwice
<1>1. IInv => NothingSentTwice  BY DEF IInv, Owing, NothingSentTwice
<1>2. QED  BY <1>1, Invariance, PTL

\* A window forgets what it owes only once the file has it.
THEOREM ForgottenIsStored == Spec => []NotOwedIsStored
<1>1. IInv => NotOwedIsStored  BY DEF IInv, Stored, NotOwedIsStored
<1>2. QED  BY <1>1, Invariance, PTL

\* A landing stores its patch and leaves every other setting standing.
THEOREM NoLostUpdate == Spec => OthersStand
<1> DEFINE Stands ==
      \A p \in Processes : Lands(p) =>
        LET kept == IF IsDocument(file) THEN file
                    ELSE IF file = Absent /\ Legacy # Absent THEN Legacy ELSE Nothing
        IN /\ \A l \in DOMAIN proc[p].patch : file'[l] = proc[p].patch[l]
           /\ \A l \in DOMAIN kept \ DOMAIN proc[p].patch :
                kept[l] \in Values => file'[l] = kept[l]
<1>1. IInv /\ [Next]_vars => [Stands]_vars
  <2> SUFFICES ASSUME IInv, [Next]_vars, NEW p \in Processes, Lands(p)
               PROVE  LET kept == IF IsDocument(file) THEN file
                                  ELSE IF file = Absent /\ Legacy # Absent THEN Legacy ELSE Nothing
                      IN /\ \A l \in DOMAIN proc[p].patch : file'[l] = proc[p].patch[l]
                         /\ \A l \in DOMAIN kept \ DOMAIN proc[p].patch :
                              kept[l] \in Values => file'[l] = kept[l]
    OBVIOUS
  <2> DEFINE patch == proc[p].patch
             kept == IF IsDocument(file) THEN file
                     ELSE IF file = Absent /\ Legacy # Absent THEN Legacy ELSE Nothing
  <2>1. patch \in Patches /\ file \in Documents \cup {Absent, Malformed, Unreadable}
    BY DEF IInv, Types
  <2>2. Renames(p)  BY RenamesOnly DEF IInv
  <2>3. file' = Patched(ReadOf(file), patch)  BY <2>2 DEF Renames, ReadIsFresh, IInv
  <2>4. ReadOf(file) \in Documents  BY <2>1, ReadOfIs
  <2>5. kept = ReadOf(file) \/ kept = Nothing
    BY StoreAssumption DEF ReadOf
  <2>6. QED  BY <2>1, <2>3, <2>4, <2>5, PatchedIs, NothingIs
<1>2. QED  BY <1>1, Invariance, PTL DEF Spec, OthersStand, Stands

=============================================================================
