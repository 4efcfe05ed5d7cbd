------------------------------- MODULE UiStore -------------------------------
(***************************************************************************)
(* The per-user settings file ui.json and everyone who writes it: windows, *)
(* each of which settles the file before it opens and then sends its       *)
(* changes through one writer process at a time (ViewState.qml,            *)
(* UiState.js), and the command line. A writer takes the lock, reads,      *)
(* merges and renames (uistore.rs, uistate.rs).                            *)
(*                                                                         *)
(* A document maps settings to values. A setting is one leaf of the file,  *)
(* whether alone or in a group, because a patch is merged leaf by leaf;    *)
(* the JSON text of a document is abstracted, the order of its keys as the *)
(* bytes of a patch show it is not (SameBytes).                            *)
(***************************************************************************)
EXTENDS Naturals, FiniteSets

CONSTANTS
  Windows,     (* the windows a user may open                              *)
  Cli,         (* philemon --ui-state in a terminal                        *)
  Settings,    (* the leaves uischema.rs knows                             *)
  Newer,       (* a leaf only a newer Philemon knows                       *)
  Values,      (* values the schema accepts for every leaf                 *)
  Default,     (* the shipped one                                          *)
  Junk,        (* a value the schema refuses                               *)
  Files,       (* what ui.json may hold before the first window            *)
  Legacy,      (* view.json as read by the migration, or Absent            *)
  Absent,      (* ui.json when there is none                               *)
  Malformed,   (* when it is not a JSON object                             *)
  Unreadable,  (* when its bytes cannot be read                            *)
  Commands,    (* the patches a command may carry                          *)
  MaxChanges,  (* bound: changes the windows make                          *)
  MaxCommands, (* bound: commands                                          *)
  MaxFaults    (* bound: writers that fail or are killed                   *)

Processes == Windows \cup {Cli}
Leaves == Settings \cup {Newer}
IsDocument(f) == f \notin {Absent, Malformed, Unreadable}
Documents == UNION {[S -> Values \cup {Junk}] : S \in SUBSET Leaves}
Patches == UNION {[S -> Values] : S \in SUBSET Leaves}
Nothing == [l \in {} |-> Default]
Clean(doc) == Settings \subseteq DOMAIN doc /\ \A l \in Settings : doc[l] \in Values

ASSUME StoreAssumption ==
  /\ Cli \notin Windows /\ Newer \notin Settings
  /\ Absent \notin Processes
  /\ {Absent, Malformed, Unreadable} \cap Documents = {}
  /\ Absent # Malformed /\ Absent # Unreadable /\ Malformed # Unreadable
  /\ Default \in Values /\ Junk \notin Values
  /\ Files \subseteq Documents \cup {Absent, Malformed, Unreadable}
  /\ Legacy = Absent \/ Legacy \in [Settings -> Values]
  /\ Commands \subseteq Patches
  /\ MaxChanges \in Nat /\ MaxCommands \in Nat /\ MaxFaults \in Nat

VARIABLES
  file,     (* ui.json                                                     *)
  lock,     (* who holds ui.json.lock, or Absent                           *)
  proc,     (* each process: its stage, its patch, the document it will land *)
  phase,    (* a window: closed, settling or open                          *)
  shown,    (* ViewState.state: the document a window draws from           *)
  unsaved,  (* ViewState.unsaved: what it owes the file                    *)
  book,     (* UiState.js's book                                           *)
  refused,  (* the window's last writer was refused: the pane has said so  *)
  landed,   (* history: settings whose shown value a writer has stored     *)
  writer,   (* history: who last stored a setting                          *)
  used      (* what of each bound is spent                                 *)

window == <<phase, shown, unsaved, book, refused, landed>>
vars == <<file, lock, proc, window, writer, used>>

Idle == [stage |-> "idle", patch |-> Nothing, next |-> Nothing]
Asking(patch) == [Idle EXCEPT !.stage = "waiting", !.patch = patch]
Holding == {"locked", "merged", "landed"}

\* --- uistate.rs -----------------------------------------------------------

Defaults == [l \in Settings |-> Default]

\* apply: the patch leaf by leaf over the document.
Apply(doc, patch) ==
  [l \in DOMAIN doc \cup DOMAIN patch |-> IF l \in DOMAIN patch THEN patch[l] ELSE doc[l]]

\* from_file and merge: a refused or missing value costs its own leaf; what a
\* newer Philemon left stays.
Filled(doc) ==
  Apply(Defaults, [l \in {m \in DOMAIN doc : m \in Settings => doc[m] \in Values} |-> doc[l]])

Patched(doc, patch) == Apply(Filled(doc), patch)

\* check: one bad leaf refuses the whole patch. A command's bad leaf is a name
\* this release does not know; a bad value under a known one ends the same way.
Accepted(patch) == DOMAIN patch \subseteq Settings

\* --- uistore.rs -----------------------------------------------------------

\* Slip: view.json is read again after its migration.
ReadLegacyFirst(f) == IF Legacy # Absent THEN Legacy ELSE IF IsDocument(f) THEN f ELSE Defaults

\* Store::read. 0.1.3's view.json counts only while there is no ui.json.
ReadOf(f) == IF IsDocument(f) THEN f
             ELSE IF f = Absent /\ Legacy # Absent THEN Legacy ELSE Defaults

\* settle's test and left_as_it_is: made before the lock is taken. Formatting
\* that a rewrite would only tidy is not told apart.
LeftAsItIs(f) == (IsDocument(f) => Clean(f)) /\ (f = Absent => Legacy = Absent)

\* refuse_a_bad_target.
Replaceable(f) == f # Unreadable

\* --- UiState.js -----------------------------------------------------------

EmptyBook == [saved |-> Nothing, inflight |-> Nothing, pending |-> Nothing]

\* Two patches that say the same are the same bytes unless their keys were
\* owed in another order.
SameBytes(p, q) == IF p # q THEN {FALSE} ELSE IF Cardinality(DOMAIN p) < 2 THEN {TRUE} ELSE BOOLEAN

Newest(b) == IF b.pending # Nothing THEN b.pending
             ELSE IF b.inflight # Nothing THEN b.inflight ELSE b.saved

\* Slip: a patch that finds a writer running is dropped on the floor.
AskedDrops(b, patch, same) ==
  IF same \/ b.inflight # Nothing THEN b ELSE [b EXCEPT !.inflight = patch, !.pending = Nothing]

\* The next book; the writer to launch is its inflight where that is new.
Asked(b, patch, same) ==
  CASE same -> b
    [] ~same /\ b.inflight # Nothing -> [b EXCEPT !.pending = patch]
    [] OTHER -> [b EXCEPT !.inflight = patch, !.pending = Nothing]

\* Slip: what waits is launched as it was built, not as it is owed now.
ExitedSendsPending(b, ok, owed) ==
  [saved |-> IF ok THEN b.inflight ELSE b.saved, inflight |-> b.pending, pending |-> Nothing]

\* What waited is built again from what is owed now; nothing owed, no writer.
Exited(b, ok, owed) ==
  [saved |-> IF ok THEN b.inflight ELSE b.saved,
   inflight |-> IF b.pending # Nothing THEN owed ELSE Nothing,
   pending |-> Nothing]

\* Slip: a stored leaf is cleared whatever the window owes for it now.
ClearedByName(owed, patch) == [l \in DOMAIN owed \ DOMAIN patch |-> owed[l]]

\* A change made while the writer ran is a newer value, and stays owed.
Acknowledged(owed, patch) ==
  [l \in {m \in DOMAIN owed : ~(m \in DOMAIN patch /\ patch[m] = owed[m])} |-> owed[l]]

-----------------------------------------------------------------------------

Init ==
  /\ file \in Files
  /\ lock = Absent
  /\ proc = [p \in Processes |-> Idle]
  /\ phase = [w \in Windows |-> "closed"]
  /\ shown = [w \in Windows |-> Nothing]
  /\ unsaved = [w \in Windows |-> Nothing]
  /\ book = [w \in Windows |-> EmptyBook]
  /\ refused = [w \in Windows |-> FALSE]
  /\ landed = [w \in Windows |-> {}]
  /\ writer = [l \in Settings |-> Absent]
  /\ used = [changes |-> 0, commands |-> 0, faults |-> 0]

\* main() settles the file before it starts the window.
Launch(w) ==
  /\ phase[w] = "closed"
  /\ phase' = [phase EXCEPT ![w] = "settling"]
  /\ IF LeftAsItIs(file)
     THEN proc' = [proc EXCEPT ![w] = [Idle EXCEPT !.stage = "done"]]
     ELSE proc' = [proc EXCEPT ![w] = Asking(Nothing)]
  /\ UNCHANGED <<file, lock, shown, unsaved, book, refused, landed, writer, used>>

\* Slip: the lock is taken while another holds it.
TakeLockFreely(p) ==
  /\ proc[p].stage = "waiting"
  /\ lock' = p
  /\ proc' = [proc EXCEPT ![p].stage = "locked"]
  /\ UNCHANGED <<file, window, writer, used>>

TakeLock(p) ==
  /\ proc[p].stage = "waiting" /\ lock = Absent
  /\ lock' = p
  /\ proc' = [proc EXCEPT ![p].stage = "locked"]
  /\ UNCHANGED <<file, window, writer, used>>

\* The writer is gone: its lock goes with it, its status is what is left,
\* and nobody waits for a command's.
Leave(p, stage) ==
  /\ lock' = IF lock = p THEN Absent ELSE lock
  /\ proc' = [proc EXCEPT ![p] = IF p = Cli THEN Idle ELSE [Idle EXCEPT !.stage = stage]]
  /\ UNCHANGED <<file, window, writer>>

\* The re-read, the check of the whole patch, the merge and the temporary.
Merge(p) ==
  /\ proc[p].stage = "locked"
  /\ IF Accepted(proc[p].patch)
     THEN /\ proc' = [proc EXCEPT ![p] = [stage |-> "merged", patch |-> @.patch,
                                           next |-> Patched(ReadOf(file), @.patch)]]
          /\ UNCHANGED <<file, lock, window, writer>>
     ELSE Leave(p, "failed")
  /\ UNCHANGED used

Rename(p) ==
  /\ proc[p].stage = "merged"
  /\ IF Replaceable(file)
     THEN /\ file' = proc[p].next
          /\ proc' = [proc EXCEPT ![p].stage = "landed"]
          /\ writer' = [l \in Settings |-> IF l \in DOMAIN proc[p].patch THEN p ELSE writer[l]]
          /\ UNCHANGED <<lock, window>>
     ELSE Leave(p, "failed")
  /\ UNCHANGED used

Unlock(p) ==
  /\ proc[p].stage = "landed"
  /\ Leave(p, "done")
  /\ UNCHANGED used

\* A step refused by the system, or the process killed, at any point: also
\* after the rename, where the file has the patch and the status denies it.
Fault(p) ==
  /\ proc[p].stage \in {"waiting"} \cup Holding
  /\ used.faults < MaxFaults
  /\ Leave(p, "failed")
  /\ used' = [used EXCEPT !.faults = @ + 1]

Over(p) == proc[p].stage \in {"done", "failed"}

\* The window starts whatever the settle answered, and at some moment reads
\* the file (ViewState.load); what is no JSON object is drawn as the defaults.
Open(w) ==
  /\ phase[w] = "settling" /\ Over(w)
  /\ phase' = [phase EXCEPT ![w] = "open"]
  /\ shown' = [shown EXCEPT ![w] = IF IsDocument(file) THEN file ELSE Nothing]
  /\ proc' = [proc EXCEPT ![w] = Idle]
  /\ UNCHANGED <<file, lock, unsaved, book, refused, landed, writer, used>>

\* ViewState.owe: the change is on screen, owed, and asked for.
Change(w, l, v) ==
  /\ phase[w] = "open" /\ used.changes < MaxChanges
  /\ ~(l \in DOMAIN shown[w] /\ shown[w][l] = v)
  /\ shown' = [shown EXCEPT ![w] = Apply(@, [m \in {l} |-> v])]
  /\ unsaved' = [unsaved EXCEPT ![w] = Apply(@, [m \in {l} |-> v])]
  /\ \E same \in SameBytes(unsaved'[w], Newest(book[w])) :
       /\ book' = [book EXCEPT ![w] = Asked(@, unsaved'[w], same)]
       /\ proc' = IF book[w].inflight = Nothing /\ ~same
                  THEN [proc EXCEPT ![w] = Asking(book'[w].inflight)] ELSE proc
  /\ landed' = [landed EXCEPT ![w] = @ \ {l}]
  /\ used' = [used EXCEPT !.changes = @ + 1]
  /\ UNCHANGED <<file, lock, phase, refused, writer>>

\* ViewState.wrote: the exit status reaches the window.
Wrote(w) ==
  LET ok == proc[w].stage = "done"
      sent == book[w].inflight
      owed == IF ok THEN Acknowledged(unsaved[w], sent) ELSE unsaved[w]
      next == Exited(book[w], ok, owed)
  IN /\ phase[w] = "open" /\ Over(w)
     /\ unsaved' = [unsaved EXCEPT ![w] = owed]
     /\ book' = [book EXCEPT ![w] = next]
     /\ refused' = [refused EXCEPT ![w] = ~ok]
     /\ landed' = [landed EXCEPT ![w] =
                     @ \cup {l \in DOMAIN sent : ok /\ shown[w][l] = sent[l]}]
     /\ proc' = [proc EXCEPT ![w] = IF next.inflight # Nothing THEN Asking(next.inflight) ELSE Idle]
     /\ UNCHANGED <<file, lock, phase, shown, writer, used>>

\* A command; one may name a setting this release does not know.
Command(patch) ==
  /\ proc[Cli].stage = "idle" /\ used.commands < MaxCommands
  /\ proc' = [proc EXCEPT ![Cli] = Asking(patch)]
  /\ used' = [used EXCEPT !.commands = @ + 1]
  /\ UNCHANGED <<file, lock, window, writer>>

Steps(p) == TakeLock(p) \/ Merge(p) \/ Rename(p) \/ Unlock(p)

Next ==
  \/ \E w \in Windows : Launch(w) \/ Open(w) \/ Wrote(w)
  \/ \E w \in Windows, l \in Settings, v \in Values : Change(w, l, v)
  \/ \E p \in Processes : Steps(p) \/ Fault(p)
  \/ \E patch \in Commands : Command(patch)

Spec == Init /\ [][Next]_vars

\* A started process runs, and its exit reaches who started it. Users and
\* faults owe nothing.
Fairness ==
  /\ \A p \in Processes : WF_vars(Steps(p))
  /\ \A w \in Windows : WF_vars(Open(w)) /\ WF_vars(Wrote(w))

FairSpec == Spec /\ Fairness

-----------------------------------------------------------------------------

\* The book tells the truth about a window's one writer: it runs while the
\* book carries a patch, and it carries that patch.
BookMatchesWriter(w) ==
  /\ (book[w].inflight = Nothing) = (proc[w].stage = "idle")
  /\ proc[w].stage \in {"waiting"} \cup Holding => proc[w].patch = book[w].inflight
  /\ book[w].inflight = Nothing => book[w].pending = Nothing

Types ==
  /\ file \in Documents \cup {Absent, Malformed, Unreadable}
  /\ lock \in Processes \cup {Absent}
  /\ proc \in [Processes -> [stage : {"idle", "waiting", "done", "failed"} \cup Holding,
                             patch : Patches, next : Documents]]
  /\ phase \in [Windows -> {"closed", "settling", "open"}]
  /\ shown \in [Windows -> Documents]
  /\ unsaved \in [Windows -> Patches]
  /\ book \in [Windows -> [saved : Patches, inflight : Patches, pending : Patches]]
  /\ refused \in [Windows -> BOOLEAN]
  /\ landed \in [Windows -> SUBSET Leaves]
  /\ writer \in [Settings -> Processes \cup {Absent}]
  /\ used \in [changes : 0..MaxChanges, commands : 0..MaxCommands,
               faults : 0..MaxFaults]

\* Every variable keeps its type, and the book of an open window matches its
\* writer (UiState.js:46).
TypeOK == Types /\ \A w \in Windows : phase[w] = "open" => BookMatchesWriter(w)

\* Whoever is between its read and its rename holds the lock, alone, and the
\* file is still the one it read.
ReadIsFresh ==
  \A p \in Processes :
    /\ proc[p].stage \in Holding <=> lock = p
    /\ proc[p].stage = "merged" => proc[p].next = Patched(ReadOf(file), proc[p].patch)

Lands(p) == proc[p].stage = "merged" /\ proc'[p].stage = "landed"

\* A writer that lands stores its patch and nothing else: every acceptable
\* value another writer stored stands, what a newer Philemon left stands, and
\* view.json is what the first write carries over.
OthersStand ==
  [][\A p \in Processes : Lands(p) =>
       LET kept == IF IsDocument(file) THEN file
                   ELSE IF file = Absent /\ Legacy # Absent THEN Legacy ELSE Nothing
       IN /\ \A l \in DOMAIN proc[p].patch : file'[l] = proc[p].patch[l]
          /\ \A l \in DOMAIN kept \ DOMAIN proc[p].patch :
               kept[l] \in Values => file'[l] = kept[l]]_vars

\* A setting a writer stored and the user has not touched since is in no
\* later patch of that window, where it would undo another window's change.
NothingSentTwice == \A w \in Windows : DOMAIN book[w].inflight \cap landed[w] = {}

\* A setting the window no longer owes, and was the last to write, is in the
\* file as the window shows it.
NotOwedIsStored ==
  \A w \in Windows, l \in Settings :
    l \notin DOMAIN unsaved[w] /\ writer[l] = w => file[l] = shown[w][l]

\* What a window owes is stored or reported: no change is left behind while
\* the pane says nothing.
OwedIsStored ==
  \A w \in Windows :
    (unsaved[w] # Nothing /\ ~refused[w]) ~> (unsaved[w] = Nothing \/ refused[w])

=============================================================================
