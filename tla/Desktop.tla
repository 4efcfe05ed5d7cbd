------------------------------ MODULE Desktop ------------------------------
(***************************************************************************)
(* philemon --default and --picker, on and off (main.rs, defaults.rs,      *)
(* chooser.rs, hyprkeys.rs): several commands, each a process of its own,  *)
(* on the user's own files. Every file is read, worked on and replaced by  *)
(* userfile.rs's temporary and rename; nothing locks. The user edits       *)
(* between commands. A command may die, and Hyprland be out of reach.      *)
(***************************************************************************)
EXTENDS KeyFiles

CONSTANTS
  Commands,   (* the processes                                             *)
  Scenarios,  (* the files at first and what the box has                   *)
  Edits,      (* what the user may append: [file, lines]                   *)
  MaxRuns,    (* bound: commands run                                       *)
  MaxEdits    (* bound: edits, upgrades and Hyprland coming or going       *)

FileNames == {"bindings", "conf", "mime", "service"}
IsText(lines) ==
  /\ lines \in Seq(ToSet(lines))
  /\ \A i \in DOMAIN lines : lines[i][1] = "key" => lines[i][3] \in Seq(ToSet(lines[i][3]))

ASSUME DesktopAssumption ==
  /\ MaxRuns \in Nat /\ MaxEdits \in Nat
  /\ \A e \in Edits : e.file \in FileNames /\ IsText(e.lines)
  /\ \A s \in Scenarios : DOMAIN s.files = FileNames
  /\ \A s \in Scenarios, f \in FileNames : s.files[f] # <<>> => IsText(s.files[f][1])

VARIABLES
  box,     (* data dirs in their order, what each has, the desktop's ways  *)
  disk,    (* each file: <<>> when absent, else <<its lines>>              *)
  temps,   (* processes whose temporary stands beside the file they write  *)
  exec,    (* the Exec the package's registration names                    *)
  loaded,  (* the bindings Hyprland last read                              *)
  reach,   (* hyprctl can be reached                                       *)
  cmd,     (* each process                                                 *)
  runs,    (* commands started                                             *)
  edits,   (* what MaxEdits counts                                         *)
  user     (* history: what is not Philemon's in the files, and "left":    *)
           (* what of mimeapps.list no xdg-mime took out since              *)

vars == <<box, disk, temps, exec, loaded, reach, cmd, runs, edits, user>>

-----------------------------------------------------------------------------
(* What of a file is not Philemon's.                                       *)

ServiceOf(e) == <<<<"mark">>, <<"exec", e>>>>
OwnService(lines) == lines # <<>> /\ lines[1] = <<"mark">>

\* Every value of a key file with its group and key.
Pairs(lines) ==
  UNION {{<<GroupAt(lines, i), lines[i][2], v>> : v \in ToSet(lines[i][3])} :
           i \in {j \in DOMAIN lines : lines[j][1] = "key"}}

Content(d, file) == IF d[file] = <<>> THEN <<>> ELSE d[file][1]

UserLines(lines) == Without(lines, {i \in DOMAIN lines : lines[i][1] # "user"})

Theirs(d) ==
  [bindings |-> UserLines(Content(d, "bindings")),
   conf |-> {p \in Pairs(Content(d, "conf")) : ~(p[1] = "preferred" /\ p[2] = "chooser")},
   mime |-> {p \in Pairs(Content(d, "mime")) : p # <<"defaults", "dir", Own>>},
   service |-> IF OwnService(Content(d, "service")) THEN <<>> ELSE d["service"]]

Written(d) == [wrote |-> Theirs(d), left |-> Theirs(d).mime]

-----------------------------------------------------------------------------
Idle ==
  [pc |-> "idle", kind |-> "picker", on |-> FALSE, todo |-> <<>>, failed |-> FALSE, next |-> <<>>, seen |-> <<>>,
   back |-> FALSE, lost |-> FALSE, sound |-> FALSE, alone |-> FALSE]

Refused(lines) ==
  \/ \E i \in DOMAIN lines : lines[i] = <<"user", TRUE>>
  \/ box.breaks /\ \E i \in DOMAIN lines : lines[i][1] = "body"

Init ==
  /\ box \in Scenarios
  /\ disk = box.files /\ temps = {} /\ exec = 1
  /\ loaded = Content(disk, "bindings") /\ reach \in BOOLEAN
  /\ cmd = [p \in Commands |-> Idle] /\ runs = 0 /\ edits = 0
  /\ user = Written(disk)

Busy(p) == cmd[p].pc \notin {"idle", "ended"}

\* data_file: the first data directory that has it.
DataFile(name) == SelectSeq(box.dirs, LAMBDA d : name \in d)
Installed(name) == DataFile(name) # <<>>

IsOmarchy == box.omarchy \/ disk["bindings"] # <<>>

ConfigErrors == reach /\ Refused(loaded)

\* The halves of a command, in the order they run. "both" is claim_both's
\* look at what the handler's half came to.
Halves(kind, on) ==
  IF kind = "picker" THEN <<"window", "routing">>
  ELSE IF on THEN <<"keys", "mime", "service", "both", "window", "routing">>
  ELSE <<"keys", "mime", "service", "window", "routing">>

\* A claim on a box without the package ends at once.
Start(p, kind, on) ==
  /\ ~Busy(p) /\ runs < MaxRuns /\ runs' = runs + 1
  /\ LET needs == IF kind = "picker" THEN "portal" ELSE "entry"
         alone == \A q \in Commands : ~Busy(q)
         todo == IF on /\ ~Installed(needs) THEN <<>> ELSE Halves(kind, on)
     IN cmd' = [q \in Commands |->
                  IF q = p THEN [Idle EXCEPT !.kind = kind, !.on = on, !.todo = todo, !.alone = alone,
                                   !.pc = IF todo = <<>> THEN "ended" ELSE "next",
                                   !.failed = todo = <<>>,
                                   !.sound = ~Refused(loaded) /\ ~Refused(Content(disk, "bindings"))]
                  ELSE [cmd[q] EXCEPT !.alone = FALSE]]
  /\ UNCHANGED <<box, disk, temps, exec, loaded, reach, edits, user>>

Half(p, what) == cmd[p].pc = "next" /\ Head(cmd[p].todo) = what
On(p) == cmd[p].on

Done(p, ok) ==
  LET todo == Tail(cmd[p].todo)
  IN cmd' = [cmd EXCEPT ![p].todo = todo, ![p].pc = IF todo = <<>> THEN "ended" ELSE "next",
                        ![p].failed = @ \/ ~ok, ![p].back = FALSE]

Replaces(p, lines) == cmd' = [cmd EXCEPT ![p].pc = "write", ![p].next = lines]

Calm == UNCHANGED <<box, exec, reach, runs, edits, user>>
Quiet == UNCHANGED <<disk, temps, loaded>> /\ Calm

FileOf(p) ==
  CASE Head(cmd[p].todo) \in {"keys", "window"} -> "bindings"
    [] Head(cmd[p].todo) = "mime" -> "mime"
    [] Head(cmd[p].todo) = "service" -> "service"
    [] Head(cmd[p].todo) = "routing" -> "conf"

Absent(p) == disk[FileOf(p)] = <<>>
Text(p) == Content(disk, FileOf(p))

\* A refused handler claim, or a box without the portal, ends --default.
Both(p) ==
  /\ Half(p, "both")
  /\ IF cmd[p].failed \/ ~Installed("portal")
     THEN cmd' = [cmd EXCEPT ![p].todo = <<>>, ![p].pc = "ended"]
     ELSE Done(p, TRUE)
  /\ Quiet

BlockOf(p) == IF Head(cmd[p].todo) = "keys" THEN "keys" ELSE "float"

\* hyprkeys: claim, release, float_claim and float_release up to their write.
Bindings(p) ==
  /\ Half(p, "keys") \/ Half(p, "window")
  /\ LET lines == Text(p) b == BlockOf(p)
     IN CASE ~IsOmarchy -> Done(p, TRUE)
          [] IsOmarchy /\ Absent(p) -> Done(p, FALSE)
          [] ~Absent(p) /\ On(p) /\ HasBlock(lines, b) -> Done(p, TRUE)
          [] ~Absent(p) /\ On(p) /\ ~HasBlock(lines, b) ->
               IF ConfigErrors THEN Done(p, FALSE)
               ELSE cmd' = [cmd EXCEPT ![p].pc = "write", ![p].seen = lines,
                                       ![p].next = Appended(lines, b)]
          [] ~Absent(p) /\ ~On(p) /\ ~HasBlock(lines, b) -> Done(p, TRUE)
          [] ~Absent(p) /\ ~On(p) /\ HasBlock(lines, b) ->
               IF Cuttable(lines, b) THEN Replaces(p, Cut(lines, b)) ELSE Done(p, FALSE)
  /\ Quiet

\* Slip: a block that broke the config is reported and left.
PutBackNever(p) == Done(p, FALSE)

\* The text read before the claim goes back over the file.
PutBack(p) ==
  cmd' = [cmd EXCEPT ![p].pc = "write", ![p].next = cmd[p].seen, ![p].back = TRUE]

\* hyprctl reload, and after a claim its configerrors.
Reload(p) ==
  /\ cmd[p].pc = "reload"
  /\ loaded' = (IF reach THEN Content(disk, "bindings") ELSE loaded)
  /\ IF cmd[p].back THEN Done(p, FALSE)
     ELSE IF reach /\ On(p) THEN cmd' = [cmd EXCEPT ![p].pc = "check"]
     ELSE Done(p, TRUE)
  /\ UNCHANGED <<disk, temps>> /\ Calm

Check(p) ==
  /\ cmd[p].pc = "check"
  /\ IF ConfigErrors THEN PutBack(p) ELSE Done(p, TRUE)
  /\ Quiet

\* A file that cannot be read, a tool that cannot be run: the half fails first.
ReadFails(p) ==
  /\ cmd[p].pc = "next" /\ Head(cmd[p].todo) # "both" /\ Done(p, FALSE) /\ Quiet

-----------------------------------------------------------------------------
(* The desktop's own answers.                                              *)

\* xdg-mime query default: the first handler of the list the desktop can run.
QueryDefault(lines) ==
  LET runnable == SelectSeq(FlattenSeq([i \in DOMAIN lines |->
                    IF i \in Held(lines, "defaults", "dir") THEN lines[i][3] ELSE <<>>]),
                    LAMBDA h : h # Own \/ box.onpath)
  IN IF runnable = <<>> THEN "nothing" ELSE Head(runnable)

\* xdg-mime default: the line of the type names this handler alone.
XdgDefault(lines) ==
  LET held == Held(lines, "defaults", "dir")
      line == <<"key", "dir", <<Own>>>>
  IN IF held # {} THEN ReplaceAt(lines, Min(held), line)
     ELSE lines \o <<<<"group", "defaults">>, line>>

\* claim_mime runs xdg-mime unless the desktop names Philemon already, and
\* reads the answer back.
ClaimMime(p) ==
  /\ Half(p, "mime") /\ On(p)
  /\ LET lines == Content(disk, "mime")
     IN IF QueryDefault(lines) = Own THEN Done(p, TRUE) /\ UNCHANGED <<disk, user>>
        ELSE /\ disk' = [disk EXCEPT !["mime"] = <<XdgDefault(lines)>>]
             /\ user' = [user EXCEPT !.left = @ \cap Theirs(disk').mime]
             /\ \E answers \in BOOLEAN :
                  Done(p, answers /\ QueryDefault(XdgDefault(lines)) = Own)
  /\ UNCHANGED <<box, temps, exec, loaded, reach, runs, edits>>

ReleaseMime(p) ==
  /\ Half(p, "mime") /\ ~On(p)
  /\ IF Claims(Text(p)) = {} THEN Done(p, TRUE) ELSE Replaces(p, DropDefault(Text(p)))
  /\ Quiet

\* create_file is exclusive: a file that came meanwhile stands.
Creates(p, lines) ==
  \/ disk' = [disk EXCEPT ![FileOf(p)] = <<lines>>] /\ Done(p, TRUE)
  \/ Done(p, FALSE) /\ UNCHANGED disk

\* Nothing packaged is nothing to put in front; a stranger's file stands.
ClaimService(p) ==
  /\ Half(p, "service") /\ On(p)
  /\ IF Installed("service") /\ Absent(p) THEN Creates(p, ServiceOf(exec))
     ELSE /\ UNCHANGED disk
          /\ IF ~Installed("service") \/ Text(p) = ServiceOf(exec) THEN Done(p, TRUE)
             ELSE IF OwnService(Text(p)) THEN Replaces(p, ServiceOf(exec))
             ELSE Done(p, FALSE)
  /\ UNCHANGED <<temps, loaded>> /\ Calm

\* Slip: only the registration this version would write is its own.
MarkedExactly(lines) == lines = ServiceOf(exec)

Marked(lines) == OwnService(lines)

Removes(p) ==
  \/ disk' = [disk EXCEPT ![FileOf(p)] = <<>>] /\ Done(p, TRUE)
  \/ Done(p, FALSE) /\ UNCHANGED disk

ReleaseService(p) ==
  /\ Half(p, "service") /\ ~On(p)
  /\ IF ~Absent(p) /\ Marked(Text(p)) THEN Removes(p)
     ELSE Done(p, TRUE) /\ UNCHANGED disk
  /\ UNCHANGED <<temps, loaded>> /\ Calm

\* A file for this desktop alone hides portals.conf.
ClaimChooser(p) ==
  /\ Half(p, "routing") /\ On(p)
  /\ IF box.shadow THEN Done(p, FALSE) /\ UNCHANGED disk
     ELSE IF Absent(p) THEN Creates(p, <<<<"group", "preferred">>, ChooserLine>>)
     ELSE /\ UNCHANGED disk
          /\ IF SetPreferred(Text(p)) = Text(p) THEN Done(p, TRUE)
             ELSE Replaces(p, SetPreferred(Text(p)))
  /\ UNCHANGED <<temps, loaded>> /\ Calm

ReleaseChooser(p) ==
  /\ Half(p, "routing") /\ ~On(p)
  /\ LET next == DropPreferred(Text(p))
     IN IF next = Text(p) THEN Done(p, TRUE) /\ UNCHANGED disk
        ELSE IF OnlyHeading(next) THEN Removes(p)
        ELSE Replaces(p, next) /\ UNCHANGED disk
  /\ UNCHANGED <<temps, loaded>> /\ Calm

-----------------------------------------------------------------------------
(* userfile::replace_file: a temporary of the process's own, then a rename. *)

\* A write that failed ends the half; the block that was to go stays if the
\* write was to take it out.
WriteFails(p) ==
  LET todo == Tail(cmd[p].todo)
  IN /\ cmd' = [cmd EXCEPT ![p].todo = todo, ![p].failed = TRUE, ![p].back = FALSE,
                           ![p].pc = IF todo = <<>> THEN "ended" ELSE "next",
                           ![p].lost = @ \/ cmd[p].back]
     /\ temps' = temps \ {p} /\ UNCHANGED disk

WriteNew(p) ==
  /\ cmd[p].pc = "write"
  /\ \/ /\ ~Absent(p) /\ temps' = temps \cup {p}
        /\ cmd' = [cmd EXCEPT ![p].pc = "rename"] /\ UNCHANGED disk
     \/ WriteFails(p)
  /\ UNCHANGED loaded /\ Calm

Rename(p) ==
  /\ cmd[p].pc = "rename"
  /\ \/ /\ disk' = [disk EXCEPT ![FileOf(p)] = <<cmd[p].next>>] /\ temps' = temps \ {p}
        /\ IF FileOf(p) = "bindings" THEN cmd' = [cmd EXCEPT ![p].pc = "reload"]
           ELSE \E answers \in {TRUE, FileOf(p) # "mime"} : Done(p, answers)
     \/ WriteFails(p)
  /\ UNCHANGED loaded /\ Calm

\* A command killed where it is. Its temporary stays.
Dies(p) ==
  /\ Busy(p) /\ edits < MaxEdits /\ edits' = edits + 1
  /\ cmd' = [cmd EXCEPT ![p] = Idle]
  /\ UNCHANGED <<box, disk, temps, exec, loaded, reach, runs, user>>

\* The user writes to a file, Hyprland reads what changed or not, while no
\* command runs; the package is upgraded; hyprctl comes into reach or goes.
UserEdits(e) ==
  /\ \A p \in Commands : ~Busy(p)
  /\ edits < MaxEdits /\ edits' = edits + 1
  /\ disk' = [disk EXCEPT ![e.file] = <<Content(disk, e.file) \o e.lines>>]
  /\ user' = Written(disk')
  /\ loaded' \in {loaded, Content(disk', "bindings")}
  /\ UNCHANGED <<box, temps, exec, reach, cmd, runs>>

Upgrade ==
  /\ edits < MaxEdits /\ edits' = edits + 1 /\ exec' = 3 - exec
  /\ UNCHANGED <<box, disk, temps, loaded, reach, cmd, runs, user>>

Reachable ==
  /\ edits < MaxEdits /\ edits' = edits + 1 /\ reach' = ~reach
  /\ cmd' = [p \in Commands |-> [cmd[p] EXCEPT !.alone = FALSE]]
  /\ UNCHANGED <<box, disk, temps, exec, loaded, runs, user>>

Step(p) ==
  \/ \E kind \in {"default", "picker"}, on \in BOOLEAN : Start(p, kind, on)
  \/ Both(p) \/ Bindings(p) \/ ReadFails(p) \/ Reload(p) \/ Check(p)
  \/ ClaimMime(p) \/ ReleaseMime(p) \/ ClaimService(p) \/ ReleaseService(p)
  \/ ClaimChooser(p) \/ ReleaseChooser(p)
  \/ WriteNew(p) \/ Rename(p) \/ Dies(p)

Next == (\E p \in Commands : Step(p)) \/ (\E e \in Edits : UserEdits(e)) \/ Upgrade \/ Reachable

Spec == Init /\ [][Next]_vars

-----------------------------------------------------------------------------
(* What the user and other programs wrote in the four files stands through *)
(* claims, releases, failed writes and deaths of several commands at once. *)
(* Of mimeapps.list that is what xdg-mime did not take out for a claim; a  *)
(* release that read the file before puts even that back.                  *)
OthersStand ==
  LET now == Theirs(disk)
  IN /\ now.bindings = user.wrote.bindings /\ now.conf = user.wrote.conf
     /\ now.service = user.wrote.service
     /\ user.left \subseteq now.mime /\ now.mime \subseteq user.wrote.mime

(* chooser.rs set_preferred "Returns the file with `key=value` in          *)
(* [preferred]": a claim none of whose halves failed ends with that line   *)
(* in that group of portals.conf.                                          *)
ClaimTakes ==
  [][\A p \in Commands :
       (cmd[p].todo # <<>> /\ Head(cmd[p].todo) = "routing" /\ On(p)
          /\ cmd'[p].pc = "ended" /\ ~cmd'[p].failed)
       => \E i \in Held(Content(disk', "conf"), "preferred", "chooser") :
            Content(disk', "conf")[i] = ChooserLine]_vars

(* hyprkeys.rs "Never leave a config that does not load": a claim that     *)
(* began on a config that loads ends on one, when nothing else ran         *)
(* meanwhile and the way back could be written.                            *)
LeavesItLoading ==
  [][\A p \in Commands :
       (Busy(p) /\ cmd'[p].pc = "ended" /\ cmd[p].alone /\ cmd[p].sound /\ ~cmd'[p].lost)
       => ~Refused(loaded') \/ ~reach]_vars

(* A release that ran alone and did not fail leaves nothing of what it     *)
(* releases: its blocks, its key, its handler's name, its registration,    *)
(* whichever version of the package wrote them.                            *)
ReleasesAll ==
  [][\A p \in Commands :
       (Busy(p) /\ cmd'[p].pc = "ended" /\ ~On(p) /\ cmd[p].alone /\ ~cmd'[p].failed)
       => /\ ~HasBlock(Content(disk', "bindings"), "float")
          /\ Held(Content(disk', "conf"), "preferred", "chooser") = {}
          /\ cmd[p].kind = "default" =>
               /\ ~HasBlock(Content(disk', "bindings"), "keys")
               /\ Claims(Content(disk', "mime")) = {}
               /\ ~OwnService(Content(disk', "service"))]_vars
=============================================================================
