------------------------------ MODULE MCDesktop ------------------------------
(* A small instance of Desktop: two commands, and boxes that reach each    *)
(* refusal. No comment of portals.conf quotes "[preferred]": chooser.rs:154 *)
(* takes such a comment for the group, see the README.                     *)
EXTENDS Desktop
CONSTANTS p1, p2

Group(g) == <<"group", g>>
Key(k, v) == <<"key", k, v>>
Full == {"entry", "portal", "service"}
Bare == [bindings |-> <<>>, conf |-> <<>>, mime |-> <<>>, service |-> <<>>]
Box(dirs, omarchy, onpath, breaks, files) ==
  [dirs |-> dirs, omarchy |-> omarchy, onpath |-> onpath, breaks |-> breaks, shadow |-> FALSE,
   files |-> files]

Routed == <<Group("preferred"), Key("default", <<"gtk">>), Group("other"), Key("chooser", <<"kde">>)>>
Chosen == <<<<"note", FALSE>>, Group("preferred"), Key("chooser", <<"gtk">>), Key("default", <<"gtk">>)>>
Lists == <<Group("defaults"), Key("dir", <<"thunar", Own>>), Key("png", <<"imv">>),
           Group("added"), Key("dir", <<Own>>)>>
Foreign == <<<<"mark2">>, <<"exec", 1>>>>
Twice == <<<<"begin", "float">>, <<"body", "float">>, <<"user", FALSE>>>>

Plain == [Bare EXCEPT !.bindings = <<<<<<"user", FALSE>>>>>>]
Rich == [bindings |-> <<<<<<"user", FALSE>>>> \o Block("float")>>, conf |-> <<Routed>>,
         mime |-> <<Lists>>, service |-> <<ServiceOf(2)>>]
Stranger == [bindings |-> <<Twice>>, conf |-> <<Chosen>>, mime |-> <<<<Group("defaults")>>>>,
          service |-> <<Foreign>>]

MCScenarios ==
  {Box(<<{}, Full>>, TRUE, TRUE, FALSE, Plain),
   Box(<<{}, Full>>, TRUE, TRUE, TRUE, Plain),
   Box(<<Full>>, FALSE, TRUE, FALSE, Rich),
   Box(<<{"entry"}>>, FALSE, FALSE, FALSE, Bare),
   Box(<<{}>>, TRUE, TRUE, FALSE, Bare),
   Box(<<Full>>, FALSE, TRUE, FALSE, Stranger),
   [Box(<<{"entry", "portal"}>>, FALSE, TRUE, FALSE, Rich) EXCEPT !.shadow = TRUE]}

MCEdits ==
  {[file |-> "bindings", lines |-> <<<<"user", TRUE>>>>],
   [file |-> "conf", lines |-> <<Group("other"), Key("default", <<"kde">>)>>]}
=============================================================================
