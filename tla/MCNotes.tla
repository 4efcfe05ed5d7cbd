------------------------------ MODULE MCNotes ------------------------------
(* A small instance of Notes: three notes in a ring of links, one of them  *)
(* under a second name, and room for two in tabs.                          *)
EXTENDS Notes, TLC
CONSTANTS n1, n2, n3, l1

MCAliases == l1 :> n1
MCLinkOf == (n1 :> n2) @@ (n2 :> n3) @@ (n3 :> n1)
MCInitial == (n1 :> Content("x", "mixed")) @@ (n2 :> Content("x", "crlf")) @@ (n3 :> Content("x", "lf"))
=============================================================================
