----------------------------- MODULE MCPaneWatch -----------------------------
(* A small instance of PaneWatch: two folders, one of them under two paths. *)
EXTENDS PaneWatch, TLC

CONSTANTS f1, f2, home, link, other

MCFolderOf == (home :> f1) @@ (link :> f1) @@ (other :> f2)
=============================================================================
