----------------------------- MODULE MCUiStore ------------------------------
(* A small instance of UiStore: two settings of two values, two windows.  *)
EXTENDS UiStore, TLC

CONSTANTS w1, w2, s1, s2, d, x

MCLegacy == (s1 :> x) @@ (s2 :> d)

\* How the file may be found: not there, so that view.json is carried over; a
\* text that is no object; bytes that cannot be read; and a document with a
\* refused value beside a newer release's leaf.
MCFiles == {Absent, Malformed, Unreadable, (s1 :> Junk) @@ (s2 :> x) @@ (Newer :> x)}
\* One command another window's setting may meet, one of a newer release.
MCCommands == {s1 :> d, Newer :> x}
=============================================================================
