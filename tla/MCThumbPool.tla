----------------------------- MODULE MCThumbPool -----------------------------
(* A small instance of ThumbPool: two media files and a directory.       *)
EXTENDS ThumbPool

CONSTANTS m1, m2, dir

\* A listing a search grows from <<m1>>, and one that holds a directory and
\* moves the other file.
MCListings == {<<>>, <<m1>>, <<m1, m2>>, <<dir, m1>>}
=============================================================================
