---------------------------- MODULE MCThumbFiles ----------------------------
(* A small instance of ThumbFiles: two paths whose keys a careless escape  *)
(* would make one, two processes, and the thumbnailer files that could be  *)
(* read in more than one way.                                              *)
EXTENDS ThumbFiles, TLC
CONSTANTS p1, p2, w1, w2

\* "a b" and "a%20b"
MCPaths == {<<97, 32, 98>>, <<97, 37, 50, 48, 98>>}
MCMimeOf == [p \in MCPaths |-> "video/x-m4v"]
MCCanonical == [m \in {"video/x-m4v", "video/mp4", "image/heif", "image/avif"} |->
  IF m \in {"image/heif", "image/avif"} THEN "image/avif" ELSE "video/mp4"]
MCRunnable == {"totem", "glycin"}

Group == [k |-> "group", v |-> TRUE]
Other == [k |-> "group", v |-> FALSE]
Exec(prog) == [k |-> "Exec", v |-> prog]
TryExec(prog) == [k |-> "TryExec", v |-> prog]
Mime(m) == [k |-> "MimeType", v |-> <<m>>]
File(name, lines) == [name |-> name, lines |-> lines]

Heif == File(1, <<Group, TryExec("glycin"), Exec("glycin"), Mime("image/heif")>>)
Gone == File(0, <<Group, TryExec("totem"), Exec("gone"), Mime("image/avif")>>)
Stray == File(2, <<Other, Exec("totem"), Group, Exec("glycin"), Other, Exec("gone"), Group,
                   Mime("image/avif")>>)
Outside == File(0, <<Other, Exec("totem"), Mime("image/avif")>>)
Odd == SUBSET {Heif, Gone, Stray}
\* A type no row has, in every way its files can stand; and the rows' own.
MCInstalls ==
  {<<a, b>> : a, b \in Odd} \cup {<<{Outside}, b>> : b \in Odd}
  \cup {<<{}, {File(1, <<Group, Exec("totem"), Mime("video/mp4")>>)}>>}

MCWorkersOf == (p1 :> {w1}) @@ (p2 :> {w2})
\* The two processes, each with its worker, are interchangeable.
MCSwap == {f \in Permutations({p1, p2, w1, w2}) :
             \A p \in {p1, p2} : f[p] \in {p1, p2} /\ \A w \in MCWorkersOf[p] : f[w] \in MCWorkersOf[f[p]]}

\* A picture with a stamp and a text of its own, and bytes that are no PNG.
MCDrawn == [of \in 1..3 |->
  {<<[t |-> "IHDR"], Text("Thumb::MTime", 0), Text("Thumb::Size", 0), Pixels(of)>>, <<[t |-> "junk"]>>}]
=============================================================================
