------------------------------ MODULE MCFileOps ------------------------------
(* A small instance of FileOps: a file, a directory with a file in it, and *)
(* on some instances a second file system.                                 *)
EXTENDS FileOps, TLC

CONSTANTS v1, v2, a, b, c

\* duplicate finds one free name, then none; mkdir has one default name.
MCCopyNames == (a :> <<b, c>>) @@ (b :> <<c>>) @@ (c :> <<>>)
MCFolderNames == <<c>>

\* The second file system is WebDAV's; alone, the first is an ordinary one.
MCOneMount == (v1 :> {}) @@ (v2 :> {"dir", "file", "fifo"})
MCEveryMount == v1 :> {}

At(p) == File(Data(p, 0, FALSE), FALSE, 0)

\* Two names only: every folder name is soon taken.
MCTwoCopyNames == (a :> <<b>>) @@ (b :> <<>>)
MCTwoFolderNames == <<b>>

MCFiles ==
  (<<v1, a>> :> At(<<v1, a>>)) @@ (<<v1, b>> :> Dir(0)) @@ (<<v1, b, a>> :> At(<<v1, b, a>>))

\* The same with a fifo, which a copy makes again rather than reads.
MCFilesAndFifo == MCFiles @@ (<<v1, c>> :> Fifo(0))
=============================================================================
