------------------------------- MODULE MCJobs -------------------------------
(* A small instance of Jobs: two threads in each pair of requests that can *)
(* meet, and each kind of meta request.                                    *)
EXTENDS Jobs, TLC
CONSTANTS j1, j2

Listed(name, size) == [name |-> name, size |-> size]
\* "././", "./a/" and a line with no name; roots alone; an archive of nothing.
Some == <<Listed(<<".", ".", "">>, <<>>), Listed(<<".", "a", "">>, <<2>>)>>
Roots == <<Listed(<<".", ".", "">>, <<>>), Listed(<<"", "">>, <<>>)>>
Two == <<Listed(<<"a">>, <<1>>), Listed(<<"b">>, <<2>>)>>

Meta(wants) == [kind |-> "meta", wants |-> wants, format |-> "zip"]
Extract(f) == [kind |-> "extract", format |-> f]
Compress(f, paths) == [kind |-> "compress", format |-> f, paths |-> paths]
Convert == [kind |-> "convert"]
Apart == <<<<"d", "x">>, <<"e", "y">>>>
Beside == <<<<"d", "x">>, <<"d", "y">>>>

Both == {"bsdtar", "7z"}
Given(a, b, listing, bytes, box) ==
  [asked |-> (j1 :> a @@ j2 :> b), index |-> listing, text |-> bytes, tools |-> box]
Short == <<TRUE, FALSE>>
Long == <<TRUE, TRUE, FALSE, FALSE, TRUE>>

MCScenarios ==
  {Given(Extract("zip"), Convert, i, <<>>, Both) : i \in {Some, Roots, <<>>}}
  \cup {Given(Extract("zip"), Extract("7z"), Some, <<>>, {"bsdtar"}),
        Given(Compress("7z", Beside), Compress("tar", Apart), <<>>, <<>>, Both),
        Given(Compress("7z", Beside), Compress("zip", Beside), <<>>, <<>>, {"bsdtar"}),
        Given(Meta({"list", "media", "text"}), Compress("zip", Apart), Some, Short, Both),
        Given(Meta({"list", "text"}), Compress("zip", Apart), Two, Long, Both),
        Given(Meta({"list"}), Compress("zip", Apart), Roots, Short, {"7z"})}

MCLeftovers == {<<"extract", 0>>, <<"convert", 0>>}
=============================================================================
