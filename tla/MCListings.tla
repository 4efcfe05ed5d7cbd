----------------------------- MODULE MCListings -----------------------------
(* A small instance of Listings: natural order, case, a hidden entry, a    *)
(* folder that cannot be read, and an entry that comes and goes.           *)
EXTENDS Listings

\* a10  A2  a2  .a  b/  b/a/  b/a1  b/a/x
a10 == <<97, 49, 48>>
A2 == <<65, 50>>
a2 == <<97, 50>>
dota == <<46, 97>>
b == <<98>>
ba == <<98, 47, 97>>
ba1 == <<98, 47, 97, 49>>
bax == <<98, 47, 97, 47, 120>>

MCEntries == {a10, A2, a2, dota, b, ba, ba1, bax}
MCFolders == {<<>>, b, ba}
MCLocked == {ba}
MCFleeting == {ba1}
MCOrders == {<<bax, ba1, ba, b, dota, a2, A2, a10>>}
MCSize == [e \in MCEntries |-> IF e = a10 THEN 1 ELSE IF e = A2 THEN 3 ELSE 2]
MCMtime == [e \in MCEntries |-> IF e = a10 THEN 2 ELSE 1]
MCSorts == {[by |-> "size", desc |-> TRUE], [by |-> "mtime", desc |-> FALSE],
            [by |-> "kind", desc |-> FALSE]}
MCOpens == {<<>>, b}
MCQueries == {<<97>>}
=============================================================================
