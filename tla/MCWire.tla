-------------------------------- MODULE MCWire --------------------------------
(* A small instance of Wire: names made of what the readers look for.      *)
EXTENDS Wire, TLC

MCCharOf ==
  (7 :> "BEL") @@ (8 :> "BS") @@ (9 :> "\t") @@ (10 :> "\n") @@ (12 :> "\f") @@ (13 :> "\r")
    @@ (65 :> "A") @@ (128193 :> "U+1F4C1")

\* A request inside a name, a trailing backslash, an array's end and a
\* newline, and what only an escape can carry.
MCTexts ==
  {<<Quote, ",", Quote, "c", Quote, ":", Quote, "quit", "\n", "/", Back>>,
   <<Quote, "]", ",", "BEL", "BS", "\f", "U+1F4C1", Back, "n">>}

Quad(a, b, c, d) == <<Back, "u", a, b, c, d>>

\* Structure, numbers JSON has and has not, and strings another program
\* escaped in its own way.
MCLexemes ==
  {<<"{">>, <<"}">>, <<"[">>, <<"]">>, <<",">>, <<"true">>,
   <<"{", Quote, "a", Quote, ":", "null">>, <<",", " ", Quote, "a", Quote, " ", ":", " ", "-", "1", ".", "0">>,
   <<"0", "1">>, <<"1", "e", "4", "0", "0">>, <<"1", "0", "E", "-", "1">>, <<".", "1">>,
   <<Quote, "a", Quote>>, <<Quote, Back, "n", "\n", Quote>>, <<Quote, Back, Back, Quote>>,
   <<Quote>> \o Quad("d", "8", "3", "d") \o Quad("d", "C", "c", "1") \o <<Quote>>,
   <<Quote>> \o Quad("d", "8", "3", "d") \o Quad("0", "0", "4", "1") \o <<Quote>>}
=============================================================================
