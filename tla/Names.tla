------------------------------- MODULE Names -------------------------------
(***************************************************************************)
(* The two orders a listing is answered in: names as Finder sorts them     *)
(* (sort.rs) and search matches by score (fuzzy.rs). A name is a sequence  *)
(* of ASCII codes; an order is a less-than.                                *)
(***************************************************************************)
EXTENDS Integers, Sequences, FiniteSets, FiniteSetsExt

CONSTANT MaxStarts   (* MAX_STARTS: alignments a candidate is scored from   *)

ASSUME StartsAssumption == MaxStarts \in Nat \ {0}

Slash == 47
Zero == 48
IsDigit(c) == c \in 48..57
IsUpper(c) == c \in 65..90
Lower(c) == IF IsUpper(c) THEN c + 32 ELSE c
IsSeparator(c) == c \in {47, 45, 95, 46, 32}

Folded(s) == [i \in DOMAIN s |-> Lower(s[i])]

\* Lexicographic order of two sequences of integers.
Before(a, b) ==
  \E n \in 1..Len(b) :
    /\ \A i \in 1..(n - 1) : i <= Len(a) /\ a[i] = b[i]
    /\ n > Len(a) \/ (n <= Len(a) /\ a[n] < b[n])

-----------------------------------------------------------------------------
(* Name order.                                                             *)

\* The digits of s from at on, without the zeros that lead them.
RunEnd(s, at) == Min({e \in at..(Len(s) + 1) : e = Len(s) + 1 \/ ~IsDigit(s[e])})

Significant(s, at) ==
  LET last == RunEnd(s, at) - 1
  IN SubSeq(s, Min({k \in at..last : k = last \/ s[k] # Zero}), last)

\* More digits make the larger number; as many are settled as bytes.
RunBefore(a, b) == Len(a) < Len(b) \/ (Len(a) = Len(b) /\ Before(a, b))

\* -1, 0 or 1 as a comes before, with or after b.
FinderCmp(a, b) ==
  LET Sign(less, more) == IF less THEN -1 ELSE IF more THEN 1 ELSE 0
      cmp[i \in 1..(Len(a) + 1), j \in 1..(Len(b) + 1)] ==
        IF i > Len(a) \/ j > Len(b)
          THEN Sign(Len(a) - i < Len(b) - j, Len(a) - i > Len(b) - j)
        ELSE IF IsDigit(a[i]) /\ IsDigit(b[j])
          THEN LET x == Significant(a, i)
                   y == Significant(b, j)
               IN IF x = y THEN cmp[RunEnd(a, i), RunEnd(b, j)]
                           ELSE Sign(RunBefore(x, y), RunBefore(y, x))
        ELSE IF Lower(a[i]) = Lower(b[j]) THEN cmp[i + 1, j + 1]
        ELSE Sign(Lower(a[i]) < Lower(b[j]), Lower(a[i]) > Lower(b[j]))
  IN cmp[1, 1]

\* Slip: names that differ in case alone, or in leading zeros, tie.
NameBeforeTied(a, b) == FinderCmp(a, b) = -1

\* Names that compare equal are told apart by their bytes.
NameBefore(a, b) ==
  \/ FinderCmp(a, b) = -1
  \/ FinderCmp(a, b) = 0 /\ Before(a, b)

-----------------------------------------------------------------------------
(* Fuzzy scores.                                                           *)

\* The first index of the candidate's own name.
BaseStart(hay) == Max({0} \cup {i \in DOMAIN hay : hay[i] = Slash}) + 1

StartsWord(hay, at) ==
  \/ at = 1
  \/ at > 1 /\ \/ IsSeparator(hay[at - 1])
               \/ IsUpper(hay[at]) /\ ~IsUpper(hay[at - 1])

\* What a character matched at at is worth, the one before it at previous.
CharacterScore(hay, at, previous) ==
  (IF previous = 0 THEN 0 ELSE IF at = previous + 1 THEN 8 ELSE -(at - previous - 1))
  + (IF StartsWord(hay, at) THEN 6 ELSE 0)
  + (IF at >= BaseStart(hay) THEN 4 ELSE 0)

\* Where the needle falls from start on, each character on the next that
\* matches it; 0 once there is none.
Alignment(hay, needle, start) ==
  LET at[k \in 1..Len(needle)] ==
        IF k = 1 THEN start
        ELSE LET later == {j \in (at[k - 1] + 1)..Len(hay) : Lower(hay[j]) = needle[k]}
             IN IF at[k - 1] = 0 \/ later = {} THEN 0 ELSE Min(later)
  IN at

Aligns(hay, needle, start) == Alignment(hay, needle, start)[Len(needle)] # 0

ScoreFrom(hay, needle, start) ==
  LET at == Alignment(hay, needle, start)
      total[k \in 0..Len(needle)] ==
        IF k = 0 THEN 0
        ELSE total[k - 1] + CharacterScore(hay, at[k], IF k = 1 THEN 0 ELSE at[k - 1])
  IN total[Len(needle)]

\* The scores a candidate is tried for: from the first starts, up to the
\* first that cannot finish. Empty means no match.
Scores(hay, query) ==
  LET needle == Folded(query)
      starts == {i \in DOMAIN hay : Lower(hay[i]) = needle[1]}
      tried == {i \in starts :
                  /\ Cardinality({j \in starts : j < i}) < MaxStarts
                  /\ \A j \in starts : j <= i => Aligns(hay, needle, j)}
  IN IF needle = <<>> THEN {0} ELSE {ScoreFrom(hay, needle, i) : i \in tried}

Matches(hay, query) == Scores(hay, query) # {}

Score(hay, query) == Max(Scores(hay, query))

\* rank_order: the better score, then the shorter path, then name order.
RankBefore(a, aScore, b, bScore) ==
  \/ aScore > bScore
  \/ aScore = bScore /\ Len(a) < Len(b)
  \/ aScore = bScore /\ Len(a) = Len(b) /\ NameBefore(a, b)

-----------------------------------------------------------------------------
(* What the two promise, told another way.                                 *)

\* A name as the numbers and letters it is made of; a number sorts where its
\* first digit would.
Tokens(s) ==
  LET Value(run) ==
        LET v[k \in 0..Len(run)] == IF k = 0 THEN 0 ELSE 10 * v[k - 1] + run[k] - Zero
        IN v[Len(run)]
      from[i \in 1..(Len(s) + 1)] ==
        IF i > Len(s) THEN <<>>
        ELSE IF IsDigit(s[i])
          THEN LET e == RunEnd(s, i)
               IN <<Zero, Value(SubSeq(s, i, e - 1))>> \o from[e]
        ELSE <<Lower(s[i])>> \o from[i + 1]
  IN from[1]

\* The order macOS Finder shows: a run of digits by value, letters whatever
\* their case, and one order for every set of names (sort.rs:35-42, 94-96).
FinderBefore(a, b) ==
  IF Tokens(a) = Tokens(b) THEN Before(a, b) ELSE Before(Tokens(a), Tokens(b))

\* The query's characters appear in the candidate, in order, whatever case.
Subsequence(query, hay) ==
  LET reach[k \in 0..Len(query)] ==   \* the shortest prefix of hay that holds k of them
        IF k = 0 THEN 0
        ELSE LET later == {j \in (reach[k - 1] + 1)..Len(hay) : Lower(hay[j]) = Lower(query[k])}
             IN IF reach[k - 1] > Len(hay) \/ later = {} THEN Len(hay) + 1 ELSE Min(later)
  IN reach[Len(query)] <= Len(hay)
=============================================================================
