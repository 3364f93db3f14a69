------------------------------- MODULE Filters -------------------------------
(***************************************************************************)
(* The list comprehensions of the code, [x for x in s if x in K], its      *)
(* sum(s), products, joined lists, the matches of a pattern, and sums over *)
(* sets.  They are written as recursive functions, so that facts about     *)
(* what a filter keeps and what a sum is can be proved (Filters_proofs).   *)
(***************************************************************************)
EXTENDS Naturals, Sequences

\* What is kept of the first n elements, for each n.
Filtered(s, K) ==
    LET f[n \in 0..Len(s)] ==
          IF n = 0 THEN <<>>
          ELSE IF s[n] \in K THEN Append(f[n - 1], s[n]) ELSE f[n - 1]
    IN  f

\* The elements of s that are in K, in their order.
Keep(s, K) == Filtered(s, K)[Len(s)]

\* What the first n numbers of s add up to, for each n.
Summed(s) ==
    LET f[n \in 0..Len(s)] == IF n = 0 THEN 0 ELSE f[n - 1] + s[n]
    IN  f

\* The sequences of ss, one behind the other.
JoinedUpto(ss) ==
    LET f[n \in 0..Len(ss)] == IF n = 0 THEN <<>> ELSE f[n - 1] \o ss[n]
    IN  f

JoinOf(ss) == JoinedUpto(ss)[Len(ss)]

\* The numbers of s together.
SumOf(s) == Summed(s)[Len(s)]

\* The same of a product.
Multiplied(s) ==
    LET f[n \in 0..Len(s)] == IF n = 0 THEN 1 ELSE f[n - 1] * s[n]
    IN  f

ProductOf(s) == Multiplied(s)[Len(s)]

\* The matches of a pattern, of str.split and re.sub: the leftmost is taken, and
\* the search goes on behind it.  `starts' are the places where a match may begin;
\* where one does, up to each place:
MatchesIn(s, starts, size) ==
    LET upto[n \in 0..Len(s)] ==
          IF n = 0 THEN {}
          ELSE LET before == upto[n - 1]
               IN  IF n \in starts /\ \A m \in before : m + size <= n THEN before \union {n} ELSE before
    IN  upto

\* What the values of f at the members of T add up to, for each T.
Sums(f) ==
    LET g[T \in SUBSET DOMAIN f] ==
          IF T = {} THEN 0 ELSE LET x == CHOOSE x \in T : TRUE IN f[x] + g[T \ {x}]
    IN  g

SumAt(f, T) == Sums(f)[T]
=============================================================================
