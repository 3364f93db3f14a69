--------------------------- MODULE Filters_proofs ---------------------------
(***************************************************************************)
(* Lemmas the other proofs rest on: induction over numbers and over        *)
(* sequences, stated with a set in the place of the predicate (the         *)
(* library states them with an operator, which no prover here can          *)
(* instantiate), the existence of a largest element, what Keep keeps, what *)
(* sums are, what a search finds, and what is joined of several lists.     *)
(***************************************************************************)
EXTENDS Filters, Integers, FiniteSetTheorems, SequenceTheorems, WellFoundedInduction, TLAPS

-----------------------------------------------------------------------------
(* Induction and largest elements                                           *)

\* A set of numbers that is not empty has a least one: the intervals 0..n are
\* finite sets, which strict inclusion orders well.
LEMMA Least ==
  ASSUME NEW T \in SUBSET Nat, T # {}
  PROVE  \E x \in T : \A y \in T : x <= y
<1> DEFINE Upto(n) == 0..n
           U == {Upto(n) : n \in T}
           R == StrictSubsetOrdering(Nat)
<1>1. U \subseteq FiniteSubsetsOf(Nat)
  <2>1. ASSUME NEW n \in Nat PROVE Upto(n) \in FiniteSubsetsOf(Nat)
    BY FS_Interval DEF FiniteSubsetsOf
  <2> QED  BY <2>1
<1>2. PICK x \in U : \A y \in U : <<y, x>> \notin R
  <2>1. IsWellFoundedOn(R, FiniteSubsetsOf(Nat))
    BY FS_StrictSubsetOrderingWellFounded
  <2>2. U # {}
    OBVIOUS
  <2> HIDE DEF U, R
  <2> QED  BY <1>1, <2>1, <2>2, WFMin
<1>3. PICK k \in T : x = Upto(k)
  OBVIOUS
<1>4. ASSUME NEW i \in T, i < k
      PROVE  FALSE
  <2>1. Upto(i) \subseteq Upto(k) /\ k \in Upto(k) /\ k \notin Upto(i)
    BY <1>4
  <2>2. <<Upto(i), Upto(k)>> \in R
    BY <2>1 DEF StrictSubsetOrdering
  <2> QED  BY <1>2, <1>3, <2>2
<1> QED  BY <1>4

\* Induction over the natural numbers.
LEMMA Counting ==
  ASSUME NEW T, 0 \in T, \A n \in Nat : n \in T => n + 1 \in T
  PROVE  Nat \subseteq T
<1> SUFFICES ASSUME Nat \ T # {} PROVE FALSE
  OBVIOUS
<1>1. PICK x \in Nat \ T : \A y \in Nat \ T : x <= y
  BY Least
<1>2. x # 0 /\ x - 1 \in Nat /\ x - 1 \in T
  BY <1>1
<1> QED  BY <1>2, <1>1

\* Induction over the sequences of a set, as they grow at their end.
LEMMA Growing ==
  ASSUME NEW S, NEW T, <<>> \in T,
         \A s \in Seq(S), e \in S : s \in T => Append(s, e) \in T
  PROVE  Seq(S) \subseteq T
<1> DEFINE M == {n \in Nat : \A s \in Seq(S) : Len(s) = n => s \in T}
<1>1. 0 \in M
  BY EmptySeq
<1>2. ASSUME NEW n \in Nat, n \in M PROVE n + 1 \in M
  <2> SUFFICES ASSUME NEW s \in Seq(S), Len(s) = n + 1 PROVE s \in T
    OBVIOUS
  <2>1. s # <<>>
    BY EmptySeq
  <2>2. PICK t \in Seq(S), e \in S : s = Append(t, e)
    BY <2>1, SequenceEmptyOrAppend
  <2>3. Len(t) = n
    BY <2>2, AppendProperties, LenProperties
  <2>4. t \in T
    BY <1>2, <2>3
  <2> QED  BY <2>2, <2>4
<1>3. Nat \subseteq M
  <2> HIDE DEF M
  <2> QED  BY <1>1, <1>2, Counting
<1> QED  BY <1>3, LenProperties

\* Among the elements of a finite set, one is rated highest.
LEMMA Highest ==
  ASSUME NEW S, IsFiniteSet(S), S # {}, NEW f, \A x \in S : f[x] \in Int
  PROVE  \E x \in S : \A y \in S : f[y] <= f[x]
<1> DEFINE Above(x) == {y \in S : f[y] > f[x]}
           U == {Above(x) : x \in S}
           R == StrictSubsetOrdering(S)
<1>1. U \subseteq FiniteSubsetsOf(S)
  BY FS_Subset DEF FiniteSubsetsOf
<1>2. PICK x \in U : \A y \in U : <<y, x>> \notin R
  <2>1. IsWellFoundedOn(R, FiniteSubsetsOf(S))
    BY FS_StrictSubsetOrderingWellFounded
  <2>2. U # {}
    OBVIOUS
  <2> HIDE DEF U, R
  <2> QED  BY <1>1, <2>1, <2>2, WFMin
<1>3. PICK k \in S : x = Above(k)
  OBVIOUS
<1>4. ASSUME NEW i \in S, f[i] > f[k]
      PROVE  FALSE
  <2>1. Above(i) \subseteq Above(k) /\ i \in Above(k) /\ i \notin Above(i)
    BY <1>4
  <2>2. <<Above(i), Above(k)>> \in R
    BY <2>1 DEF StrictSubsetOrdering
  <2> QED  BY <1>2, <1>3, <2>2
<1> QED  BY <1>4

-----------------------------------------------------------------------------
(* What a filter keeps                                                      *)

\* The recursion of Filtered has a solution, so Filtered satisfies it.
LEMMA FilteredStep ==
  ASSUME NEW S, NEW s \in Seq(S), NEW K
  PROVE  /\ Filtered(s, K)[0] = <<>>
         /\ \A n \in 1..Len(s) : Filtered(s, K)[n] =
              IF s[n] \in K THEN Append(Filtered(s, K)[n - 1], s[n]) ELSE Filtered(s, K)[n - 1]
<1> DEFINE Step(g, n) == IF n = 0 THEN <<>>
                         ELSE IF s[n] \in K THEN Append(g[n - 1], s[n]) ELSE g[n - 1]
           Solves(g, m) == g = [n \in 0..m |-> Step(g, n)]
           T == {m \in Nat : \E g : Solves(g, m)}
<1>1. 0 \in T
  <2>1. Solves([n \in 0..0 |-> <<>>], 0)
    OBVIOUS
  <2> QED  BY <2>1
<1>2. ASSUME NEW m \in Nat, m \in T PROVE m + 1 \in T
  <2>1. PICK g : Solves(g, m)
    BY <1>2
  <2> DEFINE h == [n \in 0..(m + 1) |-> IF n \in 0..m THEN g[n] ELSE Step(g, n)]
  <2>2. \A n \in 0..m : g[n] = Step(g, n)
    BY <2>1
  <2>3. \A n \in 0..(m + 1) : h[n] = Step(g, n)
    BY <2>2
  <2>4. \A n \in 0..(m + 1) : Step(g, n) = Step(h, n)
    OBVIOUS
  <2>5. Solves(h, m + 1)
    BY <2>3, <2>4
  <2>6. \E gg : Solves(gg, m + 1)
    <3> HIDE DEF h, Solves
    <3> QED  BY <2>5
  <2> QED  BY <2>6
<1>3. Len(s) \in T
  <2> HIDE DEF T
  <2> QED  BY <1>1, <1>2, Counting, LenProperties
<1>4. \E g : g = [n \in 0..Len(s) |-> Step(g, n)]
  BY <1>3
<1> DEFINE f == Filtered(s, K)
           g == [n \in 0..Len(s) |-> Step(f, n)]
<1>5. f = g
  BY <1>4, Zenon DEF Filtered
<1>6. \A n \in 0..Len(s) : g[n] = Step(f, n)
  OBVIOUS
<1> HIDE DEF g, f
<1>7. \A n \in 0..Len(s) : f[n] = Step(f, n)
  BY <1>5, <1>6
<1> QED  BY <1>7, LenProperties DEF f

\* The same for the whole: of an empty sequence nothing is kept, and of a
\* sequence that grows the new element is kept last, or not at all.
LEMMA KeepEmpty == ASSUME NEW K PROVE Keep(<<>>, K) = <<>>
<1>1. <<>> \in Seq({}) /\ Len(<<>>) = 0
  BY EmptySeq
<1> QED  BY <1>1, FilteredStep DEF Keep

LEMMA KeepAppend ==
  ASSUME NEW S, NEW s \in Seq(S), NEW e \in S, NEW K
  PROVE  Keep(Append(s, e), K) = IF e \in K THEN Append(Keep(s, K), e) ELSE Keep(s, K)
<1> DEFINE t == Append(s, e)
           T == {n \in Nat : n <= Len(s) => Filtered(t, K)[n] = Filtered(s, K)[n]}
<1>1. /\ t \in Seq(S) /\ Len(t) = Len(s) + 1 /\ Len(s) \in Nat
      /\ \A i \in 1..Len(s) : t[i] = s[i]
      /\ t[Len(s) + 1] = e
  BY AppendProperties, LenProperties
<1>2. /\ Filtered(t, K)[0] = <<>>
      /\ \A n \in 1..(Len(s) + 1) : Filtered(t, K)[n] =
              IF t[n] \in K THEN Append(Filtered(t, K)[n - 1], t[n]) ELSE Filtered(t, K)[n - 1]
  <2> HIDE DEF t
  <2> QED  BY <1>1, FilteredStep
<1> HIDE DEF t
<1>3. 0 \in T
  BY <1>2, FilteredStep
<1>4. ASSUME NEW n \in Nat, n \in T PROVE n + 1 \in T
  <2> SUFFICES ASSUME n + 1 <= Len(s) PROVE Filtered(t, K)[n + 1] = Filtered(s, K)[n + 1]
    OBVIOUS
  <2>1. n + 1 \in 1..Len(s) /\ (n + 1) - 1 = n /\ t[n + 1] = s[n + 1]
    BY <1>1
  <2>2. Filtered(t, K)[n + 1] = IF s[n + 1] \in K THEN Append(Filtered(t, K)[n], s[n + 1]) ELSE Filtered(t, K)[n]
    BY <2>1, <1>1, <1>2
  <2>3. Filtered(s, K)[n + 1] = IF s[n + 1] \in K THEN Append(Filtered(s, K)[n], s[n + 1]) ELSE Filtered(s, K)[n]
    BY <2>1, FilteredStep
  <2> QED  BY <1>1, <1>4, <2>2, <2>3
<1>5. Nat \subseteq T
  <2> HIDE DEF T
  <2> QED  BY <1>3, <1>4, Counting
<1>6. Filtered(t, K)[Len(s)] = Filtered(s, K)[Len(s)]
  BY <1>1, <1>5
<1>7. Filtered(t, K)[Len(s) + 1] =
        IF e \in K THEN Append(Filtered(t, K)[Len(s)], e) ELSE Filtered(t, K)[Len(s)]
  BY <1>1, <1>2
<1>8. Keep(t, K) = Filtered(t, K)[Len(s) + 1]
  BY <1>1 DEF Keep
<1> QED  BY <1>6, <1>7, <1>8 DEF Keep, t

\* The elements of a sequence.
Members(s) == {s[i] : i \in 1..Len(s)}

LEMMA MembersAppend ==
  ASSUME NEW S, NEW s \in Seq(S), NEW e \in S
  PROVE  Members(Append(s, e)) = Members(s) \cup {e}
<1> DEFINE t == Append(s, e)
<1>1. /\ Len(t) = Len(s) + 1 /\ Len(s) \in Nat
      /\ \A i \in 1..Len(s) : t[i] = s[i]
      /\ t[Len(s) + 1] = e
  BY AppendProperties, LenProperties
<1> HIDE DEF t
<1>2. ASSUME NEW x \in Members(t) PROVE x \in Members(s) \cup {e}
  <2>1. PICK i \in 1..(Len(s) + 1) : x = t[i]
    BY <1>1 DEF Members
  <2>2. CASE i = Len(s) + 1  BY <1>1, <2>1, <2>2
  <2>3. CASE i \in 1..Len(s)  BY <1>1, <2>1, <2>3 DEF Members
  <2> QED  BY <1>1, <2>2, <2>3
<1>3. ASSUME NEW x \in Members(s) \cup {e} PROVE x \in Members(t)
  <2>1. CASE x \in Members(s)
    <3>1. PICK i \in 1..Len(s) : x = s[i]
      BY <2>1 DEF Members
    <3>2. i \in 1..Len(t) /\ t[i] = x
      BY <1>1, <3>1
    <3> QED  BY <3>2 DEF Members
  <2>2. CASE x = e
    <3>1. Len(t) \in 1..Len(t) /\ t[Len(t)] = x
      BY <1>1, <2>2
    <3> QED  BY <3>1 DEF Members
  <2> QED  BY <2>1, <2>2
<1> QED  BY <1>2, <1>3 DEF t

LEMMA MembersEmpty == Members(<<>>) = {}
  BY EmptySeq DEF Members

LEMMA MembersFinite ==
  ASSUME NEW S, NEW s \in Seq(S)
  PROVE  IsFiniteSet(Members(s))
<1> DEFINE T == {t \in Seq(S) : IsFiniteSet(Members(t))}
<1>1. <<>> \in T
  <2>1. <<>> \in Seq(S)
    BY EmptySeq
  <2>2. IsFiniteSet(Members(<<>>))
    BY MembersEmpty, FS_EmptySet
  <2> QED  BY <2>1, <2>2, Zenon
<1>2. ASSUME NEW t \in Seq(S), NEW e \in S, t \in T PROVE Append(t, e) \in T
  <2>1. IsFiniteSet(Members(t) \cup {e})
    BY <1>2, FS_AddElement
  <2>2. Append(t, e) \in Seq(S) /\ Members(Append(t, e)) = Members(t) \cup {e}
    BY MembersAppend, AppendProperties
  <2> QED  BY <2>1, <2>2, Zenon
<1>3. Seq(S) \subseteq T
  <2> HIDE DEF T
  <2> QED  BY <1>1, <1>2, Growing
<1> QED  BY <1>3

\* A filter keeps the elements of a sequence that are in the set, and no others.
LEMMA KeepMembers ==
  ASSUME NEW S, NEW s \in Seq(S), NEW K
  PROVE  /\ Keep(s, K) \in Seq(S \cap K)
         /\ Keep(s, K) \in Seq(S)
         /\ Members(Keep(s, K)) = Members(s) \cap K
         /\ Len(Keep(s, K)) <= Len(s)
<1> DEFINE P(t) == /\ Keep(t, K) \in Seq(S \cap K)
                   /\ Members(Keep(t, K)) = Members(t) \cap K
                   /\ Len(Keep(t, K)) <= Len(t)
           T == {t \in Seq(S) : P(t)}
<1>1. <<>> \in T
  <2>1. <<>> \in Seq(S) /\ <<>> \in Seq(S \cap K) /\ Len(<<>>) = 0
    BY EmptySeq
  <2>2. Len(Keep(<<>>, K)) <= Len(<<>>)
    BY <2>1, KeepEmpty
  <2>3. Members(Keep(<<>>, K)) = Members(<<>>) \cap K
    BY KeepEmpty, MembersEmpty
  <2> QED  BY <2>1, <2>2, <2>3, KeepEmpty, Zenon
<1>2. ASSUME NEW t \in Seq(S), NEW e \in S, t \in T PROVE Append(t, e) \in T
  <2>1. Append(t, e) \in Seq(S) /\ Len(Append(t, e)) = Len(t) + 1 /\ Len(t) \in Nat
    BY AppendProperties, LenProperties
  <2>2. Members(Append(t, e)) = Members(t) \cup {e}
    BY MembersAppend
  <2>3. P(t) /\ Len(Keep(t, K)) \in Nat
    BY <1>2, LenProperties
  <2>4. CASE e \in K
    <3>1. Keep(Append(t, e), K) = Append(Keep(t, K), e)
      BY <2>4, KeepAppend
    <3>2. /\ Append(Keep(t, K), e) \in Seq(S \cap K)
          /\ Len(Append(Keep(t, K), e)) = Len(Keep(t, K)) + 1
      BY <2>3, <2>4, AppendProperties
    <3>3. Members(Append(Keep(t, K), e)) = Members(Keep(t, K)) \cup {e}
      BY <2>3, <2>4, MembersAppend
    <3>4. Members(Append(Keep(t, K), e)) = Members(Append(t, e)) \cap K
      BY <2>2, <2>3, <2>4, <3>3
    <3>5. Len(Append(Keep(t, K), e)) <= Len(Append(t, e))
      BY <2>1, <2>3, <3>2
    <3> QED  BY <2>1, <3>1, <3>2, <3>4, <3>5, Zenon
  <2>5. CASE e \notin K
    <3>1. Keep(Append(t, e), K) = Keep(t, K)
      BY <2>5, KeepAppend
    <3> QED  BY <2>1, <2>2, <2>3, <2>5, <3>1
  <2> QED  BY <2>4, <2>5
<1>3. Seq(S) \subseteq T
  <2> HIDE DEF T
  <2> QED  BY <1>1, <1>2, Growing
<1>4. P(s)
  BY <1>3
<1> QED  BY <1>4, SeqMonotonic

\* Filters that agree on the elements of a sequence keep the same.
LEMMA KeepAlike ==
  ASSUME NEW S, NEW s \in Seq(S), NEW A, NEW B, Members(s) \cap A = Members(s) \cap B
  PROVE  Keep(s, A) = Keep(s, B)
<1> DEFINE T == {t \in Seq(S) : Members(t) \cap A = Members(t) \cap B => Keep(t, A) = Keep(t, B)}
<1>1. <<>> \in T
  BY KeepEmpty, EmptySeq
<1>2. ASSUME NEW t \in Seq(S), NEW e \in S, t \in T PROVE Append(t, e) \in T
  <2>1. Append(t, e) \in Seq(S)
    BY AppendProperties
  <2>2. SUFFICES ASSUME Members(Append(t, e)) \cap A = Members(Append(t, e)) \cap B
                 PROVE  Keep(Append(t, e), A) = Keep(Append(t, e), B)
    BY <2>1
  <2>3. Members(t) \cap A = Members(t) \cap B /\ (e \in A <=> e \in B)
    BY <2>2, MembersAppend
  <2>4. Keep(t, A) = Keep(t, B)
    BY <1>2, <2>3
  <2>5. /\ Keep(Append(t, e), A) = IF e \in A THEN Append(Keep(t, A), e) ELSE Keep(t, A)
        /\ Keep(Append(t, e), B) = IF e \in B THEN Append(Keep(t, B), e) ELSE Keep(t, B)
    BY KeepAppend
  <2> QED  BY <2>3, <2>4, <2>5, Zenon
<1>3. Seq(S) \subseteq T
  <2> HIDE DEF T
  <2> QED  BY <1>1, <1>2, Growing
<1> QED  BY <1>3

\* One filter after another is a filter by both.
LEMMA KeepTwice ==
  ASSUME NEW S, NEW s \in Seq(S), NEW A, NEW B
  PROVE  Keep(Keep(s, A), B) = Keep(s, A \cap B)
<1> DEFINE T == {t \in Seq(S) : Keep(Keep(t, A), B) = Keep(t, A \cap B)}
<1>1. <<>> \in T
  BY KeepEmpty, EmptySeq
<1>2. ASSUME NEW t \in Seq(S), NEW e \in S, t \in T PROVE Append(t, e) \in T
  <2>1. Append(t, e) \in Seq(S) /\ Keep(t, A) \in Seq(S)
    BY AppendProperties, KeepMembers
  <2>2. Keep(Append(t, e), A) = IF e \in A THEN Append(Keep(t, A), e) ELSE Keep(t, A)
    BY KeepAppend
  <2>3. Keep(Append(t, e), A \cap B) =
          IF e \in A \cap B THEN Append(Keep(t, A \cap B), e) ELSE Keep(t, A \cap B)
    BY KeepAppend
  <2>4. Keep(Append(Keep(t, A), e), B) =
          IF e \in B THEN Append(Keep(Keep(t, A), B), e) ELSE Keep(Keep(t, A), B)
    BY <2>1, KeepAppend
  <2>5. Keep(Keep(t, A), B) = Keep(t, A \cap B)
    BY <1>2
  <2>6. Keep(Keep(Append(t, e), A), B) = Keep(Append(t, e), A \cap B)
    <3>1. CASE e \in A /\ e \in B
      BY <3>1, <2>2, <2>3, <2>4, <2>5, Zenon
    <3>2. CASE e \in A /\ e \notin B
      BY <3>2, <2>2, <2>3, <2>4, <2>5, Zenon
    <3>3. CASE e \notin A
      BY <3>3, <2>2, <2>3, <2>5, Zenon
    <3> QED  BY <3>1, <3>2, <3>3
  <2> QED  BY <2>1, <2>6
<1>3. Seq(S) \subseteq T
  <2> HIDE DEF T
  <2> QED  BY <1>1, <1>2, Growing
<1> QED  BY <1>3

\* Nothing is kept exactly when nothing is in the set.
LEMMA KeepNothing ==
  ASSUME NEW S, NEW s \in Seq(S), NEW K
  PROVE  Keep(s, K) = <<>> <=> Members(s) \cap K = {}
<1>1. Keep(s, K) \in Seq(S) /\ Members(Keep(s, K)) = Members(s) \cap K
  BY KeepMembers
<1>2. ASSUME NEW t \in Seq(S), Members(t) = {} PROVE t = <<>>
  <2> SUFFICES ASSUME t # <<>> PROVE FALSE
    OBVIOUS
  <2>1. 1 \in 1..Len(t)
    BY EmptySeq
  <2>2. t[1] \in Members(t)
    BY <2>1 DEF Members
  <2> QED  BY <1>2, <2>2
<1> QED  BY <1>1, <1>2, MembersEmpty

\* The first element kept is an element of the sequence that is in the set.
LEMMA KeepHead ==
  ASSUME NEW S, NEW s \in Seq(S), NEW K, Keep(s, K) # <<>>
  PROVE  Head(Keep(s, K)) \in Members(s) \cap K
<1>1. Keep(s, K) \in Seq(S) /\ Members(Keep(s, K)) = Members(s) \cap K
  BY KeepMembers
<1>2. ASSUME NEW t \in Seq(S), t # <<>> PROVE Head(t) \in Members(t)
  <2>1. 1 \in 1..Len(t) /\ Head(t) = t[1]
    BY <1>2
  <2> QED  BY <2>1 DEF Members
<1> QED  BY <1>1, <1>2

\* A filter that rejects an element of the sequence keeps fewer elements.
LEMMA KeepShorter ==
  ASSUME NEW S, NEW s \in Seq(S), NEW K, NEW x \in Members(s) \ K
  PROVE  Len(Keep(s, K)) < Len(s)
<1> DEFINE T == {t \in Seq(S) : x \in Members(t) => Len(Keep(t, K)) < Len(t)}
<1>1. <<>> \in T
  BY MembersEmpty, EmptySeq
<1>2. ASSUME NEW t \in Seq(S), NEW e \in S, t \in T PROVE Append(t, e) \in T
  <2>1. /\ Append(t, e) \in Seq(S) /\ Len(Append(t, e)) = Len(t) + 1 /\ Len(t) \in Nat
        /\ Keep(t, K) \in Seq(S) /\ Len(Keep(t, K)) \in Nat /\ Len(Keep(t, K)) <= Len(t)
    BY AppendProperties, LenProperties, KeepMembers
  <2> SUFFICES ASSUME x \in Members(Append(t, e))
               PROVE  Len(Keep(Append(t, e), K)) < Len(Append(t, e))
    BY <2>1
  <2>2. CASE e \in K
    <3>1. x \in Members(t)
      BY <2>2, MembersAppend
    <3>2. Len(Keep(t, K)) < Len(t)
      BY <1>2, <3>1
    <3>3. Keep(Append(t, e), K) = Append(Keep(t, K), e)
      BY <2>2, KeepAppend
    <3>4. Len(Append(Keep(t, K), e)) = Len(Keep(t, K)) + 1
      BY <2>1, AppendProperties
    <3> QED  BY <2>1, <3>2, <3>3, <3>4
  <2>3. CASE e \notin K
    <3>1. Keep(Append(t, e), K) = Keep(t, K)
      BY <2>3, KeepAppend
    <3> QED  BY <2>1, <3>1
  <2> QED  BY <2>2, <2>3
<1>3. Seq(S) \subseteq T
  <2> HIDE DEF T
  <2> QED  BY <1>1, <1>2, Growing
<1> QED  BY <1>3

\* A filter that keeps the first element keeps it first.
LEMMA KeepFirst ==
  ASSUME NEW S, NEW s \in Seq(S), NEW K, s # <<>>, s[1] \in K
  PROVE  Keep(s, K) # <<>> /\ Keep(s, K)[1] = s[1]
<1> DEFINE P(t) == t # <<>> /\ t[1] \in K => Keep(t, K) # <<>> /\ Keep(t, K)[1] = t[1]
           T == {t \in Seq(S) : P(t)}
<1>1. <<>> \in T
  BY EmptySeq
<1>2. ASSUME NEW t \in Seq(S), NEW e \in S, t \in T PROVE Append(t, e) \in T
  <2>1. Append(t, e) \in Seq(S) /\ Keep(t, K) \in Seq(S)
    BY AppendProperties, KeepMembers
  <2> SUFFICES ASSUME Append(t, e)[1] \in K
               PROVE  Keep(Append(t, e), K) # <<>> /\ Keep(Append(t, e), K)[1] = Append(t, e)[1]
    BY <2>1
  <2>2. CASE t = <<>>
    <3>1. Append(t, e) = <<e>> /\ Append(t, e)[1] = e
      BY <2>2
    <3>2. Keep(Append(t, e), K) = Append(<<>>, e)
      <4>1. e \in K
        BY <3>1
      <4>2. Keep(Append(t, e), K) = Append(Keep(t, K), e)
        BY <4>1, KeepAppend
      <4>3. Keep(t, K) = <<>>
        BY <2>2, KeepEmpty
      <4> QED  BY <4>2, <4>3
    <3> QED  BY <3>1, <3>2
  <2>3. CASE t # <<>>
    <3>1. Append(t, e)[1] = t[1]
      BY <2>3
    <3>2. Keep(t, K) # <<>> /\ Keep(t, K)[1] = t[1]
      BY <1>2, <2>3, <3>1
    <3>3. Append(Keep(t, K), e) # <<>> /\ Append(Keep(t, K), e)[1] = Keep(t, K)[1]
      BY <2>1, <3>2
    <3>4. Keep(Append(t, e), K) = IF e \in K THEN Append(Keep(t, K), e) ELSE Keep(t, K)
      BY KeepAppend
    <3> QED  BY <3>1, <3>2, <3>3, <3>4
  <2> QED  BY <2>2, <2>3
<1>3. Seq(S) \subseteq T
  <2> HIDE DEF T
  <2> QED  BY <1>1, <1>2, Growing
<1> QED  BY <1>3

-----------------------------------------------------------------------------
(* Sums                                                                     *)

\* The recursion of Summed has a solution, so Summed satisfies it.
LEMMA SummedStep ==
  ASSUME NEW s \in Seq(Int)
  PROVE  /\ Summed(s)[0] = 0
         /\ \A n \in 1..Len(s) : Summed(s)[n] = Summed(s)[n - 1] + s[n]
<1> DEFINE Step(g, n) == IF n = 0 THEN 0 ELSE g[n - 1] + s[n]
           Solves(g, m) == g = [n \in 0..m |-> Step(g, n)]
           T == {m \in Nat : \E g : Solves(g, m)}
<1>1. 0 \in T
  <2>1. Solves([n \in 0..0 |-> 0], 0)
    OBVIOUS
  <2> QED  BY <2>1
<1>2. ASSUME NEW m \in Nat, m \in T PROVE m + 1 \in T
  <2>1. PICK g : Solves(g, m)
    BY <1>2
  <2> DEFINE h == [n \in 0..(m + 1) |-> IF n \in 0..m THEN g[n] ELSE Step(g, n)]
  <2>2. \A n \in 0..m : g[n] = Step(g, n)
    BY <2>1
  <2>3. \A n \in 0..(m + 1) : h[n] = Step(g, n)
    BY <2>2
  <2>4. \A n \in 0..(m + 1) : Step(g, n) = Step(h, n)
    OBVIOUS
  <2>5. Solves(h, m + 1)
    BY <2>3, <2>4
  <2>6. \E gg : Solves(gg, m + 1)
    <3> HIDE DEF h, Solves
    <3> QED  BY <2>5
  <2> HIDE DEF h, Solves
  <2> QED  BY <2>6
<1>3. Len(s) \in T
  <2> HIDE DEF T
  <2> QED  BY <1>1, <1>2, Counting, LenProperties
<1>4. \E g : g = [n \in 0..Len(s) |-> Step(g, n)]
  BY <1>3
<1> DEFINE f == Summed(s)
           g == [n \in 0..Len(s) |-> Step(f, n)]
<1>5. f = g
  BY <1>4, Zenon DEF Summed
<1>6. \A n \in 0..Len(s) : g[n] = Step(f, n)
  OBVIOUS
<1> HIDE DEF g, f
<1>7. \A n \in 0..Len(s) : f[n] = Step(f, n)
  BY <1>5, <1>6
<1> QED  BY <1>7, LenProperties DEF f

\* Nothing adds up to zero, and a sequence that grows to what it was and the new
\* element.
LEMMA SumEmpty == SumOf(<<>>) = 0
<1>1. <<>> \in Seq(Int) /\ Len(<<>>) = 0
  BY EmptySeq
<1> QED  BY <1>1, SummedStep DEF SumOf

LEMMA SumAppend ==
  ASSUME NEW s \in Seq(Int), NEW e \in Int
  PROVE  SumOf(Append(s, e)) = SumOf(s) + e
<1> DEFINE t == Append(s, e)
           T == {n \in Nat : n <= Len(s) => Summed(t)[n] = Summed(s)[n]}
<1>1. /\ t \in Seq(Int) /\ Len(t) = Len(s) + 1 /\ Len(s) \in Nat
      /\ \A i \in 1..Len(s) : t[i] = s[i]
      /\ t[Len(s) + 1] = e
  BY AppendProperties, LenProperties
<1>2. /\ Summed(t)[0] = 0
      /\ \A n \in 1..(Len(s) + 1) : Summed(t)[n] = Summed(t)[n - 1] + t[n]
  <2> HIDE DEF t
  <2> QED  BY <1>1, SummedStep
<1> HIDE DEF t
<1>3. 0 \in T
  BY <1>2, SummedStep
<1>4. ASSUME NEW n \in Nat, n \in T PROVE n + 1 \in T
  <2> SUFFICES ASSUME n + 1 <= Len(s) PROVE Summed(t)[n + 1] = Summed(s)[n + 1]
    OBVIOUS
  <2>1. n + 1 \in 1..Len(s) /\ (n + 1) - 1 = n /\ t[n + 1] = s[n + 1]
    BY <1>1
  <2>2. Summed(t)[n + 1] = Summed(t)[n] + s[n + 1]
    BY <2>1, <1>1, <1>2
  <2>3. Summed(s)[n + 1] = Summed(s)[n] + s[n + 1]
    BY <2>1, SummedStep
  <2> QED  BY <1>1, <1>4, <2>2, <2>3
<1>5. Nat \subseteq T
  <2> HIDE DEF T
  <2> QED  BY <1>3, <1>4, Counting
<1>6. Summed(t)[Len(s)] = Summed(s)[Len(s)]
  BY <1>1, <1>5
<1>7. Summed(t)[Len(s) + 1] = Summed(t)[Len(s)] + e
  BY <1>1, <1>2
<1>8. SumOf(t) = Summed(t)[Len(s) + 1]
  BY <1>1 DEF SumOf
<1> QED  BY <1>6, <1>7, <1>8 DEF SumOf, t

\* The sum of numbers that are zero but for those of H, which lie between lo and hi.
LEMMA SumBetween ==
  ASSUME NEW s \in Seq(Nat), NEW lo \in Nat, NEW hi \in Nat, NEW H, H \subseteq 1..Len(s),
         \A n \in H : lo <= s[n] /\ s[n] <= hi,
         \A n \in (1..Len(s)) \ H : s[n] = 0
  PROVE  /\ SumOf(s) \in Nat /\ Cardinality(H) \in Nat
         /\ Cardinality(H) * lo <= SumOf(s) /\ SumOf(s) <= Cardinality(H) * hi
<1> DEFINE Upto(n) == {j \in H : j <= n}
           Between(x, k) == x \in Nat /\ k \in Nat /\ k * lo <= x /\ x <= k * hi
           T == {n \in Nat : n <= Len(s) => Between(Summed(s)[n], Cardinality(Upto(n)))}
<1>0. s \in Seq(Int) /\ Len(s) \in Nat /\ \A n \in 1..Len(s) : s[n] \in Nat
  BY LenProperties
<1>1. \A j \in H : j \in Nat /\ 1 <= j /\ j <= Len(s)
  BY <1>0
<1>2. /\ Summed(s)[0] = 0
      /\ \A n \in 1..Len(s) : Summed(s)[n] = Summed(s)[n - 1] + s[n]
  BY <1>0, SummedStep
<1>3. ASSUME NEW x, NEW k, Between(x, k), NEW y \in Nat, lo <= y, y <= hi
      PROVE  Between(x + y, k + 1)
  <2>1. (k + 1) * lo = k * lo + lo /\ (k + 1) * hi = k * hi + hi
    BY <1>3
  <2>2. k * lo \in Nat /\ k * hi \in Nat
    BY <1>3
  <2> QED  BY <1>3, <2>1, <2>2
<1>4. 0 \in T
  <2>1. Upto(0) = {}
    <3>1. \A j \in H : ~(j <= 0)
      BY <1>1
    <3> QED  BY <3>1, Zenon
  <2>2. Cardinality(Upto(0)) = 0
    BY <2>1, FS_EmptySet
  <2>3. Between(0, 0)
    OBVIOUS
  <2> HIDE DEF Upto, Between
  <2> QED  BY <1>2, <2>2, <2>3
<1>5. ASSUME NEW n \in Nat, n \in T PROVE n + 1 \in T
  <2> SUFFICES ASSUME n + 1 <= Len(s) PROVE Between(Summed(s)[n + 1], Cardinality(Upto(n + 1)))
    OBVIOUS
  <2>1. Between(Summed(s)[n], Cardinality(Upto(n)))
    <3> HIDE DEF Between, Upto
    <3> QED  BY <1>0, <1>5
  <2>2. n + 1 \in 1..Len(s) /\ (n + 1) - 1 = n
    BY <1>0
  <2>3. Summed(s)[n + 1] = Summed(s)[n] + s[n + 1] /\ s[n + 1] \in Nat
    BY <1>0, <1>2, <2>2
  <2>4. CASE n + 1 \in H
    <3>1. Upto(n + 1) = Upto(n) \cup {n + 1} /\ n + 1 \notin Upto(n)
      <4>1. \A j \in H : j <= n + 1 <=> j <= n \/ j = n + 1
        BY <1>1
      <4>2. ~(n + 1 <= n) /\ n + 1 <= n + 1
        OBVIOUS
      <4> QED  BY <2>4, <4>1, <4>2, Zenon
    <3>2. IsFiniteSet(Upto(n))
      <4>1. Upto(n) \subseteq 1..Len(s)
        BY <1>0, <1>1
      <4>2. IsFiniteSet(1..Len(s))
        BY <1>0, FS_Interval
      <4> HIDE DEF Upto
      <4> QED  BY <4>1, <4>2, FS_Subset
    <3>3. Cardinality(Upto(n + 1)) = Cardinality(Upto(n)) + 1
      <4> HIDE DEF Upto
      <4> QED  BY <3>1, <3>2, FS_AddElement
    <3>4. lo <= s[n + 1] /\ s[n + 1] <= hi
      BY <2>4
    <3> HIDE DEF Between, Upto
    <3> QED  BY <1>3, <2>1, <2>3, <3>3, <3>4
  <2>5. CASE n + 1 \notin H
    <3>1. Upto(n + 1) = Upto(n)
      <4>1. \A j \in H : j <= n + 1 <=> j <= n \/ j = n + 1
        BY <1>1
      <4> QED  BY <2>5, <4>1, Zenon
    <3>2. s[n + 1] = 0
      BY <2>2, <2>5
    <3>3. Summed(s)[n + 1] = Summed(s)[n]
      BY <2>1, <2>3, <3>2
    <3> HIDE DEF Between, Upto
    <3> QED  BY <2>1, <3>1, <3>3
  <2> QED  BY <2>4, <2>5
<1>6. Nat \subseteq T
  <2> HIDE DEF T
  <2> QED  BY <1>4, <1>5, Counting
<1>7. Between(Summed(s)[Len(s)], Cardinality(Upto(Len(s))))
  <2> HIDE DEF Between, Upto
  <2> QED  BY <1>0, <1>6
<1>8. Upto(Len(s)) = H
  BY <1>1
<1> QED  BY <1>7, <1>8 DEF SumOf

\* The steps of Multiplied.
LEMMA MultipliedStep ==
  ASSUME NEW s \in Seq(Int)
  PROVE  /\ Multiplied(s)[0] = 1
         /\ \A n \in 1..Len(s) : Multiplied(s)[n] = Multiplied(s)[n - 1] * s[n]
<1> DEFINE Step(g, n) == IF n = 0 THEN 1 ELSE g[n - 1] * s[n]
           Solves(g, m) == g = [n \in 0..m |-> Step(g, n)]
           T == {m \in Nat : \E g : Solves(g, m)}
<1>1. 0 \in T
  <2>1. Solves([n \in 0..0 |-> 1], 0)
    OBVIOUS
  <2> QED  BY <2>1
<1>2. ASSUME NEW m \in Nat, m \in T PROVE m + 1 \in T
  <2>1. PICK g : Solves(g, m)
    BY <1>2
  <2> DEFINE h == [n \in 0..(m + 1) |-> IF n \in 0..m THEN g[n] ELSE Step(g, n)]
  <2>2. \A n \in 0..m : g[n] = Step(g, n)
    BY <2>1
  <2>3. \A n \in 0..(m + 1) : h[n] = Step(g, n)
    BY <2>2
  <2>4. \A n \in 0..(m + 1) : Step(g, n) = Step(h, n)
    OBVIOUS
  <2>5. Solves(h, m + 1)
    BY <2>3, <2>4
  <2>6. \E gg : Solves(gg, m + 1)
    <3> HIDE DEF h, Solves
    <3> QED  BY <2>5
  <2> HIDE DEF h, Solves
  <2> QED  BY <2>6
<1>3. Len(s) \in T
  <2> HIDE DEF T
  <2> QED  BY <1>1, <1>2, Counting, LenProperties
<1>4. \E g : g = [n \in 0..Len(s) |-> Step(g, n)]
  BY <1>3
<1> DEFINE f == Multiplied(s)
           g == [n \in 0..Len(s) |-> Step(f, n)]
<1>5. f = g
  BY <1>4, Zenon DEF Multiplied
<1>6. \A n \in 0..Len(s) : g[n] = Step(f, n)
  OBVIOUS
<1> HIDE DEF g, f
<1>7. \A n \in 0..Len(s) : f[n] = Step(f, n)
  BY <1>5, <1>6
<1> QED  BY <1>7, LenProperties DEF f

\* A product of positive numbers is positive; without the factor at i it is what
\* times that factor gives the whole.
LEMMA ProductWithout ==
  ASSUME NEW s \in Seq(Nat), \A n \in 1..Len(s) : s[n] > 0,
         NEW i \in 1..Len(s), NEW t \in Seq(Nat), t = [s EXCEPT ![i] = 1]
  PROVE  /\ ProductOf(s) \in Nat /\ ProductOf(s) > 0
         /\ ProductOf(t) \in Nat /\ ProductOf(t) > 0
         /\ ProductOf(t) * s[i] = ProductOf(s)
<1> DEFINE p(n) == Multiplied(s)[n]
           q(n) == Multiplied(t)[n]
           Without(n) == /\ p(n) \in Nat /\ p(n) > 0 /\ q(n) \in Nat /\ q(n) > 0
                         /\ IF n < i THEN q(n) = p(n) ELSE q(n) * s[i] = p(n)
           T == {n \in Nat : n <= Len(s) => Without(n)}
<1>0. /\ Len(s) \in Nat /\ s \in Seq(Int) /\ t \in Seq(Int) /\ Len(t) = Len(s)
      /\ \A n \in 1..Len(s) : s[n] \in Nat /\ s[n] > 0 /\ t[n] = IF n = i THEN 1 ELSE s[n]
  BY LenProperties
<1>1. p(0) = 1 /\ \A n \in 1..Len(s) : p(n) = p(n - 1) * s[n]
  BY <1>0, MultipliedStep
<1>2. q(0) = 1 /\ \A n \in 1..Len(s) : q(n) = q(n - 1) * t[n]
  BY <1>0, MultipliedStep
<1> HIDE DEF p, q
<1>3. 0 \in T
  BY <1>1, <1>2
<1>4. ASSUME NEW n \in Nat, n \in T PROVE n + 1 \in T
  <2> SUFFICES ASSUME n + 1 <= Len(s) PROVE Without(n + 1)
    OBVIOUS
  <2>1. Without(n) /\ n + 1 \in 1..Len(s) /\ (n + 1) - 1 = n
    BY <1>0, <1>4
  <2>2. p(n + 1) = p(n) * s[n + 1] /\ q(n + 1) = q(n) * t[n + 1]
    BY <1>1, <1>2, <2>1
  <2>3. s[n + 1] \in Nat /\ s[n + 1] > 0 /\ s[i] \in Nat
        /\ t[n + 1] = IF n + 1 = i THEN 1 ELSE s[n + 1]
    BY <1>0, <2>1
  <2>4. ASSUME NEW a \in Nat, NEW b \in Nat, a > 0, b > 0 PROVE a * b \in Nat /\ a * b > 0
    BY <2>4
  <2>5. p(n) * s[n + 1] \in Nat /\ p(n) * s[n + 1] > 0
    BY <2>1, <2>3, <2>4
  <2>6. CASE n + 1 < i
    BY <2>1, <2>2, <2>3, <2>5, <2>6
  <2>7. CASE n + 1 = i
    <3>1. q(n + 1) = q(n) * 1 /\ q(n) = p(n) /\ n < i /\ t[n + 1] = 1
      BY <2>1, <2>2, <2>3, <2>7
    <3>2. q(n + 1) = p(n)
      BY <2>1, <3>1
    <3> QED  BY <2>1, <2>2, <2>3, <2>5, <2>7, <3>2
  <2>8. CASE n + 1 > i
    <3>1. q(n + 1) = q(n) * s[n + 1] /\ q(n) * s[i] = p(n)
      BY <2>1, <2>2, <2>3, <2>8
    <3>2. q(n) * s[n + 1] \in Nat /\ q(n) * s[n + 1] > 0
      BY <2>1, <2>3, <2>4
    <3>3. ASSUME NEW a \in Nat, NEW b \in Nat, NEW d \in Nat PROVE (a * b) * d = (a * d) * b
      OBVIOUS
    <3>4. (q(n) * s[n + 1]) * s[i] = (q(n) * s[i]) * s[n + 1]
      BY <2>1, <2>3, <3>3
    <3>5. q(n + 1) * s[i] = p(n + 1)
      BY <2>2, <3>1, <3>4
    <3> QED  BY <2>2, <2>5, <2>8, <3>1, <3>2, <3>5
  <2> QED  BY <2>6, <2>7, <2>8
<1>5. Nat \subseteq T
  <2> HIDE DEF T
  <2> QED  BY <1>3, <1>4, Counting
<1>6. Without(Len(s)) /\ ~(Len(s) < i)
  BY <1>0, <1>5
<1>7. p(Len(s)) = ProductOf(s) /\ q(Len(s)) = ProductOf(t)
  BY <1>0 DEF ProductOf, p, q
<1> QED  BY <1>6, <1>7

-----------------------------------------------------------------------------
(* Sums over finite sets                                                    *)

\* Induction over the subsets of a finite set, as they grow.
LEMMA Gathering ==
  ASSUME NEW S, IsFiniteSet(S), NEW U, {} \in U,
         \A T \in SUBSET S, x \in S : T \in U /\ x \notin T => T \cup {x} \in U
  PROVE  SUBSET S \subseteq U
<1> DEFINE M == {n \in Nat : \A T \in SUBSET S : Cardinality(T) = n => T \in U}
<1>1. \A T \in SUBSET S : IsFiniteSet(T) /\ Cardinality(T) \in Nat /\ (Cardinality(T) = 0 <=> T = {})
  BY FS_Subset, FS_CardinalityType, FS_EmptySet
<1>2. 0 \in M
  BY <1>1, FS_EmptySet
<1>3. ASSUME NEW n \in Nat, n \in M PROVE n + 1 \in M
  <2> SUFFICES ASSUME NEW T \in SUBSET S, Cardinality(T) = n + 1 PROVE T \in U
    OBVIOUS
  <2>0. T # {}
    BY <1>1
  <2>1. PICK x : x \in T
    BY <2>0
  <2>2. T \ {x} \in SUBSET S /\ x \in S /\ x \notin T \ {x} /\ T = (T \ {x}) \cup {x}
    BY <2>1
  <2>3. Cardinality(T \ {x}) = Cardinality(T) - 1
    BY <1>1, <2>1, FS_RemoveElement
  <2>4. T \ {x} \in U
    BY <1>3, <2>2, <2>3, n + 1 - 1 = n
  <2>5. (T \ {x}) \cup {x} \in U
    BY <2>2, <2>4
  <2> QED  BY <2>2, <2>5
<1>4. Nat \subseteq M
  <2> HIDE DEF M
  <2> QED  BY <1>2, <1>3, Counting
<1> QED  BY <1>1, <1>4

\* The recursion of Sums has a solution, so Sums satisfies it.
LEMMA SumsStep ==
  ASSUME NEW D, IsFiniteSet(D), NEW f, D = DOMAIN f
  PROVE  \A T \in SUBSET D : SumAt(f, T) =
            IF T = {} THEN 0 ELSE LET x == CHOOSE x \in T : TRUE IN f[x] + SumAt(f, T \ {x})
<1> DEFINE Some(T) == CHOOSE x \in T : TRUE
           Step(g, T) == IF T = {} THEN 0 ELSE f[Some(T)] + g[T \ {Some(T)}]
           Upto(m) == {T \in SUBSET D : Cardinality(T) <= m}
           Solves(g, m) == g = [T \in Upto(m) |-> Step(g, T)]
           M == {m \in Nat : \E g : Solves(g, m)}
<1>1. \A T \in SUBSET D : IsFiniteSet(T) /\ Cardinality(T) \in Nat /\ (Cardinality(T) = 0 <=> T = {})
  BY FS_Subset, FS_CardinalityType, FS_EmptySet
<1>2. ASSUME NEW m \in Nat, NEW T \in Upto(m + 1), T # {} PROVE T \ {Some(T)} \in Upto(m)
  <2>1. Some(T) \in T
    BY <1>2
  <2> HIDE DEF Some
  <2>2. Cardinality(T \ {Some(T)}) = Cardinality(T) - 1
    BY <1>1, <2>1, FS_RemoveElement
  <2> QED  BY <1>1, <2>2
<1>3. 0 \in M
  <2>1. Upto(0) = {{}}
    BY <1>1, FS_EmptySet
  <2>2. Solves([T \in Upto(0) |-> 0], 0)
    BY <2>1
  <2> HIDE DEF Solves
  <2> QED  BY <2>2
<1>4. ASSUME NEW m \in Nat, m \in M PROVE m + 1 \in M
  <2>1. PICK g : Solves(g, m)
    BY <1>4
  <2> DEFINE h == [T \in Upto(m + 1) |-> Step(g, T)]
  <2>2. Upto(m) \subseteq Upto(m + 1)
    BY <1>1
  <2>3. \A T \in Upto(m) : g[T] = Step(g, T)
    BY <2>1
  <2>4. \A T \in Upto(m + 1) : h[T] = Step(g, T)
    OBVIOUS
  <2>5. \A T \in Upto(m + 1) : T # {} => h[T \ {Some(T)}] = g[T \ {Some(T)}]
    <3> HIDE DEF h, Step, Upto, Some
    <3> QED  BY <1>2, <2>2, <2>3, <2>4
  <2>6. \A T \in Upto(m + 1) : Step(g, T) = Step(h, T)
    <3> HIDE DEF h, Upto, Some
    <3> QED  BY <2>5
  <2>7. Solves(h, m + 1)
    <3> HIDE DEF Step, Upto
    <3> QED  BY <2>6
  <2> HIDE DEF h, Solves
  <2> QED  BY <2>7
<1>5. Cardinality(D) \in Nat /\ Upto(Cardinality(D)) = SUBSET D
  BY FS_CardinalityType, FS_Subset
<1>6. \E g : g = [T \in SUBSET D |-> Step(g, T)]
  <2>1. Cardinality(D) \in M
    <3> HIDE DEF M
    <3> QED  BY <1>3, <1>4, <1>5, Counting
  <2>2. \E g : Solves(g, Cardinality(D))
    BY <2>1
  <2> HIDE DEF Step, Upto
  <2> QED  BY <1>5, <2>2
<1> DEFINE g == Sums(f)
           h == [T \in SUBSET D |-> Step(g, T)]
<1>7. g = h
  BY <1>6, Zenon DEF Sums
<1>8. \A T \in SUBSET D : h[T] = Step(g, T)
  OBVIOUS
<1> HIDE DEF g, h
<1>9. \A T \in SUBSET D : g[T] = Step(g, T)
  BY <1>7, <1>8
<1> QED  BY <1>9 DEF SumAt, g

LEMMA SumAtNothing ==
  ASSUME NEW f, IsFiniteSet(DOMAIN f)
  PROVE  SumAt(f, {}) = 0
  BY SumsStep

\* A sum is an integer.
LEMMA SumAtType ==
  ASSUME NEW D, IsFiniteSet(D), NEW f, D = DOMAIN f, \A x \in D : f[x] \in Int
  PROVE  \A T \in SUBSET D : SumAt(f, T) \in Int
<1> DEFINE M == {n \in Nat : \A T \in SUBSET D : Cardinality(T) = n => SumAt(f, T) \in Int}
<1>1. \A T \in SUBSET D : IsFiniteSet(T) /\ Cardinality(T) \in Nat /\ (Cardinality(T) = 0 <=> T = {})
  BY FS_Subset, FS_CardinalityType, FS_EmptySet
<1>2. 0 \in M
  BY <1>1, SumAtNothing
<1>3. ASSUME NEW n \in Nat, n \in M PROVE n + 1 \in M
  <2> SUFFICES ASSUME NEW T \in SUBSET D, Cardinality(T) = n + 1 PROVE SumAt(f, T) \in Int
    OBVIOUS
  <2> DEFINE c == CHOOSE x \in T : TRUE
  <2>1. T # {} /\ c \in T
    BY <1>1
  <2>2. SumAt(f, T) = f[c] + SumAt(f, T \ {c})
    BY <2>1, SumsStep
  <2> HIDE DEF c
  <2>3. T \ {c} \in SUBSET D /\ Cardinality(T \ {c}) = n
    BY <1>1, <2>1, FS_RemoveElement
  <2> QED  BY <1>3, <2>1, <2>2, <2>3
<1>4. Nat \subseteq M
  <2> HIDE DEF M
  <2> QED  BY <1>2, <1>3, Counting
<1> QED  BY <1>1, <1>4

\* Any member may be taken out first.
LEMMA SumAtPick ==
  ASSUME NEW D, IsFiniteSet(D), NEW f, D = DOMAIN f, \A x \in D : f[x] \in Int
  PROVE  \A T \in SUBSET D : \A x \in T : SumAt(f, T) = f[x] + SumAt(f, T \ {x})
<1> DEFINE Any(T) == \A x \in T : SumAt(f, T) = f[x] + SumAt(f, T \ {x})
           M == {n \in Nat : \A T \in SUBSET D : Cardinality(T) = n => Any(T)}
<1>1. \A T \in SUBSET D : IsFiniteSet(T) /\ Cardinality(T) \in Nat /\ (Cardinality(T) = 0 <=> T = {})
  BY FS_Subset, FS_CardinalityType, FS_EmptySet
<1>2. 0 \in M
  BY <1>1
<1>3. ASSUME NEW n \in Nat, n \in M PROVE n + 1 \in M
  <2> SUFFICES ASSUME NEW T \in SUBSET D, Cardinality(T) = n + 1, NEW x \in T
               PROVE  SumAt(f, T) = f[x] + SumAt(f, T \ {x})
    OBVIOUS
  <2> DEFINE c == CHOOSE y \in T : TRUE
  <2>1. c \in T
    OBVIOUS
  <2>2. SumAt(f, T) = f[c] + SumAt(f, T \ {c})
    BY SumsStep
  <2> HIDE DEF c
  <2>3. CASE x = c
    BY <2>2, <2>3
  <2>4. CASE x # c
    <3>1. /\ T \ {c} \in SUBSET D /\ Cardinality(T \ {c}) = n /\ x \in T \ {c}
          /\ T \ {x} \in SUBSET D /\ Cardinality(T \ {x}) = n /\ c \in T \ {x}
      <4>1. /\ Cardinality(T \ {c}) = Cardinality(T) - 1
            /\ Cardinality(T \ {x}) = Cardinality(T) - 1
        BY <1>1, <2>1, FS_RemoveElement
      <4> QED  BY <2>1, <2>4, <4>1
    <3>2. (T \ {c}) \ {x} = (T \ {x}) \ {c} /\ (T \ {c}) \ {x} \in SUBSET D
      OBVIOUS
    <3>3. SumAt(f, T \ {c}) = f[x] + SumAt(f, (T \ {c}) \ {x})
      BY <1>3, <3>1
    <3>4. SumAt(f, T \ {x}) = f[c] + SumAt(f, (T \ {c}) \ {x})
      BY <1>3, <3>1, <3>2
    <3>5. f[x] \in Int /\ f[c] \in Int /\ SumAt(f, (T \ {c}) \ {x}) \in Int
      BY <2>1, <3>2, SumAtType
    <3> QED  BY <2>2, <3>3, <3>4, <3>5
  <2> QED  BY <2>3, <2>4
<1>4. Nat \subseteq M
  <2> HIDE DEF M
  <2> QED  BY <1>2, <1>3, Counting
<1> QED  BY <1>1, <1>4

\* A set that grows.
LEMMA SumAtGrows ==
  ASSUME NEW D, IsFiniteSet(D), NEW f, D = DOMAIN f, \A x \in D : f[x] \in Int,
         NEW T \in SUBSET D, NEW x \in D, x \notin T
  PROVE  SumAt(f, T \cup {x}) = SumAt(f, T) + f[x]
<1>1. T \cup {x} \in SUBSET D /\ (T \cup {x}) \ {x} = T
  OBVIOUS
<1>2. SumAt(f, T \cup {x}) = f[x] + SumAt(f, T)
  BY <1>1, SumAtPick
<1> QED  BY <1>2, SumAtType

\* The sum over two sets that do not meet.
LEMMA SumAtUnion ==
  ASSUME NEW D, IsFiniteSet(D), NEW f, D = DOMAIN f, \A x \in D : f[x] \in Int,
         NEW A \in SUBSET D, NEW B \in SUBSET D, A \cap B = {}
  PROVE  SumAt(f, A \cup B) = SumAt(f, A) + SumAt(f, B)
<1> DEFINE U == {T \in SUBSET D : T \subseteq B => SumAt(f, A \cup T) = SumAt(f, A) + SumAt(f, T)}
<1>1. {} \in U
  <2>1. A \cup {} = A /\ SumAt(f, {}) = 0 /\ SumAt(f, A) \in Int
    BY SumAtNothing, SumAtType
  <2> QED  BY <2>1
<1>2. ASSUME NEW T \in SUBSET D, NEW x \in D, T \in U, x \notin T PROVE T \cup {x} \in U
  <2> SUFFICES ASSUME T \cup {x} \subseteq B
               PROVE  SumAt(f, A \cup (T \cup {x})) = SumAt(f, A) + SumAt(f, T \cup {x})
    OBVIOUS
  <2>1. /\ A \cup T \in SUBSET D /\ T \in SUBSET D /\ x \in D /\ x \notin A \cup T
        /\ A \cup (T \cup {x}) = (A \cup T) \cup {x}
    BY <1>2
  <2> DEFINE both == A \cup T
  <2>2. SumAt(f, both \cup {x}) = SumAt(f, both) + f[x]
    <3> HIDE DEF both
    <3> QED  BY <2>1, SumAtGrows DEF both
  <2>3. SumAt(f, T \cup {x}) = SumAt(f, T) + f[x]
    BY <1>2, <2>1, SumAtGrows
  <2>4. SumAt(f, A) \in Int /\ SumAt(f, T) \in Int /\ f[x] \in Int
    BY <2>1, SumAtType
  <2>5. SumAt(f, both) = SumAt(f, A) + SumAt(f, T)
    BY <1>2
  <2>6. both \cup {x} = A \cup (T \cup {x})
    OBVIOUS
  <2> HIDE DEF both
  <2>7. SumAt(f, A \cup (T \cup {x})) = SumAt(f, both) + f[x]
    BY <2>2, <2>6
  <2>8. SumAt(f, A \cup (T \cup {x})) = SumAt(f, A) + SumAt(f, T \cup {x})
    BY <2>3, <2>4, <2>5, <2>7
  <2> QED  BY <2>8
<1>3. SUBSET D \subseteq U
  <2> HIDE DEF U
  <2>1. {} \in U
    BY <1>1
  <2>2. \A T \in SUBSET D, x \in D : T \in U /\ x \notin T => T \cup {x} \in U
    BY <1>2
  <2>3. IsFiniteSet(D)
    OBVIOUS
  <2> QED  BY ONLY <2>1, <2>2, <2>3, Gathering
<1> QED  BY <1>3

\* A sum by groups: each member of S belongs to one of the groups of V, and g has
\* the sum of each group.
LEMMA SumAtGroups ==
  ASSUME NEW D, IsFiniteSet(D), NEW f, D = DOMAIN f, \A x \in D : f[x] \in Int,
         NEW E, IsFiniteSet(E), NEW g, E = DOMAIN g, NEW S \in SUBSET D, NEW V \in SUBSET E,
         NEW group, \A x \in S : group[x] \in V,
         \A v \in V : g[v] = SumAt(f, {x \in S : group[x] = v}),
         \A e \in E : g[e] \in Int
  PROVE  SumAt(f, S) = SumAt(g, V)
<1> DEFINE Of(W) == {x \in S : group[x] \in W}
           U == {W \in SUBSET V : SumAt(f, Of(W)) = SumAt(g, W)}
<1>1. {} \in U
  <2>1. Of({}) = {} /\ SumAt(f, {}) = 0 /\ SumAt(g, {}) = 0
    BY SumAtNothing
  <2> QED  BY <2>1
<1>2. ASSUME NEW W \in SUBSET V, NEW v \in V, W \in U, v \notin W PROVE W \cup {v} \in U
  <2> DEFINE new == {x \in S : group[x] = v}
  <2>1. /\ Of(W \cup {v}) = Of(W) \cup new /\ Of(W) \cap new = {}
        /\ Of(W) \in SUBSET D /\ new \in SUBSET D /\ W \in SUBSET E /\ v \in E
    BY <1>2
  <2>2. SumAt(f, Of(W) \cup new) = SumAt(f, Of(W)) + SumAt(f, new)
    <3> HIDE DEF Of, new
    <3> QED  BY <2>1, SumAtUnion
  <2>3. SumAt(g, W \cup {v}) = SumAt(g, W) + g[v]
    BY <1>2, <2>1, SumAtGrows
  <2>4. g[v] = SumAt(f, new)
    OBVIOUS
  <2>5. SumAt(f, Of(W)) = SumAt(g, W)
    BY <1>2
  <2> HIDE DEF Of, new
  <2>6. SumAt(f, Of(W \cup {v})) = SumAt(g, W \cup {v})
    BY <2>1, <2>2, <2>3, <2>4, <2>5
  <2> QED  BY <2>6
<1>3. IsFiniteSet(V)
  BY FS_Subset
<1>4. SUBSET V \subseteq U
  <2> HIDE DEF U
  <2> QED  BY <1>1, <1>2, <1>3, Gathering
<1>5. Of(V) = S
  OBVIOUS
<1> QED  BY <1>4, <1>5

\* The values of a function with a finite domain are finitely many.
LEMMA FiniteRange ==
  ASSUME NEW f, IsFiniteSet(DOMAIN f)
  PROVE  IsFiniteSet({f[x] : x \in DOMAIN f})
<1> DEFINE T == {f[x] : x \in DOMAIN f}
           g == [x \in DOMAIN f |-> f[x]]
<1>1. g \in Surjection(DOMAIN f, T)
  BY DEF Surjection
<1> HIDE DEF g, T
<1>2. IsFiniteSet(T)
  BY <1>1, FS_Surjection
<1> QED  BY <1>2 DEF T

\* Numbers add up to a number, and to a positive one if one of them is.
LEMMA SumAtNat ==
  ASSUME NEW f, IsFiniteSet(DOMAIN f), \A x \in DOMAIN f : f[x] \in Nat
  PROVE  /\ \A T \in SUBSET DOMAIN f : SumAt(f, T) \in Nat
         /\ (\E x \in DOMAIN f : f[x] > 0) => SumAt(f, DOMAIN f) > 0
<1> DEFINE D == DOMAIN f
           U == {T \in SUBSET D : SumAt(f, T) \in Nat}
<1>0. IsFiniteSet(D) /\ D = DOMAIN f /\ \A x \in D : f[x] \in Int
  OBVIOUS
<1>1. {} \in U
  BY SumAtNothing
<1>2. \A T \in SUBSET D, x \in D : T \in U /\ x \notin T => T \cup {x} \in U
  <2> SUFFICES ASSUME NEW T \in SUBSET D, NEW x \in D, T \in U, x \notin T
               PROVE  T \cup {x} \in U
    OBVIOUS
  <2>1. SumAt(f, T \cup {x}) = SumAt(f, T) + f[x]
    BY <1>0, SumAtGrows
  <2> QED  BY <2>1
<1>3. SUBSET D \subseteq U
  <2> HIDE DEF U
  <2> QED  BY ONLY <1>0, <1>1, <1>2, Gathering
<1>4. ASSUME NEW x \in D, f[x] > 0 PROVE SumAt(f, D) > 0
  <2>1. D \in SUBSET D /\ D \ {x} \in SUBSET D
    OBVIOUS
  <2>2. SumAt(f, D) = f[x] + SumAt(f, D \ {x})
    BY <1>0, <2>1, SumAtPick
  <2>3. SumAt(f, D \ {x}) \in Nat
    BY <1>3, <2>1
  <2> QED  BY <1>4, <2>2, <2>3
<1> QED  BY <1>3, <1>4

\* What is at most b times as much, one by one, is so together.
LEMMA SumAtWithin ==
  ASSUME NEW f, NEW g, IsFiniteSet(DOMAIN f), DOMAIN g = DOMAIN f, NEW b \in Int,
         \A x \in DOMAIN f : f[x] \in Int /\ g[x] \in Int /\ f[x] <= b * g[x]
  PROVE  SumAt(f, DOMAIN f) <= b * SumAt(g, DOMAIN f)
<1> DEFINE D == DOMAIN f
           U == {T \in SUBSET D : SumAt(f, T) <= b * SumAt(g, T)}
<1>0. IsFiniteSet(D) /\ D = DOMAIN f /\ D = DOMAIN g /\ \A x \in D : f[x] \in Int /\ g[x] \in Int
  OBVIOUS
<1>1. {} \in U
  BY SumAtNothing
<1>2. \A T \in SUBSET D, x \in D : T \in U /\ x \notin T => T \cup {x} \in U
  <2> SUFFICES ASSUME NEW T \in SUBSET D, NEW x \in D, T \in U, x \notin T
               PROVE  T \cup {x} \in U
    OBVIOUS
  <2>1. SumAt(f, T \cup {x}) = SumAt(f, T) + f[x]
    BY <1>0, SumAtGrows
  <2>2. SumAt(g, T \cup {x}) = SumAt(g, T) + g[x]
    BY <1>0, SumAtGrows
  <2>3. SumAt(f, T) \in Int /\ SumAt(g, T) \in Int /\ f[x] \in Int /\ g[x] \in Int
    BY <1>0, SumAtType
  <2>4. SumAt(f, T) <= b * SumAt(g, T) /\ f[x] <= b * g[x]
    OBVIOUS
  <2>5. b * (SumAt(g, T) + g[x]) = b * SumAt(g, T) + b * g[x]
    BY <2>3
  <2>6. SumAt(f, T) + f[x] <= b * (SumAt(g, T) + g[x])
    BY <2>3, <2>4, <2>5
  <2> QED  BY <2>1, <2>2, <2>6
<1>3. SUBSET D \subseteq U
  <2> HIDE DEF U
  <2>1. IsFiniteSet(D)
    OBVIOUS
  <2> HIDE DEF D
  <2> QED  BY ONLY <2>1, <1>1, <1>2, Gathering
<1> QED  BY <1>3

\* What is b times as much, one by one, is so together.
LEMMA SumAtScaled ==
  ASSUME NEW f, NEW g, IsFiniteSet(DOMAIN f), DOMAIN g = DOMAIN f, NEW b \in Int,
         \A x \in DOMAIN f : f[x] \in Int /\ g[x] \in Int /\ f[x] = b * g[x]
  PROVE  SumAt(f, DOMAIN f) = b * SumAt(g, DOMAIN f)
<1> DEFINE D == DOMAIN f
           U == {T \in SUBSET D : SumAt(f, T) = b * SumAt(g, T)}
<1>0. IsFiniteSet(D) /\ D = DOMAIN f /\ D = DOMAIN g /\ \A x \in D : f[x] \in Int /\ g[x] \in Int
  OBVIOUS
<1>1. {} \in U
  BY SumAtNothing
<1>2. \A T \in SUBSET D, x \in D : T \in U /\ x \notin T => T \cup {x} \in U
  <2> SUFFICES ASSUME NEW T \in SUBSET D, NEW x \in D, T \in U, x \notin T
               PROVE  T \cup {x} \in U
    OBVIOUS
  <2>1. SumAt(f, T \cup {x}) = SumAt(f, T) + f[x]
    BY <1>0, SumAtGrows
  <2>2. SumAt(g, T \cup {x}) = SumAt(g, T) + g[x]
    BY <1>0, SumAtGrows
  <2>3. SumAt(f, T) \in Int /\ SumAt(g, T) \in Int /\ f[x] \in Int /\ g[x] \in Int
    BY <1>0, SumAtType
  <2>4. SumAt(f, T) = b * SumAt(g, T) /\ f[x] = b * g[x]
    OBVIOUS
  <2>5. b * (SumAt(g, T) + g[x]) = b * SumAt(g, T) + b * g[x]
    BY <2>3
  <2>6. SumAt(f, T) + f[x] = b * (SumAt(g, T) + g[x])
    BY <2>3, <2>4, <2>5
  <2> QED  BY <2>1, <2>2, <2>6
<1>3. SUBSET D \subseteq U
  <2> HIDE DEF U
  <2>1. IsFiniteSet(D)
    OBVIOUS
  <2> HIDE DEF D
  <2> QED  BY ONLY <2>1, <1>1, <1>2, Gathering
<1> QED  BY <1>3

\* What is the same everywhere.
LEMMA SumAtSame ==
  ASSUME NEW f, IsFiniteSet(DOMAIN f), NEW k \in Int, \A x \in DOMAIN f : f[x] = k
  PROVE  SumAt(f, DOMAIN f) = k * Cardinality(DOMAIN f)
<1> DEFINE D == DOMAIN f
           U == {T \in SUBSET D : SumAt(f, T) = k * Cardinality(T)}
<1>0. IsFiniteSet(D) /\ D = DOMAIN f /\ \A x \in D : f[x] \in Int
  OBVIOUS
<1>1. {} \in U
  BY SumAtNothing, FS_EmptySet
<1>2. \A T \in SUBSET D, x \in D : T \in U /\ x \notin T => T \cup {x} \in U
  <2> SUFFICES ASSUME NEW T \in SUBSET D, NEW x \in D, T \in U, x \notin T
               PROVE  T \cup {x} \in U
    OBVIOUS
  <2>1. SumAt(f, T \cup {x}) = SumAt(f, T) + f[x]
    BY <1>0, SumAtGrows
  <2>2. Cardinality(T) \in Nat /\ Cardinality(T \cup {x}) = Cardinality(T) + 1
    BY <1>0, FS_Subset, FS_CardinalityType, FS_AddElement
  <2>3. SumAt(f, T) = k * Cardinality(T) /\ f[x] = k
    OBVIOUS
  <2>4. k * (Cardinality(T) + 1) = k * Cardinality(T) + k
    BY <2>2
  <2> QED  BY <2>1, <2>2, <2>3, <2>4
<1>3. SUBSET D \subseteq U
  <2> HIDE DEF U
  <2> QED  BY ONLY <1>0, <1>1, <1>2, Gathering
<1> QED  BY <1>3

\* A sum looks at its members only.
LEMMA SumAtAlike ==
  ASSUME NEW f, NEW g, IsFiniteSet(DOMAIN f), IsFiniteSet(DOMAIN g),
         \A x \in DOMAIN f : f[x] \in Int, \A x \in DOMAIN g : g[x] \in Int,
         NEW S, S \subseteq DOMAIN f, S \subseteq DOMAIN g, \A x \in S : f[x] = g[x]
  PROVE  SumAt(f, S) = SumAt(g, S)
<1> DEFINE U == {T \in SUBSET S : SumAt(f, T) = SumAt(g, T)}
<1>1. {} \in U
  BY SumAtNothing
<1>2. \A T \in SUBSET S, x \in S : T \in U /\ x \notin T => T \cup {x} \in U
  <2> SUFFICES ASSUME NEW T \in SUBSET S, NEW x \in S, T \in U, x \notin T
               PROVE  T \cup {x} \in U
    OBVIOUS
  <2>1. SumAt(f, T \cup {x}) = SumAt(f, T) + f[x]
    BY SumAtGrows
  <2>2. SumAt(g, T \cup {x}) = SumAt(g, T) + g[x]
    BY SumAtGrows
  <2>3. T \cup {x} \in SUBSET S /\ SumAt(f, T) = SumAt(g, T) /\ f[x] = g[x]
    OBVIOUS
  <2> QED  BY ONLY <2>1, <2>2, <2>3
<1>3. IsFiniteSet(S)
  BY FS_Subset
<1>4. SUBSET S \subseteq U
  <2> HIDE DEF U
  <2> QED  BY ONLY <1>1, <1>2, <1>3, Gathering
<1> QED  BY <1>4

\* A function on 1..n + 1 sums to what it is at n + 1 and to the rest.
LEMMA SumAtNext ==
  ASSUME NEW n \in Nat, NEW f, DOMAIN f = 1..(n + 1), \A x \in DOMAIN f : f[x] \in Int,
         NEW g, DOMAIN g = 1..n, \A x \in 1..n : g[x] = f[x]
  PROVE  /\ SumAt(f, DOMAIN f) = SumAt(g, DOMAIN g) + f[n + 1]
         /\ SumAt(g, DOMAIN g) \in Int
<1>1. IsFiniteSet(DOMAIN f) /\ IsFiniteSet(DOMAIN g)
  BY FS_Interval
<1>2. DOMAIN f = (1..n) \cup {n + 1} /\ n + 1 \in DOMAIN f /\ n + 1 \notin 1..n /\ 1..n \in SUBSET DOMAIN f
  OBVIOUS
<1>3. SumAt(f, (1..n) \cup {n + 1}) = SumAt(f, 1..n) + f[n + 1]
  <2> DEFINE D == DOMAIN f
             T == 1..n
             x == n + 1
  <2>1. /\ IsFiniteSet(D) /\ D = DOMAIN f /\ \A y \in D : f[y] \in Int
        /\ T \in SUBSET D /\ x \in D /\ x \notin T
    BY <1>1, <1>2
  <2> HIDE DEF D, T, x
  <2>2. SumAt(f, T \cup {x}) = SumAt(f, T) + f[x]
    BY ONLY <2>1, SumAtGrows
  <2> QED  BY <2>2 DEF T, x
<1>4. SumAt(f, 1..n) = SumAt(g, 1..n)
  BY <1>1, <1>2, SumAtAlike
<1>5. SumAt(f, 1..n) \in Int
  BY <1>1, <1>2, SumAtType
<1> QED  BY <1>2, <1>3, <1>4, <1>5

\* A sum of numbers that are none below k.
LEMMA SumAtLeast ==
  ASSUME NEW f, IsFiniteSet(DOMAIN f), NEW k \in Int, \A x \in DOMAIN f : f[x] \in Int /\ k <= f[x]
  PROVE  SumAt(f, DOMAIN f) >= k * Cardinality(DOMAIN f)
<1> DEFINE D == DOMAIN f
           g == [x \in D |-> k]
<1>1. DOMAIN g = D /\ \A x \in D : g[x] = k /\ g[x] \in Int /\ f[x] \in Int /\ g[x] <= 1 * f[x]
  OBVIOUS
<1>2. IsFiniteSet(D) /\ SumAt(f, D) \in Int /\ Cardinality(D) \in Nat
  BY SumAtType, FS_CardinalityType
<1> HIDE DEF g
<1>3. SumAt(g, D) = k * Cardinality(D)
  BY <1>1, <1>2, SumAtSame
<1>4. SumAt(g, D) <= 1 * SumAt(f, D)
  BY <1>1, <1>2, SumAtWithin
<1> HIDE DEF D
<1>5. k * Cardinality(D) \in Int /\ 1 * SumAt(f, D) = SumAt(f, D)
  BY <1>2
<1> QED  BY <1>2, <1>3, <1>4, <1>5 DEF D

\* A sum over 1..n, when what its first j members add up to is known for each j,
\* up to a factor.
Climbs(n, f, b, p) ==
    /\ n \in Nat /\ b \in Int
    /\ DOMAIN f = 1..n /\ \A i \in 1..n : f[i] \in Int
    /\ p[0] = 0 /\ \A j \in 0..n : p[j] \in Int
    /\ \A j \in 0..(n - 1) : p[j + 1] = p[j] + b * f[j + 1]

LEMMA SumAtClimbs ==
  ASSUME NEW n, NEW f, NEW b, NEW p, Climbs(n, f, b, p)
  PROVE  b * SumAt(f, DOMAIN f) = p[n]
<1> SUFFICES ASSUME n \in Nat, b \in Int, DOMAIN f = 1..n, \A i \in 1..n : f[i] \in Int, p[0] = 0,
                    \A j \in 0..n : p[j] \in Int,
                    \A j \in 0..(n - 1) : p[j + 1] = p[j] + b * f[j + 1]
             PROVE  b * SumAt(f, DOMAIN f) = p[n]
  BY DEF Climbs
<1> DEFINE D == DOMAIN f
           T == {j \in Nat : j <= n => b * SumAt(f, 1..j) = p[j]}
<1>1. IsFiniteSet(D) /\ D = DOMAIN f /\ \A i \in D : f[i] \in Int
  BY FS_Interval
<1>5. D = 1..n
  OBVIOUS
<1> HIDE DEF D
<1>2. 0 \in T
  <2>1. 1..0 = {} /\ SumAt(f, {}) = 0
    BY <1>1, SumAtNothing
  <2> QED  BY <2>1
<1>3. ASSUME NEW j \in Nat, j \in T PROVE j + 1 \in T
  <2> SUFFICES ASSUME j + 1 <= n PROVE b * SumAt(f, 1..(j + 1)) = p[j + 1]
    OBVIOUS
  <2> DEFINE W == 1..j
             i == j + 1
  <2>1. W \in SUBSET D /\ i \in D /\ i \notin W /\ W \cup {i} = 1..(j + 1)
    BY <1>5
  <2>2. b * SumAt(f, W) = p[j]
    BY <1>3
  <2>3. p[i] = p[j] + b * f[i] /\ f[i] \in Int
    BY <1>1, <2>1, <1>5
  <2> HIDE DEF W, i
  <2>4. SumAt(f, W \cup {i}) = SumAt(f, W) + f[i] /\ SumAt(f, W) \in Int
    <3>1. SumAt(f, W \cup {i}) = SumAt(f, W) + f[i]
      BY ONLY <1>1, <2>1, SumAtGrows
    <3>2. SumAt(f, W) \in Int
      BY ONLY <1>1, <2>1, SumAtType
    <3> QED  BY <3>1, <3>2
  <2>5. b * (SumAt(f, W) + f[i]) = b * SumAt(f, W) + b * f[i]
    BY <2>3, <2>4
  <2> QED  BY <2>1, <2>2, <2>3, <2>4, <2>5 DEF i
<1>4. n \in T
  <2> HIDE DEF T
  <2>1. \A j \in Nat : j \in T => j + 1 \in T
    BY <1>3
  <2> QED  BY <1>2, <2>1, Counting
<1> QED  BY <1>1, <1>4, <1>5

-----------------------------------------------------------------------------
(* Sequences one behind the other                                           *)

\* What is joined of the first n sequences, from what is joined of those before.
LEMMA JoinedStep ==
  ASSUME NEW S, NEW s \in Seq(S)
  PROVE  /\ JoinedUpto(s)[0] = <<>>
         /\ \A n \in 1..Len(s) : JoinedUpto(s)[n] = JoinedUpto(s)[n - 1] \o s[n]
  <1> DEFINE Next(g, n) == g[n - 1] \o s[n]
             Step(g, n) == IF n = 0 THEN <<>> ELSE Next(g, n)
             Solves(g, m) == g = [n \in 0..m |-> Step(g, n)]
             T == {m \in Nat : \E g : Solves(g, m)}
  <1>1. 0 \in T
    <2>1. Solves([n \in 0..0 |-> <<>>], 0)
      OBVIOUS
    <2> QED BY <2>1
  <1>2. ASSUME NEW m \in Nat, m \in T PROVE m + 1 \in T
    <2>1. PICK g : Solves(g, m)
      BY <1>2
    <2> DEFINE h == [n \in 0..(m + 1) |-> IF n \in 0..m THEN g[n] ELSE Step(g, n)]
    <2>2. \A n \in 0..m : g[n] = Step(g, n)
      BY <2>1
    <2>3. \A n \in 0..(m + 1) : h[n] = Step(g, n)
      BY <2>2
    <2>4. \A n \in 0..(m + 1) : Step(g, n) = Step(h, n)
      <3> SUFFICES ASSUME NEW n \in 0..(m + 1), n # 0 PROVE Step(g, n) = Step(h, n)
        OBVIOUS
      <3>1. n - 1 \in 0..m /\ h[n - 1] = g[n - 1]
        OBVIOUS
      <3> HIDE DEF h
      <3> QED BY <3>1, Zenon
    <2>5. Solves(h, m + 1)
      BY <2>3, <2>4
    <2>6. \E gg : Solves(gg, m + 1)
      <3> HIDE DEF h, Solves
      <3> QED BY <2>5
    <2> HIDE DEF h, Solves
    <2> QED BY <2>6
  <1>3. Len(s) \in T
    <2> HIDE DEF T
    <2> QED BY <1>1, <1>2, Counting, LenProperties
  <1>4. \E g : g = [n \in 0..Len(s) |-> Step(g, n)]
    BY <1>3
  <1> DEFINE f == JoinedUpto(s)
             g == [n \in 0..Len(s) |-> Step(f, n)]
  <1>5. f = g
    BY <1>4, Zenon DEF JoinedUpto
  <1>6. \A n \in 0..Len(s) : g[n] = Step(f, n)
    OBVIOUS
  <1> HIDE DEF g, f
  <1>7. \A n \in 0..Len(s) : f[n] = Step(f, n)
    BY <1>5, <1>6
  <1>8. Len(s) \in Nat
    BY LenProperties
  <1>9. f[0] = Step(f, 0) /\ \A n \in 1..Len(s) : n # 0 /\ f[n] = Step(f, n)
    <2> HIDE DEF Step
    <2> QED BY <1>7, <1>8
  <1>10. f[0] = <<>> /\ \A n \in 1..Len(s) : f[n] = Next(f, n)
    <2> HIDE DEF Next
    <2> QED BY <1>9
  <1> QED BY <1>10 DEF f

\* As many elements as they have together.
LEMMA JoinedLength ==
  ASSUME NEW X, NEW ss \in Seq(Seq(X))
  PROVE  /\ JoinOf(ss) \in Seq(X)
         /\ Len(JoinOf(ss)) = SumOf([n \in 1..Len(ss) |-> Len(ss[n])])
  <1> DEFINE v == [n \in 1..Len(ss) |-> Len(ss[n])]
             upto(n) == JoinedUpto(ss)[n]
             sum(n) == Summed(v)[n]
             T == {n \in Nat : n <= Len(ss) => upto(n) \in Seq(X) /\ Len(upto(n)) = sum(n)}
  <1>0. Len(ss) \in Nat /\ \A n \in 1..Len(ss) : ss[n] \in Seq(X)
    BY LenProperties, ElementOfSeq
  <1>1. v \in Seq(Int) /\ Len(v) = Len(ss) /\ \A n \in 1..Len(ss) : v[n] = Len(ss[n])
    <2>1. \A n \in 1..Len(ss) : Len(ss[n]) \in Int
      BY <1>0, LenProperties
    <2>2. v \in [1..Len(ss) -> Int]
      BY <2>1
    <2> HIDE DEF v
    <2>3. v \in Seq(Int) /\ Len(v) = Len(ss)
      BY <1>0, <2>2, IsASeq, SeqDef, LenProperties
    <2> QED BY <2>3 DEF v
  <1> HIDE DEF v
  <1>2. /\ upto(0) = <<>> /\ sum(0) = 0
        /\ \A n \in 1..Len(ss) : upto(n) = upto(n - 1) \o ss[n] /\ sum(n) = sum(n - 1) + Len(ss[n])
    <2>1. upto(0) = <<>> /\ \A n \in 1..Len(ss) : upto(n) = upto(n - 1) \o ss[n]
      BY JoinedStep
    <2>2. sum(0) = 0 /\ \A n \in 1..Len(v) : sum(n) = sum(n - 1) + v[n]
      BY <1>1, SummedStep
    <2> QED BY <1>1, <2>1, <2>2
  <1> HIDE DEF upto, sum
  <1>3. 0 \in T
    BY <1>2, EmptySeq
  <1>4. ASSUME NEW n \in Nat, n \in T PROVE n + 1 \in T
    <2> SUFFICES ASSUME n + 1 <= Len(ss) PROVE upto(n + 1) \in Seq(X) /\ Len(upto(n + 1)) = sum(n + 1)
      OBVIOUS
    <2>1. /\ n + 1 \in 1..Len(ss) /\ (n + 1) - 1 = n
          /\ upto(n) \in Seq(X) /\ Len(upto(n)) = sum(n)
      BY <1>0, <1>4
    <2>2. upto(n + 1) = upto(n) \o ss[n + 1] /\ sum(n + 1) = sum(n) + Len(ss[n + 1])
      BY <1>2, <2>1
    <2>3. upto(n) \o ss[n + 1] \in Seq(X) /\ Len(upto(n) \o ss[n + 1]) = Len(upto(n)) + Len(ss[n + 1])
      BY <1>0, <2>1, ConcatProperties
    <2> QED BY <2>1, <2>2, <2>3
  <1>5. Nat \subseteq T
    <2> HIDE DEF T
    <2> QED BY <1>3, <1>4, Counting
  <1>6. upto(Len(ss)) \in Seq(X) /\ Len(upto(Len(ss))) = sum(Len(ss))
    BY <1>0, <1>5
  <1>7. JoinOf(ss) = upto(Len(ss)) /\ SumOf(v) = sum(Len(ss))
    BY <1>1 DEF JoinOf, SumOf, upto, sum
  <1> QED BY <1>6, <1>7 DEF v

-----------------------------------------------------------------------------
(* Matches of a pattern                                                     *)

\* One more place found, or not.
WithMatch(found, starts, size, n) ==
    IF n \in starts /\ \A m \in found : m + size <= n THEN found \union {n} ELSE found

\* The matches up to each place, from those before it.
LEMMA MatchesStep ==
  ASSUME NEW S, NEW s \in Seq(S), NEW starts, NEW size
  PROVE  /\ MatchesIn(s, starts, size)[0] = {}
         /\ \A n \in 1..Len(s) : MatchesIn(s, starts, size)[n] = WithMatch(MatchesIn(s, starts, size)[n - 1], starts, size, n)
  <1> DEFINE Next(g, n) == WithMatch(g[n - 1], starts, size, n)
             Step(g, n) == IF n = 0 THEN {} ELSE Next(g, n)
             Solves(g, m) == g = [n \in 0..m |-> Step(g, n)]
             T == {m \in Nat : \E g : Solves(g, m)}
  <1>1. 0 \in T
    <2>1. Solves([n \in 0..0 |-> {}], 0)
      OBVIOUS
    <2> QED BY <2>1
  <1>2. ASSUME NEW m \in Nat, m \in T PROVE m + 1 \in T
    <2>1. PICK g : Solves(g, m)
      BY <1>2
    <2> DEFINE h == [n \in 0..(m + 1) |-> IF n \in 0..m THEN g[n] ELSE Step(g, n)]
    <2>2. \A n \in 0..m : g[n] = Step(g, n)
      BY <2>1
    <2>3. \A n \in 0..(m + 1) : h[n] = Step(g, n)
      BY <2>2
    <2>4. \A n \in 0..(m + 1) : Step(g, n) = Step(h, n)
      <3> SUFFICES ASSUME NEW n \in 0..(m + 1), n # 0 PROVE Step(g, n) = Step(h, n)
        OBVIOUS
      <3>1. n - 1 \in 0..m /\ h[n - 1] = g[n - 1]
        OBVIOUS
      <3> HIDE DEF h
      <3> QED BY <3>1, Zenon
    <2>5. Solves(h, m + 1)
      BY <2>3, <2>4
    <2>6. \E gg : Solves(gg, m + 1)
      <3> HIDE DEF h, Solves
      <3> QED BY <2>5
    <2> HIDE DEF h, Solves
    <2> QED BY <2>6
  <1>3. Len(s) \in T
    <2> HIDE DEF T
    <2> QED BY <1>1, <1>2, Counting, LenProperties
  <1>4. \E g : g = [n \in 0..Len(s) |-> Step(g, n)]
    BY <1>3
  <1> DEFINE f == MatchesIn(s, starts, size)
             g == [n \in 0..Len(s) |-> Step(f, n)]
  <1>5. f = g
    BY <1>4, Zenon DEF MatchesIn, WithMatch
  <1>6. \A n \in 0..Len(s) : g[n] = Step(f, n)
    OBVIOUS
  <1> HIDE DEF g, f
  <1>7. \A n \in 0..Len(s) : f[n] = Step(f, n)
    BY <1>5, <1>6
  <1>8. Len(s) \in Nat
    BY LenProperties
  <1>9. f[0] = Step(f, 0) /\ \A n \in 1..Len(s) : n # 0 /\ f[n] = Step(f, n)
    <2> HIDE DEF Step
    <2> QED BY <1>7, <1>8
  <1>10. f[0] = {} /\ \A n \in 1..Len(s) : f[n] = Next(f, n)
    <2> HIDE DEF Next
    <2> QED BY <1>9
  <1> QED BY <1>10 DEF f

\* Where a match begins is one of the places where it may, and the first of these is found.
LEMMA MatchesFound ==
  ASSUME NEW S, NEW s \in Seq(S), NEW size \in Nat, NEW starts \in SUBSET (1..Len(s))
  PROVE  LET found == MatchesIn(s, starts, size)[Len(s)]
         IN  found \subseteq starts /\ (starts # {} => found # {})
  <1> DEFINE upto(n) == MatchesIn(s, starts, size)[n]
             Right(n) == /\ upto(n) \subseteq starts \cap 1..n
                         /\ starts \cap 1..n # {} => upto(n) # {}
             T == {n \in Nat : n <= Len(s) => Right(n)}
  <1>0. Len(s) \in Nat
    BY LenProperties
  <1>1. 0 \in T
    <2>1. upto(0) = {}
      BY MatchesStep
    <2> QED BY <2>1
  <1>2. ASSUME NEW n \in Nat, n \in T PROVE n + 1 \in T
    <2> SUFFICES ASSUME n + 1 <= Len(s) PROVE Right(n + 1)
      OBVIOUS
    <2>1. n + 1 \in 1..Len(s) /\ Right(n) /\ (n + 1) - 1 = n
      BY <1>0, <1>2
    <2>2. upto(n + 1) = IF n + 1 \in starts /\ \A m \in upto(n) : m + size <= n + 1
                        THEN upto(n) \union {n + 1} ELSE upto(n)
      <3>1. upto(n + 1) = WithMatch(upto(n), starts, size, n + 1)
        <4>1. \A k \in 1..Len(s) : upto(k) = WithMatch(upto(k - 1), starts, size, k)
          BY MatchesStep
        <4> HIDE DEF upto
        <4> QED BY <2>1, <4>1
      <3> QED BY <3>1, Zenon DEF WithMatch
    <2> HIDE DEF upto
    <2>3. 1..(n + 1) = (1..n) \cup {n + 1}
      OBVIOUS
    <2>4. upto(n + 1) \subseteq starts \cap 1..(n + 1)
      BY <2>1, <2>2, <2>3
    <2>5. ASSUME starts \cap 1..(n + 1) # {} PROVE upto(n + 1) # {}
      <3>1. CASE starts \cap 1..n # {}
        BY <2>1, <2>2, <3>1
      <3>2. CASE starts \cap 1..n = {}
        <4>1. n + 1 \in starts /\ upto(n) = {}
          BY <2>1, <2>3, <2>5, <3>2
        <4> QED BY <2>2, <4>1
      <3> QED BY <3>1, <3>2
    <2> QED BY <2>4, <2>5
  <1>3. Right(Len(s))
    <2> HIDE DEF Right
    <2>1. Nat \subseteq T
      <3> HIDE DEF T
      <3> QED BY <1>1, <1>2, Counting
    <2> QED BY <1>0, <2>1
  <1>4. starts \cap 1..Len(s) = starts
    OBVIOUS
  <1> QED BY <1>3, <1>4

-----------------------------------------------------------------------------
(* What is joined, and what a filter keeps of it.                          *)

\* To append behind two sequences is to append to the second.
LEMMA AppendLast ==
  ASSUME NEW S, NEW s \in Seq(S), NEW t \in Seq(S), NEW e \in S
  PROVE  s \o Append(t, e) = Append(s \o t, e)
<1> DEFINE one == <<e>>
<1>1. one \in Seq(S) /\ Append(t, e) = t \o one
  BY AppendIsConcat
<1>2. s \o t \in Seq(S)
  BY ConcatProperties
<1>3. Append(s \o t, e) = (s \o t) \o one
  <2> DEFINE both == s \o t
  <2> HIDE DEF both
  <2>1. Append(both, e) = both \o one
    BY <1>2, AppendIsConcat DEF both
  <2> QED  BY <2>1 DEF both
<1> HIDE DEF one
<1>4. (s \o t) \o one = s \o (t \o one)
  BY <1>1, ConcatAssociative
<1> QED  BY <1>1, <1>3, <1>4

\* Of two sequences one behind the other a filter keeps what it keeps of each.
KeptOfBoth(s, t, K) == Keep(s \o t, K) = Keep(s, K) \o Keep(t, K)

LEMMA KeepConcat ==
  ASSUME NEW S, NEW s \in Seq(S), NEW t \in Seq(S), NEW K
  PROVE  KeptOfBoth(s, t, K)
<1> DEFINE Holds(u) == Keep(s \o u, K) = Keep(s, K) \o Keep(u, K)
           T == {u \in Seq(S) : Holds(u)}
<1>1. <<>> \in T
  <2>1. <<>> \in Seq(S) /\ s \o <<>> = s
    BY EmptySeq, ConcatEmptySeq
  <2>2. Keep(s, K) \o <<>> = Keep(s, K)
    BY KeepMembers, ConcatEmptySeq
  <2> QED  BY <2>1, <2>2, KeepEmpty
<1>2. ASSUME NEW u \in Seq(S), NEW e \in S, u \in T PROVE Append(u, e) \in T
  <2> DEFINE k == Keep(s, K)
             l == Keep(u, K)
  <2>1. Append(u, e) \in Seq(S) /\ s \o u \in Seq(S)
    BY AppendProperties, ConcatProperties
  <2>2. s \o Append(u, e) = Append(s \o u, e)
    BY AppendLast
  <2>3. k \in Seq(S) /\ l \in Seq(S) /\ k \o l \in Seq(S)
    BY KeepMembers, ConcatProperties
  <2>4. Keep(s \o u, K) = k \o l
    BY <1>2
  <2>5. Keep(Append(s \o u, e), K) = IF e \in K THEN Append(k \o l, e) ELSE k \o l
    <3> DEFINE both == s \o u
    <3>1. both \in Seq(S) /\ Keep(both, K) = k \o l
      BY <2>1, <2>4
    <3> HIDE DEF both
    <3>2. Keep(Append(both, e), K) = IF e \in K THEN Append(Keep(both, K), e) ELSE Keep(both, K)
      BY <3>1, KeepAppend
    <3>3. Keep(Append(both, e), K) = IF e \in K THEN Append(k \o l, e) ELSE k \o l
      BY <3>1, <3>2
    <3> QED  BY <3>3 DEF both
  <2>6. Keep(Append(u, e), K) = IF e \in K THEN Append(l, e) ELSE l
    BY KeepAppend
  <2> HIDE DEF k, l
  <2>7. k \o Append(l, e) = Append(k \o l, e)
    BY <2>3, AppendLast
  <2>8. Keep(s \o Append(u, e), K) = k \o Keep(Append(u, e), K)
    BY <2>2, <2>5, <2>6, <2>7
  <2> QED  BY <2>1, <2>8 DEF k
<1>3. Seq(S) \subseteq T
  <2> HIDE DEF T
  <2> QED  BY <1>1, <1>2, Growing
<1> QED  BY <1>3 DEF KeptOfBoth

\* One sequence more is joined behind the others.
LEMMA JoinEmpty == JoinOf(<<>>) = <<>>
<1>1. <<>> \in Seq({}) /\ Len(<<>>) = 0
  BY EmptySeq
<1> QED  BY <1>1, JoinedStep DEF JoinOf

LEMMA JoinAppend ==
  ASSUME NEW S, NEW s \in Seq(S), NEW e \in S
  PROVE  JoinOf(Append(s, e)) = JoinOf(s) \o e
<1> DEFINE t == Append(s, e)
           g(n) == JoinedUpto(t)[n]
           f(n) == JoinedUpto(s)[n]
           T == {n \in Nat : n <= Len(s) => g(n) = f(n)}
<1>1. /\ t \in Seq(S) /\ Len(t) = Len(s) + 1 /\ Len(s) \in Nat
      /\ \A i \in 1..Len(s) : t[i] = s[i]
      /\ t[Len(s) + 1] = e
  BY AppendProperties, LenProperties
<1>2. /\ g(0) = <<>>
      /\ \A n \in 1..(Len(s) + 1) : g(n) = g(n - 1) \o t[n]
  <2> HIDE DEF t
  <2> QED  BY <1>1, JoinedStep
<1>9. f(0) = <<>> /\ \A n \in 1..Len(s) : f(n) = f(n - 1) \o s[n]
  BY JoinedStep
<1>8. JoinOf(t) = g(Len(s) + 1) /\ JoinOf(s) = f(Len(s))
  BY <1>1 DEF JoinOf
<1> HIDE DEF t, g, f
<1>3. 0 \in T
  BY <1>2, <1>9
<1>4. ASSUME NEW n \in Nat, n \in T PROVE n + 1 \in T
  <2> SUFFICES ASSUME n + 1 <= Len(s) PROVE g(n + 1) = f(n + 1)
    OBVIOUS
  <2>1. n + 1 \in 1..Len(s) /\ (n + 1) - 1 = n /\ t[n + 1] = s[n + 1]
    BY <1>1
  <2>2. g(n + 1) = g(n) \o s[n + 1]
    <3>1. n + 1 \in 1..(Len(s) + 1)
      BY <1>1, <2>1
    <3>2. g(n + 1) = g((n + 1) - 1) \o t[n + 1]
      BY ONLY <1>2, <3>1
    <3> QED  BY ONLY <2>1, <3>2
  <2>3. f(n + 1) = f(n) \o s[n + 1]
    <3>1. f(n + 1) = f((n + 1) - 1) \o s[n + 1]
      BY ONLY <1>9, <2>1
    <3> QED  BY ONLY <2>1, <3>1
  <2>4. g(n) = f(n)
    BY <1>1, <1>4
  <2> QED  BY <2>2, <2>3, <2>4
<1>5. Nat \subseteq T
  <2> HIDE DEF T
  <2> QED  BY <1>3, <1>4, Counting
<1>6. g(Len(s)) = f(Len(s))
  BY <1>1, <1>5
<1>7. g(Len(s) + 1) = g(Len(s)) \o e
  BY <1>1, <1>2
<1> QED  BY <1>6, <1>7, <1>8 DEF t

\* What is joined of one list of sequences behind another.
LEMMA JoinConcat ==
  ASSUME NEW X, NEW a \in Seq(Seq(X)), NEW b \in Seq(Seq(X))
  PROVE  JoinOf(a \o b) = JoinOf(a) \o JoinOf(b)
<1> DEFINE Holds(u) == JoinOf(a \o u) = JoinOf(a) \o JoinOf(u)
           T == {u \in Seq(Seq(X)) : Holds(u)}
<1>1. <<>> \in T
  <2>1. <<>> \in Seq(Seq(X)) /\ a \o <<>> = a
    BY EmptySeq, ConcatEmptySeq
  <2>2. JoinOf(a) \o <<>> = JoinOf(a)
    BY JoinedLength, ConcatEmptySeq
  <2> QED  BY <2>1, <2>2, JoinEmpty
<1>2. ASSUME NEW u \in Seq(Seq(X)), NEW e \in Seq(X), u \in T PROVE Append(u, e) \in T
  <2> DEFINE k == JoinOf(a)
             l == JoinOf(u)
  <2>1. Append(u, e) \in Seq(Seq(X)) /\ a \o u \in Seq(Seq(X))
    BY AppendProperties, ConcatProperties
  <2>2. a \o Append(u, e) = Append(a \o u, e)
    BY AppendLast
  <2>3. k \in Seq(X) /\ l \in Seq(X)
    BY JoinedLength
  <2>4. JoinOf(a \o u) = k \o l
    BY <1>2
  <2>5. JoinOf(Append(a \o u, e)) = (k \o l) \o e
    <3> DEFINE both == a \o u
    <3>1. both \in Seq(Seq(X)) /\ JoinOf(both) = k \o l
      BY <2>1, <2>4
    <3> HIDE DEF both
    <3>2. JoinOf(Append(both, e)) = JoinOf(both) \o e
      BY <3>1, JoinAppend
    <3> QED  BY <3>1, <3>2 DEF both
  <2>6. JoinOf(Append(u, e)) = l \o e
    BY JoinAppend
  <2> HIDE DEF k, l
  <2>7. (k \o l) \o e = k \o (l \o e)
    BY <2>3, ConcatAssociative
  <2>8. JoinOf(a \o Append(u, e)) = k \o JoinOf(Append(u, e))
    BY <2>2, <2>5, <2>6, <2>7
  <2> QED  BY <2>1, <2>8 DEF k
<1>3. Seq(Seq(X)) \subseteq T
  <2> HIDE DEF T
  <2> QED  BY <1>1, <1>2, Growing
<1> QED  BY <1>3

\* Sequences of which a filter keeps the same, one by one, do so together.
LEMMA KeepEach ==
  ASSUME NEW X, NEW K, NEW ss \in Seq(Seq(X)), NEW us \in Seq(Seq(X)), Len(ss) = Len(us),
         \A n \in 1..Len(us) : Keep(ss[n], K) = Keep(us[n], K)
  PROVE  Keep(JoinOf(ss), K) = Keep(JoinOf(us), K)
<1> DEFINE s(n) == JoinedUpto(ss)[n]
           u(n) == JoinedUpto(us)[n]
           Holds(n) == s(n) \in Seq(X) /\ u(n) \in Seq(X) /\ Keep(s(n), K) = Keep(u(n), K)
           T == {n \in Nat : n <= Len(us) => Holds(n)}
<1>1. /\ s(0) = <<>> /\ u(0) = <<>>
      /\ \A n \in 1..Len(us) : s(n) = s(n - 1) \o ss[n] /\ u(n) = u(n - 1) \o us[n]
  BY JoinedStep
<1>2. Len(us) \in Nat /\ \A n \in 1..Len(us) : ss[n] \in Seq(X) /\ us[n] \in Seq(X)
  BY LenProperties, ElementOfSeq
<1>3. s(Len(us)) = JoinOf(ss) /\ u(Len(us)) = JoinOf(us)
  BY DEF JoinOf
<1> HIDE DEF s, u
<1>4. 0 \in T
  BY <1>1, EmptySeq
<1>5. ASSUME NEW n \in Nat, n \in T PROVE n + 1 \in T
  <2> SUFFICES ASSUME n + 1 <= Len(us) PROVE Holds(n + 1)
    OBVIOUS
  <2>1. n + 1 \in 1..Len(us) /\ (n + 1) - 1 = n /\ Holds(n)
    <3> DEFINE L == Len(us)
    <3>0. L \in Nat /\ n + 1 <= L
      BY <1>2
    <3> HIDE DEF L
    <3>3. n <= L /\ n + 1 \in 1..L /\ (n + 1) - 1 = n
      BY <3>0
    <3>1. n <= Len(us) /\ n + 1 \in 1..Len(us) /\ (n + 1) - 1 = n
      BY <3>3 DEF L
    <3>2. n <= Len(us) => Holds(n)
      BY <1>5
    <3> HIDE DEF Holds
    <3> QED  BY <3>1, <3>2
  <2>2. s(n + 1) = s(n) \o ss[n + 1] /\ u(n + 1) = u(n) \o us[n + 1]
    BY <1>1, <2>1
  <2>3. s(n) \o ss[n + 1] \in Seq(X) /\ u(n) \o us[n + 1] \in Seq(X)
    BY <1>2, <2>1, ConcatProperties
  <2>6. s(n) \in Seq(X) /\ u(n) \in Seq(X) /\ ss[n + 1] \in Seq(X) /\ us[n + 1] \in Seq(X)
    BY <1>2, <2>1
  <2>4. /\ Keep(s(n) \o ss[n + 1], K) = Keep(s(n), K) \o Keep(ss[n + 1], K)
        /\ Keep(u(n) \o us[n + 1], K) = Keep(u(n), K) \o Keep(us[n + 1], K)
    <3>1. KeptOfBoth(s(n), ss[n + 1], K) /\ KeptOfBoth(u(n), us[n + 1], K)
      BY <2>6, KeepConcat
    <3> QED  BY <3>1 DEF KeptOfBoth
  <2>5. Keep(ss[n + 1], K) = Keep(us[n + 1], K)
    BY <2>1
  <2> QED  BY <2>1, <2>2, <2>3, <2>4, <2>5
<1>6. Holds(Len(us))
  <2>1. Nat \subseteq T
    <3> HIDE DEF T
    <3> QED  BY <1>4, <1>5, Counting
  <2> HIDE DEF Holds
  <2> QED  BY <1>2, <2>1
<1> QED  BY <1>3, <1>6

\* The same where each sequence was cut up, and the cuts are joined.
LEMMA KeepCut ==
  ASSUME NEW X, NEW K, NEW css \in Seq(Seq(Seq(X))), NEW us \in Seq(Seq(X)), Len(css) = Len(us),
         \A n \in 1..Len(us) : Keep(JoinOf(css[n]), K) = Keep(us[n], K)
  PROVE  Keep(JoinOf(JoinOf(css)), K) = Keep(JoinOf(us), K)
<1> DEFINE c(n) == JoinedUpto(css)[n]
           u(n) == JoinedUpto(us)[n]
           Holds(n) == c(n) \in Seq(Seq(X)) /\ u(n) \in Seq(X) /\ Keep(JoinOf(c(n)), K) = Keep(u(n), K)
           T == {n \in Nat : n <= Len(us) => Holds(n)}
<1>1. /\ c(0) = <<>> /\ u(0) = <<>>
      /\ \A n \in 1..Len(us) : c(n) = c(n - 1) \o css[n] /\ u(n) = u(n - 1) \o us[n]
  BY JoinedStep
<1>2. Len(us) \in Nat /\ \A n \in 1..Len(us) : css[n] \in Seq(Seq(X)) /\ us[n] \in Seq(X)
  BY LenProperties, ElementOfSeq
<1>3. c(Len(us)) = JoinOf(css) /\ u(Len(us)) = JoinOf(us)
  BY DEF JoinOf
<1> HIDE DEF c, u
<1>4. 0 \in T
  BY <1>1, EmptySeq, JoinEmpty
<1>5. ASSUME NEW n \in Nat, n \in T PROVE n + 1 \in T
  <2> SUFFICES ASSUME n + 1 <= Len(us) PROVE Holds(n + 1)
    OBVIOUS
  <2>1. n + 1 \in 1..Len(us) /\ (n + 1) - 1 = n /\ Holds(n)
    <3> DEFINE L == Len(us)
    <3>0. L \in Nat /\ n + 1 <= L
      BY <1>2
    <3> HIDE DEF L
    <3>3. n <= L /\ n + 1 \in 1..L /\ (n + 1) - 1 = n
      BY <3>0
    <3>1. n <= Len(us) /\ n + 1 \in 1..Len(us) /\ (n + 1) - 1 = n
      BY <3>3 DEF L
    <3>2. n <= Len(us) => Holds(n)
      BY <1>5
    <3> HIDE DEF Holds
    <3> QED  BY <3>1, <3>2
  <2>2. c(n + 1) = c(n) \o css[n + 1] /\ u(n + 1) = u(n) \o us[n + 1]
    BY <1>1, <2>1
  <2>3. c(n) \o css[n + 1] \in Seq(Seq(X)) /\ u(n) \o us[n + 1] \in Seq(X)
    BY <1>2, <2>1, ConcatProperties
  <2>4. JoinOf(c(n)) \in Seq(X) /\ JoinOf(css[n + 1]) \in Seq(X)
    BY <1>2, <2>1, JoinedLength
  <2>5. JoinOf(c(n) \o css[n + 1]) = JoinOf(c(n)) \o JoinOf(css[n + 1])
    BY <1>2, <2>1, JoinConcat
  <2>6. Keep(JoinOf(c(n)) \o JoinOf(css[n + 1]), K) = Keep(JoinOf(c(n)), K) \o Keep(JoinOf(css[n + 1]), K)
    <3>1. KeptOfBoth(JoinOf(c(n)), JoinOf(css[n + 1]), K)
      BY <2>4, KeepConcat
    <3> QED  BY <3>1 DEF KeptOfBoth
  <2>7. Keep(u(n) \o us[n + 1], K) = Keep(u(n), K) \o Keep(us[n + 1], K)
    <3>1. u(n) \in Seq(X) /\ us[n + 1] \in Seq(X)
      BY <1>2, <2>1
    <3>2. KeptOfBoth(u(n), us[n + 1], K)
      BY <3>1, KeepConcat
    <3> QED  BY <3>2 DEF KeptOfBoth
  <2>8. Keep(JoinOf(css[n + 1]), K) = Keep(us[n + 1], K)
    BY <2>1
  <2> QED  BY <2>1, <2>2, <2>3, <2>5, <2>6, <2>7, <2>8
<1>6. Holds(Len(us))
  <2>1. Nat \subseteq T
    <3> HIDE DEF T
    <3> QED  BY <1>4, <1>5, Counting
  <2> HIDE DEF Holds
  <2> QED  BY <1>2, <2>1
<1> QED  BY <1>3, <1>6

\* To drop sequences that are empty changes nothing of what is joined.
LEMMA JoinKept ==
  ASSUME NEW X, NEW ss \in Seq(Seq(X)), NEW K, \A e \in Members(ss) : e \in K \/ e = <<>>
  PROVE  JoinOf(Keep(ss, K)) = JoinOf(ss)
<1> DEFINE Holds(u) == (\A e \in Members(u) : e \in K \/ e = <<>>) => JoinOf(Keep(u, K)) = JoinOf(u)
           T == {u \in Seq(Seq(X)) : Holds(u)}
<1>1. <<>> \in T
  BY EmptySeq, KeepEmpty
<1>2. ASSUME NEW u \in Seq(Seq(X)), NEW e \in Seq(X), u \in T PROVE Append(u, e) \in T
  <2>1. Append(u, e) \in Seq(Seq(X)) /\ Members(Append(u, e)) = Members(u) \cup {e}
    BY AppendProperties, MembersAppend
  <2> SUFFICES ASSUME \A x \in Members(Append(u, e)) : x \in K \/ x = <<>>
               PROVE  JoinOf(Keep(Append(u, e), K)) = JoinOf(Append(u, e))
    BY <2>1
  <2>2. JoinOf(Keep(u, K)) = JoinOf(u) /\ (e \in K \/ e = <<>>)
    BY <1>2, <2>1
  <2>3. JoinOf(Append(u, e)) = JoinOf(u) \o e /\ JoinOf(u) \in Seq(X)
    BY JoinAppend, JoinedLength
  <2>4. CASE e \in K
    <3>1. Keep(Append(u, e), K) = Append(Keep(u, K), e)
      BY <2>4, KeepAppend
    <3>2. JoinOf(Append(Keep(u, K), e)) = JoinOf(Keep(u, K)) \o e
      <4>1. Keep(u, K) \in Seq(Seq(X))
        BY KeepMembers
      <4> QED  BY <4>1, JoinAppend
    <3> QED  BY <2>2, <2>3, <3>1, <3>2
  <2>5. CASE e \notin K
    <3>1. Keep(Append(u, e), K) = Keep(u, K)
      BY <2>5, KeepAppend
    <3>2. JoinOf(u) \o e = JoinOf(u)
      BY <2>2, <2>3, <2>5, ConcatEmptySeq
    <3> QED  BY <2>2, <2>3, <3>1, <3>2
  <2> QED  BY <2>4, <2>5
<1>3. Seq(Seq(X)) \subseteq T
  <2> HIDE DEF T
  <2> QED  BY <1>1, <1>2, Growing
<1> QED  BY <1>3

\* What is joined has the elements of what it was joined from.
LEMMA MembersConcat ==
  ASSUME NEW S, NEW s \in Seq(S), NEW t \in Seq(S)
  PROVE  Members(s \o t) = Members(s) \cup Members(t)
<1>1. Range(s \o t) = Range(s) \cup Range(t) /\ s \o t \in Seq(S)
  BY RangeConcatenation, ConcatProperties
<1> QED  BY <1>1, RangeEquality DEF Members

LEMMA JoinMembers ==
  ASSUME NEW X, NEW ss \in Seq(Seq(X))
  PROVE  Members(JoinOf(ss)) = UNION {Members(x) : x \in Members(ss)}
<1> DEFINE Holds(u) == Members(JoinOf(u)) = UNION {Members(x) : x \in Members(u)}
           T == {u \in Seq(Seq(X)) : Holds(u)}
<1>1. <<>> \in T
  BY EmptySeq, JoinEmpty, MembersEmpty
<1>2. ASSUME NEW u \in Seq(Seq(X)), NEW e \in Seq(X), u \in T PROVE Append(u, e) \in T
  <2>1. Append(u, e) \in Seq(Seq(X)) /\ Members(Append(u, e)) = Members(u) \cup {e}
    BY AppendProperties, MembersAppend
  <2>2. JoinOf(Append(u, e)) = JoinOf(u) \o e /\ JoinOf(u) \in Seq(X)
    BY JoinAppend, JoinedLength
  <2>3. Members(JoinOf(Append(u, e))) = Members(JoinOf(u)) \cup Members(e)
    BY <2>2, MembersConcat
  <2>4. Members(JoinOf(u)) = UNION {Members(x) : x \in Members(u)}
    BY <1>2
  <2>5. UNION {Members(x) : x \in Members(u) \cup {e}} = (UNION {Members(x) : x \in Members(u)}) \cup Members(e)
    OBVIOUS
  <2> QED  BY <2>1, <2>3, <2>4, <2>5
<1>3. Seq(Seq(X)) \subseteq T
  <2> HIDE DEF T
  <2> QED  BY <1>1, <1>2, Growing
<1> QED  BY <1>3
=============================================================================
