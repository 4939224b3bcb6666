----------------------------- MODULE DataFacts -----------------------------
(***************************************************************************)
(* Lemmas about the data several models are built from: lists without      *)
(* duplicates (the ready index, the pending requests), what push_back and  *)
(* remove(index) do to them, and sets of natural numbers.                  *)
(***************************************************************************)
EXTENDS Integers, Sequences, SequencesExt, SequenceTheorems, WellFoundedInduction, TLAPS

\* Every set of naturals has a least element: induction, for proofs that need it.
LEMMA LeastElement ==
    ASSUME NEW T \in SUBSET Nat, T # {}
    PROVE  \E n \in T : \A m \in T : n <= m
<1> DEFINE R == {pair \in Nat \X Nat : pair[1] < pair[2]}
<1>1. IsWellFoundedOn(R, Nat)
  BY NatLessThanWellFounded DEF OpToRel
<1>2. \A m, n \in Nat : m < n => <<m, n>> \in R
  OBVIOUS
<1> HIDE DEF R
<1>3. PICK n \in T : \A m \in T : ~(<<m, n>> \in R)
  BY <1>1, WFMin
<1>4. \A m \in T : n <= m
  <2> SUFFICES ASSUME NEW m \in T PROVE n <= m
    OBVIOUS
  <2>1. m \in Nat /\ n \in Nat /\ ~(m < n)
    BY <1>2, <1>3
  <2> QED
    BY <2>1
<1> QED
  BY <1>4

\* Removing one position keeps the other elements and their order.
LEMMA RemoveAtFacts ==
    ASSUME NEW S, NEW s \in Seq(S), NEW i \in 1..Len(s)
    PROVE  /\ RemoveAt(s, i) \in Seq(S)
           /\ Len(RemoveAt(s, i)) = Len(s) - 1
           /\ \A j \in 1..(Len(s) - 1) :
                RemoveAt(s, i)[j] = IF j < i THEN s[j] ELSE s[j + 1]
  <1> DEFINE front == SubSeq(s, 1, i - 1)
             back  == SubSeq(s, i + 1, Len(s))
  <1>1. /\ front \in Seq(S)
        /\ Len(front) = i - 1
        /\ \A j \in 1..(i - 1) : front[j] = s[j]
    <2>1. /\ \A j \in 1..(i - 1) : s[j] \in S
          /\ 1 \in Int /\ i - 1 \in Int
      OBVIOUS
    <2>2. /\ front \in Seq(S)
          /\ Len(front) = IF 1 <= i - 1 THEN (i - 1) - 1 + 1 ELSE 0
          /\ \A j \in 1..((i - 1) - 1 + 1) : front[j] = s[1 + j - 1]
      BY <2>1, SubSeqProperties
    <2> QED BY <2>2
  <1>2. /\ back \in Seq(S)
        /\ Len(back) = Len(s) - i
        /\ \A j \in 1..(Len(s) - i) : back[j] = s[i + j]
    <2>1. /\ \A j \in (i + 1)..Len(s) : s[j] \in S
          /\ i + 1 \in Int /\ Len(s) \in Int
      OBVIOUS
    <2>2. /\ back \in Seq(S)
          /\ Len(back) = IF i + 1 <= Len(s) THEN Len(s) - (i + 1) + 1 ELSE 0
          /\ \A j \in 1..(Len(s) - (i + 1) + 1) : back[j] = s[(i + 1) + j - 1]
      BY <2>1, SubSeqProperties
    <2> QED BY <2>2
  <1> HIDE DEF front, back
  <1>3. RemoveAt(s, i) = front \o back
    BY DEF RemoveAt, front, back
  <1>4. /\ front \o back \in Seq(S)
        /\ Len(front \o back) = Len(front) + Len(back)
        /\ \A j \in 1..(Len(front) + Len(back)) :
             (front \o back)[j] = IF j <= Len(front) THEN front[j] ELSE back[j - Len(front)]
    BY <1>1, <1>2, ConcatProperties
  <1> QED BY <1>1, <1>2, <1>3, <1>4

\* Appending a new element keeps a sequence free of repetitions and adds it.
LEMMA AppendSet ==
    ASSUME NEW S, NEW s \in Seq(S), NEW e \in S, IsInjective(s), e \notin ToSet(s)
    PROVE  /\ Append(s, e) \in Seq(S)
           /\ IsInjective(Append(s, e))
           /\ ToSet(Append(s, e)) = ToSet(s) \cup {e}
  BY DEF IsInjective, ToSet

\* Removing a position takes exactly that element away.
LEMMA RemoveAtSet ==
    ASSUME NEW S, NEW s \in Seq(S), NEW i \in 1..Len(s), IsInjective(s)
    PROVE  /\ RemoveAt(s, i) \in Seq(S)
           /\ IsInjective(RemoveAt(s, i))
           /\ ToSet(RemoveAt(s, i)) = ToSet(s) \ {s[i]}
  <1> DEFINE r == RemoveAt(s, i)
  <1>1. /\ r \in Seq(S)
        /\ Len(r) = Len(s) - 1
        /\ \A j \in 1..(Len(s) - 1) : r[j] = IF j < i THEN s[j] ELSE s[j + 1]
    BY RemoveAtFacts
  <1> HIDE DEF r
  <1>2. IsInjective(r)
    <2>1. SUFFICES ASSUME NEW a \in 1..Len(r), NEW b \in 1..Len(r), r[a] = r[b]
                   PROVE  a = b
      BY <1>1 DEF IsInjective
    <2>2. PICK k \in 1..Len(s) : r[a] = s[k] /\ k = IF a < i THEN a ELSE a + 1
      BY <1>1
    <2>3. PICK l \in 1..Len(s) : r[b] = s[l] /\ l = IF b < i THEN b ELSE b + 1
      BY <1>1
    <2>4. k = l
      <3>1. s[k] = s[l]
        BY <2>1, <2>2, <2>3, Zenon
      <3>2. k \in DOMAIN s /\ l \in DOMAIN s
        OBVIOUS
      <3> QED BY <3>1, <3>2, Zenon DEF IsInjective
    <2>5. a \in Int /\ b \in Int /\ i \in Int
      BY <1>1
    <2>6. (IF a < i THEN a ELSE a + 1) = (IF b < i THEN b ELSE b + 1)
      BY <2>2, <2>3, <2>4, Zenon
    <2> QED BY <2>5, <2>6
  <1>3. \A x \in ToSet(r) : x \in ToSet(s) \ {s[i]}
    BY <1>1 DEF ToSet, IsInjective
  <1>4. \A x \in ToSet(s) \ {s[i]} : x \in ToSet(r)
    <2> TAKE x \in ToSet(s) \ {s[i]}
    <2>1. PICK k \in 1..Len(s) : s[k] = x /\ k # i
      BY DEF ToSet
    <2>2. CASE k < i
      BY <1>1, <2>1, <2>2 DEF ToSet
    <2>3. CASE k > i
      <3>1. k - 1 \in 1..Len(r) /\ r[k - 1] = x
        BY <1>1, <2>1, <2>3
      <3> QED BY <3>1, <1>1 DEF ToSet
    <2> QED BY <2>1, <2>2, <2>3
  <1> QED BY <1>1, <1>2, <1>3, <1>4 DEF r

\* f filters s by position, up to last: f[i] holds the elements at the positions of K up to i.
IsFilter(f, s, K, last) ==
    f = [i \in 0 .. last |-> IF i = 0 THEN <<>>
                             ELSE IF i \in K THEN Append(f[i - 1], s[i]) ELSE f[i - 1]]

\* A filter written as a recursive function exists, up to every position.
LEMMA FilterExists ==
    ASSUME NEW s, NEW K, NEW last \in Nat
    PROVE  \E f : IsFilter(f, s, K, last)
<1> DEFINE T == {k \in Nat : ~ \E f : IsFilter(f, s, K, k)}
<1> SUFFICES ASSUME T # {} PROVE FALSE
  OBVIOUS
<1>1. PICK k \in T : \A m \in T : k <= m
  BY LeastElement
<1>2. CASE k = 0
  <2> DEFINE f == [i \in 0 .. 0 |-> <<>>]
  <2>1. IsFilter(f, s, K, 0)
    BY DEF IsFilter
  <2> QED
    BY <1>2, <2>1
<1>3. CASE k # 0
  <2>1. k \in Nat /\ k - 1 \in Nat /\ k - 1 \notin T
    BY <1>1, <1>3
  <2>2. PICK f : IsFilter(f, s, K, k - 1)
    BY <2>1
  <2> DEFINE g == [i \in 0 .. k |-> IF i = 0 THEN <<>>
                                    ELSE IF i \in K THEN Append(f[i - 1], s[i]) ELSE f[i - 1]]
  <2>3. \A i \in 0 .. k : i # 0 => g[i - 1] = f[i - 1]
    <3> SUFFICES ASSUME NEW i \in 0 .. k, i # 0 PROVE g[i - 1] = f[i - 1]
      OBVIOUS
    <3>1. i - 1 \in 0 .. k - 1 /\ i - 1 \in 0 .. k
      BY <2>1
    <3>2. f[i - 1] = IF i - 1 = 0 THEN <<>>
                     ELSE IF i - 1 \in K THEN Append(f[(i - 1) - 1], s[i - 1])
                     ELSE f[(i - 1) - 1]
      BY <2>2, <3>1 DEF IsFilter
    <3> QED
      BY <3>1, <3>2
  <2>4. IsFilter(g, s, K, k)
    BY <2>3 DEF IsFilter
  <2> QED
    BY <1>1, <2>4
<1> QED
  BY <1>2, <1>3

\* t holds elements of s from positions of K up to last, no position twice.
PickedFrom(t, s, K, last) ==
    \E pos \in [1 .. Len(t) -> K \cap 1 .. last] :
        /\ \A i, j \in 1 .. Len(t) : pos[i] = pos[j] => i = j
        /\ \A i \in 1 .. Len(t) : t[i] = s[pos[i]]

\* From no position nothing is picked.
LEMMA PickedNone ==
    ASSUME NEW s, NEW K, NEW t, Len(t) = 0
    PROVE  PickedFrom(t, s, K, 0)
<1> DEFINE pos == [i \in 1 .. 0 |-> 0]
<1>1. pos \in [1 .. 0 -> K \cap 1 .. 0]
  OBVIOUS
<1>2. \A i \in 1 .. 0 : FALSE
  OBVIOUS
<1> HIDE DEF pos
<1> QED
  BY <1>1, <1>2, Zenon DEF PickedFrom

\* One more position: picked when it is wanted, passed over otherwise.
LEMMA PickedMore ==
    ASSUME NEW S, NEW r \in Seq(S), NEW s, NEW K, NEW k \in Nat, k # 0, s[k] \in S,
           PickedFrom(r, s, K, k - 1)
    PROVE  PickedFrom(r, s, K, k) /\ (k \in K => PickedFrom(Append(r, s[k]), s, K, k))
<1>0. PICK n \in Nat : n = Len(r)
  OBVIOUS
<1>1. PICK pos \in [1 .. n -> K \cap 1 .. k - 1] :
         /\ \A i, j \in 1 .. n : pos[i] = pos[j] => i = j
         /\ \A i \in 1 .. n : r[i] = s[pos[i]]
  BY <1>0 DEF PickedFrom
<1>2. \A i \in 1 .. n : pos[i] \in K /\ pos[i] \in 1 .. k - 1
  BY <1>1
<1>3. PickedFrom(r, s, K, k)
  <2>1. pos \in [1 .. n -> K \cap 1 .. k]
    BY <1>1, <1>2
  <2> QED
    BY <1>0, <1>1, <2>1 DEF PickedFrom
<1>4. ASSUME k \in K PROVE PickedFrom(Append(r, s[k]), s, K, k)
  <2>0. PICK x \in S : x = s[k]
    OBVIOUS
  <2>1. PICK t : /\ t = Append(r, s[k]) /\ Len(t) = n + 1 /\ t[n + 1] = s[k]
                 /\ \A i \in 1 .. n : t[i] = r[i]
    <3>1. /\ Len(Append(r, x)) = n + 1 /\ Append(r, x)[n + 1] = x
          /\ \A i \in 1 .. n : Append(r, x)[i] = r[i]
      BY <1>0
    <3> QED
      BY <2>0, <3>1, Zenon
  <2> DEFINE at == [i \in 1 .. n + 1 |-> IF i = n + 1 THEN k ELSE pos[i]]
  <2>2. at \in [1 .. n + 1 -> K \cap 1 .. k]
    BY <1>2, <1>4
  <2>3. \A i, j \in 1 .. n + 1 : at[i] = at[j] => i = j
    BY <1>1, <1>2
  <2>4. \A i \in 1 .. n + 1 : t[i] = s[at[i]]
    <3> TAKE i \in 1 .. n + 1
    <3>1. CASE i = n + 1
      <4>1. at[i] = k
        BY <3>1
      <4> QED
        BY <2>1, <3>1, <4>1
    <3>2. CASE i # n + 1
      <4>1. i \in 1 .. n /\ at[i] = pos[i]
        BY <3>2
      <4> HIDE DEF at
      <4> QED
        BY <1>1, <2>1, <4>1, Zenon
    <3> QED
      BY <3>1, <3>2
  <2> HIDE DEF at
  <2>5. PickedFrom(t, s, K, k)
    <3>1. PICK q : q = at
      OBVIOUS
    <3>2. /\ q \in [1 .. Len(t) -> K \cap 1 .. k]
          /\ \A i, j \in 1 .. Len(t) : q[i] = q[j] => i = j
          /\ \A i \in 1 .. Len(t) : t[i] = s[q[i]]
      BY <2>1, <2>2, <2>3, <2>4, <3>1
    <3> QED
      BY <3>2 DEF PickedFrom
  <2> QED
    BY <2>1, <2>5
<1> QED
  BY <1>3, <1>4

\* What a filter returns is a sequence of elements from the kept positions.
LEMMA FilterPicks ==
    ASSUME NEW S, NEW s \in Seq(S), NEW K, NEW f, IsFilter(f, s, K, Len(s))
    PROVE  f[Len(s)] \in Seq(S) /\ PickedFrom(f[Len(s)], s, K, Len(s))
<1>0. PICK n \in Nat : n = Len(s) /\ IsFilter(f, s, K, n) /\ \A i \in 1 .. n : s[i] \in S
  OBVIOUS
<1> DEFINE Good(k) == f[k] \in Seq(S) /\ PickedFrom(f[k], s, K, k)
           T == {k \in 0 .. n : ~ Good(k)}
<1>1. ASSUME T # {} PROVE FALSE
  <2>1. PICK k \in T : \A m \in T : k <= m
    <3>1. T \in SUBSET Nat
      OBVIOUS
    <3> HIDE DEF T
    <3> QED
      BY <1>1, <3>1, LeastElement
  <2>2. k \in 0 .. n /\ ~ Good(k)
    OBVIOUS
  <2>3. CASE k = 0
    <3>1. f[0] = <<>>
      BY <1>0 DEF IsFilter
    <3>2. <<>> \in Seq(S) /\ Len(<<>>) = 0
      OBVIOUS
    <3> QED
      BY <2>2, <2>3, <3>1, <3>2, PickedNone
  <2>4. CASE k # 0
    <3>1. k \in 1 .. n /\ k \in Nat /\ k - 1 \in 0 .. n /\ k - 1 \notin T
      BY <2>1, <2>2, <2>4
    <3>2. Good(k - 1) /\ s[k] \in S
      BY <1>0, <3>1
    <3> HIDE DEF T
    <3>3. PICK r \in Seq(S) : r = f[k - 1]
      BY <3>2
    <3>4. f[k] = IF k \in K THEN Append(r, s[k]) ELSE r
      <4>1. k \in 0 .. n
        BY <3>1
      <4>2. f[k] = IF k = 0 THEN <<>>
                   ELSE IF k \in K THEN Append(f[k - 1], s[k]) ELSE f[k - 1]
        BY <1>0, <4>1, Zenon DEF IsFilter
      <4> QED
        BY <2>4, <3>3, <4>2, Zenon
    <3>5. PickedFrom(r, s, K, k) /\ (k \in K => PickedFrom(Append(r, s[k]), s, K, k))
      BY <2>4, <3>1, <3>2, <3>3, PickedMore
    <3>6. Append(r, s[k]) \in Seq(S)
      BY <3>2
    <3>7. Good(k)
      BY <3>3, <3>4, <3>5, <3>6
    <3> QED
      BY <2>2, <3>7
  <2> QED
    BY <2>3, <2>4
<1>2. Good(n)
  BY <1>1
<1> QED
  BY <1>0, <1>2

=============================================================================
