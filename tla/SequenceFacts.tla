---------------------------- MODULE SequenceFacts ----------------------------
(***************************************************************************)
(* Facts about sequences, for the proofs: what std::vector::erase and      *)
(* push_back do, how sequences are put together (FlattenSeq) and cut, and  *)
(* induction over the natural numbers.                                     *)
(***************************************************************************)
EXTENDS Integers, SequencesExt, SequenceTheorems, WellFoundedInduction, TLAPS

\* Erasing an element moves those behind it up by one.
LEMMA Erasing ==
  ASSUME NEW S, NEW s \in Seq(S), NEW n \in 1 .. Len(s)
  PROVE  /\ RemoveAt(s, n) \in Seq(S)
         /\ Len(RemoveAt(s, n)) = Len(s) - 1
         /\ \A k \in 1 .. Len(s) - 1 :
              RemoveAt(s, n)[k] = IF k < n THEN s[k] ELSE s[k + 1]
<1> DEFINE front == SubSeq(s, 1, n - 1)
           back == SubSeq(s, n + 1, Len(s))
<1>1. front \in Seq(S) /\ Len(front) = n - 1 /\ \A k \in 1 .. n - 1 : front[k] = s[k]
  OBVIOUS
<1>2. /\ back \in Seq(S) /\ Len(back) = Len(s) - n
      /\ \A k \in 1 .. Len(s) - n : back[k] = s[k + n]
  OBVIOUS
<1>3. RemoveAt(s, n) = front \o back
  BY DEF RemoveAt
<1>4. /\ front \o back \in Seq(S) /\ Len(front \o back) = Len(s) - 1
      /\ \A k \in 1 .. Len(s) - 1 :
           (front \o back)[k] = IF k <= n - 1 THEN front[k] ELSE back[k - (n - 1)]
  <2> HIDE DEF front, back
  <2>1. /\ front \o back \in Seq(S) /\ Len(front \o back) = Len(front) + Len(back)
        /\ \A k \in 1 .. Len(front) + Len(back) :
             (front \o back)[k] = IF k <= Len(front) THEN front[k] ELSE back[k - Len(front)]
    BY <1>1, <1>2, ConcatProperties
  <2>2. Len(front) = n - 1 /\ Len(front) + Len(back) = Len(s) - 1
    BY <1>1, <1>2
  <2> QED BY <2>1, <2>2
<1> HIDE DEF front, back
<1>5. \A k \in 1 .. Len(s) - 1 : k >= n => back[k - (n - 1)] = s[k + 1]
  <2> SUFFICES ASSUME NEW k \in 1 .. Len(s) - 1, k >= n
               PROVE  back[k - (n - 1)] = s[k + 1]
    OBVIOUS
  <2>1. k - (n - 1) \in 1 .. Len(s) - n /\ (k - (n - 1)) + n = k + 1
    OBVIOUS
  <2> QED BY <1>2, <2>1
<1> QED BY <1>1, <1>3, <1>4, <1>5

\* A set of natural numbers has a least one.
LEMMA LeastNumber ==
  ASSUME NEW I \in SUBSET Nat, I # {}
  PROVE  Min(I) \in I /\ \A k \in I : Min(I) <= k
<1> DEFINE less == {p \in Nat \X Nat : p[1] < p[2]}
<1>1. IsWellFoundedOn(less, Nat)
  BY NatLessThanWellFounded DEF OpToRel
<1>2. \E x \in I : \A y \in I : <<y, x>> \notin less
  <2> HIDE DEF less
  <2> QED BY <1>1, WFMin
<1>3. \E x \in I : \A y \in I : x <= y
  <2>1. \A x, y \in Nat : <<y, x>> \notin less => x <= y
    OBVIOUS
  <2> HIDE DEF less
  <2> QED BY <1>2, <2>1
<1> QED BY <1>3 DEF Min

\* A set of numbers up to n has a greatest one.
LEMMA GreatestNumber ==
  ASSUME NEW n \in Nat, NEW I \in SUBSET (0 .. n), I # {}
  PROVE  \E m \in I : \A k \in I : k <= m
<1> DEFINE J == {n - k : k \in I}
<1>1. J \in SUBSET Nat /\ J # {}
  <2>1. PICK k \in I : TRUE
    OBVIOUS
  <2>2. n - k \in J
    OBVIOUS
  <2>3. \A q \in I : n - q \in Nat
    OBVIOUS
  <2>4. J \in SUBSET Nat
    BY <2>3
  <2> QED BY <2>2, <2>4
<1>2. Min(J) \in J /\ \A k \in J : Min(J) <= k
  <2> HIDE DEF J
  <2> QED BY <1>1, LeastNumber
<1>3. PICK m \in I : Min(J) = n - m
  <2> DEFINE q == Min(J)
  <2>1. q \in {n - k : k \in I}
    BY <1>2
  <2> HIDE DEF q
  <2>2. \E k \in I : q = n - k
    BY <2>1
  <2> QED BY <2>2 DEF q
<1>4. ASSUME NEW k \in I PROVE k <= m
  <2>1. n - k \in J
    OBVIOUS
  <2>2. Min(J) <= n - k
    BY <1>2, <2>1
  <2>3. n - m <= n - k /\ n \in Int /\ m \in Int /\ k \in Int
    BY <1>3, <2>2
  <2> QED BY <2>3
<1> QED BY <1>4

\* The first place where a test holds that holds at one place only.
LEMMA OnlyPlace ==
  ASSUME NEW n \in Int
  PROVE  Min({n}) = n
BY DEF Min

\* Erasing the first occurrence of an element that occurs once.
LEMMA ErasingElement ==
  ASSUME NEW S, NEW s \in Seq(S), NEW n \in 1 .. Len(s),
         \A k \in 1 .. Len(s) : s[k] = s[n] => k = n
  PROVE  RemoveFirst(s, s[n]) = RemoveAt(s, n)
<1>1. {k \in 1 .. Len(s) : s[k] = s[n]} = {n}
  OBVIOUS
<1>2. SelectInSeq(s, LAMBDA v : v = s[n]) = n
  BY <1>1, OnlyPlace DEF SelectInSeq
<1> QED BY <1>2 DEF RemoveFirst

\* Erasing the first occurrence, or nothing, leaves elements of the same set.
LEMMA ErasingType ==
  ASSUME NEW S, NEW s \in Seq(S), NEW e
  PROVE  RemoveFirst(s, e) \in Seq(S)
<1> DEFINE I == {k \in 1 .. Len(s) : s[k] = e}
<1>1. CASE I = {}
  BY <1>1 DEF RemoveFirst
<1>2. CASE I # {}
  <2>1. Min(I) \in I
    <3>1. I \in SUBSET Nat
      OBVIOUS
    <3> HIDE DEF I
    <3> QED BY <1>2, <3>1, LeastNumber
  <2>2. SelectInSeq(s, LAMBDA v : v = e) = Min(I)
    BY <1>2 DEF SelectInSeq
  <2>3. RemoveFirst(s, e) = RemoveAt(s, Min(I))
    BY <1>2, <2>2 DEF RemoveFirst
  <2> QED BY <2>1, <2>3, Erasing
<1> QED BY <1>1, <1>2

\* A function over the indices of a sequence is a sequence of that length.
LEMMA Overwriting ==
  ASSUME NEW S, NEW s, NEW R, s \in Seq(R), NEW t \in [DOMAIN s -> S]
  PROVE  t \in Seq(S) /\ Len(t) = Len(s)
<1>1. Len(s) \in Nat /\ DOMAIN s = 1 .. Len(s)
  BY LenProperties
<1>2. t \in Seq(S)
  BY <1>1, SeqDef
<1>3. DOMAIN t = 1 .. Len(t) /\ Len(t) \in Nat
  BY <1>2, LenProperties
<1> QED BY <1>1, <1>2, <1>3

-----------------------------------------------------------------------------
(* Beginnings and ends. *)

\* The places of what two sequences become.
LEMMA Joining ==
  ASSUME NEW S, NEW s \in Seq(S), NEW t \in Seq(S)
  PROVE  /\ s \o t \in Seq(S) /\ Len(s \o t) = Len(s) + Len(t)
         /\ \A k \in 1 .. Len(s) : (s \o t)[k] = s[k]
         /\ \A k \in 1 .. Len(t) : (s \o t)[Len(s) + k] = t[k]
<1>1. /\ s \o t \in Seq(S) /\ Len(s \o t) = Len(s) + Len(t)
      /\ \A k \in 1 .. Len(s) + Len(t) :
           (s \o t)[k] = IF k <= Len(s) THEN s[k] ELSE t[k - Len(s)]
  BY ONLY s \in Seq(S), t \in Seq(S), ConcatProperties, SMT
<1>2. Len(s) \in Nat /\ Len(t) \in Nat
  BY LenProperties
<1> QED BY <1>1, <1>2

\* The same, in a form that is cheap to cite.
Joins(S, s, t) ==
  /\ s \o t \in Seq(S) /\ Len(s \o t) = Len(s) + Len(t)
  /\ \A k \in 1 .. Len(s) : (s \o t)[k] = s[k]
  /\ \A k \in 1 .. Len(t) : (s \o t)[Len(s) + k] = t[k]

\* Any two sequences join.
LEMMA JoinsAll ==
  ASSUME NEW S, NEW s \in Seq(S), NEW t \in Seq(S)
  PROVE  Joins(S, s, t)
BY Joining DEF Joins

\* Concatenation is associative, in a form that is cheap to cite.
Groups(s, t, u) == (s \o t) \o u = s \o (t \o u)

\* Joining is associative. Groups hides the terms, which the SMT backend would
\* reorder.
LEMMA Grouping ==
  ASSUME NEW S, NEW s \in Seq(S), NEW t \in Seq(S), NEW u \in Seq(S)
  PROVE  Groups(s, t, u)
BY ConcatAssociative DEF Groups

\* A beginning and an end are one sequence.
LEMMA Parting ==
  ASSUME NEW S, NEW s \in Seq(S), NEW n \in 0 .. Len(s)
  PROVE  /\ SubSeq(s, 1, n) \in Seq(S) /\ SubSeq(s, n + 1, Len(s)) \in Seq(S)
         /\ Len(SubSeq(s, 1, n)) = n /\ Len(SubSeq(s, n + 1, Len(s))) = Len(s) - n
         /\ s = SubSeq(s, 1, n) \o SubSeq(s, n + 1, Len(s))
<1> DEFINE x == SubSeq(s, 1, n)
           y == SubSeq(s, n + 1, Len(s))
<1>1. x \in Seq(S) /\ Len(x) = n /\ \A k \in 1 .. n : x[k] = s[k]
  OBVIOUS
<1>2. y \in Seq(S) /\ Len(y) = Len(s) - n /\ \A k \in 1 .. Len(s) - n : y[k] = s[k + n]
  OBVIOUS
<1> HIDE DEF x, y
<1>3. /\ x \o y \in Seq(S) /\ Len(x \o y) = Len(s)
      /\ \A k \in 1 .. Len(s) : (x \o y)[k] = IF k <= n THEN x[k] ELSE y[k - n]
  <2>1. /\ x \o y \in Seq(S) /\ Len(x \o y) = Len(x) + Len(y)
        /\ \A k \in 1 .. Len(x) + Len(y) : (x \o y)[k] = IF k <= Len(x) THEN x[k] ELSE y[k - Len(x)]
    <3>1. x \in Seq(S) /\ y \in Seq(S)
      BY <1>1, <1>2
    <3> QED BY ONLY <3>1, ConcatProperties, SMT
  <2> QED BY <1>1, <1>2, <2>1
<1>4. \A k \in 1 .. Len(s) : (x \o y)[k] = s[k]
  BY <1>1, <1>2, <1>3
<1>5. s = x \o y
  BY <1>3, <1>4, SeqEqual
<1> QED BY <1>1, <1>2, <1>5 DEF x, y

\* The same, in a form that is cheap to cite.
Parts(S, s, n) ==
  /\ SubSeq(s, 1, n) \in Seq(S) /\ SubSeq(s, n + 1, Len(s)) \in Seq(S)
  /\ Len(SubSeq(s, 1, n)) = n /\ Len(SubSeq(s, n + 1, Len(s))) = Len(s) - n
  /\ s = SubSeq(s, 1, n) \o SubSeq(s, n + 1, Len(s))

\* Any sequence has two parts at any place.
LEMMA PartsAll ==
  ASSUME NEW S, NEW s \in Seq(S), NEW n \in 0 .. Len(s)
  PROVE  Parts(S, s, n)
BY Parting, Zenon DEF Parts

\* A beginning of t, place by place, and what is behind it.
LEMMA PrefixIs ==
  ASSUME NEW S, NEW s \in Seq(S), NEW t \in Seq(S)
  PROVE  IsPrefix(s, t) <=> Len(s) <= Len(t) /\ \A k \in 1 .. Len(s) : s[k] = t[k]
<1>1. SubSeq(s, 1, Len(s)) = s
  OBVIOUS
<1>2. CASE Len(s) <= Len(t)
  <2> DEFINE x == SubSeq(t, 1, Len(s))
  <2>1. x \in Seq(S) /\ Len(x) = Len(s) /\ \A k \in 1 .. Len(s) : x[k] = t[k]
    BY <1>2
  <2>2. IsPrefix(s, t) <=> s = x
    BY <1>1, <1>2 DEF IsPrefix
  <2> HIDE DEF x
  <2>3. (\A k \in 1 .. Len(s) : s[k] = x[k]) => s = x
    BY <2>1, SeqEqual
  <2> QED BY <1>2, <2>1, <2>2, <2>3
<1>3. CASE ~(Len(s) <= Len(t))
  BY <1>3 DEF IsPrefix
<1> QED BY <1>2, <1>3

\* Behind a beginning there is a rest.
LEMMA PrefixRest ==
  ASSUME NEW S, NEW s \in Seq(S), NEW t \in Seq(S), IsPrefix(s, t)
  PROVE  \E r \in Seq(S) : t = s \o r
<1>1. Len(s) \in 0 .. Len(t) /\ s = SubSeq(t, 1, Len(s))
  <2>1. SubSeq(s, 1, Len(s)) = s /\ Len(s) \in Nat
    OBVIOUS
  <2> QED BY <2>1 DEF IsPrefix
<1> DEFINE n == Len(s)
<1>2. /\ SubSeq(t, n + 1, Len(t)) \in Seq(S)
      /\ t = SubSeq(t, 1, n) \o SubSeq(t, n + 1, Len(t))
  <2>1. n \in 0 .. Len(t)
    BY <1>1
  <2> HIDE DEF n
  <2> QED BY <2>1, Parting
<1> QED BY <1>1, <1>2

\* What stands first is a beginning.
LEMMA PrefixJoin ==
  ASSUME NEW S, NEW s \in Seq(S), NEW r \in Seq(S)
  PROVE  IsPrefix(s, s \o r)
<1>1. /\ s \o r \in Seq(S) /\ Len(s \o r) = Len(s) + Len(r)
      /\ \A k \in 1 .. Len(s) : (s \o r)[k] = s[k]
  BY Joining
<1>2. Len(s) \in Nat /\ Len(r) \in Nat
  BY LenProperties
<1> DEFINE t == s \o r
<1>3. t \in Seq(S) /\ Len(s) <= Len(t) /\ \A k \in 1 .. Len(s) : s[k] = t[k]
  BY <1>1, <1>2
<1> HIDE DEF t
<1>4. IsPrefix(s, t)
  BY <1>3, PrefixIs
<1> QED BY <1>4 DEF t

\* A beginning stays one when more is appended.
LEMMA PrefixLonger ==
  ASSUME NEW S, NEW s \in Seq(S), NEW t \in Seq(S), NEW r \in Seq(S), IsPrefix(s, t)
  PROVE  IsPrefix(s, t \o r)
<1>1. PICK q \in Seq(S) : t = s \o q
  BY PrefixRest
<1>2. t \o r = s \o (q \o r)
  <2>1. Groups(s, q, r)
    BY Grouping, Zenon
  <2> QED BY <1>1, <2>1 DEF Groups
<1>3. q \o r \in Seq(S)
  BY ONLY q \in Seq(S), r \in Seq(S), Joining
<1> QED BY <1>2, <1>3, PrefixJoin

\* Every sequence is a beginning of itself.
LEMMA PrefixSelf ==
  ASSUME NEW S, NEW s \in Seq(S)
  PROVE  IsPrefix(s, s)
<1>1. Len(s) <= Len(s)
  BY LenProperties
<1> QED BY <1>1, PrefixIs

\* A part of l.
LEMMA PartIs ==
  ASSUME NEW S, NEW l \in Seq(S), NEW j \in 1 .. Len(l), NEW k \in j .. Len(l)
  PROVE  /\ SubSeq(l, j, k) \in Seq(S) /\ Len(SubSeq(l, j, k)) = k - j + 1
         /\ \A i \in 1 .. k - j + 1 : SubSeq(l, j, k)[i] = l[i + j - 1]
         /\ SubSeq(l, j, k) # <<>> /\ SubSeq(l, j, k)[1] = l[j]
<1>1. Len(l) \in Nat
  BY LenProperties
<1> DEFINE x == SubSeq(l, j, k)
<1>2. x \in Seq(S) /\ Len(x) = k - j + 1 /\ \A i \in 1 .. k - j + 1 : x[i] = l[i + j - 1]
  BY <1>1
<1> HIDE DEF x
<1>3. Len(x) # 0 /\ 1 \in 1 .. k - j + 1 /\ 1 + j - 1 = j
  BY <1>1, <1>2
<1>4. x # <<>> /\ x[1] = l[j]
  BY <1>2, <1>3, EmptySeq
<1> QED BY <1>2, <1>4 DEF x

\* The first n of s are the first n - 1 and the next one.
LEMMA PartNext ==
  ASSUME NEW S, NEW s \in Seq(S), NEW n \in 1 .. Len(s)
  PROVE  /\ SubSeq(s, 1, n - 1) \in Seq(S) /\ s[n] \in S
         /\ SubSeq(s, 1, n) = Append(SubSeq(s, 1, n - 1), s[n])
<1> DEFINE q == SubSeq(s, 1, n - 1)
           r == SubSeq(s, 1, n)
           a == Append(q, s[n])
<1>0. Len(s) \in Nat
  BY LenProperties
<1>1. q \in Seq(S) /\ Len(q) = n - 1 /\ \A k \in 1 .. n - 1 : q[k] = s[k]
  BY <1>0
<1>2. r \in Seq(S) /\ Len(r) = n /\ \A k \in 1 .. n : r[k] = s[k]
  BY <1>0
<1>3. s[n] \in S
  BY ElementOfSeq
<1> HIDE DEF q, r
<1>4. /\ a \in Seq(S) /\ Len(a) = n /\ a[n] = s[n]
      /\ \A k \in 1 .. n - 1 : a[k] = q[k]
  BY <1>0, <1>1, <1>3, AppendProperties
<1> HIDE DEF a
<1>5. ASSUME NEW k \in 1 .. n PROVE r[k] = a[k]
  <2>1. CASE k = n
    BY <1>2, <1>4, <2>1
  <2>2. CASE k # n
    <3>1. k \in 1 .. n - 1
      BY <1>0, <2>2
    <3> QED BY <1>1, <1>2, <1>4, <3>1
  <2> QED BY <2>1, <2>2
<1>6. r = a
  BY <1>2, <1>4, <1>5, SeqEqual
<1> QED BY <1>1, <1>3, <1>6 DEF q, r, a

\* A part of what two sequences become is a part of the one or of the other.
LEMMA PartOfFirst ==
  ASSUME NEW S, NEW s \in Seq(S), NEW t \in Seq(S), NEW m \in 1 .. Len(s), NEW n \in m .. Len(s)
  PROVE  SubSeq(s \o t, m, n) = SubSeq(s, m, n)
<1>1. /\ s \o t \in Seq(S) /\ Len(s \o t) = Len(s) + Len(t)
      /\ \A k \in 1 .. Len(s) : (s \o t)[k] = s[k]
      /\ Len(s) \in Nat /\ Len(t) \in Nat
  BY Joining, LenProperties
<1> DEFINE r == s \o t
           x == SubSeq(r, m, n)
           y == SubSeq(s, m, n)
<1>2. r \in Seq(S) /\ Len(r) = Len(s) + Len(t) /\ \A k \in 1 .. Len(s) : r[k] = s[k]
  BY <1>1
<1> HIDE DEF r
<1>3. x \in Seq(S) /\ Len(x) = n - m + 1 /\ \A k \in 1 .. n - m + 1 : x[k] = r[m + k - 1]
  BY <1>1, <1>2
<1>4. y \in Seq(S) /\ Len(y) = n - m + 1 /\ \A k \in 1 .. n - m + 1 : y[k] = s[m + k - 1]
  BY <1>1
<1> HIDE DEF x, y
<1>5. ASSUME NEW k \in 1 .. n - m + 1 PROVE x[k] = y[k]
  <2>1. m + k - 1 \in 1 .. Len(s)
    BY <1>1
  <2> QED BY <1>2, <1>3, <1>4, <2>1
<1>6. x = y
  BY <1>3, <1>4, <1>5, SeqEqual
<1> QED BY <1>6 DEF x, y, r

\* A part of the second of two joined sequences.
LEMMA PartOfSecond ==
  ASSUME NEW S, NEW s \in Seq(S), NEW t \in Seq(S), NEW m \in 1 .. Len(t), NEW n \in m .. Len(t)
  PROVE  SubSeq(s \o t, Len(s) + m, Len(s) + n) = SubSeq(t, m, n)
<1>1. /\ s \o t \in Seq(S) /\ Len(s \o t) = Len(s) + Len(t)
      /\ \A k \in 1 .. Len(t) : (s \o t)[Len(s) + k] = t[k]
      /\ Len(s) \in Nat /\ Len(t) \in Nat
  BY Joining, LenProperties
<1> DEFINE r == s \o t
           x == SubSeq(r, Len(s) + m, Len(s) + n)
           y == SubSeq(t, m, n)
<1>2. r \in Seq(S) /\ Len(r) = Len(s) + Len(t) /\ \A k \in 1 .. Len(t) : r[Len(s) + k] = t[k]
  BY <1>1
<1> HIDE DEF r
<1>3. /\ x \in Seq(S) /\ Len(x) = n - m + 1
      /\ \A k \in 1 .. n - m + 1 : x[k] = r[Len(s) + (m + k - 1)]
  BY <1>1, <1>2
<1>4. y \in Seq(S) /\ Len(y) = n - m + 1 /\ \A k \in 1 .. n - m + 1 : y[k] = t[m + k - 1]
  BY <1>1
<1> HIDE DEF x, y
<1>5. ASSUME NEW k \in 1 .. n - m + 1 PROVE x[k] = y[k]
  <2>1. m + k - 1 \in 1 .. Len(t)
    BY <1>1
  <2>2. r[Len(s) + (m + k - 1)] = t[m + k - 1]
    BY <1>2, <2>1
  <2> QED BY <1>3, <1>4, <2>2
<1>6. x = y
  BY <1>3, <1>4, <1>5, SeqEqual
<1> QED BY <1>6 DEF x, y, r

-----------------------------------------------------------------------------
(* Sequences put together. *)

\* Induction: a set with 0 in it and the successor of each of its members has
\* every natural number in it.
LEMMA Inducting ==
  ASSUME NEW I, 0 \in I, \A n \in Nat : n \in I => n + 1 \in I
  PROVE  \A n \in Nat : n \in I
<1> DEFINE out == {n \in Nat : n \notin I}
<1>1. ASSUME out # {} PROVE FALSE
  <2>1. Min(out) \in out
    <3>1. out \in SUBSET Nat
      OBVIOUS
    <3> HIDE DEF out
    <3> QED BY <1>1, <3>1, LeastNumber
  <2>2. Min(out) - 1 \in Nat /\ Min(out) \in Nat
    BY <2>1
  <2>3. Min(out) - 1 \notin out
    <3> SUFFICES ASSUME Min(out) - 1 \in out PROVE FALSE
      OBVIOUS
    <3>1. out \in SUBSET Nat
      OBVIOUS
    <3> HIDE DEF out
    <3>2. \A y \in out : Min(out) <= y
      BY <1>1, <3>1, LeastNumber
    <3> QED BY <2>2, <3>2
  <2> QED BY <2>1, <2>2, <2>3
<1> QED BY <1>1

\* The function by which FlattenSeq puts the first n sequences of s together.
Together(s, n, g) ==
  \A i \in 1 .. n : g[i] = IF i = 1 THEN s[i] ELSE g[i - 1] \o s[i]

\* How the joined beginnings go on.
LEMMA TogetherNext ==
  ASSUME NEW s, NEW n \in Nat, NEW g, Together(s, n, g)
  PROVE  /\ n > 0 => g[1] = s[1]
         /\ \A k \in Nat \ {0} : k + 1 <= n => g[k + 1] = g[k] \o s[k + 1]
<1>1. ASSUME n > 0 PROVE g[1] = s[1]
  BY <1>1 DEF Together
<1>2. ASSUME NEW k \in Nat \ {0}, k + 1 <= n PROVE g[k + 1] = g[k] \o s[k + 1]
  <2>1. k + 1 \in 1 .. n /\ k + 1 # 1
    BY <1>2
  <2>2. (k + 1) - 1 = k
    OBVIOUS
  <2>3. g[k + 1] = g[(k + 1) - 1] \o s[k + 1]
    BY <2>1, Zenon DEF Together
  <2> QED BY <2>2, <2>3, Zenon
<1> QED BY <1>1, <1>2

\* Every sequence of sequences has joined beginnings.
LEMMA TogetherExists ==
  ASSUME NEW S, NEW s \in Seq(Seq(S))
  PROVE  \A n \in Nat : n <= Len(s) => \E g \in [1 .. n -> Seq(S)] : Together(s, n, g)
<1> DEFINE I == {n \in Nat : n <= Len(s) => \E g \in [1 .. n -> Seq(S)] : Together(s, n, g)}
<1>1. 0 \in I
  <2>1. [i \in 1 .. 0 |-> <<>>] \in [1 .. 0 -> Seq(S)]
    OBVIOUS
  <2>2. Together(s, 0, [i \in 1 .. 0 |-> <<>>])
    BY DEF Together
  <2> QED BY <2>1, <2>2
<1>2. ASSUME NEW n \in Nat, n \in I PROVE n + 1 \in I
  <2> SUFFICES ASSUME n + 1 <= Len(s)
               PROVE  \E g \in [1 .. n + 1 -> Seq(S)] : Together(s, n + 1, g)
    OBVIOUS
  <2>1. PICK g \in [1 .. n -> Seq(S)] : Together(s, n, g)
    BY <1>2
  <2> DEFINE new == IF n = 0 THEN s[1] ELSE g[n] \o s[n + 1]
             h == [i \in 1 .. n + 1 |-> IF i = n + 1 THEN new ELSE g[i]]
  <2>2. new \in Seq(S)
    <3>1. s[n + 1] \in Seq(S)
      BY ElementOfSeq
    <3> QED BY <3>1, ConcatProperties
  <2>3. h \in [1 .. n + 1 -> Seq(S)]
    <3> HIDE DEF new
    <3> QED BY <2>2
  <2>4. ASSUME NEW i \in 1 .. n + 1
        PROVE  h[i] = IF i = 1 THEN s[i] ELSE h[i - 1] \o s[i]
    <3>1. CASE i = n + 1
      <4>1. CASE n = 0
        BY <3>1, <4>1
      <4>2. CASE n # 0
        <5>1. h[n + 1] = g[n] \o s[n + 1]
          <6>1. h[n + 1] = new
            <7> HIDE DEF new
            <7> QED OBVIOUS
          <6> HIDE DEF h
          <6> QED BY <4>2, <6>1, Zenon
        <5>2. h[n] = g[n]
          <6> HIDE DEF new
          <6> QED BY <4>2
        <5>3. (n + 1) - 1 = n /\ n + 1 # 1
          BY <4>2
        <5> HIDE DEF h, new
        <5> QED BY <3>1, <5>1, <5>2, <5>3, Zenon
      <4> QED BY <4>1, <4>2
    <3>2. CASE i # n + 1
      <4>1. i \in 1 .. n /\ h[i] = g[i] /\ (i # 1 => h[i - 1] = g[i - 1])
        BY <3>2
      <4> HIDE DEF h
      <4> QED BY <2>1, <4>1 DEF Together
    <3> QED BY <3>1, <3>2
  <2> HIDE DEF h
  <2> QED BY <2>3, <2>4 DEF Together
<1> HIDE DEF I
<1>3. \A n \in Nat : n \in I
  BY <1>1, <1>2, Inducting
<1> QED BY <1>3 DEF I

\* There is one such function.
LEMMA TogetherUnique ==
  ASSUME NEW s, NEW n \in Nat, NEW g, NEW h, Together(s, n, g), Together(s, n, h)
  PROVE  \A k \in 1 .. n : g[k] = h[k]
<1> DEFINE I == {k \in Nat : k \in 1 .. n => g[k] = h[k]}
<1>1. 0 \in I
  OBVIOUS
<1>2. ASSUME NEW k \in Nat, k \in I PROVE k + 1 \in I
  <2> SUFFICES ASSUME k + 1 \in 1 .. n PROVE g[k + 1] = h[k + 1]
    OBVIOUS
  <2>1. CASE k = 0
    BY <2>1 DEF Together
  <2>2. CASE k # 0
    <3>1. g[k] = h[k] /\ k + 1 # 1 /\ k + 1 - 1 = k
      BY <1>2, <2>2
    <3>2. k \in Nat \ {0} /\ k + 1 <= n
      BY <2>2
    <3>3. g[k + 1] = g[k] \o s[k + 1]
      BY <3>2, TogetherNext, Zenon
    <3>4. h[k + 1] = h[k] \o s[k + 1]
      BY <3>2, TogetherNext, Zenon
    <3> QED BY <3>1, <3>3, <3>4, Zenon
  <2> QED BY <2>1, <2>2
<1> HIDE DEF I
<1>3. \A k \in Nat : k \in I
  BY <1>1, <1>2, Inducting
<1> QED BY <1>3 DEF I

\* What FlattenSeq chooses is the last of the joined beginnings.
LEMMA FlatteningIs ==
  ASSUME NEW S, NEW s \in Seq(Seq(S)), Len(s) > 0,
         NEW g \in [1 .. Len(s) -> Seq(S)], Together(s, Len(s), g)
  PROVE  FlattenSeq(s) = g[Len(s)]
<1> DEFINE f == CHOOSE f : f = [i \in 1 .. Len(s) |-> IF i = 1 THEN s[i] ELSE f[i - 1] \o s[i]]
<1>1. FlattenSeq(s) = f[Len(s)]
  BY DEF FlattenSeq
<1>2. g = [i \in 1 .. Len(s) |-> IF i = 1 THEN s[i] ELSE g[i - 1] \o s[i]]
  BY DEF Together
<1>3. f = [i \in 1 .. Len(s) |-> IF i = 1 THEN s[i] ELSE f[i - 1] \o s[i]]
  BY <1>2
<1> HIDE DEF f
<1>4. Together(s, Len(s), f)
  BY <1>3 DEF Together
<1> QED BY <1>1, <1>4, TogetherUnique

\* Putting sequences together gives a sequence.
LEMMA FlatteningAppend ==
  ASSUME NEW S, NEW s \in Seq(Seq(S)), NEW t \in Seq(S)
  PROVE  FlattenSeq(s) \in Seq(S) /\ FlattenSeq(Append(s, t)) = FlattenSeq(s) \o t
<1> DEFINE r == Append(s, t)
           m == Len(s)
<1>0. /\ r \in Seq(Seq(S)) /\ Len(r) = m + 1 /\ r[m + 1] = t /\ m \in Nat
      /\ \A k \in 1 .. m : r[k] = s[k]
  BY AppendProperties
<1> HIDE DEF r
<1>a. m + 1 \in Nat /\ m + 1 <= Len(r)
  BY <1>0
<1> HIDE DEF m
<1>1. PICK g \in [1 .. m + 1 -> Seq(S)] : Together(r, m + 1, g)
  BY <1>0, <1>a, TogetherExists
<1>2. FlattenSeq(r) = g[m + 1]
  <2>1. Len(r) = m + 1 /\ Len(r) > 0
    BY <1>0
  <2> QED BY <1>0, <1>1, <2>1, FlatteningIs
<1>3. CASE m = 0
  <2>1. s = <<>> /\ FlattenSeq(s) = <<>>
    BY <1>3, EmptySeq DEF FlattenSeq, m
  <2>2. g[m + 1] = t
    BY <1>0, <1>1, <1>3 DEF Together
  <2>3. <<>> \in Seq(S) /\ <<>> \o t = t
    BY ConcatEmptySeq
  <2> QED BY <1>2, <2>1, <2>2, <2>3 DEF r
<1>4. CASE m # 0
  <2> DEFINE h == [k \in 1 .. m |-> g[k]]
  <2>1. h \in [1 .. m -> Seq(S)] /\ Together(s, m, h)
    <3>1. \A k \in 1 .. m : k \in 1 .. m + 1 /\ (k # 1 => k - 1 \in 1 .. m)
      BY <1>0
    <3>2. h \in [1 .. m -> Seq(S)]
      BY <1>1, <3>1
    <3>3. ASSUME NEW k \in 1 .. m
          PROVE  h[k] = IF k = 1 THEN s[k] ELSE h[k - 1] \o s[k]
      <4>1. h[k] = g[k] /\ (k # 1 => h[k - 1] = g[k - 1]) /\ r[k] = s[k] /\ k \in 1 .. m + 1
        BY <1>0, <3>1
      <4> HIDE DEF h
      <4> QED BY <1>1, <4>1 DEF Together
    <3> HIDE DEF h
    <3> QED BY <3>2, <3>3 DEF Together
  <2>2. FlattenSeq(s) = h[m]
    <3> HIDE DEF h
    <3>1. Len(s) > 0 /\ m = Len(s)
      BY <1>0, <1>4 DEF m
    <3> QED BY <2>1, <3>1, FlatteningIs
  <2>3. g[m + 1] = g[m] \o t /\ h[m] = g[m] /\ g[m] \in Seq(S)
    <3>1. m \in 1 .. m /\ m + 1 \in 1 .. m + 1 /\ m \in 1 .. m + 1 /\ m + 1 # 1 /\ m + 1 - 1 = m
      BY <1>0, <1>4
    <3>2. m \in Nat \ {0} /\ m + 1 \in Nat /\ m + 1 <= m + 1
      BY <1>0, <1>4
    <3>3. g[m + 1] = g[m] \o r[m + 1]
      BY <1>1, <3>2, TogetherNext, Zenon
    <3>4. g[m] \in Seq(S) /\ h[m] = g[m]
      BY <1>1, <3>1
    <3> HIDE DEF h
    <3> QED BY <1>0, <3>3, <3>4, Zenon
  <2> QED BY <1>2, <2>2, <2>3 DEF r
<1> QED BY <1>3, <1>4

\* The first n sequences, flattened.
LEMMA FlatteningNext ==
  ASSUME NEW S, NEW p \in Seq(Seq(S)), NEW n \in 1 .. Len(p)
  PROVE  /\ FlattenSeq(SubSeq(p, 1, n - 1)) \in Seq(S) /\ p[n] \in Seq(S)
         /\ FlattenSeq(SubSeq(p, 1, n)) = FlattenSeq(SubSeq(p, 1, n - 1)) \o p[n]
<1>1. /\ SubSeq(p, 1, n - 1) \in Seq(Seq(S)) /\ p[n] \in Seq(S)
      /\ SubSeq(p, 1, n) = Append(SubSeq(p, 1, n - 1), p[n])
  BY PartNext
<1>2. PICK q \in Seq(Seq(S)) : q = SubSeq(p, 1, n - 1)
  BY <1>1
<1>3. PICK e \in Seq(S) : e = p[n]
  BY <1>1
<1>4. FlattenSeq(q) \in Seq(S) /\ FlattenSeq(Append(q, e)) = FlattenSeq(q) \o e
  BY FlatteningAppend
<1> QED BY <1>1, <1>2, <1>3, <1>4

\* Sequences put together one group after the other.
LEMMA FlatteningConcat ==
  ASSUME NEW S, NEW s \in Seq(Seq(S)), NEW t \in Seq(Seq(S))
  PROVE  FlattenSeq(s \o t) = FlattenSeq(s) \o FlattenSeq(t)
<1> DEFINE I == {n \in Nat : \A u \in Seq(Seq(S)) :
                   Len(u) = n => FlattenSeq(s \o u) = FlattenSeq(s) \o FlattenSeq(u)}
<1>0. \A u \in Seq(Seq(S)) : FlattenSeq(u) \in Seq(S)
  <2>1. <<>> \in Seq(S)
    OBVIOUS
  <2> QED BY <2>1, FlatteningAppend
<1>1. 0 \in I
  <2> SUFFICES ASSUME NEW u \in Seq(Seq(S)), Len(u) = 0
               PROVE  FlattenSeq(s \o u) = FlattenSeq(s) \o FlattenSeq(u)
    OBVIOUS
  <2>1. u = <<>> /\ FlattenSeq(u) = <<>> /\ s \o u = s
    BY ConcatEmptySeq DEF FlattenSeq
  <2> QED BY <1>0, <2>1, ConcatEmptySeq
<1>2. ASSUME NEW n \in Nat, n \in I PROVE n + 1 \in I
  <2> SUFFICES ASSUME NEW u \in Seq(Seq(S)), Len(u) = n + 1
               PROVE  FlattenSeq(s \o u) = FlattenSeq(s) \o FlattenSeq(u)
    OBVIOUS
  <2>1. PICK v \in Seq(Seq(S)), e \in Seq(S) : u = Append(v, e)
    <3>1. u # <<>>
      OBVIOUS
    <3> QED BY <3>1, SequenceEmptyOrAppend
  <2>2. Len(v) = n /\ s \o v \in Seq(Seq(S)) /\ s \o u = Append(s \o v, e)
    <3>1. Len(v) = n
      BY <2>1, AppendProperties
    <3>2. s \o v \in Seq(Seq(S))
      BY ConcatProperties
    <3>3. u = v \o <<e>> /\ Append(s \o v, e) = (s \o v) \o <<e>> /\ <<e>> \in Seq(Seq(S))
      BY <2>1, <3>2, AppendIsConcat
    <3>4. Groups(s, v, <<e>>)
      BY <3>3, Grouping, Zenon
    <3> QED BY <3>1, <3>2, <3>3, <3>4, Zenon DEF Groups
  <2>3. FlattenSeq(s \o v) = FlattenSeq(s) \o FlattenSeq(v)
    BY <1>2, <2>2
  <2>4. FlattenSeq(u) = FlattenSeq(v) \o e
    BY <2>1, FlatteningAppend
  <2>5. FlattenSeq(s \o u) = FlattenSeq(s \o v) \o e
    BY <2>2, FlatteningAppend
  <2>6. (FlattenSeq(s) \o FlattenSeq(v)) \o e = FlattenSeq(s) \o (FlattenSeq(v) \o e)
    <3>1. FlattenSeq(s) \in Seq(S) /\ FlattenSeq(v) \in Seq(S)
      BY <1>0
    <3> DEFINE x == FlattenSeq(s)
               y == FlattenSeq(v)
    <3>2. x \in Seq(S) /\ y \in Seq(S)
      BY <3>1
    <3> HIDE DEF I, x, y
    <3>3. Groups(x, y, e)
      BY <3>2, Grouping, Zenon
    <3> QED BY <3>3 DEF Groups, x, y
  <2> QED BY <2>3, <2>4, <2>5, <2>6
<1> HIDE DEF I
<1>3. \A n \in Nat : n \in I
  BY <1>1, <1>2, Inducting
<1>4. Len(t) \in Nat
  BY LenProperties
<1> QED BY <1>3, <1>4 DEF I

\* A single sequence, flattened, is itself.
LEMMA FlatteningOne ==
  ASSUME NEW S, NEW t \in Seq(S)
  PROVE  FlattenSeq(<<t>>) = t
<1>1. <<>> \in Seq(Seq(S)) /\ <<>> \in Seq(S) /\ Append(<<>>, t) = <<t>> /\ <<>> \o t = t
  BY ConcatEmptySeq
<1>2. FlattenSeq(<<>>) = <<>>
  BY DEF FlattenSeq
<1>3. FlattenSeq(Append(<<>>, t)) = FlattenSeq(<<>>) \o t
  BY ONLY <1>1, t \in Seq(S), FlatteningAppend
<1> QED BY ONLY <1>1, <1>2, <1>3, Zenon

\* Nothing comes of sequences that are all empty.
LEMMA FlatteningNothing ==
  ASSUME NEW S, NEW s \in Seq(Seq(S)), \A k \in 1 .. Len(s) : s[k] = <<>>
  PROVE  FlattenSeq(s) = <<>>
<1> DEFINE I == {n \in Nat : \A u \in Seq(Seq(S)) :
                   Len(u) = n /\ (\A k \in 1 .. n : u[k] = <<>>) => FlattenSeq(u) = <<>>}
<1>1. 0 \in I
  BY EmptySeq DEF FlattenSeq
<1>2. ASSUME NEW n \in Nat, n \in I PROVE n + 1 \in I
  <2> SUFFICES ASSUME NEW u \in Seq(Seq(S)), Len(u) = n + 1, \A k \in 1 .. n + 1 : u[k] = <<>>
               PROVE  FlattenSeq(u) = <<>>
    OBVIOUS
  <2>1. PICK v \in Seq(Seq(S)), e \in Seq(S) : u = Append(v, e)
    <3>1. u # <<>>
      OBVIOUS
    <3> QED BY <3>1, SequenceEmptyOrAppend
  <2>2. Len(v) = n /\ (\A k \in 1 .. n : u[k] = v[k]) /\ u[n + 1] = e
    BY <2>1, AppendProperties
  <2>3. e = <<>> /\ \A k \in 1 .. n : v[k] = <<>>
    BY <2>2
  <2>4. FlattenSeq(v) = <<>>
    BY <1>2, <2>2, <2>3
  <2>5. FlattenSeq(u) = FlattenSeq(v) \o e
    BY <2>1, FlatteningAppend
  <2>6. <<>> \o <<>> = <<>>
    OBVIOUS
  <2> QED BY <2>3, <2>4, <2>5, <2>6, Zenon
<1> HIDE DEF I
<1>3. \A n \in Nat : n \in I
  BY <1>1, <1>2, Inducting
<1>4. Len(s) \in Nat
  BY LenProperties
<1> QED BY <1>3, <1>4 DEF I
=============================================================================
