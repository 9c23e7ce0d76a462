------------------------------ MODULE RelayProofs ------------------------------
(***************************************************************************)
(* Proofs about Split and Relay: a line is split into its parameters, and  *)
(* what the handlers make of them is read as it was meant, up to where     *)
(* formatMessage cuts it.                                                  *)
(*                                                                         *)
(* The argument: the parameters of a line are gathered position by         *)
(* position (UpTo), so that what split has found is UpTo of what it has    *)
(* read (SplitInv). A line made of plain words with blanks between them    *)
(* has these words as its parameters (IsHeader), which is how messages     *)
(* are read; a beginning of a line has a beginning of its parameters       *)
(* (CutParameters), which is what a cut message loses.                     *)
(*                                                                         *)
(* The blank has a name of its own, Space: the SMT backend cannot          *)
(* translate the string of a blank.                                        *)
(***************************************************************************)
EXTENDS Relay, SequenceFacts

\* The SMT translation of a string that is a blank fails: Space hides it.
Space == " "

\* A blank is a Space.
LEMMA BlankIs == \A l, k : Blank(l, k) <=> l[k] = Space
BY Zenon DEF Blank, Space

(* Where a parameter ends. *)

EndsAt(l, j, k) ==
  IF l[j] = ":" THEN k = Len(l) ELSE k \in j .. Len(l) /\ IsWord(l, j, k)

\* Where a word begins.
LEMMA StartIs ==
  ASSUME NEW S, NEW l \in Seq(S)
  PROVE  \A j : j \in Starts(l) <=>
                /\ j \in 1 .. Len(l) /\ l[j] # Space /\ (j = 1 \/ l[j - 1] = Space)
<1>1. DOMAIN l = 1 .. Len(l)
  BY LenProperties
<1> QED BY <1>1, BlankIs DEF Starts

\* A word that begins ends somewhere.
LEMMA WordEnds ==
  ASSUME NEW S, NEW l \in Seq(S), NEW j \in Starts(l)
  PROVE  \E k \in j .. Len(l) : IsWord(l, j, k)
<1>0. /\ DOMAIN l = 1 .. Len(l) /\ Len(l) \in Nat /\ j \in 1 .. Len(l) /\ ~Blank(l, j)
      /\ j = 1 \/ Blank(l, j - 1)
  BY LenProperties DEF Starts
<1> DEFINE I == {k \in j .. Len(l) + 1 : k = Len(l) + 1 \/ Blank(l, k)}
<1>1. I \in SUBSET Nat /\ I # {}
  <2>1. Len(l) + 1 \in I
    BY <1>0
  <2> QED BY <1>0, <2>1
<1>2. Min(I) \in I /\ \A k \in I : Min(I) <= k
  <2> HIDE DEF I
  <2> QED BY <1>1, LeastNumber
<1> DEFINE e == Min(I)
<1>3. e \in j .. Len(l) + 1 /\ (e = Len(l) + 1 \/ Blank(l, e))
  BY <1>2
<1>4. \A k \in j .. e - 1 : ~Blank(l, k)
  <2> SUFFICES ASSUME NEW k \in j .. e - 1, Blank(l, k) PROVE FALSE
    OBVIOUS
  <2>1. k \in I
    BY <1>0, <1>3
  <2>2. e <= k
    BY <1>2, <2>1
  <2> HIDE DEF e
  <2> QED BY <1>0, <1>3, <2>2
<1> HIDE DEF e, I
<1>5. e # j
  BY <1>0, <1>3
<1>6. e - 1 \in j .. Len(l) /\ (e - 1) + 1 = e
  BY <1>0, <1>3, <1>5
<1>7. IsWord(l, j, e - 1)
  <2>1. \A i \in {j - 1, e} \cap DOMAIN l : Blank(l, i)
    BY <1>0, <1>3
  <2> QED BY <1>4, <1>6, <2>1 DEF IsWord
<1> QED BY <1>6, <1>7

\* And in one place only.
LEMMA WordUnique ==
  ASSUME NEW S, NEW l \in Seq(S), NEW j \in 1 .. Len(l), NEW k \in j .. Len(l), NEW m \in j .. Len(l),
         IsWord(l, j, k), IsWord(l, j, m)
  PROVE  k = m
<1>0. DOMAIN l = 1 .. Len(l) /\ Len(l) \in Nat
  BY LenProperties
<1>1. \A p, q \in j .. Len(l) : IsWord(l, j, p) /\ IsWord(l, j, q) => ~(p < q)
  <2> SUFFICES ASSUME NEW p \in j .. Len(l), NEW q \in j .. Len(l),
                      IsWord(l, j, p), IsWord(l, j, q), p < q
               PROVE  FALSE
    OBVIOUS
  <2>1. p + 1 \in j .. q /\ p + 1 \in DOMAIN l
    BY <1>0
  <2> QED BY <2>1 DEF IsWord
<1> QED BY <1>1

\* A parameter ends where its word does, or with the line when it is the
\* trailing one.
LEMMA ParameterIs ==
  ASSUME NEW S, NEW l \in Seq(S), NEW j \in Starts(l), NEW k, EndsAt(l, j, k)
  PROVE  Parameter(l, j) = SubSeq(l, j, k) /\ k \in j .. Len(l)
<1>0. DOMAIN l = 1 .. Len(l) /\ Len(l) \in Nat /\ j \in 1 .. Len(l)
  BY LenProperties DEF Starts
<1>1. CASE l[j] = ":"
  BY <1>0, <1>1 DEF EndsAt, Parameter
<1>2. CASE l[j] # ":"
  <2> DEFINE e == CHOOSE e \in j .. Len(l) : IsWord(l, j, e)
  <2>1. k \in j .. Len(l) /\ IsWord(l, j, k)
    BY <1>2 DEF EndsAt
  <2>2. e \in j .. Len(l) /\ IsWord(l, j, e)
    BY <2>1
  <2>3. Parameter(l, j) = SubSeq(l, j, e)
    BY <1>2 DEF Parameter
  <2> HIDE DEF e
  <2>4. e = k
    BY <1>0, <2>1, <2>2, WordUnique
  <2> QED BY <2>1, <2>3, <2>4
<1> QED BY <1>1, <1>2

\* Every parameter ends somewhere.
LEMMA EndExists ==
  ASSUME NEW S, NEW l \in Seq(S), NEW j \in Starts(l)
  PROVE  \E k \in j .. Len(l) : EndsAt(l, j, k)
<1>0. Len(l) \in Nat /\ j \in 1 .. Len(l)
  BY LenProperties DEF Starts
<1>1. CASE l[j] = ":"
  BY <1>0, <1>1 DEF EndsAt
<1>2. CASE l[j] # ":"
  BY <1>2, WordEnds DEF EndsAt
<1> QED BY <1>1, <1>2

\* A parameter is a part of the line, not empty, that begins where it says.
LEMMA ParameterType ==
  ASSUME NEW S, NEW l \in Seq(S), NEW j \in Starts(l)
  PROVE  /\ Parameter(l, j) \in Seq(S) /\ Parameter(l, j) # <<>> /\ Parameter(l, j)[1] = l[j]
<1>0. Len(l) \in Nat /\ j \in 1 .. Len(l)
  BY LenProperties DEF Starts
<1>1. PICK k \in j .. Len(l) : EndsAt(l, j, k)
  BY EndExists
<1>2. Parameter(l, j) = SubSeq(l, j, k)
  BY <1>1, ParameterIs
<1> DEFINE x == SubSeq(l, j, k)
<1>3. x \in Seq(S) /\ Len(x) = k - j + 1 /\ x[1] = l[j]
  BY <1>0
<1> HIDE DEF x
<1>4. x # <<>>
  BY <1>0, <1>3
<1> QED BY <1>2, <1>3, <1>4 DEF x

-----------------------------------------------------------------------------
(* The parameters that begin at 1 .. n. *)

ParameterPieces(l) ==
  [j \in DOMAIN l |-> IF j \in ParameterStarts(l) THEN <<Parameter(l, j)>> ELSE <<>>]

UpTo(l, n) == FlattenSeq(SubSeq(ParameterPieces(l), 1, n))

\* The parameters of a line are the pieces found at its places, put together.
LEMMA PiecesAre ==
  ASSUME NEW S, NEW l \in Seq(S)
  PROVE  /\ ParameterPieces(l) \in Seq(Seq(Seq(S))) /\ Len(ParameterPieces(l)) = Len(l)
         /\ \A j \in 1 .. Len(l) : ParameterPieces(l)[j] =
              IF j \in ParameterStarts(l) THEN <<Parameter(l, j)>> ELSE <<>>
         /\ Parameters(l) = FlattenSeq(ParameterPieces(l))
<1>0. DOMAIN l = 1 .. Len(l)
  BY LenProperties
<1>1. ASSUME NEW j \in DOMAIN l
      PROVE  (IF j \in ParameterStarts(l) THEN <<Parameter(l, j)>> ELSE <<>>) \in Seq(Seq(S))
  <2>1. j \in ParameterStarts(l) => Parameter(l, j) \in Seq(S)
    BY ParameterType DEF ParameterStarts
  <2> QED BY <2>1
<1>2. ParameterPieces(l) \in [DOMAIN l -> Seq(Seq(S))]
  BY <1>1 DEF ParameterPieces
<1>3. ParameterPieces(l) \in Seq(Seq(Seq(S))) /\ Len(ParameterPieces(l)) = Len(l)
  BY <1>2, Overwriting
<1> QED BY <1>0, <1>3 DEF ParameterPieces, Parameters

\* No place has no parameter, and all of them have them all.
LEMMA UpToNothing ==
  ASSUME NEW S, NEW l \in Seq(S)
  PROVE  UpTo(l, 0) = <<>> /\ UpTo(l, Len(l)) = Parameters(l)
<1> DEFINE p == ParameterPieces(l)
<1>1. p \in Seq(Seq(Seq(S))) /\ Len(p) = Len(l) /\ Parameters(l) = FlattenSeq(p)
  BY PiecesAre
<1>2. UpTo(l, 0) = FlattenSeq(SubSeq(p, 1, 0)) /\ UpTo(l, Len(l)) = FlattenSeq(SubSeq(p, 1, Len(l)))
  BY DEF UpTo
<1> HIDE DEF p
<1>3. SubSeq(p, 1, Len(l)) = p /\ SubSeq(p, 1, 0) = <<>>
  BY <1>1
<1>4. FlattenSeq(<<>>) = <<>>
  BY DEF FlattenSeq
<1> QED BY <1>1, <1>2, <1>3, <1>4

\* One more place adds the parameter that begins there, if one does.
LEMMA UpToNext ==
  ASSUME NEW S, NEW l \in Seq(S), NEW n \in 1 .. Len(l)
  PROVE  /\ UpTo(l, n - 1) \in Seq(Seq(S))
         /\ UpTo(l, n) = IF n \in ParameterStarts(l)
                         THEN Append(UpTo(l, n - 1), Parameter(l, n)) ELSE UpTo(l, n - 1)
<1>1. PICK p \in Seq(Seq(Seq(S))) :
        /\ p = ParameterPieces(l) /\ Len(p) = Len(l)
        /\ p[n] = IF n \in ParameterStarts(l) THEN <<Parameter(l, n)>> ELSE <<>>
  BY PiecesAre
<1>2. PICK f \in Seq(Seq(S)) : f = UpTo(l, n - 1) /\ UpTo(l, n) = f \o p[n]
  <2>1. /\ FlattenSeq(SubSeq(p, 1, n - 1)) \in Seq(Seq(S))
        /\ FlattenSeq(SubSeq(p, 1, n)) = FlattenSeq(SubSeq(p, 1, n - 1)) \o p[n]
    BY <1>1, FlatteningNext
  <2> QED BY <1>1, <2>1 DEF UpTo
<1>3. CASE n \in ParameterStarts(l)
  <2>1. PICK e \in Seq(S) : e = Parameter(l, n)
    BY <1>3, ParameterType DEF ParameterStarts
  <2>2. f \o <<e>> = Append(f, e)
    BY AppendIsConcat
  <2> QED BY <1>1, <1>2, <1>3, <2>1, <2>2
<1>4. CASE n \notin ParameterStarts(l)
  <2>1. f \o <<>> = f
    BY ConcatEmptySeq
  <2> QED BY <1>1, <1>2, <1>4, <2>1
<1> QED BY <1>3, <1>4

\* The parameters that begin up to a place are sequences.
LEMMA UpToType ==
  ASSUME NEW S, NEW l \in Seq(S), NEW n \in 0 .. Len(l)
  PROVE  UpTo(l, n) \in Seq(Seq(S))
<1> DEFINE p == ParameterPieces(l)
           q == SubSeq(p, 1, n)
<1>1. p \in Seq(Seq(Seq(S))) /\ Len(p) = Len(l)
  BY PiecesAre
<1> HIDE DEF p
<1>2. q \in Seq(Seq(Seq(S)))
  BY <1>1
<1> HIDE DEF q
<1>3. <<>> \in Seq(Seq(S))
  OBVIOUS
<1>4. FlattenSeq(q) \in Seq(Seq(S))
  BY <1>2, <1>3, FlatteningAppend
<1> QED BY <1>4 DEF UpTo, p, q

\* Places where no parameter begins add none.
LEMMA UpToSkip ==
  ASSUME NEW S, NEW l \in Seq(S), NEW m \in 0 .. Len(l), NEW n \in m .. Len(l),
         \A j \in m + 1 .. n : j \notin ParameterStarts(l)
  PROVE  UpTo(l, n) = UpTo(l, m)
<1> DEFINE I == {d \in Nat : m + d <= n => UpTo(l, m + d) = UpTo(l, m)}
<1>1. 0 \in I
  <2>1. m + 0 = m
    OBVIOUS
  <2> QED BY <2>1
<1>2. ASSUME NEW d \in Nat, d \in I PROVE d + 1 \in I
  <2> SUFFICES ASSUME m + (d + 1) <= n PROVE UpTo(l, m + (d + 1)) = UpTo(l, m)
    OBVIOUS
  <2>1. /\ m + (d + 1) \in 1 .. Len(l) /\ m + (d + 1) \in m + 1 .. n
        /\ (m + (d + 1)) - 1 = m + d /\ m + d <= n
    OBVIOUS
  <2> DEFINE q == m + (d + 1)
  <2>2. UpTo(l, m + d) = UpTo(l, m)
    BY <1>2, <2>1
  <2>3. q \in 1 .. Len(l) /\ q \notin ParameterStarts(l) /\ q - 1 = m + d
    BY <2>1
  <2> HIDE DEF q
  <2>4. UpTo(l, q) = UpTo(l, q - 1)
    BY <2>3, UpToNext
  <2> QED BY <2>2, <2>3, <2>4 DEF q
<1> HIDE DEF I
<1>3. \A d \in Nat : d \in I
  BY <1>1, <1>2, Inducting
<1>4. n - m \in Nat /\ m + (n - m) = n /\ n <= n
  OBVIOUS
<1>5. m + (n - m) <= n => UpTo(l, m + (n - m)) = UpTo(l, m)
  BY <1>3, <1>4 DEF I
<1> QED BY <1>4, <1>5

\* The parameters that begin later come behind the others.
LEMMA UpToPrefix ==
  ASSUME NEW S, NEW l \in Seq(S), NEW m \in 0 .. Len(l), NEW n \in m .. Len(l)
  PROVE  IsPrefix(UpTo(l, m), UpTo(l, n))
<1> DEFINE I == {d \in Nat : m + d <= n => IsPrefix(UpTo(l, m), UpTo(l, m + d))}
<1>0. UpTo(l, m) \in Seq(Seq(S))
  BY UpToType
<1>1. 0 \in I
  <2>1. m + 0 = m
    OBVIOUS
  <2> QED BY <1>0, <2>1, PrefixSelf
<1>2. ASSUME NEW d \in Nat, d \in I PROVE d + 1 \in I
  <2> SUFFICES ASSUME m + (d + 1) <= n PROVE IsPrefix(UpTo(l, m), UpTo(l, m + (d + 1)))
    OBVIOUS
  <2> DEFINE q == m + (d + 1)
  <2>1. q \in 1 .. Len(l) /\ q - 1 = m + d /\ m + d <= n
    OBVIOUS
  <2>2. IsPrefix(UpTo(l, m), UpTo(l, m + d))
    BY <1>2, <2>1
  <2> HIDE DEF q
  <2>3. /\ UpTo(l, q - 1) \in Seq(Seq(S))
        /\ UpTo(l, q) = IF q \in ParameterStarts(l)
                        THEN Append(UpTo(l, q - 1), Parameter(l, q)) ELSE UpTo(l, q - 1)
    BY <2>1, UpToNext
  <2>4. CASE q \in ParameterStarts(l)
    <3>1. PICK e \in Seq(S) : e = Parameter(l, q)
      BY <2>4, ParameterType DEF ParameterStarts
    <3>2. PICK x \in Seq(Seq(S)), y \in Seq(Seq(S)) : x = UpTo(l, m) /\ y = UpTo(l, q - 1)
      BY <1>0, <2>3
    <3>3. IsPrefix(x, y) /\ <<e>> \in Seq(Seq(S)) /\ y \o <<e>> = Append(y, e)
      BY <2>1, <2>2, <3>2, AppendIsConcat
    <3>4. IsPrefix(x, y \o <<e>>)
      BY <3>3, PrefixLonger
    <3> QED BY <2>3, <2>4, <3>1, <3>2, <3>3, <3>4 DEF q
  <2>5. CASE q \notin ParameterStarts(l)
    BY <2>1, <2>2, <2>3, <2>5 DEF q
  <2> QED BY <2>4, <2>5
<1> HIDE DEF I
<1>3. \A d \in Nat : d \in I
  BY <1>1, <1>2, Inducting
<1>4. n - m \in Nat /\ m + (n - m) = n /\ n <= n
  OBVIOUS
<1>5. m + (n - m) <= n => IsPrefix(UpTo(l, m), UpTo(l, m + (n - m)))
  BY <1>3, <1>4 DEF I
<1> QED BY <1>4, <1>5

\* The same words at the same places are the same parameters.
LEMMA UpToSame ==
  ASSUME NEW S, NEW l \in Seq(S), NEW r \in Seq(S), NEW n \in 0 .. Len(l), n <= Len(r),
         \A j \in 1 .. n : j \in ParameterStarts(l) <=> j \in ParameterStarts(r),
         \A j \in 1 .. n : j \in ParameterStarts(l) => Parameter(l, j) = Parameter(r, j)
  PROVE  UpTo(l, n) = UpTo(r, n)
<1> DEFINE p == ParameterPieces(l)
           q == ParameterPieces(r)
           x == SubSeq(p, 1, n)
           y == SubSeq(q, 1, n)
<1>0. Len(l) \in Nat /\ Len(r) \in Nat
  BY LenProperties
<1>1. /\ p \in Seq(Seq(Seq(S))) /\ Len(p) = Len(l)
      /\ \A j \in 1 .. Len(l) : p[j] = IF j \in ParameterStarts(l) THEN <<Parameter(l, j)>> ELSE <<>>
  BY PiecesAre
<1>2. /\ q \in Seq(Seq(Seq(S))) /\ Len(q) = Len(r)
      /\ \A j \in 1 .. Len(r) : q[j] = IF j \in ParameterStarts(r) THEN <<Parameter(r, j)>> ELSE <<>>
  BY PiecesAre
<1> HIDE DEF p, q
<1>3. ASSUME NEW j \in 1 .. n PROVE p[j] = q[j]
  <2>1. j \in 1 .. Len(l) /\ j \in 1 .. Len(r)
    BY <1>0
  <2>2. /\ p[j] = IF j \in ParameterStarts(l) THEN <<Parameter(l, j)>> ELSE <<>>
        /\ q[j] = IF j \in ParameterStarts(r) THEN <<Parameter(r, j)>> ELSE <<>>
    BY <1>1, <1>2, <2>1
  <2>5. j \in ParameterStarts(l) <=> j \in ParameterStarts(r)
    OBVIOUS
  <2>6. j \in ParameterStarts(l) => Parameter(l, j) = Parameter(r, j)
    BY Zenon
  <2>3. CASE j \in ParameterStarts(l)
    BY <2>2, <2>3, <2>5, <2>6
  <2>4. CASE j \notin ParameterStarts(l)
    BY <2>2, <2>4, <2>5
  <2> QED BY <2>3, <2>4
<1>4. x \in Seq(Seq(Seq(S))) /\ Len(x) = n /\ \A j \in 1 .. n : x[j] = p[j]
  BY <1>0, <1>1
<1>5. y \in Seq(Seq(Seq(S))) /\ Len(y) = n /\ \A j \in 1 .. n : y[j] = q[j]
  BY <1>0, <1>2
<1> HIDE DEF x, y
<1>6. x = y
  BY <1>3, <1>4, <1>5, SeqEqual
<1> QED BY <1>6 DEF UpTo, x, y, p, q

-----------------------------------------------------------------------------
(* The parameters of two texts put together. *)

\* A new word begins behind a blank.
IsBlankEnded(l) == l = <<>> \/ l[Len(l)] = Space

HasNoTrailing(l) == \A j \in Starts(l) : l[j] # ":"

\* The words of two parts of a line are those of the line when a blank is
\* between them.
LEMMA StartsWhole ==
  ASSUME NEW S, NEW l \in Seq(S), NEW r \in Seq(S), IsBlankEnded(l)
  PROVE  /\ \A k \in 1 .. Len(l) : k \in Starts(l \o r) <=> k \in Starts(l)
         /\ \A k \in 1 .. Len(r) : Len(l) + k \in Starts(l \o r) <=> k \in Starts(r)
<1> DEFINE t == l \o r
           n == Len(l)
<1>0. /\ t \in Seq(S) /\ Len(t) = n + Len(r) /\ DOMAIN t = 1 .. n + Len(r)
      /\ \A k \in 1 .. n : t[k] = l[k]
      /\ \A k \in 1 .. Len(r) : t[n + k] = r[k]
      /\ n \in Nat /\ Len(r) \in Nat /\ DOMAIN l = 1 .. n /\ DOMAIN r = 1 .. Len(r)
  BY Joining, LenProperties
<1>1. n = 0 \/ (n \in 1 .. n /\ l[n] = Space)
  <2>1. CASE l = <<>>
    BY <2>1, EmptySeq
  <2>2. CASE l # <<>>
    <3>1. n \in 1 .. n
      BY <1>0, <2>2, EmptySeq
    <3> QED BY <2>2, <3>1 DEF IsBlankEnded
  <2> QED BY <2>1, <2>2
<1> HIDE DEF t, n
<1>c. \A j : j \in Starts(t) <=> /\ j \in 1 .. Len(t) /\ t[j] # Space
                                 /\ (j = 1 \/ t[j - 1] = Space)
  BY <1>0, StartIs
<1>d. \A j : j \in Starts(r) <=> /\ j \in 1 .. Len(r) /\ r[j] # Space
                                 /\ (j = 1 \/ r[j - 1] = Space)
  BY StartIs
<1>2. ASSUME NEW k \in 1 .. n PROVE k \in Starts(t) <=> k \in Starts(l)
  <2>1. k \in DOMAIN t /\ k \in DOMAIN l /\ t[k] = l[k] /\ (k # 1 => t[k - 1] = l[k - 1])
    BY <1>0
  <2> QED BY <2>1, BlankIs DEF Starts
<1>3. ASSUME NEW k \in 1 .. Len(r) PROVE n + k \in Starts(t) <=> k \in Starts(r)
  <2>1. n + k \in DOMAIN t /\ k \in DOMAIN r /\ t[n + k] = r[k]
    BY <1>0
  <2>2. CASE k = 1
    <3> DEFINE q == n + k
    <3>1. q \in 1 .. Len(t)
      BY <1>0
    <3>4. q = 1 \/ t[q - 1] = Space
      <4>1. CASE n = 0
        BY <2>2, <4>1
      <4>2. CASE n # 0
        <5>1. q - 1 = n
          BY <1>0, <2>2
        <5>2. t[n] = Space
          BY <1>0, <1>1, <4>2
        <5> HIDE DEF q
        <5> QED BY <5>1, <5>2
      <4> QED BY <4>1, <4>2
    <3>2. q \in Starts(t) <=> t[q] # Space
      <4> HIDE DEF q
      <4> QED BY <1>c, <3>1, <3>4
    <3>3. k \in Starts(r) <=> r[k] # Space
      BY <1>d, <2>2
    <3> QED BY <2>1, <3>2, <3>3
  <2>3. CASE k # 1
    <3>1. n + k # 1 /\ n + k - 1 = n + (k - 1) /\ k - 1 \in 1 .. Len(r)
      BY <1>0, <2>3
    <3>2. t[n + k - 1] = r[k - 1]
      BY <1>0, <3>1
    <3> DEFINE q == n + k
    <3>3. q \in Starts(t) <=> (t[q] # Space /\ t[q - 1] = Space)
      <4>1. q \in 1 .. Len(t) /\ q # 1
        BY <1>0, <3>1
      <4> HIDE DEF q
      <4> QED BY <1>c, <4>1
    <3>4. k \in Starts(r) <=> (r[k] # Space /\ r[k - 1] = Space)
      BY <1>d, <2>3
    <3>5. t[q] = r[k] /\ t[q - 1] = r[k - 1]
      BY <1>0, <2>1, <3>1, <3>2
    <3> HIDE DEF q
    <3>6. q \in Starts(t) <=> k \in Starts(r)
      BY <3>3, <3>4, <3>5
    <3> QED BY <3>6 DEF q
  <2> QED BY <2>2, <2>3
<1> QED BY <1>2, <1>3 DEF t, n

\* So are the parameters, when the trailing one is not in the first part.
LEMMA ParametersWhole ==
  ASSUME NEW S, NEW l \in Seq(S), NEW r \in Seq(S), IsBlankEnded(l), HasNoTrailing(l)
  PROVE  Parameters(l \o r) = Parameters(l) \o Parameters(r)
<1> DEFINE t == l \o r
           n == Len(l)
<1>0. /\ t \in Seq(S) /\ Len(t) = n + Len(r) /\ DOMAIN t = 1 .. n + Len(r)
      /\ \A k \in 1 .. n : t[k] = l[k]
      /\ \A k \in 1 .. Len(r) : t[n + k] = r[k]
      /\ n \in Nat /\ Len(r) \in Nat /\ DOMAIN l = 1 .. n /\ DOMAIN r = 1 .. Len(r)
  BY Joining, LenProperties
<1>a. \A j \in 1 .. n : \A k \in j .. n : SubSeq(t, j, k) = SubSeq(l, j, k)
  BY PartOfFirst
<1>b. \A j \in 1 .. Len(r) : \A k \in j .. Len(r) : SubSeq(t, n + j, n + k) = SubSeq(r, j, k)
  BY PartOfSecond
<1>2. \A k \in 1 .. n : k \in Starts(t) <=> k \in Starts(l)
  BY StartsWhole
<1>3. \A k \in 1 .. Len(r) : n + k \in Starts(t) <=> k \in Starts(r)
  BY StartsWhole
<1>1. n = 0 \/ (n \in 1 .. n /\ l[n] = Space)
  <2>1. CASE l = <<>>
    BY <2>1, EmptySeq
  <2>2. CASE l # <<>>
    <3>1. n \in 1 .. n
      BY <1>0, <2>2, EmptySeq
    <3> QED BY <2>2, <3>1 DEF IsBlankEnded
  <2> QED BY <2>1, <2>2
<1> HIDE DEF t, n
<1>4. \A i \in Starts(t) : i \in 1 .. n \/ (i - n \in 1 .. Len(r) /\ n + (i - n) = i)
  BY <1>0 DEF Starts
<1>5. ASSUME NEW k \in 1 .. n PROVE k \in ParameterStarts(t) <=> k \in Starts(l)
  <2>1. ASSUME NEW i \in Starts(t), i < k PROVE t[i] # ":"
    <3>1. i \in 1 .. n
      BY <1>0, <1>4, <2>1
    <3>2. i \in Starts(l) /\ t[i] = l[i]
      BY <1>0, <1>2, <3>1
    <3> QED BY <3>2 DEF HasNoTrailing
  <2> QED BY <1>2, <2>1 DEF ParameterStarts
<1>6. ASSUME NEW k \in 1 .. n PROVE k \in ParameterStarts(l) <=> k \in Starts(l)
  BY DEF ParameterStarts, HasNoTrailing
<1>7. ASSUME NEW k \in 1 .. Len(r) PROVE n + k \in ParameterStarts(t) <=> k \in ParameterStarts(r)
  <2>1. ASSUME k \in ParameterStarts(r), NEW i \in Starts(t), i < n + k PROVE t[i] # ":"
    <3>1. CASE i \in 1 .. n
      <4>1. i \in Starts(l) /\ t[i] = l[i]
        BY <1>0, <1>2, <3>1
      <4> QED BY <4>1 DEF HasNoTrailing
    <3>2. CASE i - n \in 1 .. Len(r) /\ n + (i - n) = i
      <4> DEFINE q == i - n
      <4>1. q \in 1 .. Len(r) /\ n + q = i /\ q < k
        BY <1>0, <2>1, <3>2
      <4> HIDE DEF q
      <4>2. q \in Starts(r) /\ t[i] = r[q]
        BY <1>0, <1>3, <4>1
      <4> QED BY <2>1, <4>1, <4>2 DEF ParameterStarts
    <3> QED BY <1>4, <3>1, <3>2
  <2>2. ASSUME n + k \in ParameterStarts(t), NEW i \in Starts(r), i < k PROVE r[i] # ":"
    <3>1. i \in 1 .. Len(r) /\ n + i < n + k
      BY <1>0, <2>2 DEF Starts
    <3>2. n + i \in Starts(t) /\ t[n + i] = r[i]
      BY <1>0, <1>3, <3>1
    <3> QED BY <2>2, <3>1, <3>2 DEF ParameterStarts
  <2> QED BY <1>3, <2>1, <2>2 DEF ParameterStarts
<1>8. ASSUME NEW k \in Starts(l) PROVE Parameter(t, k) = Parameter(l, k)
  <2>1. k \in 1 .. n /\ l[k] # ":" /\ k \in Starts(t)
    BY <1>0, <1>2 DEF Starts, HasNoTrailing
  <2>2. PICK e \in k .. n : EndsAt(l, k, e)
    BY EndExists DEF n
  <2>3. IsWord(l, k, e) /\ e \in 1 .. n
    BY <2>1, <2>2 DEF EndsAt
  <2>4. e # n
    <3>1. ~Blank(l, e)
      <4>1. e \in k .. e
        BY <1>0, <2>1, <2>2
      <4> QED BY <2>3, <4>1 DEF IsWord
    <3>2. l[e] # Space
      BY <3>1, BlankIs
    <3>3. n # 0
      BY <1>0, <2>3
    <3> QED BY <1>1, <3>2, <3>3
  <2>5. IsWord(t, k, e) /\ t[k] # ":" /\ e \in k .. Len(t)
    <3>1. \A i \in k .. e : i \in 1 .. n
      BY <1>0, <2>1, <2>2
    <3>2. \A i \in {k - 1, e + 1} : i \in DOMAIN t => i \in DOMAIN l
      BY <1>0, <2>1, <2>2, <2>4
    <3>3. e \in k .. Len(t)
      BY <1>0, <2>1, <2>2
    <3> QED BY <1>0, <2>1, <2>3, <3>1, <3>2, <3>3, BlankIs DEF IsWord
  <2>6. EndsAt(t, k, e)
    BY <2>5 DEF EndsAt
  <2>7. Parameter(t, k) = SubSeq(t, k, e) /\ Parameter(l, k) = SubSeq(l, k, e)
    BY <1>0, <2>1, <2>2, <2>6, ParameterIs
  <2> QED BY <1>a, <2>1, <2>2, <2>7
<1>9. ASSUME NEW k \in Starts(r) PROVE Parameter(t, n + k) = Parameter(r, k)
  <2>1. k \in 1 .. Len(r) /\ n + k \in Starts(t) /\ t[n + k] = r[k]
    BY <1>0, <1>3 DEF Starts
  <2>2. PICK e \in k .. Len(r) : EndsAt(r, k, e)
    BY EndExists
  <2>3. EndsAt(t, n + k, n + e)
    <3>1. CASE r[k] = ":"
      BY <1>0, <2>1, <2>2, <3>1 DEF EndsAt
    <3>2. CASE r[k] # ":"
      <4>1. IsWord(r, k, e)
        BY <2>2, <3>2 DEF EndsAt
      <4>2. ASSUME NEW i \in n + k .. n + e PROVE ~Blank(t, i)
        <5> DEFINE q == i - n
        <5>1. q \in k .. e /\ q \in 1 .. Len(r) /\ n + q = i
          BY <1>0, <2>1, <2>2
        <5> HIDE DEF q
        <5>2. t[i] = r[q]
          BY <1>0, <5>1
        <5> QED BY <4>1, <5>1, <5>2, BlankIs DEF IsWord
      <4>3. n + k - 1 \in DOMAIN t => Blank(t, n + k - 1)
        BY <1>0, <2>1 DEF Starts
      <4>4. ASSUME n + e + 1 \in DOMAIN t PROVE Blank(t, n + e + 1)
        <5>1. e + 1 \in 1 .. Len(r) /\ n + e + 1 = n + (e + 1)
          BY <1>0, <2>1, <2>2, <4>4
        <5>2. t[n + (e + 1)] = r[e + 1] /\ Blank(r, e + 1)
          BY <1>0, <4>1, <5>1 DEF IsWord
        <5> QED BY <5>1, <5>2, BlankIs
      <4>5. n + e \in n + k .. Len(t) /\ n + k <= n + e
        BY <1>0, <2>1, <2>2
      <4>6. IsWord(t, n + k, n + e)
        <5>1. ASSUME NEW i \in {n + k - 1, n + e + 1} \cap DOMAIN t PROVE Blank(t, i)
          BY <4>3, <4>4
        <5> DEFINE a == n + k
                   b == n + e
        <5>2. a <= b
          BY <4>5
        <5>4. \A i \in a .. b : ~Blank(t, i)
          BY <4>2
        <5>5. \A i \in {a - 1, b + 1} \cap DOMAIN t : Blank(t, i)
          <6>1. {a - 1, b + 1} = {n + k - 1, n + e + 1}
            BY <1>0, <2>1, <2>2
          <6> QED BY <5>1, <6>1
        <5> HIDE DEF a, b
        <5>3. IsWord(t, a, b)
          BY <5>2, <5>4, <5>5 DEF IsWord
        <5> QED BY <5>3 DEF a, b
      <4> QED BY <2>1, <3>2, <4>5, <4>6 DEF EndsAt
    <3> QED BY <3>1, <3>2
  <2>4. Parameter(t, n + k) = SubSeq(t, n + k, n + e)
    BY <1>0, <2>1, <2>3, ParameterIs
  <2>5. Parameter(r, k) = SubSeq(r, k, e)
    BY <2>2, ParameterIs
  <2> QED BY <1>b, <2>1, <2>2, <2>4, <2>5
<1> DEFINE p == ParameterPieces(t)
           x == ParameterPieces(l)
           y == ParameterPieces(r)
<1>10. /\ p \in Seq(Seq(Seq(S))) /\ Len(p) = n + Len(r)
       /\ \A j \in 1 .. n + Len(r) :
            p[j] = IF j \in ParameterStarts(t) THEN <<Parameter(t, j)>> ELSE <<>>
       /\ Parameters(t) = FlattenSeq(p)
  BY <1>0, PiecesAre
<1>11. /\ x \in Seq(Seq(Seq(S))) /\ Len(x) = n
       /\ \A j \in 1 .. n :
            x[j] = IF j \in ParameterStarts(l) THEN <<Parameter(l, j)>> ELSE <<>>
       /\ Parameters(l) = FlattenSeq(x)
  BY PiecesAre DEF n
<1>12. /\ y \in Seq(Seq(Seq(S))) /\ Len(y) = Len(r)
       /\ \A j \in 1 .. Len(r) :
            y[j] = IF j \in ParameterStarts(r) THEN <<Parameter(r, j)>> ELSE <<>>
       /\ Parameters(r) = FlattenSeq(y)
  BY PiecesAre
<1> HIDE DEF p, x, y
<1>13. ASSUME NEW k \in 1 .. n PROVE p[k] = x[k]
  <2>1. k \in 1 .. n + Len(r)
    BY <1>0
  <2>2. /\ p[k] = IF k \in ParameterStarts(t) THEN <<Parameter(t, k)>> ELSE <<>>
        /\ x[k] = IF k \in ParameterStarts(l) THEN <<Parameter(l, k)>> ELSE <<>>
    BY <1>10, <1>11, <2>1
  <2>3. k \in ParameterStarts(t) <=> k \in ParameterStarts(l)
    BY <1>5, <1>6
  <2>4. k \in ParameterStarts(l) => Parameter(t, k) = Parameter(l, k)
    BY <1>6, <1>8
  <2>5. CASE k \in ParameterStarts(l)
    BY <2>2, <2>3, <2>4, <2>5
  <2>6. CASE k \notin ParameterStarts(l)
    BY <2>2, <2>3, <2>6
  <2> QED BY <2>5, <2>6
<1>14. ASSUME NEW k \in 1 .. Len(r) PROVE p[n + k] = y[k]
  <2>1. n + k \in 1 .. n + Len(r)
    BY <1>0
  <2>2. /\ p[n + k] = IF n + k \in ParameterStarts(t) THEN <<Parameter(t, n + k)>> ELSE <<>>
        /\ y[k] = IF k \in ParameterStarts(r) THEN <<Parameter(r, k)>> ELSE <<>>
    BY <1>10, <1>12, <2>1
  <2>3. n + k \in ParameterStarts(t) <=> k \in ParameterStarts(r)
    BY <1>7
  <2>4. k \in ParameterStarts(r) => Parameter(t, n + k) = Parameter(r, k)
    BY <1>9 DEF ParameterStarts
  <2>5. CASE k \in ParameterStarts(r)
    BY <2>2, <2>3, <2>4, <2>5
  <2>6. CASE k \notin ParameterStarts(r)
    BY <2>2, <2>3, <2>6
  <2> QED BY <2>5, <2>6
<1>15. p = x \o y
  <2>1. /\ x \o y \in Seq(Seq(Seq(S))) /\ Len(x \o y) = Len(x) + Len(y)
        /\ \A k \in 1 .. Len(x) : (x \o y)[k] = x[k]
        /\ \A k \in 1 .. Len(y) : (x \o y)[Len(x) + k] = y[k]
    <3>1. x \in Seq(Seq(Seq(S))) /\ y \in Seq(Seq(Seq(S)))
      BY <1>11, <1>12
    <3> QED BY ONLY <3>1, Joining
  <2> DEFINE z == x \o y
  <2>2. /\ z \in Seq(Seq(Seq(S))) /\ Len(z) = n + Len(r)
        /\ \A k \in 1 .. n : z[k] = x[k]
        /\ \A k \in 1 .. Len(r) : z[n + k] = y[k]
    BY ONLY <2>1, <1>11, <1>12, Zenon
  <2> HIDE DEF z
  <2>3. ASSUME NEW k \in 1 .. n + Len(r) PROVE p[k] = z[k]
    <3>1. CASE k <= n
      <4>1. k \in 1 .. n
        BY <1>0, <3>1
      <4> QED BY <1>13, <2>2, <4>1
    <3>2. CASE k > n
      <4> DEFINE q == k - n
      <4>1. q \in 1 .. Len(r) /\ n + q = k
        BY <1>0, <3>2
      <4> HIDE DEF q
      <4>2. p[n + q] = z[n + q]
        BY <1>14, <2>2, <4>1
      <4> QED BY <4>1, <4>2
    <3>3. k <= n \/ k > n
      BY <1>0
    <3> QED BY <3>1, <3>2, <3>3
  <2>4. p = z
    BY <1>10, <2>2, <2>3, SeqEqual
  <2> QED BY <2>4 DEF z
<1>16. FlattenSeq(x \o y) = FlattenSeq(x) \o FlattenSeq(y)
  BY <1>11, <1>12, FlatteningConcat
<1> QED BY <1>10, <1>11, <1>12, <1>15, <1>16 DEF t

(* A word by itself, and words put behind one another. *)

IsPlain(w) == w # <<>> /\ w[1] # ":" /\ \A k \in 1 .. Len(w) : w[k] # Space

\* A line of one word has that one parameter.
LEMMA WordAlone ==
  ASSUME NEW S, NEW l \in Seq(S), NEW n \in 1 .. Len(l), l[1] # ":",
         \A k \in 1 .. n : l[k] # Space, \A k \in n + 1 .. Len(l) : l[k] = Space
  PROVE  Starts(l) = {1} /\ Parameters(l) = <<SubSeq(l, 1, n)>>
<1>0. Len(l) \in Nat /\ DOMAIN l = 1 .. Len(l) /\ 1 \in 1 .. Len(l)
  BY LenProperties
<1>1. \A j : j \in Starts(l) <=> /\ j \in 1 .. Len(l) /\ l[j] # Space /\ (j = 1 \/ l[j - 1] = Space)
  BY StartIs
<1>2. 1 \in Starts(l)
  BY <1>0, <1>1
<1>3. ASSUME NEW j \in Starts(l) PROVE j = 1
  <2>1. j \in 1 .. Len(l) /\ l[j] # Space /\ (j = 1 \/ l[j - 1] = Space)
    BY <1>1
  <2>2. j \in 1 .. n
    BY <1>0, <2>1
  <2>3. j # 1 => j - 1 \in 1 .. n
    BY <2>2
  <2> QED BY <2>1, <2>3
<1>4. Starts(l) = {1}
  BY <1>2, <1>3
<1>5. 1 \in ParameterStarts(l) /\ \A j \in 2 .. Len(l) : j \notin ParameterStarts(l)
  BY <1>4 DEF ParameterStarts
<1>6. EndsAt(l, 1, n)
  <2>1. \A i \in {1 - 1, n + 1} \cap DOMAIN l : Blank(l, i)
    BY <1>0, BlankIs
  <2>2. IsWord(l, 1, n)
    BY <2>1, BlankIs DEF IsWord
  <2> QED BY <2>2 DEF EndsAt
<1>7. Parameter(l, 1) = SubSeq(l, 1, n)
  BY <1>2, <1>6, ParameterIs
<1>8. UpTo(l, 1) = Append(UpTo(l, 0), Parameter(l, 1))
  <2>1. 1 - 1 = 0
    OBVIOUS
  <2> QED BY <1>0, <1>5, <2>1, UpToNext
<1>9. UpTo(l, Len(l)) = UpTo(l, 1)
  <2>1. 1 \in 0 .. Len(l) /\ Len(l) \in 1 .. Len(l) /\ 1 + 1 = 2
    BY <1>0
  <2> QED BY <1>5, <2>1, UpToSkip
<1>10. UpTo(l, 0) = <<>> /\ UpTo(l, Len(l)) = Parameters(l)
  BY UpToNothing
<1>11. Append(<<>>, Parameter(l, 1)) = <<Parameter(l, 1)>>
  OBVIOUS
<1> QED BY <1>4, <1>7, <1>8, <1>9, <1>10, <1>11

\* So has a plain word, with or without a blank behind it.
LEMMA WordAndBlank ==
  ASSUME NEW S, NEW w \in Seq(S), IsPlain(w), Space \in S
  PROVE  /\ Parameters(w) = <<w>> /\ Parameters(w \o <<Space>>) = <<w>>
         /\ IsBlankEnded(w \o <<Space>>) /\ HasNoTrailing(w \o <<Space>>)
<1>0. Len(w) \in Nat /\ Len(w) \in 1 .. Len(w) /\ w[1] # ":" /\ \A k \in 1 .. Len(w) : w[k] # Space
  BY EmptySeq, LenProperties DEF IsPlain
<1>1. SubSeq(w, 1, Len(w)) = w
  OBVIOUS
<1>2. Parameters(w) = <<SubSeq(w, 1, Len(w))>>
  <2>1. \A k \in Len(w) + 1 .. Len(w) : w[k] = Space
    BY <1>0
  <2> QED BY <1>0, <2>1, WordAlone
<1> DEFINE b == <<Space>>
<1>3. b \in Seq(S) /\ Len(b) = 1 /\ b[1] = Space
  OBVIOUS
<1> HIDE DEF b
<1>4. PICK x \in Seq(S) : x = w \o b
  <2>1. w \o b \in Seq(S)
    BY <1>3, Joining
  <2> QED BY <2>1
<1>5. /\ Len(x) = Len(w) + Len(b) /\ \A k \in 1 .. Len(w) : x[k] = w[k]
      /\ \A k \in 1 .. Len(b) : x[Len(w) + k] = b[k]
  <2>1. w \in Seq(S) /\ b \in Seq(S)
    BY <1>3
  <2> QED BY ONLY <2>1, <1>4, Joining
<1>11. SubSeq(x, 1, Len(w)) = w
  <2>1. 1 \in 1 .. Len(w) /\ Len(w) \in 1 .. Len(w)
    BY <1>0
  <2>2. SubSeq(w \o b, 1, Len(w)) = SubSeq(w, 1, Len(w))
    BY <1>3, <2>1, PartOfFirst
  <2> QED BY <1>1, <1>4, <2>2
<1>6. /\ Len(x) = Len(w) + 1 /\ x[Len(w) + 1] = Space /\ x[1] # ":" /\ Len(w) \in 1 .. Len(x)
      /\ \A k \in 1 .. Len(w) : x[k] # Space
  BY <1>0, <1>3, <1>5
<1>7. \A k \in Len(w) + 1 .. Len(x) : x[k] = Space
  BY <1>0, <1>6
<1>8. Starts(x) = {1} /\ Parameters(x) = <<w>>
  <2>1. Starts(x) = {1} /\ Parameters(x) = <<SubSeq(x, 1, Len(w))>>
    BY <1>6, <1>7, WordAlone
  <2> QED BY <1>11, <2>1
<1>9. IsBlankEnded(x)
  BY <1>6 DEF IsBlankEnded
<1>10. HasNoTrailing(x)
  BY <1>6, <1>8 DEF HasNoTrailing
<1> QED BY <1>1, <1>2, <1>4, <1>8, <1>9, <1>10 DEF b

\* A line that begins with ':' is one parameter.
LEMMA TextAlone ==
  ASSUME NEW S, NEW l \in Seq(S), l # <<>>, l[1] = ":"
  PROVE  Parameters(l) = <<l>>
<1>0. Len(l) \in Nat /\ DOMAIN l = 1 .. Len(l) /\ 1 \in 1 .. Len(l) /\ Len(l) \in 1 .. Len(l)
  BY LenProperties, EmptySeq
<1>1. 1 \in Starts(l)
  <2>1. 1 \in Starts(l) <=> 1 \in 1 .. Len(l) /\ l[1] # Space /\ (1 = 1 \/ l[1 - 1] = Space)
    BY StartIs
  <2>2. ":" # Space
    BY Zenon DEF Space
  <2> QED BY <1>0, <2>1, <2>2
<1>2. 1 \in ParameterStarts(l) /\ \A j \in 2 .. Len(l) : j \notin ParameterStarts(l)
  <2>1. ASSUME NEW i \in Starts(l) PROVE ~(i < 1)
    BY <1>0, StartIs
  <2>2. 1 \in ParameterStarts(l)
    BY <1>1, <2>1 DEF ParameterStarts
  <2>3. ASSUME NEW j \in 2 .. Len(l) PROVE j \notin ParameterStarts(l)
    BY <1>1 DEF ParameterStarts
  <2> QED BY <2>2, <2>3
<1>3. Parameter(l, 1) = SubSeq(l, 1, Len(l))
  BY <1>0, <1>1, ParameterIs DEF EndsAt
<1>4. SubSeq(l, 1, Len(l)) = l
  OBVIOUS
<1>5. UpTo(l, 1) = Append(UpTo(l, 0), Parameter(l, 1))
  <2>1. 1 - 1 = 0
    OBVIOUS
  <2> QED BY <1>0, <1>2, <2>1, UpToNext
<1>6. UpTo(l, Len(l)) = UpTo(l, 1)
  <2>1. 1 \in 0 .. Len(l) /\ Len(l) \in 1 .. Len(l) /\ 1 + 1 = 2
    BY <1>0
  <2> QED BY <1>2, <2>1, UpToSkip
<1>7. UpTo(l, 0) = <<>> /\ UpTo(l, Len(l)) = Parameters(l)
  BY UpToNothing
<1>8. Append(<<>>, l) = <<l>>
  OBVIOUS
<1> QED BY <1>3, <1>4, <1>5, <1>6, <1>7, <1>8

\* What stands in front of a text: the words ps, each with a blank behind it.
IsHeader(S, l, ps) ==
  l \in Seq(S) /\ IsBlankEnded(l) /\ HasNoTrailing(l) /\ Parameters(l) = ps

\* A plain word and a blank begin a header.
LEMMA HeaderFirst ==
  ASSUME NEW S, NEW w \in Seq(S), IsPlain(w), Space \in S
  PROVE  IsHeader(S, w \o <<Space>>, <<w>>)
BY WordAndBlank DEF IsHeader

\* One more word and a blank make a longer header.
LEMMA HeaderNext ==
  ASSUME NEW S, NEW l, NEW ps \in Seq(Seq(S)), IsHeader(S, l, ps),
         NEW w \in Seq(S), IsPlain(w), Space \in S
  PROVE  IsHeader(S, (l \o w) \o <<Space>>, Append(ps, w))
<1>1. l \in Seq(S) /\ IsBlankEnded(l) /\ HasNoTrailing(l) /\ Parameters(l) = ps
  BY DEF IsHeader
<1>2. PICK r \in Seq(S) : r = w \o <<Space>>
  <2>1. <<Space>> \in Seq(S)
    OBVIOUS
  <2>2. w \o <<Space>> \in Seq(S)
    BY <2>1, Joining
  <2> QED BY <2>2
<1>3. Parameters(r) = <<w>> /\ IsBlankEnded(r) /\ HasNoTrailing(r) /\ Len(r) = Len(w) + 1
  <2>1. Len(r) = Len(w) + 1
    BY <1>2
  <2> QED BY <1>2, <2>1, WordAndBlank
<1>4. PICK t \in Seq(S) : t = l \o r
  <2>1. l \o r \in Seq(S)
    BY <1>1, Joining
  <2> QED BY <2>1
<1>5. t = (l \o w) \o <<Space>>
  <2>1. <<Space>> \in Seq(S)
    OBVIOUS
  <2>2. Groups(l, w, <<Space>>)
    BY <1>1, <2>1, Grouping, Zenon
  <2> QED BY <1>2, <1>4, <2>2 DEF Groups
<1>6. Parameters(t) = Append(ps, w)
  <2>1. Parameters(t) = ps \o <<w>>
    BY <1>1, <1>3, <1>4, ParametersWhole
  <2>2. ps \o <<w>> = Append(ps, w)
    BY AppendIsConcat
  <2> QED BY <2>1, <2>2
<1>7. /\ Len(t) = Len(l) + Len(r) /\ Len(l) \in Nat /\ Len(r) \in Nat /\ Len(w) \in Nat
      /\ \A k \in 1 .. Len(l) : t[k] = l[k]
      /\ \A k \in 1 .. Len(r) : t[Len(l) + k] = r[k]
  BY <1>1, <1>4, Joining, LenProperties
<1>8. IsBlankEnded(t)
  <2>1. Len(r) \in 1 .. Len(r) /\ r # <<>>
    BY <1>3, <1>7, EmptySeq
  <2>2. r[Len(r)] = Space
    BY <1>3, <2>1 DEF IsBlankEnded
  <2>3. t[Len(l) + Len(r)] = r[Len(r)]
    BY <1>7, <2>1
  <2>4. t[Len(t)] = Space
    BY <1>7, <2>2, <2>3
  <2> QED BY <2>4 DEF IsBlankEnded
<1>9. ASSUME NEW j \in Starts(t) PROVE t[j] # ":"
  <2>1. j \in 1 .. Len(t)
    BY StartIs
  <2>2. CASE j <= Len(l)
    <3>1. j \in 1 .. Len(l)
      BY <1>7, <2>1, <2>2
    <3>2. j \in Starts(l) /\ t[j] = l[j]
      BY <1>1, <1>4, <1>7, <3>1, StartsWhole
    <3> QED BY <1>1, <3>2 DEF HasNoTrailing
  <2>3. CASE j > Len(l)
    <3>1. PICK k \in 1 .. Len(r) : j = Len(l) + k
      <4>1. j - Len(l) \in 1 .. Len(r) /\ j = Len(l) + (j - Len(l))
        BY <1>7, <2>1, <2>3
      <4> QED BY <4>1
    <3>2. k \in Starts(r) /\ t[j] = r[k]
      BY <1>1, <1>4, <1>7, <3>1, StartsWhole
    <3> QED BY <1>3, <3>2 DEF HasNoTrailing
  <2>4. j <= Len(l) \/ j > Len(l)
    BY <1>7, <2>1
  <2> QED BY <2>2, <2>3, <2>4
<1> QED BY <1>5, <1>6, <1>8, <1>9 DEF IsHeader, HasNoTrailing

\* Behind a header a text is the last parameter.
LEMMA HeaderText ==
  ASSUME NEW S, NEW l, NEW ps \in Seq(Seq(S)), IsHeader(S, l, ps), NEW t \in Seq(S), ":" \in S
  PROVE  Parameters((l \o <<":">>) \o t) = Append(ps, <<":">> \o t)
<1>1. l \in Seq(S) /\ IsBlankEnded(l) /\ HasNoTrailing(l) /\ Parameters(l) = ps
  BY DEF IsHeader
<1>2. PICK r \in Seq(S) : r = <<":">> \o t
  <2>1. <<":">> \in Seq(S)
    OBVIOUS
  <2>2. <<":">> \o t \in Seq(S)
    BY <2>1, Joining
  <2> QED BY <2>2
<1>3. r # <<>> /\ r[1] = ":"
  <2>1. <<":">> \in Seq(S) /\ Len(<<":">>) = 1 /\ <<":">>[1] = ":" /\ Len(t) \in Nat
    BY LenProperties
  <2>2. Len(r) = 1 + Len(t) /\ r[1] = ":"
    BY <1>2, <2>1, Joining
  <2> QED BY <2>1, <2>2, EmptySeq
<1>4. Parameters(r) = <<r>>
  BY <1>3, TextAlone
<1>5. (l \o <<":">>) \o t = l \o r
  <2>1. <<":">> \in Seq(S)
    OBVIOUS
  <2>2. Groups(l, <<":">>, t)
    BY <1>1, <2>1, Grouping, Zenon
  <2> QED BY <1>2, <2>2 DEF Groups
<1>6. Parameters(l \o r) = ps \o <<r>>
  BY <1>1, <1>4, ParametersWhole
<1>7. ps \o <<r>> = Append(ps, r)
  BY AppendIsConcat
<1> QED BY <1>2, <1>5, <1>6, <1>7

-----------------------------------------------------------------------------
(* The loop of split. *)

HasNoTrailingUpTo(l, n) == \A i \in Starts(l) : i <= n => l[i] # ":"

\* The first ':' is at or before any other.
LEMMA FirstColonIs ==
  ASSUME NEW S, NEW l \in Seq(S), NEW j \in 1 .. Len(l), l[j] = ":"
  PROVE  FirstColon(l) \in 1 .. j /\ l[FirstColon(l)] = ":"
<1> DEFINE I == {i \in 1 .. Len(l) : l[i] = ":"}
<1>1. I \in SUBSET Nat /\ j \in I
  OBVIOUS
<1>2. FirstColon(l) = IF I # {} THEN Min(I) ELSE 0
  BY DEF FirstColon, SelectInSeq
<1>3. FirstColon(l) = Min(I)
  BY <1>1, <1>2
<1>4. Min(I) \in I /\ \A i \in I : Min(I) <= i
  <2> HIDE DEF I
  <2> QED BY <1>1, LeastNumber
<1> QED BY <1>1, <1>3, <1>4

\* The next word of the stream is the next parameter.
LEMMA WordNext ==
  ASSUME NEW S, NEW l \in Seq(S), NEW n \in 0 .. Len(l), HasNoTrailingUpTo(l, n),
         NEW j \in n + 1 .. Len(l), NEW k \in n + 1 .. Len(l), IsWord(l, j, k),
         \A i \in n + 1 .. j - 1 : Blank(l, i)
  PROVE  /\ j \in ParameterStarts(l) /\ j <= k
         /\ l[j] # ":" => /\ UpTo(l, k) = Append(UpTo(l, n), SubSeq(l, j, k))
                          /\ IsPlain(SubSeq(l, j, k))
                          /\ HasNoTrailingUpTo(l, k)
         /\ l[j] = ":" => Parameters(l) = Append(UpTo(l, n), SubSeq(l, j, Len(l)))
<1>0. /\ Len(l) \in Nat /\ DOMAIN l = 1 .. Len(l) /\ j \in 1 .. Len(l) /\ k \in j .. Len(l)
      /\ k \in 1 .. Len(l) /\ n \in Nat
  <2>1. j <= k
    BY DEF IsWord
  <2> QED BY <2>1, LenProperties
<1>1. \A i : i \in Starts(l) <=> /\ i \in 1 .. Len(l) /\ l[i] # Space /\ (i = 1 \/ l[i - 1] = Space)
  BY StartIs
<1>2. /\ \A i \in j .. k : l[i] # Space
      /\ \A i \in {j - 1, k + 1} \cap DOMAIN l : l[i] = Space
  BY BlankIs DEF IsWord
<1>3. j \in Starts(l)
  <2>1. l[j] # Space
    BY <1>0, <1>2
  <2>2. j = 1 \/ l[j - 1] = Space
    BY <1>0, <1>2
  <2> QED BY <1>0, <1>1, <2>1, <2>2
<1>4. \A i \in n + 1 .. j - 1 : i \notin Starts(l)
  BY <1>1, BlankIs
<1>5. \A i \in j + 1 .. k : i \notin Starts(l)
  <2> SUFFICES ASSUME NEW i \in j + 1 .. k, i \in Starts(l) PROVE FALSE
    OBVIOUS
  <2>1. i # 1 /\ i - 1 \in j .. k
    BY <1>0
  <2>2. l[i - 1] = Space
    BY <1>1, <2>1
  <2> QED BY <1>2, <2>1, <2>2
<1>6. j \in ParameterStarts(l)
  <2>1. ASSUME NEW i \in Starts(l), i < j PROVE l[i] # ":"
    <3>1. i \in 1 .. Len(l)
      BY <1>1
    <3>2. i <= n
      BY <1>0, <1>4, <2>1, <3>1
    <3> QED BY <3>2 DEF HasNoTrailingUpTo
  <2> QED BY <1>3, <2>1 DEF ParameterStarts
<1>7. UpTo(l, j) = Append(UpTo(l, n), Parameter(l, j))
  <2>1. j - 1 \in 0 .. Len(l) /\ j - 1 \in n .. Len(l)
    BY <1>0
  <2>2. \A i \in n + 1 .. j - 1 : i \notin ParameterStarts(l)
    BY <1>4 DEF ParameterStarts
  <2>3. UpTo(l, j - 1) = UpTo(l, n)
    BY <2>1, <2>2, UpToSkip
  <2>4. UpTo(l, j) = Append(UpTo(l, j - 1), Parameter(l, j))
    BY <1>0, <1>6, UpToNext
  <2> QED BY <2>3, <2>4
<1>8. CASE l[j] = ":"
  <2>1. Parameter(l, j) = SubSeq(l, j, Len(l))
    BY <1>0, <1>3, <1>8, ParameterIs DEF EndsAt
  <2>2. UpTo(l, Len(l)) = UpTo(l, j)
    <3>1. j \in 0 .. Len(l) /\ Len(l) \in j .. Len(l)
      BY <1>0
    <3>2. ASSUME NEW i \in j + 1 .. Len(l) PROVE i \notin ParameterStarts(l)
      <4>1. j < i
        BY <1>0
      <4> QED BY <1>3, <1>8, <4>1 DEF ParameterStarts
    <3> QED BY <3>1, <3>2, UpToSkip
  <2> QED BY <1>0, <1>6, <1>7, <1>8, <2>1, <2>2, UpToNothing
<1>9. CASE l[j] # ":"
  <2>1. Parameter(l, j) = SubSeq(l, j, k)
    BY <1>0, <1>3, <1>9, ParameterIs DEF EndsAt
  <2>2. UpTo(l, k) = UpTo(l, j)
    <3>1. j \in 0 .. Len(l)
      BY <1>0
    <3>2. \A i \in j + 1 .. k : i \notin ParameterStarts(l)
      BY <1>5 DEF ParameterStarts
    <3> QED BY <1>0, <3>1, <3>2, UpToSkip
  <2>3. HasNoTrailingUpTo(l, k)
    <3>1. ASSUME NEW i \in Starts(l), i <= k PROVE l[i] # ":"
      <4>1. i \in 1 .. Len(l)
        BY <1>1
      <4>2. CASE i <= n
        BY <4>2 DEF HasNoTrailingUpTo
      <4>3. CASE i > n
        <5>1. i \notin n + 1 .. j - 1 /\ i \notin j + 1 .. k
          BY <1>4, <1>5
        <5>2. i = j
          BY <1>0, <3>1, <4>1, <4>3, <5>1
        <5> QED BY <1>9, <5>2
      <4> QED BY <1>0, <4>1, <4>2, <4>3
    <3> QED BY <3>1 DEF HasNoTrailingUpTo
  <2>4. IsPlain(SubSeq(l, j, k))
    <3>1. PICK w \in Seq(S) : w = SubSeq(l, j, k)
      <4>1. SubSeq(l, j, k) \in Seq(S)
        BY <1>0, PartIs
      <4> QED BY <4>1
    <3>2. Len(w) = k - j + 1 /\ \A i \in 1 .. k - j + 1 : w[i] = l[i + j - 1]
      BY <1>0, <3>1, PartIs
    <3>3. w # <<>> /\ w[1] = l[j]
      <4>1. SubSeq(l, j, k) # <<>> /\ SubSeq(l, j, k)[1] = l[j]
        <5>1. l \in Seq(S) /\ j \in 1 .. Len(l) /\ k \in j .. Len(l)
          BY <1>0
        <5> QED BY ONLY <5>1, PartIs
      <4> QED BY <3>1, <4>1
    <3>4. \A i \in 1 .. Len(w) : w[i] # Space
      <4>1. ASSUME NEW i \in 1 .. Len(w) PROVE w[i] # Space
        <5>1. i + j - 1 \in j .. k /\ w[i] = l[i + j - 1]
          BY <1>0, <3>2
        <5> QED BY <1>2, <5>1
      <4> QED BY <4>1
    <3> QED BY <1>9, <3>1, <3>3, <3>4 DEF IsPlain
  <2> QED BY <1>0, <1>6, <1>7, <1>9, <2>1, <2>2, <2>3, <2>4
<1> QED BY <1>8, <1>9

\* When only blanks are left, all parameters were found.
LEMMA WordLast ==
  ASSUME NEW S, NEW l \in Seq(S), NEW n \in 0 .. Len(l), 
         \A i \in n + 1 .. Len(l) : Blank(l, i)
  PROVE  Parameters(l) = UpTo(l, n)
<1>1. \A i \in n + 1 .. Len(l) : i \notin ParameterStarts(l)
  BY StartIs, BlankIs DEF ParameterStarts
<1>2. Len(l) \in n .. Len(l)
  BY LenProperties
<1> QED BY <1>1, <1>2, UpToSkip, UpToNothing

\* A trailing parameter as split has it: the rest of the line from its first
\* colon, which stands at i, where the parameter begins at j.
GrewFrom(S, l, p) ==
  \E b \in Seq(Seq(S)), j \in ParameterStarts(l) :
    /\ l[j] = ":" /\ FirstColon(l) \in 1 .. j
    /\ Parameters(l) = Append(b, SubSeq(l, j, Len(l)))
    /\ p = Append(b, SubSeq(l, FirstColon(l), Len(l)))

IsTrailing(w) == w # <<>> /\ w[1] = ":"

AllPlain(p) == \A n \in 1 .. Len(p) : IsPlain(p[n])
AllRead(p) == \A n \in 1 .. Len(p) : IsPlain(p[n]) \/ (n = Len(p) /\ IsTrailing(p[n]))

SplitInv(S) ==
  /\ line \in Seq(S) /\ args \in Seq(Seq(S))
  /\ at = "loop" => /\ pos \in 0 .. Len(line) /\ args = UpTo(line, pos)
                    /\ HasNoTrailingUpTo(line, pos) /\ AllPlain(args)
  /\ at # "loop" => /\ args = Parameters(line) \/ GrewFrom(S, line, args)
                    /\ AllRead(args)

\* Before the first word nothing is found.
LEMMA SplitStarts ==
  ASSUME NEW S, line \in Seq(S), pos = 0, args = <<>>, at = "loop"
  PROVE  SplitInv(S)
<1>1. UpTo(line, 0) = <<>> /\ Len(line) \in Nat
  BY UpToNothing, LenProperties
<1>2. \A i \in Starts(line) : i \in 1 .. Len(line)
  BY StartIs
<1>3. args \in Seq(Seq(S)) /\ Len(args) = 0
  OBVIOUS
<1>4. HasNoTrailingUpTo(line, 0)
  BY <1>1, <1>2 DEF HasNoTrailingUpTo
<1>5. AllPlain(args)
  BY <1>3 DEF AllPlain
<1> QED BY <1>1, <1>3, <1>4, <1>5 DEF SplitInv

\* Every iteration of split keeps what is known of it.
LEMMA SplitSteps ==
  ASSUME NEW S, SplitInv(S), NextWord \/ NoMoreWords
  PROVE  SplitInv(S)'
<1> USE DEF SplitInv
<1>0. at = "loop" /\ line' = line /\ line \in Seq(S) /\ pos \in 0 .. Len(line)
  BY DEF NextWord, NoMoreWords
<1>1. CASE NoMoreWords
  <2>1. args' = args /\ at' = "returned" /\ \A i \in pos + 1 .. Len(line) : Blank(line, i)
    BY <1>1 DEF NoMoreWords
  <2>2. Parameters(line) = UpTo(line, pos)
    BY <1>0, <2>1, WordLast
  <2>3. AllRead(args)
    BY <1>0 DEF AllPlain, AllRead
  <2> QED BY <1>0, <2>1, <2>2, <2>3
<1>2. CASE NextWord
  <2> DEFINE t == StartsTrailing(line, 1)
  <2>1. PICK j \in pos + 1 .. Len(line), k \in pos + 1 .. Len(line) :
       /\ IsWord(line, j, k)
       /\ \A i \in pos + 1 .. j - 1 : Blank(line, i)
       /\ IF StartsTrailing(line, j)
          THEN args' = Append(args, SubSeq(line, FirstColon(line), Len(line)))
               /\ at' = "returned"
          ELSE args' = Append(args, SubSeq(line, j, k)) /\ UNCHANGED at
       /\ pos' = k
    BY <1>2 DEF NextWord
  <2>2. /\ j \in ParameterStarts(line) /\ j <= k
        /\ line[j] # ":" => /\ UpTo(line, k) = Append(args, SubSeq(line, j, k))
                            /\ IsPlain(SubSeq(line, j, k))
                            /\ HasNoTrailingUpTo(line, k)
        /\ line[j] = ":" => Parameters(line) = Append(args, SubSeq(line, j, Len(line)))
    <3>1. HasNoTrailingUpTo(line, pos) /\ args = UpTo(line, pos)
      BY <1>0
    <3> QED BY <1>0, <2>1, <3>1, WordNext
  <2>3. /\ Len(line) \in Nat /\ j \in 1 .. Len(line) /\ k \in 1 .. Len(line)
        /\ args \in Seq(Seq(S)) /\ AllPlain(args)
    BY <1>0, LenProperties
  <2>4. CASE line[j] = ":"
    <3>1. FirstColon(line) \in 1 .. j /\ line[FirstColon(line)] = ":"
      BY <1>0, <2>3, <2>4, FirstColonIs
    <3>2. PICK c \in 1 .. Len(line) : c = FirstColon(line) /\ line[c] = ":"
      BY <2>3, <3>1
    <3>3. PICK w \in Seq(S) : w = SubSeq(line, c, Len(line)) /\ w # <<>> /\ w[1] = line[c]
      <4>1. Len(line) \in c .. Len(line)
        BY <2>3
      <4>2. /\ SubSeq(line, c, Len(line)) \in Seq(S) /\ SubSeq(line, c, Len(line)) # <<>>
            /\ SubSeq(line, c, Len(line))[1] = line[c]
        BY <1>0, <4>1, PartIs
      <4> QED BY <4>2
    <3>4. IsTrailing(w)
      BY <3>2, <3>3 DEF IsTrailing
    <3>5. args' = Append(args, w) /\ at' = "returned"
      BY <2>1, <2>4, <3>2, <3>3 DEF StartsTrailing
    <3>6. args' \in Seq(Seq(S)) /\ AllRead(args')
      <4>1. /\ args' \in Seq(Seq(S)) /\ Len(args') = Len(args) + 1 /\ args'[Len(args) + 1] = w
            /\ \A n \in 1 .. Len(args) : args'[n] = args[n]
        BY <2>3, <3>5, AppendProperties
      <4>2. ASSUME NEW n \in 1 .. Len(args) + 1
            PROVE  IsPlain(args'[n]) \/ (n = Len(args) + 1 /\ IsTrailing(args'[n]))
        <5>1. n \in 1 .. Len(args) \/ n = Len(args) + 1
          BY <2>3, LenProperties
        <5> QED BY <2>3, <3>4, <4>1, <5>1 DEF AllPlain
      <4> QED BY <4>1, <4>2 DEF AllRead
    <3>7. GrewFrom(S, line, args')
      BY <2>2, <2>3, <2>4, <3>1, <3>2, <3>3, <3>5 DEF GrewFrom
    <3> QED BY <1>0, <3>5, <3>6, <3>7
  <2>5. CASE line[j] # ":"
    <3>1. PICK w \in Seq(S) : w = SubSeq(line, j, k)
      <4>1. SubSeq(line, j, k) \in Seq(S)
        BY <1>0, <2>2, <2>3, PartIs
      <4> QED BY <4>1
    <3>2. args' = Append(args, w) /\ at' = at
      BY <2>1, <2>5, <3>1 DEF StartsTrailing
    <3>3. /\ args' \in Seq(Seq(S)) /\ Len(args') = Len(args) + 1 /\ args'[Len(args) + 1] = w
          /\ \A n \in 1 .. Len(args) : args'[n] = args[n]
      BY <2>3, <3>2, AppendProperties
    <3>4. AllPlain(args')
      <4>1. IsPlain(w)
        BY <2>2, <2>5, <3>1
      <4>2. ASSUME NEW n \in 1 .. Len(args) + 1 PROVE IsPlain(args'[n])
        <5>1. n \in 1 .. Len(args) \/ n = Len(args) + 1
          BY <2>3, LenProperties
        <5> QED BY <2>3, <3>3, <4>1, <5>1 DEF AllPlain
      <4> QED BY <3>3, <4>2 DEF AllPlain
    <3>5. pos' \in 0 .. Len(line) /\ args' = UpTo(line, pos') /\ HasNoTrailingUpTo(line, pos')
      BY <2>1, <2>2, <2>3, <2>5, <3>1, <3>2
    <3> QED BY <1>0, <3>2, <3>3, <3>4, <3>5
  <2> QED BY <2>4, <2>5
<1> QED BY <1>1, <1>2

\* A sequence, reversed.
LEMMA ReverseType ==
  ASSUME NEW S, NEW s \in Seq(S)
  PROVE  /\ Reverse(s) \in Seq(S) /\ Len(Reverse(s)) = Len(s)
         /\ \A k \in 1 .. Len(s) : Reverse(s)[k] = s[(Len(s) - k) + 1]
<1>1. Len(s) \in Nat
  BY LenProperties
<1>2. Reverse(s) = [k \in 1 .. Len(s) |-> s[(Len(s) - k) + 1]]
  BY DEF Reverse
<1>3. ASSUME NEW k \in 1 .. Len(s) PROVE s[(Len(s) - k) + 1] \in S
  <2>1. (Len(s) - k) + 1 \in 1 .. Len(s)
    BY <1>1
  <2> QED BY <2>1, ElementOfSeq
<1>4. Reverse(s) \in [1 .. Len(s) -> S]
  BY <1>2, <1>3
<1>5. Reverse(s) \in Seq(S) /\ Len(Reverse(s)) = Len(s)
  BY <1>1, <1>4, SeqDef, LenProperties
<1> QED BY <1>2, <1>5

\* The rest of a line from j is an end of the rest from an earlier place.
LEMMA SuffixOfRest ==
  ASSUME NEW S, NEW l \in Seq(S), NEW j \in 1 .. Len(l), NEW c \in 1 .. j
  PROVE  IsSuffix(SubSeq(l, j, Len(l)), SubSeq(l, c, Len(l)))
<1>0. Len(l) \in Nat
  BY LenProperties
<1>1. PICK v \in Seq(S), w \in Seq(S) : v = SubSeq(l, j, Len(l)) /\ w = SubSeq(l, c, Len(l))
  <2>1. c \in 1 .. Len(l) /\ Len(l) \in j .. Len(l) /\ Len(l) \in c .. Len(l)
    BY <1>0
  <2>2. SubSeq(l, j, Len(l)) \in Seq(S) /\ SubSeq(l, c, Len(l)) \in Seq(S)
    BY <2>1, PartIs
  <2> QED BY <2>2
<1>2. /\ Len(v) = Len(l) - j + 1 /\ Len(w) = Len(l) - c + 1
      /\ \A i \in 1 .. Len(l) - j + 1 : v[i] = l[i + j - 1]
      /\ \A i \in 1 .. Len(l) - c + 1 : w[i] = l[i + c - 1]
  <2>1. c \in 1 .. Len(l) /\ Len(l) \in j .. Len(l) /\ Len(l) \in c .. Len(l)
    BY <1>0
  <2> QED BY <1>1, <2>1, PartIs
<1>3. PICK x \in Seq(S), y \in Seq(S) :
        /\ x = Reverse(v) /\ y = Reverse(w) /\ Len(x) = Len(v) /\ Len(y) = Len(w)
        /\ \A k \in 1 .. Len(v) : x[k] = v[(Len(v) - k) + 1]
        /\ \A k \in 1 .. Len(w) : y[k] = w[(Len(w) - k) + 1]
  BY ReverseType
<1>4. Len(x) <= Len(y)
  BY <1>0, <1>2, <1>3
<1>5. ASSUME NEW k \in 1 .. Len(x) PROVE x[k] = y[k]
  <2>1. /\ (Len(v) - k) + 1 \in 1 .. Len(l) - j + 1 /\ (Len(w) - k) + 1 \in 1 .. Len(l) - c + 1
        /\ ((Len(v) - k) + 1) + j - 1 = ((Len(w) - k) + 1) + c - 1
        /\ k \in 1 .. Len(v) /\ k \in 1 .. Len(w)
    BY <1>0, <1>2, <1>3, <1>4
  <2>2. x[k] = v[(Len(v) - k) + 1] /\ y[k] = w[(Len(w) - k) + 1]
    BY <1>3, <2>1
  <2>3. v[(Len(v) - k) + 1] = l[((Len(v) - k) + 1) + j - 1]
    BY <1>2, <2>1
  <2>4. w[(Len(w) - k) + 1] = l[((Len(w) - k) + 1) + c - 1]
    BY <1>2, <2>1
  <2> QED BY <2>1, <2>2, <2>3, <2>4
<1>6. IsPrefix(x, y)
  BY <1>4, <1>5, PrefixIs
<1> QED BY <1>1, <1>3, <1>6 DEF IsSuffix

\* A well-formed line.
LEMMA SplitWellFormed ==
  ASSUME NEW S, SplitInv(S), at # "loop", IsWellFormed(line)
  PROVE  args = Parameters(line)
<1>1. line \in Seq(S) /\ (args = Parameters(line) \/ GrewFrom(S, line, args))
  BY DEF SplitInv
<1>2. CASE GrewFrom(S, line, args)
  <2>1. PICK b \in Seq(Seq(S)), j \in ParameterStarts(line) :
    /\ line[j] = ":" /\ FirstColon(line) \in 1 .. j
    /\ Parameters(line) = Append(b, SubSeq(line, j, Len(line)))
    /\ args = Append(b, SubSeq(line, FirstColon(line), Len(line)))
    BY <1>2 DEF GrewFrom
  <2>2. j \in Starts(line) /\ \A i \in Starts(line) : i < j => line[i] # ":"
    BY DEF ParameterStarts
  <2>3. j \in 1 .. Len(line) /\ Len(line) \in Nat
    BY <1>1, <2>2, StartIs, LenProperties
  <2>4. FirstColon(line) \in 1 .. j /\ line[FirstColon(line)] = ":"
    BY <1>1, <2>1, <2>3, FirstColonIs
  <2>5. FirstColon(line) \in Starts(line)
    BY <2>3, <2>4 DEF IsWellFormed
  <2>6. ~(FirstColon(line) < j)
    BY <2>2, <2>4, <2>5
  <2>7. FirstColon(line) = j
    BY <2>3, <2>4, <2>6
  <2> QED BY <2>1, <2>7
<1> QED BY <1>1, <1>2

\* What is known of split when it returns is what the two properties say.
LEMMA SplitKeeps ==
  ASSUME NEW S, SplitInv(S)
  PROVE  SplitsIntoParameters /\ ParametersAreKept
<1>1. SplitsIntoParameters
  BY SplitWellFormed DEF SplitsIntoParameters
<1>2. ASSUME at = "returned" 
      PROVE  /\ Len(args) = Len(Parameters(line))
             /\ \A n \in DOMAIN args : IsSuffix(Parameters(line)[n], args[n])
  <2>1. line \in Seq(S) /\ args \in Seq(Seq(S)) /\ (args = Parameters(line) \/ GrewFrom(S, line, args))
    BY <1>2 DEF SplitInv
  <2>2. ASSUME NEW w \in Seq(S) PROVE IsSuffix(w, w)
    <3>1. Reverse(w) \in Seq(S)
      BY ReverseType
    <3> QED BY <3>1, PrefixSelf DEF IsSuffix
  <2>3. CASE args = Parameters(line)
    BY <2>1, <2>2, <2>3, ElementOfSeq
  <2>4. CASE GrewFrom(S, line, args)
    <3>1. PICK b \in Seq(Seq(S)), j \in ParameterStarts(line) :
      /\ line[j] = ":" /\ FirstColon(line) \in 1 .. j
      /\ Parameters(line) = Append(b, SubSeq(line, j, Len(line)))
      /\ args = Append(b, SubSeq(line, FirstColon(line), Len(line)))
      BY <2>4 DEF GrewFrom
    <3>2. j \in 1 .. Len(line) /\ Len(line) \in Nat
      BY <2>1, StartIs, LenProperties DEF ParameterStarts
    <3>3. PICK c \in 1 .. j : c = FirstColon(line)
      BY <3>1
    <3>4. PICK v \in Seq(S), w \in Seq(S) : v = SubSeq(line, j, Len(line)) /\ w = SubSeq(line, c, Len(line))
      <4>1. c \in 1 .. Len(line) /\ Len(line) \in j .. Len(line) /\ Len(line) \in c .. Len(line)
        BY <3>2
      <4>2. SubSeq(line, j, Len(line)) \in Seq(S) /\ SubSeq(line, c, Len(line)) \in Seq(S)
        BY <2>1, <3>2, <4>1, PartIs
      <4> QED BY <4>2
    <3>5. IsSuffix(v, w)
      BY <2>1, <3>2, <3>4, SuffixOfRest
    <3>6. PICK p \in Seq(Seq(S)), q \in Seq(Seq(S)) :
             p = Append(b, v) /\ q = Append(b, w) /\ p = Parameters(line) /\ q = args
      <4>1. Append(b, v) \in Seq(Seq(S)) /\ Append(b, w) \in Seq(Seq(S))
        BY AppendProperties
      <4> QED BY <3>1, <3>3, <3>4, <4>1
    <3>7. /\ Len(p) = Len(b) + 1 /\ Len(q) = Len(b) + 1 /\ DOMAIN q = 1 .. Len(b) + 1
          /\ p[Len(b) + 1] = v /\ q[Len(b) + 1] = w /\ Len(b) \in Nat
          /\ \A n \in 1 .. Len(b) : p[n] = b[n]
          /\ \A n \in 1 .. Len(b) : q[n] = b[n]
      <4>1. /\ Len(p) = Len(b) + 1 /\ p[Len(b) + 1] = v
            /\ \A n \in 1 .. Len(b) : p[n] = b[n]
        <5>1. v \in Seq(S) /\ b \in Seq(Seq(S)) /\ p = Append(b, v)
          BY <3>6
        <5> QED BY ONLY <5>1, AppendProperties
      <4>2. /\ Len(q) = Len(b) + 1 /\ q[Len(b) + 1] = w
            /\ \A n \in 1 .. Len(b) : q[n] = b[n]
        <5>1. w \in Seq(S) /\ b \in Seq(Seq(S)) /\ q = Append(b, w)
          BY <3>6
        <5> QED BY ONLY <5>1, AppendProperties
      <4> QED BY <4>1, <4>2, LenProperties
    <3>8. ASSUME NEW n \in 1 .. Len(b) + 1 PROVE IsSuffix(p[n], q[n])
      <4>1. CASE n = Len(b) + 1
        BY <3>5, <3>7, <4>1
      <4>2. CASE n # Len(b) + 1
        <5>1. n \in 1 .. Len(b)
          BY <3>7, <4>2
        <5>2. b[n] \in Seq(S)
          BY <5>1, ElementOfSeq
        <5> QED BY <2>2, <3>7, <5>1, <5>2
      <4> QED BY <4>1, <4>2
    <3> QED BY <3>6, <3>7, <3>8
  <2> QED BY <2>1, <2>3, <2>4
<1> QED BY <1>1, <1>2 DEF ParametersAreKept

-----------------------------------------------------------------------------
(* The parameters of a text that was cut. *)

\* A part that ends earlier is a beginning of one that ends later.
LEMMA PartPrefix ==
  ASSUME NEW S, NEW l \in Seq(S), NEW j \in 1 .. Len(l), NEW e \in j .. Len(l), NEW f \in e .. Len(l)
  PROVE  IsPrefix(SubSeq(l, j, e), SubSeq(l, j, f))
<1>0. Len(l) \in Nat /\ f \in j .. Len(l)
  BY LenProperties
<1>1. PICK v \in Seq(S), w \in Seq(S) : v = SubSeq(l, j, e) /\ w = SubSeq(l, j, f)
  <2>1. SubSeq(l, j, e) \in Seq(S)
    BY PartIs
  <2>2. SubSeq(l, j, f) \in Seq(S)
    BY <1>0, PartIs
  <2> QED BY <2>1, <2>2
<1>2. Len(v) = e - j + 1 /\ \A i \in 1 .. e - j + 1 : v[i] = l[i + j - 1]
  BY <1>1, PartIs
<1>3. Len(w) = f - j + 1 /\ \A i \in 1 .. f - j + 1 : w[i] = l[i + j - 1]
  BY <1>0, <1>1, PartIs
<1>4. Len(v) <= Len(w) /\ \A i \in 1 .. Len(v) : v[i] = w[i]
  BY <1>0, <1>2, <1>3
<1>5. IsPrefix(v, w)
  BY <1>4, PrefixIs
<1> QED BY <1>1, <1>5

\* In a beginning of a line the same words begin.
LEMMA CutStarts ==
  ASSUME NEW S, NEW l \in Seq(S), NEW c \in Seq(S), Len(c) <= Len(l),
         \A i \in 1 .. Len(c) : c[i] = l[i]
  PROVE  /\ \A i \in 1 .. Len(c) : i \in Starts(c) <=> i \in Starts(l)
         /\ \A i \in 1 .. Len(c) : i \in ParameterStarts(c) <=> i \in ParameterStarts(l)
<1>0. Len(c) \in Nat /\ Len(l) \in Nat
  BY LenProperties
<1>1. ASSUME NEW i \in 1 .. Len(c) PROVE i \in Starts(c) <=> i \in Starts(l)
  <2>1. i \in 1 .. Len(l) /\ c[i] = l[i] /\ (i # 1 => c[i - 1] = l[i - 1])
    BY <1>0
  <2>2. i \in Starts(c) <=> c[i] # Space /\ (i = 1 \/ c[i - 1] = Space)
    BY StartIs
  <2>3. i \in Starts(l) <=> l[i] # Space /\ (i = 1 \/ l[i - 1] = Space)
    BY <2>1, StartIs
  <2> QED BY <2>1, <2>2, <2>3
<1>2. ASSUME NEW i \in 1 .. Len(c) PROVE i \in ParameterStarts(c) <=> i \in ParameterStarts(l)
  <2>1. \A k \in Starts(c) : k \in 1 .. Len(c)
    BY StartIs
  <2>2. \A k \in Starts(l) : k < i => k \in 1 .. Len(c)
    BY <1>0, StartIs
  <2>3. ASSUME \A k \in Starts(c) : k < i => c[k] # ":", NEW k \in Starts(l), k < i
        PROVE  l[k] # ":"
    BY <1>1, <2>2, <2>3
  <2>4. ASSUME \A k \in Starts(l) : k < i => l[k] # ":", NEW k \in Starts(c), k < i
        PROVE  c[k] # ":"
    BY <1>1, <2>1, <2>4
  <2> QED BY <1>1, <2>3, <2>4 DEF ParameterStarts
<1> QED BY <1>1, <1>2

\* Where a line is cut, its last parameter is cut and the others are whole.
LEMMA CutParameter ==
  ASSUME NEW S, NEW l \in Seq(S), NEW c \in Seq(S), Len(c) <= Len(l),
         \A i \in 1 .. Len(c) : c[i] = l[i],
         NEW j \in ParameterStarts(c)
  PROVE  /\ IsPrefix(Parameter(c, j), Parameter(l, j))
         /\ \A i \in ParameterStarts(c) : i < j => Parameter(c, i) = Parameter(l, i)
<1>0. Len(c) \in Nat /\ Len(l) \in Nat /\ DOMAIN c = 1 .. Len(c) /\ DOMAIN l = 1 .. Len(l)
  BY LenProperties
<1>1. \A i \in ParameterStarts(c) : /\ i \in 1 .. Len(c) /\ i \in 1 .. Len(l)
                                    /\ i \in Starts(c) /\ i \in Starts(l) /\ c[i] = l[i]
  <2>1. ASSUME NEW i \in ParameterStarts(c) PROVE i \in 1 .. Len(c) /\ i \in Starts(c)
    BY StartIs DEF ParameterStarts
  <2> QED BY <1>0, <2>1, CutStarts
<1>2. ASSUME NEW i \in 1 .. Len(c), NEW e \in i .. Len(c) PROVE SubSeq(c, i, e) = SubSeq(l, i, e)
  <2>0. i \in 1 .. Len(l) /\ e \in i .. Len(l)
    BY <1>0
  <2>1. PICK v \in Seq(S), w \in Seq(S) : v = SubSeq(c, i, e) /\ w = SubSeq(l, i, e)
    <3>1. SubSeq(c, i, e) \in Seq(S)
      BY PartIs
    <3>2. SubSeq(l, i, e) \in Seq(S)
      BY <2>0, PartIs
    <3> QED BY <3>1, <3>2
  <2>2. Len(v) = e - i + 1 /\ \A k \in 1 .. e - i + 1 : v[k] = c[k + i - 1]
    BY <2>1, PartIs
  <2>3. Len(w) = e - i + 1 /\ \A k \in 1 .. e - i + 1 : w[k] = l[k + i - 1]
    BY <2>0, <2>1, PartIs
  <2>4. \A k \in 1 .. e - i + 1 : v[k] = w[k]
    <3>1. ASSUME NEW k \in 1 .. e - i + 1 PROVE v[k] = w[k]
      <4>1. k + i - 1 \in 1 .. Len(c)
        BY <1>0
      <4>2. c[k + i - 1] = l[k + i - 1]
        BY <4>1
      <4> QED BY <2>2, <2>3, <4>2
    <3> QED BY <3>1
  <2>5. v = w
    BY <2>2, <2>3, <2>4, SeqEqual
  <2> QED BY <2>1, <2>5
<1>3. IsPrefix(Parameter(c, j), Parameter(l, j))
  <2>1. PICK e \in j .. Len(c) : EndsAt(c, j, e)
    BY <1>1, EndExists
  <2>2. PICK f \in j .. Len(l) : EndsAt(l, j, f)
    BY <1>1, EndExists
  <2>3. Parameter(c, j) = SubSeq(c, j, e) /\ Parameter(l, j) = SubSeq(l, j, f)
    BY <1>1, <2>1, <2>2, ParameterIs
  <2>4. e <= f
    <3>1. CASE c[j] = ":"
      <4>1. l[j] = ":"
        BY <1>1, <3>1
      <4> QED BY <1>0, <2>2, <3>1, <4>1 DEF EndsAt
    <3>2. CASE c[j] # ":"
      <4>1. IsWord(c, j, e) /\ IsWord(l, j, f)
        BY <1>1, <2>1, <2>2, <3>2 DEF EndsAt
      <4>2. SUFFICES ASSUME f < e PROVE FALSE
        BY <1>0, <1>1
      <4>3. f + 1 \in j .. e /\ f + 1 \in 1 .. Len(c) /\ f + 1 \in DOMAIN l
        BY <1>0, <1>1, <4>2
      <4>4. l[f + 1] = Space
        BY <4>1, <4>3, BlankIs DEF IsWord
      <4>5. c[f + 1] # Space
        BY <4>1, <4>3, BlankIs DEF IsWord
      <4> QED BY <4>3, <4>4, <4>5
    <3> QED BY <3>1, <3>2
  <2>5. SubSeq(c, j, e) = SubSeq(l, j, e)
    BY <1>1, <1>2
  <2>6. IsPrefix(SubSeq(l, j, e), SubSeq(l, j, f))
    <3>1. e \in j .. Len(l) /\ f \in e .. Len(l) /\ j \in 1 .. Len(l)
      BY <1>0, <1>1, <2>4
    <3> QED BY <3>1, PartPrefix
  <2> QED BY <2>3, <2>5, <2>6
<1>4. ASSUME NEW i \in ParameterStarts(c), i < j PROVE Parameter(c, i) = Parameter(l, i)
  <2>1. c[i] # ":" /\ l[i] # ":"
    BY <1>1, <1>4 DEF ParameterStarts
  <2>2. PICK e \in i .. Len(c) : EndsAt(c, i, e)
    BY <1>1, EndExists
  <2>3. IsWord(c, i, e)
    BY <2>1, <2>2 DEF EndsAt
  <2>4. e < j
    <3> SUFFICES ASSUME j <= e PROVE FALSE
      BY <1>0, <1>1
    <3>1. j - 1 \in i .. e /\ j # 1
      BY <1>0, <1>1, <1>4
    <3>2. c[j - 1] = Space
      <4>1. j = 1 \/ c[j - 1] = Space
        BY <1>1, StartIs
      <4> QED BY <3>1, <4>1
    <3> QED BY <2>3, <3>1, <3>2, BlankIs DEF IsWord
  <2>5. /\ \A k \in i .. e : c[k] = l[k]
        /\ \A k \in {i - 1, e + 1} \cap DOMAIN l : k \in DOMAIN c /\ c[k] = l[k]
    BY <1>0, <1>1, <2>4
  <2>6. IsWord(l, i, e)
    <3>1. i <= e
      BY <1>0, <1>1
    <3>2. ASSUME NEW k \in i .. e PROVE ~Blank(l, k)
      BY <2>3, <2>5, BlankIs DEF IsWord
    <3>3. ASSUME NEW k \in {i - 1, e + 1} \cap DOMAIN l PROVE Blank(l, k)
      BY <2>3, <2>5, BlankIs DEF IsWord
    <3> QED BY <3>1, <3>2, <3>3 DEF IsWord
  <2>7. e \in i .. Len(l) /\ EndsAt(l, i, e)
    BY <1>0, <1>1, <2>1, <2>6 DEF EndsAt
  <2>8. Parameter(c, i) = SubSeq(c, i, e) /\ Parameter(l, i) = SubSeq(l, i, e)
    BY <1>1, <2>2, <2>7, ParameterIs
  <2> QED BY <1>1, <1>2, <2>8
<1> QED BY <1>3, <1>4

\* So the parameters of a beginning of a line are the first ones, the last of
\* them perhaps cut.
LEMMA CutParameters ==
  ASSUME NEW S, NEW l \in Seq(S), NEW c \in Seq(S), IsPrefix(c, l)
  PROVE  /\ Parameters(c) \in Seq(Seq(S)) /\ Parameters(l) \in Seq(Seq(S))
         /\ Len(Parameters(c)) <= Len(Parameters(l))
         /\ \A i \in 1 .. Len(Parameters(c)) :
              IF i = Len(Parameters(c)) THEN IsPrefix(Parameters(c)[i], Parameters(l)[i])
              ELSE Parameters(c)[i] = Parameters(l)[i]
<1>0. /\ Len(c) <= Len(l) /\ \A i \in 1 .. Len(c) : c[i] = l[i]
      /\ Len(c) \in Nat /\ Len(l) \in Nat
  BY PrefixIs, LenProperties
<1>1. PICK q \in Seq(Seq(S)) : q = Parameters(l) /\ q = UpTo(l, Len(l))
  <2>1. UpTo(l, Len(l)) \in Seq(Seq(S))
    BY <1>0, UpToType
  <2> QED BY <2>1, UpToNothing
<1>2. PICK p \in Seq(Seq(S)) : p = Parameters(c) /\ p = UpTo(c, Len(c))
  <2>1. UpTo(c, Len(c)) \in Seq(Seq(S))
    BY <1>0, UpToType
  <2> QED BY <2>1, UpToNothing
<1>3. SUFFICES /\ Len(p) <= Len(q)
               /\ \A i \in 1 .. Len(p) : IF i = Len(p) THEN IsPrefix(p[i], q[i]) ELSE p[i] = q[i]
  BY <1>1, <1>2
<1>4. Len(p) \in Nat /\ Len(q) \in Nat
  BY LenProperties
<1>5. CASE ParameterStarts(c) = {}
  <2>1. UpTo(c, Len(c)) = UpTo(c, 0)
    <3>1. 0 \in 0 .. Len(c) /\ Len(c) \in 0 .. Len(c)
      BY <1>0
    <3>2. \A i \in 0 + 1 .. Len(c) : i \notin ParameterStarts(c)
      BY <1>5
    <3> QED BY <3>1, <3>2, UpToSkip
  <2>2. p = <<>>
    BY <1>2, <2>1, UpToNothing
  <2>3. Len(p) = 0
    BY <2>2
  <2> QED BY <1>4, <2>3
<1>6. CASE ParameterStarts(c) # {}
  <2>1. ParameterStarts(c) \subseteq 1 .. Len(c)
    BY StartIs DEF ParameterStarts
  <2>2. PICK j \in ParameterStarts(c) : \A i \in ParameterStarts(c) : i <= j
    <3>1. ParameterStarts(c) \in SUBSET (0 .. Len(c))
      BY <1>0, <2>1
    <3> QED BY <1>0, <1>6, <3>1, GreatestNumber
  <2>3. /\ j \in 1 .. Len(c) /\ j \in 1 .. Len(l) /\ j - 1 \in 0 .. Len(c) /\ j - 1 <= Len(l)
        /\ j \in 0 .. Len(c) /\ Len(c) \in j .. Len(c) /\ j \in 0 .. Len(l) /\ Len(l) \in j .. Len(l)
    BY <1>0, <2>1
  <2>4. /\ IsPrefix(Parameter(c, j), Parameter(l, j))
        /\ \A i \in ParameterStarts(c) : i < j => Parameter(c, i) = Parameter(l, i)
    BY <1>0, CutParameter
  <2>5. \A i \in 1 .. Len(c) : i \in ParameterStarts(c) <=> i \in ParameterStarts(l)
    BY <1>0, CutStarts
  <2>6. UpTo(c, j - 1) = UpTo(l, j - 1)
    <3>1. \A i \in 1 .. j - 1 : i \in ParameterStarts(c) <=> i \in ParameterStarts(l)
      BY <2>3, <2>5
    <3>2. \A i \in 1 .. j - 1 : i \in ParameterStarts(c) => Parameter(c, i) = Parameter(l, i)
      BY <2>3, <2>4
    <3> QED BY <2>3, <3>1, <3>2, UpToSame
  <2>7. PICK b \in Seq(Seq(S)) : b = UpTo(l, j - 1)
    BY <2>3, UpToNext
  <2>8. PICK v \in Seq(S), w \in Seq(S) : v = Parameter(c, j) /\ w = Parameter(l, j)
    <3>1. j \in Starts(c) /\ j \in Starts(l)
      BY <1>0, <2>3, CutStarts DEF ParameterStarts
    <3> QED BY <3>1, ParameterType
  <2>9. p = Append(b, v)
    <3>1. UpTo(c, Len(c)) = UpTo(c, j)
      <4>1. \A i \in j + 1 .. Len(c) : i \notin ParameterStarts(c)
        BY <2>2, <2>3
      <4> QED BY <2>3, <4>1, UpToSkip
    <3>2. UpTo(c, j) = Append(UpTo(c, j - 1), Parameter(c, j))
      BY <2>2, <2>3, UpToNext
    <3> QED BY <1>2, <2>6, <2>7, <2>8, <3>1, <3>2
  <2>10. PICK x \in Seq(Seq(S)) : x = Append(b, w) /\ IsPrefix(x, q)
    <3>1. UpTo(l, j) = Append(b, w)
      <4>1. j \in ParameterStarts(l)
        BY <2>3, <2>5
      <4> QED BY <2>3, <2>7, <2>8, <4>1, UpToNext
    <3>2. IsPrefix(UpTo(l, j), UpTo(l, Len(l)))
      BY <2>3, UpToPrefix
    <3>3. Append(b, w) \in Seq(Seq(S))
      BY AppendProperties
    <3> QED BY <1>1, <3>1, <3>2, <3>3
  <2>11. /\ Len(p) = Len(b) + 1 /\ p[Len(b) + 1] = v
         /\ \A n \in 1 .. Len(b) : p[n] = b[n]
    <3>1. v \in Seq(S) /\ b \in Seq(Seq(S)) /\ p = Append(b, v)
      BY <2>9
    <3> QED BY ONLY <3>1, AppendProperties
  <2>12. /\ Len(x) = Len(b) + 1 /\ x[Len(b) + 1] = w
         /\ \A n \in 1 .. Len(b) : x[n] = b[n]
    <3>1. w \in Seq(S) /\ b \in Seq(Seq(S)) /\ x = Append(b, w)
      BY <2>10
    <3> QED BY ONLY <3>1, AppendProperties
  <2>13. Len(x) <= Len(q) /\ \A k \in 1 .. Len(x) : x[k] = q[k]
    <3>1. x \in Seq(Seq(S)) /\ q \in Seq(Seq(S)) /\ IsPrefix(x, q)
      BY <2>10
    <3> QED BY ONLY <3>1, PrefixIs
  <2>14. Len(b) \in Nat
    BY LenProperties
  <2>15. IsPrefix(v, w)
    BY <2>4, <2>8
  <2>16. ASSUME NEW i \in 1 .. Len(p) PROVE IF i = Len(p) THEN IsPrefix(p[i], q[i]) ELSE p[i] = q[i]
    <3>1. CASE i = Len(b) + 1
      <4>1. p[i] = v /\ q[i] = w
        BY <2>11, <2>12, <2>13, <2>14, <3>1
      <4> QED BY <2>11, <2>15, <3>1, <4>1
    <3>2. CASE i # Len(b) + 1
      <4>1. i \in 1 .. Len(b) /\ i \in 1 .. Len(x)
        BY <2>11, <2>12, <2>14, <3>2
      <4>2. p[i] = q[i]
        BY <2>11, <2>12, <2>13, <4>1
      <4> QED BY <2>11, <3>2, <4>2
    <3> QED BY <3>1, <3>2
  <2> QED BY <2>11, <2>12, <2>13, <2>16
<1> QED BY <1>5, <1>6

-----------------------------------------------------------------------------
(* What is put together before formatMessage. *)

\* The blank the server writes is a Space.
LEMMA SpIs == Sp = <<Space>>
BY Zenon DEF Sp, Space

\* The head and the tail of a sequence put behind an element.
LEMMA TailOfJoin ==
  ASSUME NEW S, NEW e \in S, NEW h \in Seq(S)
  PROVE  /\ <<e>> \o h \in Seq(S) /\ Len(<<e>> \o h) = Len(h) + 1 /\ <<e>> \o h # <<>>
         /\ Head(<<e>> \o h) = e /\ Tail(<<e>> \o h) = h
<1>1. <<e>> \in Seq(S) /\ Len(<<e>>) = 1 /\ <<e>>[1] = e /\ Len(h) \in Nat
  BY LenProperties
<1> DEFINE x == <<e>> \o h
<1>2. /\ x \in Seq(S) /\ Len(x) = 1 + Len(h) /\ x[1] = e
      /\ \A k \in 1 .. Len(h) : x[1 + k] = h[k]
  <2>1. <<e>> \in Seq(S) /\ h \in Seq(S)
    BY <1>1
  <2>2. /\ x \in Seq(S) /\ Len(x) = Len(<<e>>) + Len(h)
        /\ \A k \in 1 .. Len(<<e>>) : x[k] = <<e>>[k]
        /\ \A k \in 1 .. Len(h) : x[Len(<<e>>) + k] = h[k]
    BY ONLY <2>1, Joining
  <2> HIDE DEF x
  <2> QED BY <1>1, <2>2
<1> HIDE DEF x
<1>3. x # <<>> /\ Head(x) = e
  BY <1>1, <1>2, EmptySeq
<1>4. Tail(x) \in Seq(S) /\ Len(Tail(x)) = Len(h) /\ \A k \in 1 .. Len(h) : Tail(x)[k] = h[k]
  BY <1>1, <1>2, <1>3
<1>5. Tail(x) = h
  BY <1>4, SeqEqual
<1> QED BY <1>1, <1>2, <1>3, <1>5 DEF x

\* The length of two joined sequences, when that of the first is known.
LEMMA JoiningTwo ==
  ASSUME NEW S, NEW x \in Seq(S), NEW y \in Seq(S), NEW n \in Nat, Len(x) = n
  PROVE  x \o y \in Seq(S) /\ Len(x \o y) = n + Len(y)
BY Joining

\* Tuples of two and of three, element by element.
LEMMA Appending ==
  ASSUME NEW S, NEW a \in S, NEW b \in S, NEW c \in S
  PROVE  Append(<<a>>, b) = <<a, b>> /\ Append(<<a, b>>, c) = <<a, b, c>>
<1>1. PICK x \in Seq(S) : x = <<a>>
  <2>1. <<a>> \in Seq(S)
    OBVIOUS
  <2> QED BY <2>1
<1>2. PICK y \in Seq(S) : y = <<a, b>>
  <2>1. <<a, b>> \in Seq(S)
    OBVIOUS
  <2> QED BY <2>1
<1>3. PICK z \in Seq(S) : z = <<a, b, c>>
  <2>1. <<a, b, c>> \in Seq(S)
    OBVIOUS
  <2> QED BY <2>1
<1>4. PICK v \in Seq(S) : v = Append(x, b)
  BY AppendProperties
<1>5. PICK w \in Seq(S) : w = Append(y, c)
  BY AppendProperties
<1>6. Len(x) = 1 /\ x[1] = a
  BY <1>1
<1>7. Len(y) = 2 /\ y[1] = a /\ y[2] = b
  BY <1>2
<1>8. Len(z) = 3 /\ z[1] = a /\ z[2] = b /\ z[3] = c
  BY <1>3
<1>9. Len(v) = 2 /\ v[1] = a /\ v[2] = b
  <2>1. Len(v) = Len(x) + 1 /\ v[Len(x) + 1] = b /\ \A k \in 1 .. Len(x) : v[k] = x[k]
    BY ONLY <1>4, b \in S, x \in Seq(S), AppendProperties
  <2> QED BY <1>6, <2>1
<1>10. Len(w) = 3 /\ w[1] = a /\ w[2] = b /\ w[3] = c
  <2>1. Len(w) = Len(y) + 1 /\ w[Len(y) + 1] = c /\ \A k \in 1 .. Len(y) : w[k] = y[k]
    BY ONLY <1>5, c \in S, y \in Seq(S), AppendProperties
  <2> QED BY <1>7, <2>1
<1>11. v = y
  <2>1. \A k \in 1 .. 2 : v[k] = y[k]
    BY <1>7, <1>9
  <2> QED BY <1>7, <1>9, <2>1, SeqEqual
<1>12. w = z
  <2>1. \A k \in 1 .. 3 : w[k] = z[k]
    BY <1>8, <1>10
  <2> QED BY <1>8, <1>10, <2>1, SeqEqual
<1> QED BY <1>1, <1>2, <1>3, <1>4, <1>5, <1>11, <1>12

\* Tuples of four and of five, element by element.
LEMMA AppendingMore ==
  ASSUME NEW S, NEW a \in S, NEW b \in S, NEW c \in S, NEW d \in S, NEW e \in S
  PROVE  Append(<<a, b, c>>, d) = <<a, b, c, d>> /\ Append(<<a, b, c, d>>, e) = <<a, b, c, d, e>>
<1>1. PICK x \in Seq(S) : x = <<a, b, c>>
  <2>1. <<a, b, c>> \in Seq(S)
    OBVIOUS
  <2> QED BY <2>1
<1>2. PICK y \in Seq(S) : y = <<a, b, c, d>>
  <2>1. <<a, b, c, d>> \in Seq(S)
    OBVIOUS
  <2> QED BY <2>1
<1>3. PICK z \in Seq(S) : z = <<a, b, c, d, e>>
  <2>1. <<a, b, c, d, e>> \in Seq(S)
    OBVIOUS
  <2> QED BY <2>1
<1>4. PICK v \in Seq(S) : v = Append(x, d)
  BY AppendProperties
<1>5. PICK w \in Seq(S) : w = Append(y, e)
  BY AppendProperties
<1>6. Len(x) = 3 /\ x[1] = a /\ x[2] = b /\ x[3] = c
  BY <1>1
<1>7. Len(y) = 4 /\ y[1] = a /\ y[2] = b /\ y[3] = c /\ y[4] = d
  BY <1>2
<1>8. Len(z) = 5 /\ z[1] = a /\ z[2] = b /\ z[3] = c /\ z[4] = d /\ z[5] = e
  BY <1>3
<1>9. Len(v) = 4 /\ v[1] = a /\ v[2] = b /\ v[3] = c /\ v[4] = d
  <2>1. Len(v) = Len(x) + 1 /\ v[Len(x) + 1] = d /\ \A k \in 1 .. Len(x) : v[k] = x[k]
    BY ONLY <1>4, d \in S, x \in Seq(S), AppendProperties
  <2> QED BY <1>6, <2>1
<1>10. Len(w) = 5 /\ w[1] = a /\ w[2] = b /\ w[3] = c /\ w[4] = d /\ w[5] = e
  <2>1. Len(w) = Len(y) + 1 /\ w[Len(y) + 1] = e /\ \A k \in 1 .. Len(y) : w[k] = y[k]
    BY ONLY <1>5, e \in S, y \in Seq(S), AppendProperties
  <2> QED BY <1>7, <2>1
<1>11. v = y
  <2>1. \A k \in 1 .. 4 : v[k] = y[k]
    BY <1>7, <1>9
  <2> QED BY <1>7, <1>9, <2>1, SeqEqual
<1>12. w = z
  <2>1. \A k \in 1 .. 5 : w[k] = z[k]
    BY <1>8, <1>10
  <2> QED BY <1>8, <1>10, <2>1, SeqEqual
<1> QED BY <1>1, <1>2, <1>3, <1>4, <1>5, <1>11, <1>12

\* A tuple of four, element by element.
LEMMA AppendingFour ==
  ASSUME NEW S, NEW a \in S, NEW b \in S, NEW c \in S, NEW d \in S
  PROVE  Append(<<a, b, c>>, d) = <<a, b, c, d>>
<1>1. \A e \in S : /\ Append(<<a, b, c>>, d) = <<a, b, c, d>>
                   /\ Append(<<a, b, c, d>>, e) = <<a, b, c, d, e>>
  BY AppendingMore
<1> QED BY <1>1

\* l is the sender's ':' and the words ps, each with a blank behind it.
IsLed(S, l, ps, n) ==
  /\ \E h \in Seq(S) : l = Colon \o h /\ IsHeader(S, h, ps)
  /\ l \in Seq(S) /\ Len(l) = n

\* A ':' and the first word begin a message.
LEMMA LedFirst ==
  ASSUME NEW S, NEW w \in Seq(S), IsPlain(w), Space \in S, ":" \in S
  PROVE  IsLed(S, Colon \o w \o Sp, <<w>>, Len(w) + 2)
<1>1. Sp \in Seq(S) /\ Len(Sp) = 1 /\ Colon \in Seq(S) /\ Len(Colon) = 1 /\ Len(w) \in Nat
  BY SpIs, LenProperties DEF Colon
<1>2. PICK h \in Seq(S) : h = w \o Sp
  <2>1. w \o Sp \in Seq(S)
    BY <1>1, Joining
  <2> QED BY <2>1
<1>3. IsHeader(S, h, <<w>>)
  BY <1>2, HeaderFirst, SpIs
<1>4. Groups(Colon, w, Sp)
  BY <1>1, Grouping, Zenon
<1>5. Colon \o w \o Sp = Colon \o h
  BY <1>2, <1>4 DEF Groups
<1>8. w \in Seq(S) /\ h \in Seq(S)
  OBVIOUS
<1>6. Joins(S, w, Sp) /\ Joins(S, Colon, h)
  BY <1>1, <1>8, JoinsAll, Zenon
<1>7. Len(h) = Len(w) + 1 /\ Colon \o h \in Seq(S) /\ Len(Colon \o h) = 1 + Len(h)
  BY <1>1, <1>2, <1>6 DEF Joins
<1> QED BY <1>1, <1>3, <1>5, <1>7 DEF IsLed

\* One more word of a message.
LEMMA LedNext ==
  ASSUME NEW S, NEW l, NEW ps \in Seq(Seq(S)), NEW n \in Nat, IsLed(S, l, ps, n),
         NEW w \in Seq(S), IsPlain(w), Space \in S, ":" \in S
  PROVE  IsLed(S, l \o w \o Sp, Append(ps, w), n + Len(w) + 1)
<1>1. Sp \in Seq(S) /\ Len(Sp) = 1 /\ Colon \in Seq(S) /\ Len(Colon) = 1 /\ Len(w) \in Nat
  BY SpIs, LenProperties DEF Colon
<1>2. PICK h \in Seq(S) : l = Colon \o h /\ IsHeader(S, h, ps)
  BY DEF IsLed
<1>3. IsHeader(S, (h \o w) \o Sp, Append(ps, w))
  BY <1>2, HeaderNext, SpIs
<1>4. h \o w \in Seq(S) /\ l \in Seq(S) /\ Len(l) = n
  <2>1. h \o w \in Seq(S)
    BY Joining
  <2> QED BY <2>1 DEF IsLed
<1>5. PICK g \in Seq(S) : g = (h \o w) \o Sp
  <2>1. (h \o w) \o Sp \in Seq(S)
    BY ONLY <1>1, <1>4, Joining
  <2> QED BY <2>1
<1>6. Groups(Colon, h, w) /\ Groups(Colon, h \o w, Sp)
  BY <1>1, <1>4, Grouping, Zenon
<1>7. l \o w \o Sp = Colon \o g
  BY <1>2, <1>5, <1>6 DEF Groups
<1>8. l \o w \in Seq(S) /\ Len(l \o w) = n + Len(w)
  BY <1>4, Joining
<1>9. l \o w \o Sp \in Seq(S) /\ Len(l \o w \o Sp) = n + Len(w) + 1
  <2>1. PICK x \in Seq(S) : x = l \o w /\ Len(x) = n + Len(w) /\ n + Len(w) \in Nat
    <3>1. n + Len(w) \in Nat
      BY <1>1
    <3> QED BY <1>8, <3>1
  <2>2. Joins(S, x, Sp)
    BY <1>1, JoinsAll, Zenon
  <2> QED BY <1>1, <2>1, <2>2 DEF Joins
<1> QED BY <1>3, <1>5, <1>7, <1>9 DEF IsLed

HasText(S, l, ps, n, t) ==
  /\ \E h \in Seq(S) :
       l \o Colon \o t = Colon \o h /\ Parameters(h) = Append(ps, Colon \o t)
  /\ l \o Colon \in Seq(S) /\ Len(l \o Colon) = n + 1
  /\ l \o Colon \o t \in Seq(S) /\ Len(l \o Colon \o t) = n + 1 + Len(t)

\* The text of a message, which is its last parameter.
LEMMA LedText ==
  ASSUME NEW S, NEW l, NEW ps \in Seq(Seq(S)), NEW n \in Nat, IsLed(S, l, ps, n),
         NEW t \in Seq(S), ":" \in S
  PROVE  HasText(S, l, ps, n, t)
<1>1. Colon \in Seq(S) /\ Len(Colon) = 1 /\ Len(t) \in Nat /\ Colon = <<":">>
  BY LenProperties DEF Colon
<1>2. PICK h \in Seq(S) : l = Colon \o h /\ IsHeader(S, h, ps)
  BY DEF IsLed
<1>3. Parameters((h \o Colon) \o t) = Append(ps, Colon \o t)
  BY <1>1, <1>2, HeaderText
<1>4. h \o Colon \in Seq(S) /\ l \in Seq(S) /\ Len(l) = n
  <2>1. h \o Colon \in Seq(S)
    BY <1>1, Joining
  <2> QED BY <2>1 DEF IsLed
<1>5. PICK g \in Seq(S) : g = (h \o Colon) \o t
  <2>1. (h \o Colon) \o t \in Seq(S)
    BY <1>4, Joining
  <2> QED BY <2>1
<1>6. Groups(Colon, h, Colon) /\ Groups(Colon, h \o Colon, t)
  BY <1>1, <1>4, Grouping, Zenon
<1>7. l \o Colon \o t = Colon \o g
  BY <1>2, <1>5, <1>6 DEF Groups
<1>8. l \o Colon \in Seq(S) /\ Len(l \o Colon) = n + 1
  BY <1>1, <1>4, Joining
<1>9. l \o Colon \o t \in Seq(S) /\ Len(l \o Colon \o t) = n + 1 + Len(t)
  <2>1. PICK x \in Seq(S) : x = l \o Colon /\ Len(x) = n + 1 /\ n + 1 \in Nat
    <3>1. n + 1 \in Nat
      OBVIOUS
    <3> QED BY <1>8, <3>1
  <2>2. x \o t \in Seq(S) /\ Len(x \o t) = n + 1 + Len(t)
    BY ONLY <2>1, x \in Seq(S), t \in Seq(S), JoiningTwo
  <2> QED BY <2>1, <2>2
<1> QED BY <1>3, <1>5, <1>7, <1>8, <1>9 DEF HasText

\* Two words, and three.
LEMMA LedWords ==
  ASSUME NEW S, Space \in S, ":" \in S,
         NEW a \in Seq(S), IsPlain(a), NEW b \in Seq(S), IsPlain(b),
         NEW c \in Seq(S), IsPlain(c)
  PROVE  /\ IsLed(S, Colon \o a \o Sp \o b \o Sp, <<a, b>>, Len(a) + Len(b) + 3)
         /\ IsLed(S, Colon \o a \o Sp \o b \o Sp \o c \o Sp, <<a, b, c>>,
                  Len(a) + Len(b) + Len(c) + 4)
<1>0. Len(a) \in Nat /\ Len(b) \in Nat /\ Len(c) \in Nat
  BY LenProperties
<1>1. PICK x : x = Colon \o a \o Sp
  OBVIOUS
<1>2. IsLed(S, x, <<a>>, Len(a) + 2)
  BY <1>1, LedFirst
<1>3. PICK y : y = x \o b \o Sp
  OBVIOUS
<1>4. IsLed(S, y, <<a, b>>, Len(a) + Len(b) + 3)
  <2>1. Append(<<a>>, b) = <<a, b>>
    BY Appending
  <2>3. <<a>> \in Seq(Seq(S)) /\ Len(a) + 2 \in Nat
        /\ Len(a) + 2 + Len(b) + 1 = Len(a) + Len(b) + 3
    BY <1>0
  <2>2. IsLed(S, y, Append(<<a>>, b), Len(a) + 2 + Len(b) + 1)
    BY <1>2, <1>3, <2>3, LedNext
  <2> QED BY <2>1, <2>2, <2>3
<1>5. IsLed(S, y \o c \o Sp, <<a, b, c>>, Len(a) + Len(b) + Len(c) + 4)
  <2>1. Append(<<a, b>>, c) = <<a, b, c>>
    BY Appending
  <2>3. <<a, b>> \in Seq(Seq(S)) /\ Len(a) + Len(b) + 3 \in Nat
        /\ Len(a) + Len(b) + 3 + Len(c) + 1 = Len(a) + Len(b) + Len(c) + 4
    BY <1>0
  <2>2. IsLed(S, y \o c \o Sp, Append(<<a, b>>, c), Len(a) + Len(b) + 3 + Len(c) + 1)
    BY <1>4, <2>3, LedNext
  <2> QED BY <2>1, <2>2, <2>3
<1> QED BY <1>1, <1>3, <1>4, <1>5

-----------------------------------------------------------------------------
(* What is left of a message behind formatMessage. *)

\* formatMessage keeps the message, or the beginning of it that fits.
LEMMA BodyIs ==
  ASSUME NEW S, NEW m \in Seq(S), "CR" \in S, "LF" \in S
  PROVE  \E c \in Seq(S) :
           /\ c = SubSeq(FormatMessage(m), 1, Len(FormatMessage(m)) - 2)
           /\ IsPrefix(c, m)
           /\ Len(c) = IF Len(m) > MaxMessageLength THEN MaxMessageLength ELSE Len(m)
           /\ Len(FormatMessage(m)) = Len(c) + 2
           /\ FormatMessage(m) = c \o CRLF
           /\ Len(m) <= MaxMessageLength => c = m
<1>0. /\ CRLF \in Seq(S) /\ Len(CRLF) = 2 /\ MaxMessageLength \in Nat /\ 16 <= MaxMessageLength
      /\ Len(m) \in Nat
  <2>1. 16 <= MaxMessageLength
    BY RelayAssumption, Zenon
  <2> QED BY <2>1, LenProperties, FormatterAssumption DEF CRLF
<1>1. ASSUME NEW c \in Seq(S)
      PROVE  Len(c \o CRLF) = Len(c) + 2 /\ SubSeq(c \o CRLF, 1, Len(c \o CRLF) - 2) = c
  <2>1. PICK x \in Seq(S) : x = c \o CRLF
    <3>1. c \o CRLF \in Seq(S)
      BY <1>0, Joining
    <3> QED BY <3>1
  <2>2. Len(x) = Len(c) + 2 /\ Len(c) \in Nat /\ \A k \in 1 .. Len(c) : x[k] = c[k]
    <3>1. c \in Seq(S) /\ CRLF \in Seq(S) /\ Len(CRLF) = 2
      BY <1>0
    <3>2. Joins(S, c, CRLF)
      BY <3>1, JoinsAll, Zenon
    <3>3. Len(c) \in Nat
      BY LenProperties
    <3> QED BY <2>1, <3>1, <3>2, <3>3 DEF Joins
  <2>3. PICK y \in Seq(S) : y = SubSeq(x, 1, Len(c)) /\ Len(y) = Len(c) /\ \A k \in 1 .. Len(c) : y[k] = x[k]
    BY <2>2
  <2>4. y = c
    BY <2>2, <2>3, SeqEqual
  <2>5. Len(x) - 2 = Len(c)
    BY <2>2
  <2> QED BY <2>1, <2>2, <2>3, <2>4, <2>5
<1>2. CASE Len(m) > MaxMessageLength
  <2>1. PICK c \in Seq(S) : /\ c = SubSeq(m, 1, MaxMessageLength) /\ Len(c) = MaxMessageLength
                            /\ \A k \in 1 .. MaxMessageLength : c[k] = m[k]
    <3>1. 1 \in 1 .. Len(m) /\ MaxMessageLength \in 1 .. Len(m)
      BY <1>0, <1>2
    <3>2. PICK c \in Seq(S) : c = SubSeq(m, 1, MaxMessageLength)
      BY <3>1, PartIs
    <3>3. /\ Len(c) = MaxMessageLength - 1 + 1
          /\ \A k \in 1 .. MaxMessageLength - 1 + 1 : c[k] = m[k + 1 - 1]
      BY <3>1, <3>2, PartIs
    <3>4. Len(c) = MaxMessageLength /\ \A k \in 1 .. MaxMessageLength : c[k] = m[k]
      <4>1. MaxMessageLength - 1 + 1 = MaxMessageLength
        BY <1>0
      <4>2. \A k \in 1 .. MaxMessageLength : k + 1 - 1 = k
        BY <1>0
      <4> QED BY <3>3, <4>1, <4>2
    <3> QED BY <3>2, <3>4
  <2>2. IsPrefix(c, m)
    <3>1. Len(c) <= Len(m) /\ \A k \in 1 .. Len(c) : c[k] = m[k]
      BY <1>0, <1>2, <2>1
    <3> QED BY <3>1, PrefixIs
  <2>3. FormatMessage(m) = c \o CRLF
    BY <1>2, <2>1 DEF FormatMessage
  <2>4. Len(c \o CRLF) = Len(c) + 2 /\ SubSeq(c \o CRLF, 1, Len(c \o CRLF) - 2) = c
    BY <1>1
  <2>5. ~(Len(m) <= MaxMessageLength)
    BY <1>0, <1>2
  <2> QED BY <1>2, <2>1, <2>2, <2>3, <2>4, <2>5
<1>3. CASE ~(Len(m) > MaxMessageLength)
  <2>1. FormatMessage(m) = m \o CRLF
    BY <1>3 DEF FormatMessage
  <2>2. IsPrefix(m, m)
    BY PrefixSelf
  <2>3. Len(m \o CRLF) = Len(m) + 2 /\ SubSeq(m \o CRLF, 1, Len(m \o CRLF) - 2) = m
    BY <1>1
  <2> QED BY <1>3, <2>1, <2>2, <2>3
<1> QED BY <1>2, <1>3

\* The parameters of a message with a sender: those it was made of, or the
\* first of them.
LEMMA CutOrNot ==
  ASSUME NEW S, NEW h \in Seq(S), NEW m \in Seq(S), m = Colon \o h,
         "CR" \in S, "LF" \in S, ":" \in S
  PROVE  AreOrCutFrom(Read(FormatMessage(m)), Parameters(h), FormatMessage(m))
<1>0. MaxMessageLength \in Nat /\ 16 <= MaxMessageLength /\ Len(m) \in Nat
  <2>1. 16 <= MaxMessageLength
    BY RelayAssumption, Zenon
  <2> QED BY <2>1, FormatterAssumption, LenProperties
<1>1. PICK c \in Seq(S) :
           /\ c = SubSeq(FormatMessage(m), 1, Len(FormatMessage(m)) - 2)
           /\ IsPrefix(c, m)
           /\ Len(c) = IF Len(m) > MaxMessageLength THEN MaxMessageLength ELSE Len(m)
           /\ Len(FormatMessage(m)) = Len(c) + 2
           /\ Len(m) <= MaxMessageLength => c = m
  BY BodyIs
<1>2. Len(m) = Len(h) + 1 /\ m # <<>> /\ Head(m) = ":" /\ Tail(m) = h /\ Len(h) \in Nat
  BY TailOfJoin, LenProperties DEF Colon
<1>3. Len(c) \in 1 .. Len(m) /\ c # <<>>
  <2>1. Len(c) \in 1 .. Len(m)
    BY <1>0, <1>1, <1>2
  <2> QED BY <2>1, EmptySeq
<1>4. \A k \in 1 .. Len(c) : c[k] = m[k]
  <2>1. c \in Seq(S) /\ m \in Seq(S) /\ IsPrefix(c, m)
    BY <1>1
  <2> QED BY ONLY <2>1, PrefixIs
<1>5. Head(c) = ":"
  <2>1. Head(c) = c[1] /\ Head(m) = m[1]
    BY <1>2, <1>3
  <2>2. c[1] = m[1]
    BY <1>3, <1>4
  <2> QED BY <1>2, <2>1, <2>2
<1>6. PICK t \in Seq(S) : t = Tail(c) /\ Len(t) = Len(c) - 1 /\ \A k \in 1 .. Len(c) - 1 : t[k] = c[k + 1]
  <2>1. Tail(c) \in Seq(S)
    BY <1>3
  <2>2. Len(Tail(c)) = Len(c) - 1 /\ \A k \in 1 .. Len(c) - 1 : Tail(c)[k] = c[k + 1]
    BY <1>3
  <2> QED BY <2>1, <2>2
<1>7. \A k \in 1 .. Len(h) : h[k] = m[k + 1]
  <2>1. Tail(m) = h
    BY <1>2
  <2>2. \A k \in 1 .. Len(m) - 1 : Tail(m)[k] = m[k + 1]
    BY <1>2
  <2> QED BY <1>2, <2>1, <2>2
<1>8. IsPrefix(t, h)
  <2>1. Len(t) <= Len(h)
    BY <1>2, <1>3, <1>6
  <2>2. ASSUME NEW k \in 1 .. Len(t) PROVE t[k] = h[k]
    <3>1. k + 1 \in 1 .. Len(c) /\ k \in 1 .. Len(h) /\ k \in 1 .. Len(c) - 1
      BY <1>2, <1>3, <1>6, <2>1
    <3> QED BY <1>4, <1>6, <1>7, <3>1
  <2> QED BY <2>1, <2>2, PrefixIs
<1>9. Read(FormatMessage(m)) = Parameters(t)
  BY <1>1, <1>3, <1>5, <1>6 DEF Read, Unprefixed
<1>10. CASE Len(m) <= MaxMessageLength
  <2>1. t = h
    BY <1>1, <1>2, <1>6, <1>10
  <2> QED BY <1>9, <2>1 DEF AreOrCutFrom
<1>11. CASE Len(m) > MaxMessageLength
  <2>1. Len(FormatMessage(m)) = MaxMessageLength + 2
    BY <1>1, <1>11
  <2>2. /\ Len(Parameters(t)) <= Len(Parameters(h))
        /\ \A i \in 1 .. Len(Parameters(t)) :
              IF i = Len(Parameters(t)) THEN IsPrefix(Parameters(t)[i], Parameters(h)[i])
              ELSE Parameters(t)[i] = Parameters(h)[i]
        /\ Parameters(t) \in Seq(Seq(S))
    BY <1>8, CutParameters
  <2>3. DOMAIN Parameters(t) = 1 .. Len(Parameters(t))
    BY <2>2, LenProperties
  <2> QED BY <1>9, <2>1, <2>2, <2>3 DEF AreOrCutFrom
<1> QED BY <1>0, <1>10, <1>11

-----------------------------------------------------------------------------
(* The lines, and the nicknames. *)

Words == Texts \cup {"JOIN", "TIME", "RPS", "ROCK", "rock", "paper", "scissors"}
Sign == Char \cup Words \cup
  {"s", "server", "PONG", "331", "332", "353", "=", "@", "b", "c", "o", "BOT", "CR", "LF",
   "No topic is set"}

JoinLine == <<"JOIN">> \o Sp \o <<"a">>

\* The characters of a line.
LEMMA Signs ==
  /\ Space \in Char /\ ":" \in Char /\ "a" \in Char
  /\ Char \cap (Texts \cup {"JOIN", "TIME", "RPS"}) = {}
  /\ Space \in Sign /\ ":" \in Sign /\ "a" \in Sign
  /\ Space # ":"
<1>1. {Space, ":", "a"} \subseteq Char /\ Char \cap (Texts \cup {"JOIN", "TIME", "RPS"}) = {}
  BY RelayAssumption, Zenon DEF Space
<1>2. Space # ":"
  BY Zenon DEF Space
<1> QED BY <1>1, <1>2 DEF Sign

\* Tuples of two and of three, joined.
LEMMA JoiningThree ==
  ASSUME NEW S, NEW a \in S, NEW b \in S, NEW c \in S
  PROVE  <<a>> \o <<b>> = <<a, b>> /\ <<a>> \o <<b>> \o <<c>> = <<a, b, c>>
<1>1. <<a>> \in Seq(S) /\ <<a, b>> \in Seq(S)
  OBVIOUS
<1>2. <<a>> \o <<b>> = Append(<<a>>, b)
  BY <1>1, AppendIsConcat
<1>3. <<a, b>> \o <<c>> = Append(<<a, b>>, c)
  BY <1>1, AppendIsConcat
<1> QED BY <1>2, <1>3, Appending

\* The kinds of lines.
LEMMA LinesAre ==
  \A l \in Lines :
    \/ \E c \in Texts, t \in Seq(Char) : l = <<c>> \o t
    \/ l \in Seq(Char)
    \/ l = JoinLine
    \/ \E c \in {"TIME", "RPS"} : l = <<c>>
    \/ \E m \in {"rock", "paper", "scissors", "ROCK", "a"} : l = <<"RPS", Space, m>>
<1>1. Tails \subseteq Seq(Char)
  <2>1. ASSUME NEW n \in 0 .. MaxLen PROVE [1 .. n -> Char] \subseteq Seq(Char)
    <3>1. n \in Nat
      OBVIOUS
    <3> QED BY <3>1, SeqDef
  <2> QED BY <2>1 DEF Tails
<1>2. LongTails \subseteq Seq(Char)
  <2>1. ASSUME NEW n \in 0 .. MaxLong, NEW h \in Seq(Char)
        PROVE  h \o [k \in 1 .. n |-> "a"] \in Seq(Char)
    <3>1. [k \in 1 .. n |-> "a"] \in [1 .. n -> Char] /\ n \in Nat
      BY Signs
    <3>2. [k \in 1 .. n |-> "a"] \in Seq(Char)
      BY <3>1, SeqDef
    <3> QED BY <3>2, Joining
  <2>2. \A x, y, z, w : x \in Char /\ y \in Char /\ z \in Char /\ w \in Char => <<x, y, z, w>> \in Seq(Char)
    OBVIOUS
  <2>3. <<" ", "a", " ", ":">> \in Seq(Char)
    <3>1. " " \in Char /\ "a" \in Char /\ ":" \in Char
      BY Signs, Zenon DEF Space
    <3> QED BY <2>2, <3>1, Zenon
  <2> QED BY <2>1, <2>3, Zenon DEF LongTails
<1>3. <<"JOIN", " ", "a">> = JoinLine
  <2>1. ASSUME NEW x PROVE <<"JOIN">> \o <<x>> \o <<"a">> = <<"JOIN", x, "a">>
    <3>1. PICK S : "JOIN" \in S /\ x \in S /\ "a" \in S
      <4>1. "JOIN" \in {"JOIN", x, "a"} /\ x \in {"JOIN", x, "a"} /\ "a" \in {"JOIN", x, "a"}
        OBVIOUS
      <4> QED BY <4>1
    <3> QED BY <3>1, JoiningThree
  <2> QED BY <2>1, Zenon DEF JoinLine, Sp
<1>4. ToSet(Moves) = {"rock", "paper", "scissors"}
  BY DEF ToSet, Moves
<1> SUFFICES ASSUME NEW l \in Lines
             PROVE  \/ \E c \in Texts, t \in Seq(Char) : l = <<c>> \o t
                    \/ l \in Seq(Char)
                    \/ l = JoinLine
                    \/ \E c \in {"TIME", "RPS"} : l = <<c>>
                    \/ \E m \in {"rock", "paper", "scissors", "ROCK", "a"} : l = <<"RPS", Space, m>>
  OBVIOUS
<1>5. \/ \E c \in Texts, t \in Tails \cup LongTails : l = <<c>> \o t
      \/ l \in Tails
      \/ l = JoinLine \/ l = <<"TIME">> \/ l = <<"RPS">>
      \/ \E m \in ToSet(Moves) \cup {"ROCK", "a"} : l = <<"RPS", Space, m>>
  <2> DEFINE Y == {<<"JOIN", Space, "a">>, <<"TIME">>, <<"RPS">>}
             Z == {<<"RPS", Space, m>> : m \in ToSet(Moves) \cup {"ROCK", "a"}}
  <2>1. l \in TextLines \cup Tails \cup Y \cup Z
    BY Zenon DEF Lines, Space
  <2>2. l \in TextLines \/ l \in Tails \/ l \in Y \/ l \in Z
    <3> HIDE DEF Y, Z
    <3> QED BY <2>1
  <2>3. l \in TextLines => \E c \in Texts, t \in Tails \cup LongTails : l = <<c>> \o t
    BY DEF TextLines
  <2>4. l \in Y => l = JoinLine \/ l = <<"TIME">> \/ l = <<"RPS">>
    <3>1. <<"JOIN", Space, "a">> = JoinLine
      BY <1>3, Zenon DEF Space
    <3> QED BY <3>1, Zenon
  <2>5. l \in Z => \E m \in ToSet(Moves) \cup {"ROCK", "a"} : l = <<"RPS", Space, m>>
    BY Zenon
  <2> HIDE DEF Y, Z
  <2> QED BY <2>2, <2>3, <2>4, <2>5, Zenon
<1> QED BY <1>1, <1>2, <1>4, <1>5

\* The line that joins a channel, and its parameters.
LEMMA JoinLineIs ==
  /\ JoinLine \in Seq(Sign)
  /\ Parameters(JoinLine) = <<<<"JOIN">>, <<"a">>>>
  /\ IsWellFormed(JoinLine)
<1>1. /\ <<"JOIN">> \in Seq(Sign) /\ <<"a">> \in Seq(Sign) /\ Sp \in Seq(Sign)
      /\ Len(<<"JOIN">>) = 1 /\ Len(<<"a">>) = 1 /\ Len(Sp) = 1
      /\ Sp[1] = Space /\ <<"JOIN">>[1] = "JOIN" /\ <<"a">>[1] = "a"
  <2>1. "JOIN" \in Sign
    BY Zenon DEF Sign, Words
  <2> QED BY <2>1, SpIs, Signs
<1>2. "JOIN" # Space /\ "a" # Space
  BY Zenon DEF Space
<1>3. IsPlain(<<"JOIN">>) /\ IsPlain(<<"a">>)
  BY <1>2 DEF IsPlain
<1>4. PICK h \in Seq(Sign) : h = <<"JOIN">> \o Sp
  <2>1. <<"JOIN">> \o Sp \in Seq(Sign)
    BY <1>1, Joining
  <2> QED BY <2>1
<1>5. Parameters(h) = <<<<"JOIN">>>> /\ IsBlankEnded(h) /\ HasNoTrailing(h)
  BY <1>1, <1>3, <1>4, SpIs, Signs, WordAndBlank
<1>6. Parameters(<<"a">>) = <<<<"a">>>>
  BY <1>1, <1>3, Signs, WordAndBlank
<1>7. JoinLine = h \o <<"a">>
  BY <1>4 DEF JoinLine
<1>8. Parameters(JoinLine) = <<<<"JOIN">>>> \o <<<<"a">>>>
  BY <1>1, <1>5, <1>6, <1>7, ParametersWhole
<1>9. <<<<"JOIN">>>> \o <<<<"a">>>> = <<<<"JOIN">>, <<"a">>>>
  <2>1. <<"JOIN">> \in Seq(Sign) /\ <<"a">> \in Seq(Sign)
    BY <1>1
  <2> QED BY <2>1, JoiningThree, Zenon
<1>10. /\ Len(h) = 2 /\ h[1] = "JOIN" /\ h[2] = Space
  <2>1. /\ Len(h) = Len(<<"JOIN">>) + Len(Sp) /\ \A k \in 1 .. Len(<<"JOIN">>) : h[k] = <<"JOIN">>[k]
        /\ \A k \in 1 .. Len(Sp) : h[Len(<<"JOIN">>) + k] = Sp[k]
    BY ONLY <1>1, <1>4, Joining
  <2> QED BY <1>1, <2>1
<1>11. PICK j \in Seq(Sign) : j = JoinLine /\ Len(j) = 3 /\ j[1] = "JOIN" /\ j[2] = Space /\ j[3] = "a"
  <2>1. PICK j \in Seq(Sign) : j = h \o <<"a">>
    <3>1. h \o <<"a">> \in Seq(Sign)
      BY <1>1, Joining
    <3> QED BY <3>1
  <2>2. /\ Len(j) = Len(h) + Len(<<"a">>) /\ \A k \in 1 .. Len(h) : j[k] = h[k]
        /\ \A k \in 1 .. Len(<<"a">>) : j[Len(h) + k] = <<"a">>[k]
    BY ONLY <1>1, <2>1, h \in Seq(Sign), Joining
  <2>3. Len(j) = 3 /\ j[1] = "JOIN" /\ j[2] = Space /\ j[3] = "a"
    BY <1>1, <1>10, <2>2
  <2> QED BY <1>7, <2>1, <2>3
<1>12. IsWellFormed(JoinLine)
  <2>1. {i \in 1 .. Len(j) : j[i] = ":"} = {}
    BY <1>11, Signs
  <2>2. FirstColon(j) = 0
    BY <2>1 DEF FirstColon, SelectInSeq
  <2> QED BY <1>11, <2>2 DEF IsWellFormed
<1> QED BY <1>8, <1>9, <1>11, <1>12

\* Only the line of a JOIN has that word in it.
LEMMA LinesType ==
  ASSUME NEW l \in Lines
  PROVE  l \in Seq(Sign) /\ (l # JoinLine => l \in Seq(Sign \ {"JOIN"}))
<1> DEFINE R == Sign \ {"JOIN"}
<1>0. Char \subseteq R /\ Texts \subseteq R /\ {"TIME", "RPS", "rock", "paper", "scissors", "ROCK", "a"} \subseteq R
  BY Signs DEF Sign, Words, Texts
<1>1. Space \in R /\ R \subseteq Sign
  BY <1>0, Signs
<1> HIDE DEF R
<1>2. Seq(Char) \subseteq Seq(R) /\ Seq(R) \subseteq Seq(Sign)
  BY <1>0, <1>1
<1>3. ASSUME NEW c \in R, NEW t \in Seq(R) PROVE <<c>> \o t \in Seq(R) /\ <<c>> \in Seq(R)
  BY TailOfJoin
<1>4. ASSUME NEW x \in R, NEW y \in R, NEW z \in R PROVE <<x, y, z>> \in Seq(R)
  OBVIOUS
<1>5. l = JoinLine \/ l \in Seq(R)
  <2>1. CASE \E c \in Texts, t \in Seq(Char) : l = <<c>> \o t
    BY <1>0, <1>2, <1>3, <2>1
  <2>2. CASE l \in Seq(Char)
    BY <1>2, <2>2
  <2>3. CASE \E c \in {"TIME", "RPS"} : l = <<c>>
    <3>1. PICK c \in R : l = <<c>>
      BY <1>0, <2>3
    <3>2. <<c>> \in Seq(R)
      OBVIOUS
    <3> QED BY <3>1, <3>2
  <2>4. CASE \E m \in {"rock", "paper", "scissors", "ROCK", "a"} : l = <<"RPS", Space, m>>
    <3>1. PICK m \in R : l = <<"RPS", Space, m>>
      BY <1>0, <2>4
    <3>2. <<"RPS", Space, m>> \in Seq(R)
      BY <1>0, <1>1, <1>4
    <3> QED BY <3>1, <3>2
  <2> QED BY <2>1, <2>2, <2>3, <2>4, LinesAre
<1> QED BY <1>2, <1>5, JoinLineIs DEF R

\* The nicknames are plain words of one character or two.
LEMMA NicksType ==
  ASSUME NEW n \in 1 .. Len(Nicks), NEW k \in 1 .. n
  PROVE  /\ SubSeq(Nicks, 1, n) \in Seq(Seq(Sign)) /\ Len(SubSeq(Nicks, 1, n)) = n
         /\ SubSeq(Nicks, 1, n)[k] \in Seq(Sign) /\ Len(SubSeq(Nicks, 1, n)[k]) \in 1 .. 2
         /\ IsPlain(SubSeq(Nicks, 1, n)[k])
<1>1. "b" \in Sign /\ "c" \in Sign
  BY DEF Sign
<1>2. <<"b">> \in Seq(Sign) /\ <<"b", "b">> \in Seq(Sign) /\ <<"c">> \in Seq(Sign) /\ <<"c", "b">> \in Seq(Sign)
  BY <1>1
<1>3. Nicks \in Seq(Seq(Sign)) /\ Len(Nicks) = 4
  BY <1>2 DEF Nicks
<1>4. "b" # Space /\ "c" # Space
  BY Zenon DEF Space
<1>5. IsPlain(<<"b">>) /\ IsPlain(<<"b", "b">>) /\ IsPlain(<<"c">>) /\ IsPlain(<<"c", "b">>)
  BY <1>4 DEF IsPlain
<1>6. ASSUME NEW i \in 1 .. 4 PROVE Nicks[i] \in Seq(Sign) /\ Len(Nicks[i]) \in 1 .. 2 /\ IsPlain(Nicks[i])
  <2>1. /\ Nicks[1] = <<"b">> /\ Nicks[2] = <<"b", "b">>
        /\ Nicks[3] = <<"c">> /\ Nicks[4] = <<"c", "b">>
    BY DEF Nicks
  <2>2. /\ Len(<<"b">>) = 1 /\ Len(<<"b", "b">>) = 2 /\ Len(<<"c">>) = 1 /\ Len(<<"c", "b">>) = 2
    OBVIOUS
  <2>3. i = 1 \/ i = 2 \/ i = 3 \/ i = 4
    OBVIOUS
  <2>4. CASE i = 1
    <3>1. Nicks[1] \in Seq(Sign) /\ Len(Nicks[1]) = 1 /\ IsPlain(Nicks[1])
      BY <1>2, <1>5, <2>1, <2>2, Zenon
    <3> QED BY <2>4, <3>1
  <2>5. CASE i = 2
    <3>1. Nicks[2] \in Seq(Sign) /\ Len(Nicks[2]) = 2 /\ IsPlain(Nicks[2])
      BY <1>2, <1>5, <2>1, <2>2, Zenon
    <3> QED BY <2>5, <3>1
  <2>6. CASE i = 3
    <3>1. Nicks[3] \in Seq(Sign) /\ Len(Nicks[3]) = 1 /\ IsPlain(Nicks[3])
      BY <1>2, <1>5, <2>1, <2>2, Zenon
    <3> QED BY <2>6, <3>1
  <2>7. CASE i = 4
    <3>1. Nicks[4] \in Seq(Sign) /\ Len(Nicks[4]) = 2 /\ IsPlain(Nicks[4])
      BY <1>2, <1>5, <2>1, <2>2, Zenon
    <3> QED BY <2>7, <3>1
  <2> QED BY <2>3, <2>4, <2>5, <2>6, <2>7
<1>7. /\ SubSeq(Nicks, 1, n) \in Seq(Seq(Sign)) /\ Len(SubSeq(Nicks, 1, n)) = n - 1 + 1
      /\ \A i \in 1 .. n - 1 + 1 : SubSeq(Nicks, 1, n)[i] = Nicks[i + 1 - 1]
  <2>1. 1 \in 1 .. Len(Nicks) /\ n \in 1 .. Len(Nicks)
    BY <1>3
  <2>2. PICK l \in Seq(Seq(Sign)) : l = Nicks
    BY <1>3
  <2>3. 1 \in 1 .. Len(l) /\ n \in 1 .. Len(l)
    BY <2>1, <2>2
  <2>4. /\ SubSeq(l, 1, n) \in Seq(Seq(Sign)) /\ Len(SubSeq(l, 1, n)) = n - 1 + 1
        /\ \A i \in 1 .. n - 1 + 1 : SubSeq(l, 1, n)[i] = l[i + 1 - 1]
    BY <2>3, PartIs
  <2> QED BY <2>2, <2>4, Zenon
<1>8. n - 1 + 1 = n /\ k + 1 - 1 = k /\ k \in 1 .. 4
  BY <1>3
<1>9. SubSeq(Nicks, 1, n)[k] = Nicks[k]
  BY <1>7, <1>8
<1> QED BY <1>6, <1>7, <1>8, <1>9

-----------------------------------------------------------------------------
(* The handlers. *)

\* The topic after a line asked for a new one.
Kept ==
  LET new == Unprefixed(Rejoined(args))
  IN IF Len(new) \in 1 .. MaxTopicLength THEN new ELSE former

SaidIs ==
  /\ args # <<>>
  /\ Command = <<"PRIVMSG">> =>
       /\ Len(args) = 3
       /\ out = FormatMessage(SendMsg(Sender, args[2], Unprefixed(args[3])))
  /\ Command = <<"TOPIC">> =>
       /\ Len(args) >= 3
       /\ out = FormatMessage(TopicChange(Sender, args[2], Unprefixed(Rejoined(args))))
       /\ topic = Kept
  /\ Command = <<"KICK">> =>
       /\ Len(args) >= 3 /\ ~Contains(args[3], ":")
       /\ out = FormatMessage(Kick(Sender, args[2], args[3],
                                   IF Len(args) = 4 THEN args[4] ELSE <<>>))
  /\ Command = <<"PING">> => Len(args) = 2 /\ out = FormatMessage(Pong(args[2]))
  /\ Command = <<"JOIN">> =>
       out = FormatMessage(NamesReply(Last(members), args[2], NickList))
  /\ Command = <<"RPS">> =>
       \E player \in ToSet(Moves), bot \in ToSet(Moves) :
         out = FormatMessage(GenericError(<<"BOT">>, <<player, bot, Result(player, bot)>>))

AskedIs ==
  told # <<>> =>
    /\ Len(args) >= 3
    /\ told = FormatMessage(TopicChange(Sender, args[2], Unprefixed(Rejoined(args))))
    /\ topic = Kept
    /\ out = FormatMessage(IF topic = <<>> THEN NoTopicReply(Sender, args[2])
                           ELSE TopicReply(Sender, args[2], topic))

RelayInv ==
  /\ SplitInv(Sign)
  /\ line # JoinLine => SplitInv(Sign \ {"JOIN"})
  /\ \E n \in 1 .. Len(Nicks) : members = SubSeq(Nicks, 1, n)
  /\ former \in {<<>>, <<"o">>}
  /\ at \in {"loop", "returned"} => out = <<>> /\ topic = former
  /\ at = "said" => SaidIs
  /\ at = "asked" => AskedIs

\* What is known of a line that was split is not changed by a handler.
LEMMA SplitKept ==
  ASSUME NEW S, SplitInv(S), at # "loop", at' # "loop", line' = line, args' = args
  PROVE  SplitInv(S)'
BY DEF SplitInv

\* The invariant holds when a line arrives.
LEMMA RelayStarts == Init => RelayInv
<1> SUFFICES ASSUME Init PROVE RelayInv
  OBVIOUS
<1>1. line \in Lines /\ pos = 0 /\ args = <<>> /\ at = "loop" /\ out = <<>>
      /\ former \in {<<>>, <<"o">>} /\ topic = former
  BY Zenon DEF Init
<1>2. \E n \in 1 .. Len(Nicks) : members = SubSeq(Nicks, 1, n)
  <2>1. PICK n \in 1 .. (IF Contains(line, "JOIN") THEN Len(Nicks) ELSE 1) : members = SubSeq(Nicks, 1, n)
    BY Zenon DEF Init
  <2>2. Len(Nicks) = 4
    BY DEF Nicks
  <2>3. n \in 1 .. Len(Nicks)
    <3>1. CASE Contains(line, "JOIN")
      BY <3>1
    <3>2. CASE ~Contains(line, "JOIN")
      BY <2>2, <3>2
    <3> QED BY <3>1, <3>2
  <2> QED BY <2>1, <2>3
<1>3. SplitInv(Sign)
  <2>1. line \in Seq(Sign)
    BY <1>1, LinesType
  <2> QED BY <1>1, <2>1, SplitStarts
<1>4. ASSUME line # JoinLine PROVE SplitInv(Sign \ {"JOIN"})
  <2>1. line \in Seq(Sign \ {"JOIN"})
    BY <1>1, <1>4, LinesType
  <2> QED BY <1>1, <2>1, SplitStarts
<1> QED BY <1>1, <1>2, <1>3, <1>4 DEF RelayInv

\* What every handler leaves alone.
LEMMA HandlerSteps ==
  ASSUME RelayInv, at \notin {"loop"}, UNCHANGED <<line, args, members, former>>,
         at' \in {"said", "asked", "refused"},
         at' = "said" => SaidIs', at' = "asked" => AskedIs'
  PROVE  RelayInv'
<1>1. SplitInv(Sign)'
  BY SplitKept DEF RelayInv
<1>2. (line # JoinLine => SplitInv(Sign \ {"JOIN"}))'
  <2>1. CASE line # JoinLine
    <3>1. SplitInv(Sign \ {"JOIN"})
      BY <2>1 DEF RelayInv
    <3>2. SplitInv(Sign \ {"JOIN"})'
      BY <3>1, SplitKept
    <3> QED BY <3>2
  <2>2. CASE line = JoinLine
    <3>1. line' = line /\ JoinLine' = JoinLine
      BY DEF JoinLine, Sp
    <3> QED BY <2>2, <3>1
  <2> QED BY <2>1, <2>2
<1>3. (\E n \in 1 .. Len(Nicks) : members = SubSeq(Nicks, 1, n))'
  BY DEF RelayInv
<1> QED BY <1>1, <1>2, <1>3 DEF RelayInv

\* What is known of the words a handler works on.
LEMMA ArgsAre ==
  ASSUME RelayInv, at # "loop"
  PROVE  /\ args \in Seq(Seq(Sign)) /\ line \in Seq(Sign)
         /\ \A k \in 1 .. Len(args) :
              /\ args[k] \in Seq(Sign)
              /\ IsPlain(args[k]) \/ (k = Len(args) /\ IsTrailing(args[k]))
         /\ IsWellFormed(line) => args = Parameters(line)
<1>1. SplitInv(Sign)
  BY DEF RelayInv
<1>2. args \in Seq(Seq(Sign)) /\ line \in Seq(Sign) /\ AllRead(args)
  BY <1>1 DEF SplitInv
<1>3. IsWellFormed(line) => args = Parameters(line)
  BY <1>1, SplitWellFormed
<1> QED BY <1>2, <1>3, ElementOfSeq DEF AllRead

\* A text without its ':' is a text.
LEMMA UnprefixedType ==
  ASSUME NEW S, NEW t \in Seq(S)
  PROVE  Unprefixed(t) \in Seq(S)
BY DEF Unprefixed

\* The words of a topic, put together again.
LEMMA RejoinedType ==
  ASSUME NEW p \in Seq(Seq(Sign)), Len(p) >= 3
  PROVE  Rejoined(p) \in Seq(Sign)
<1>0. Len(p) \in Nat /\ Len(p) - 3 \in Nat
  BY LenProperties
<1>1. p[3] \in Seq(Sign)
  BY <1>0, ElementOfSeq
<1> DEFINE f == [k \in 1 .. Len(p) - 3 |-> Sp \o p[k + 3]]
<1>2. ASSUME NEW k \in 1 .. Len(p) - 3 PROVE Sp \o p[k + 3] \in Seq(Sign)
  <2>1. p[k + 3] \in Seq(Sign)
    <3>1. k + 3 \in 1 .. Len(p)
      BY <1>0
    <3> QED BY <3>1, ElementOfSeq
  <2>2. Sp \in Seq(Sign)
    BY SpIs, Signs
  <2> QED BY <2>1, <2>2, Joining
<1>3. f \in [1 .. Len(p) - 3 -> Seq(Sign)]
  BY <1>2
<1>4. f \in Seq(Seq(Sign))
  <2> HIDE DEF f
  <2> QED BY <1>0, <1>3, SeqDef
<1> HIDE DEF f
<1>5. FlattenSeq(f) \in Seq(Sign)
  <2>1. <<>> \in Seq(Sign)
    OBVIOUS
  <2> QED BY <1>4, <2>1, FlatteningAppend
<1>6. p[3] \o FlattenSeq(f) \in Seq(Sign)
  BY <1>1, <1>5, Joining
<1> QED BY <1>6 DEF Rejoined, f

\* Every step keeps the invariant.
LEMMA RelaySteps == RelayInv /\ [Next]_vars => RelayInv'
<1> SUFFICES ASSUME RelayInv, [Next]_vars PROVE RelayInv'
  OBVIOUS
<1>1. CASE Splits
  <2>1. (NextWord \/ NoMoreWords) /\ UNCHANGED <<members, ops, topic, former, out, told>>
    BY <1>1, Zenon DEF Splits
  <2>2. SplitInv(Sign)'
    BY <2>1, SplitSteps DEF RelayInv
  <2>3. at = "loop" /\ at' \in {"loop", "returned"} /\ line' = line
    BY <2>1 DEF NextWord, NoMoreWords
  <2>4. (line # JoinLine => SplitInv(Sign \ {"JOIN"}))'
    <3>1. CASE line # JoinLine
      <4>1. SplitInv(Sign \ {"JOIN"})
        BY <3>1 DEF RelayInv
      <4>2. SplitInv(Sign \ {"JOIN"})'
        BY <2>1, <4>1, SplitSteps
      <4> QED BY <4>2
    <3>2. CASE line = JoinLine
      <4>1. line' = line /\ JoinLine' = JoinLine
        BY <2>3 DEF JoinLine, Sp
      <4> QED BY <3>2, <4>1
    <3> QED BY <3>1, <3>2
  <2>5. out' = <<>> /\ topic' = former' /\ former' \in {<<>>, <<"o">>}
    BY <2>1, <2>3 DEF RelayInv
  <2>6. (\E n \in 1 .. Len(Nicks) : members = SubSeq(Nicks, 1, n))'
    BY <2>1 DEF RelayInv
  <2> QED BY <2>2, <2>3, <2>4, <2>5, <2>6 DEF RelayInv
<1>2. ASSUME Refuse \/ HandleKickOfNobody \/ RockPaperScissorsRefused \/ HandleUnknown PROVE RelayInv'
  <2>1. at = "returned" /\ at' = "refused" /\ UNCHANGED <<line, args, members, former>>
    BY <1>2, Zenon
    DEF Refuse, HandleKickOfNobody, RockPaperScissorsRefused, HandleUnknown, Says, Handling
  <2> QED BY <2>1, HandlerSteps
<1>3. CASE HandlePrivmsg
  <2>1. /\ at = "returned" /\ at' = "said" /\ UNCHANGED <<line, args, members, former>>
        /\ args # <<>> /\ args[1] = <<"PRIVMSG">> /\ Len(args) = 3
        /\ out' = FormatMessage(SendMsg(Sender, args[2], Unprefixed(args[3])))
    BY <1>3, Zenon DEF HandlePrivmsg, Says, Handling, Command
  <2>2. SaidIs'
    BY <2>1 DEF SaidIs, Command
  <2> QED BY <2>1, <2>2, HandlerSteps
<1>4. CASE HandleTopic
  <2>1. /\ at = "returned" /\ at' = "said" /\ UNCHANGED <<line, args, members, former>>
        /\ args # <<>> /\ args[1] = <<"TOPIC">> /\ Len(args) >= 3
        /\ out' = FormatMessage(TopicChange(Sender, args[2], Unprefixed(Rejoined(args))))
        /\ topic' = SetTopic(Unprefixed(Rejoined(args)))
    BY <1>4, Zenon DEF HandleTopic, Says, Handling, Command
  <2>2. topic' = Kept'
    <3>1. PICK new \in Seq(Sign) : new = Unprefixed(Rejoined(args))
      <4>1. args \in Seq(Seq(Sign))
        BY <2>1, ArgsAre
      <4>2. Rejoined(args) \in Seq(Sign)
        BY <2>1, <4>1, RejoinedType
      <4> QED BY <4>2, UnprefixedType
    <3>2. Kept' = IF Len(new) \in 1 .. MaxTopicLength THEN new ELSE former
      BY <2>1, <3>1 DEF Kept
    <3>3. topic' = IF new = <<>> \/ Len(new) > MaxTopicLength THEN topic ELSE new
      BY <2>1, <3>1 DEF SetTopic
    <3>4. topic = former
      BY <2>1 DEF RelayInv
    <3>5. Len(new) \in Nat /\ (new = <<>> <=> Len(new) = 0) /\ MaxTopicLength \in Nat
      BY <3>1, EmptySeq, LenProperties, RelayAssumption
    <3> QED BY <3>2, <3>3, <3>4, <3>5
  <2>3. SaidIs'
    BY <2>1, <2>2 DEF SaidIs, Command
  <2> QED BY <2>1, <2>3, HandlerSteps
<1>5. CASE HandleTopicQuery
  <2>1. /\ at \in {"returned", "said"} /\ at' = "asked" /\ UNCHANGED <<line, args, members, topic, former>>
        /\ out' = FormatMessage(IF topic = <<>> THEN NoTopicReply(Sender, args[2])
                                ELSE TopicReply(Sender, args[2], topic))
        /\ told' = out
        /\ at = "said" => Command = <<"TOPIC">>
    BY <1>5 DEF HandleTopicQuery, Says, Handling
  <2>2. AskedIs'
    <3>1. CASE at = "returned"
      <4>1. told' = <<>>
        BY <2>1, <3>1 DEF RelayInv
      <4> QED BY <4>1 DEF AskedIs
    <3>2. CASE at = "said"
      <4>1. /\ Len(args) >= 3
            /\ out = FormatMessage(TopicChange(Sender, args[2], Unprefixed(Rejoined(args))))
            /\ topic = Kept
        BY <2>1, <3>2 DEF RelayInv, SaidIs
      <4>2. Kept' = Kept
        BY <2>1 DEF Kept
      <4> QED BY <2>1, <4>1, <4>2 DEF AskedIs
    <3> QED BY <2>1, <3>1, <3>2
  <2> QED BY <2>1, <2>2, HandlerSteps
<1>6. CASE HandleKick
  <2>1. /\ at = "returned" /\ at' = "said" /\ UNCHANGED <<line, args, members, former>>
        /\ args # <<>> /\ args[1] = <<"KICK">> /\ Len(args) >= 3 /\ ~Contains(args[3], ":")
        /\ out' = FormatMessage(Kick(Sender, args[2], args[3],
                                     IF Len(args) = 4 THEN args[4] ELSE <<>>))
    BY <1>6, Zenon DEF HandleKick, Says, Handling, Command
  <2>2. SaidIs'
    BY <2>1 DEF SaidIs, Command
  <2> QED BY <2>1, <2>2, HandlerSteps
<1>7. CASE HandlePing
  <2>1. /\ at = "returned" /\ at' = "said" /\ UNCHANGED <<line, args, members, former>>
        /\ args # <<>> /\ args[1] = <<"PING">> /\ Len(args) = 2
        /\ out' = FormatMessage(Pong(args[2]))
    BY <1>7, Zenon DEF HandlePing, Says, Handling, Command
  <2>2. SaidIs'
    BY <2>1 DEF SaidIs, Command
  <2> QED BY <2>1, <2>2, HandlerSteps
<1>8. CASE HandleJoin
  <2>1. /\ at = "returned" /\ at' = "said" /\ UNCHANGED <<line, args, members, ops, former>>
        /\ args # <<>> /\ args[1] = <<"JOIN">>
        /\ out' = FormatMessage(NamesReply(Last(members), args[2], NickList))
    BY <1>8, Zenon DEF HandleJoin, Says, Handling, Command
  <2>2. NickList' = NickList /\ Last(members)' = Last(members)
    BY <2>1 DEF NickList, NickMarked, Last
  <2>3. SaidIs'
    BY <2>1, <2>2 DEF SaidIs, Command
  <2> QED BY <2>1, <2>3, HandlerSteps
<1>9. CASE HandleBot
  <2>1. /\ at = "returned" /\ at' = "said" /\ UNCHANGED <<line, args, members, former>>
        /\ args # <<>> /\ args[1] = <<"TIME">>
    BY <1>9, Zenon DEF HandleBot, Says, Handling, Command
  <2>2. SaidIs'
    BY <2>1 DEF SaidIs, Command
  <2> QED BY <2>1, <2>2, HandlerSteps
<1>10. CASE HandleRockPaperScissors
  <2>1. /\ at = "returned" /\ at' = "said" /\ UNCHANGED <<line, args, members, former>>
        /\ args # <<>> /\ args[1] = <<"RPS">>
        /\ \E player \in Played, bot \in ToSet(Moves) :
             out' = FormatMessage(GenericError(<<"BOT">>, <<player, bot, Result(player, bot)>>))
    BY <1>10, Zenon DEF HandleRockPaperScissors, Says, Handling, Command
  <2>2. SaidIs'
    BY <2>1 DEF SaidIs, Command, Played
  <2> QED BY <2>1, <2>2, HandlerSteps
<1>11. CASE UNCHANGED vars
  <2>1. UNCHANGED <<line, pos, args, at, members, ops, topic, former, out, told>>
    BY <1>11 DEF vars
  <2>2. SplitInv(Sign)' = SplitInv(Sign) /\ SplitInv(Sign \ {"JOIN"})' = SplitInv(Sign \ {"JOIN"})
    BY <2>1 DEF SplitInv
  <2>3. NickList' = NickList
    BY <2>1 DEF NickList, NickMarked
  <2>4. SaidIs => SaidIs'
    BY <2>1, <2>3 DEF SaidIs, Command, Last, Kept
  <2>5. AskedIs => AskedIs'
    BY <2>1 DEF AskedIs, Kept
  <2>6. JoinLine' = JoinLine
    BY DEF JoinLine, Sp
  <2> QED BY <2>1, <2>2, <2>4, <2>5, <2>6 DEF RelayInv
<1> QED
  BY <1>1, <1>2, <1>3, <1>4, <1>5, <1>6, <1>7, <1>8, <1>9, <1>10, <1>11 DEF Next


-----------------------------------------------------------------------------
(* What is read in a message. *)

\* A character that is no blank and no ':' is a plain word.
LEMMA PlainWords ==
  ASSUME NEW c \in Sign, c # Space, c # ":"
  PROVE  <<c>> \in Seq(Sign) /\ IsPlain(<<c>>) /\ Len(<<c>>) = 1
BY DEF IsPlain

\* So are the words the server puts in.
LEMMA ServerWords ==
  /\ \A c \in {"s", "server", "PRIVMSG", "TOPIC", "KICK", "PONG", "331", "332", "353", "=", "BOT"} :
       <<c>> \in Seq(Sign) /\ IsPlain(<<c>>) /\ Len(<<c>>) = 1
  /\ "CR" \in Sign /\ "LF" \in Sign /\ "@" \in Sign /\ "@" # Space
<1>1. {"s", "server", "PRIVMSG", "TOPIC", "KICK", "PONG", "331", "332", "353", "=", "BOT", "CR", "LF", "@"}
        \subseteq Sign
  BY DEF Sign, Words, Texts
<1>2. /\ "s" # Space /\ "server" # Space /\ "PRIVMSG" # Space /\ "TOPIC" # Space
      /\ "KICK" # Space /\ "PONG" # Space /\ "331" # Space /\ "332" # Space /\ "353" # Space /\ "=" # Space
      /\ "BOT" # Space /\ "@" # Space
  BY Zenon DEF Space
<1>3. ASSUME NEW c \in {"s", "server", "PRIVMSG", "TOPIC", "KICK", "PONG", "331", "332", "353", "=", "BOT"}
      PROVE  c \in Sign /\ c # Space /\ c # ":"
  BY <1>1, <1>2
<1> QED BY <1>1, <1>2, <1>3, PlainWords

\* A message with three words, and one with four.
Three(a, b, c, t) == Colon \o a \o Sp \o b \o Sp \o c \o Sp \o Colon \o t
Four(a, b, c, d, t) == Colon \o a \o Sp \o b \o Sp \o c \o Sp \o d \o Sp \o Colon \o t

IsMessage(m, n, ps) ==
  /\ m \in Seq(Sign) /\ Len(m) = n
  /\ \E h \in Seq(Sign) : m = Colon \o h /\ Parameters(h) = ps

\* A message of a sender, two words and a text.
LEMMA ThreeWords ==
  ASSUME NEW a \in Seq(Sign), IsPlain(a), NEW b \in Seq(Sign), IsPlain(b),
         NEW c \in Seq(Sign), IsPlain(c), NEW t \in Seq(Sign)
  PROVE  IsMessage(Three(a, b, c, t), Len(a) + Len(b) + Len(c) + 5 + Len(t),
                   <<a, b, c, Colon \o t>>)
<1>0. Len(a) \in Nat /\ Len(b) \in Nat /\ Len(c) \in Nat /\ Len(t) \in Nat
  BY LenProperties
<1>1. PICK l : l = Colon \o a \o Sp \o b \o Sp \o c \o Sp
  OBVIOUS
<1>2. IsLed(Sign, l, <<a, b, c>>, Len(a) + Len(b) + Len(c) + 4)
  BY <1>1, LedWords, Signs
<1>3. Three(a, b, c, t) = l \o Colon \o t
  BY <1>1 DEF Three
<1>4. PICK ps \in Seq(Seq(Sign)), n \in Nat :
        ps = <<a, b, c>> /\ n = Len(a) + Len(b) + Len(c) + 4
  <2>1. <<a, b, c>> \in Seq(Seq(Sign)) /\ Len(a) + Len(b) + Len(c) + 4 \in Nat
    BY <1>0
  <2> QED BY <2>1
<1>5. n + 1 + Len(t) = Len(a) + Len(b) + Len(c) + 5 + Len(t)
  BY <1>0, <1>4
<1>6. Append(ps, Colon \o t) = <<a, b, c, Colon \o t>>
  <2>1. PICK x \in Seq(Sign) : x = Colon \o t
    <3>1. Colon \o t \in Seq(Sign)
      BY Signs, TailOfJoin DEF Colon
    <3> QED BY <3>1
  <2>2. Append(<<a, b, c>>, x) = <<a, b, c, x>>
    BY ONLY a \in Seq(Sign), b \in Seq(Sign), c \in Seq(Sign), x \in Seq(Sign), AppendingFour
  <2> QED BY <1>4, <2>1, <2>2
<1>8. IsLed(Sign, l, ps, n)
  BY <1>2, <1>4
<1>7. HasText(Sign, l, ps, n, t)
  <2>1. ":" \in Sign
    BY Signs
  <2> QED BY ONLY <1>8, <2>1, ps \in Seq(Seq(Sign)), n \in Nat, t \in Seq(Sign), LedText
<1> QED BY <1>3, <1>5, <1>6, <1>7 DEF IsMessage, HasText

\* A message of a sender, three words and a text.
LEMMA FourWords ==
  ASSUME NEW a \in Seq(Sign), IsPlain(a), NEW b \in Seq(Sign), IsPlain(b),
         NEW c \in Seq(Sign), IsPlain(c), NEW d \in Seq(Sign), IsPlain(d), NEW t \in Seq(Sign)
  PROVE  IsMessage(Four(a, b, c, d, t), Len(a) + Len(b) + Len(c) + Len(d) + 6 + Len(t),
                   <<a, b, c, d, Colon \o t>>)
<1>0. Len(a) \in Nat /\ Len(b) \in Nat /\ Len(c) \in Nat /\ Len(d) \in Nat /\ Len(t) \in Nat
  BY LenProperties
<1>1. PICK l : l = Colon \o a \o Sp \o b \o Sp \o c \o Sp
  OBVIOUS
<1>2. IsLed(Sign, l, <<a, b, c>>, Len(a) + Len(b) + Len(c) + 4)
  BY <1>1, LedWords, Signs
<1>3. PICK ps \in Seq(Seq(Sign)), n \in Nat :
        ps = <<a, b, c>> /\ n = Len(a) + Len(b) + Len(c) + 4
  <2>1. <<a, b, c>> \in Seq(Seq(Sign)) /\ Len(a) + Len(b) + Len(c) + 4 \in Nat
    BY <1>0
  <2> QED BY <2>1
<1>4. PICK qs \in Seq(Seq(Sign)), k \in Nat :
        qs = Append(ps, d) /\ k = n + Len(d) + 1 /\ Append(qs, Colon \o t) = <<a, b, c, d, Colon \o t>>
  <2>1. PICK x \in Seq(Sign) : x = Colon \o t
    <3>1. Colon \o t \in Seq(Sign)
      BY Signs, TailOfJoin DEF Colon
    <3> QED BY <3>1
  <2>2. Append(<<a, b, c>>, d) = <<a, b, c, d>> /\ Append(<<a, b, c, d>>, x) = <<a, b, c, d, x>>
    BY ONLY a \in Seq(Sign), b \in Seq(Sign), c \in Seq(Sign), d \in Seq(Sign), x \in Seq(Sign),
            AppendingMore
  <2>3. Append(ps, d) \in Seq(Seq(Sign)) /\ n + Len(d) + 1 \in Nat
    BY <1>0, AppendProperties
  <2> QED BY <1>3, <2>1, <2>2, <2>3
<1>5. PICK x : x = l \o d \o Sp
  OBVIOUS
<1>6. IsLed(Sign, x, qs, k)
  <2>1. IsLed(Sign, l, ps, n)
    BY <1>2, <1>3
  <2>2. IsLed(Sign, l \o d \o Sp, Append(ps, d), n + Len(d) + 1)
    <3>1. ":" \in Sign /\ Space \in Sign
      BY Signs
    <3> QED BY ONLY <2>1, <3>1, ps \in Seq(Seq(Sign)), n \in Nat, d \in Seq(Sign), IsPlain(d), LedNext
  <2> QED BY <1>4, <1>5, <2>2
<1>7. HasText(Sign, x, qs, k, t)
  <2>1. ":" \in Sign
    BY Signs
  <2> QED BY ONLY <1>6, <2>1, qs \in Seq(Seq(Sign)), k \in Nat, t \in Seq(Sign), LedText
<1>8. Four(a, b, c, d, t) = x \o Colon \o t
  BY <1>1, <1>5 DEF Four
<1>9. k + 1 + Len(t) = Len(a) + Len(b) + Len(c) + Len(d) + 6 + Len(t)
  BY <1>0, <1>3, <1>4
<1> QED BY <1>4, <1>7, <1>8, <1>9 DEF IsMessage, HasText

\* The answer to PING has no sender.
LEMMA PongRead ==
  ASSUME NEW t \in Seq(Sign)
  PROVE  \E m \in Seq(Sign) : /\ m = Pong(t) /\ m # <<>> /\ m[1] = "PONG"
                              /\ Parameters(m) = <<<<"PONG">>, Colon \o t>>
<1>1. /\ <<"PONG">> \in Seq(Sign) /\ IsPlain(<<"PONG">>) /\ Len(<<"PONG">>) = 1 /\ <<"PONG">>[1] = "PONG"
      /\ Colon \in Seq(Sign) /\ Colon = <<":">> /\ Sp \in Seq(Sign)
  BY ServerWords, Signs, SpIs DEF Colon
<1>2. IsHeader(Sign, <<"PONG">> \o Sp, <<<<"PONG">>>>)
  BY <1>1, HeaderFirst, SpIs, Signs
<1>3. PICK h \in Seq(Sign) : h = <<"PONG">> \o Sp /\ Len(h) \in Nat /\ Len(h) >= 1 /\ h[1] = "PONG"
  <2>1. PICK h \in Seq(Sign) : h = <<"PONG">> \o Sp
    <3>1. <<"PONG">> \o Sp \in Seq(Sign)
      BY <1>1, Joining
    <3> QED BY <3>1
  <2>2. Len(h) = Len(<<"PONG">>) + Len(Sp) /\ \A k \in 1 .. Len(<<"PONG">>) : h[k] = <<"PONG">>[k]
    BY ONLY <1>1, <2>1, Joining
  <2>3. Len(h) >= 1 /\ h[1] = "PONG" /\ Len(h) \in Nat
    BY <1>1, <2>2, LenProperties
  <2> QED BY <2>1, <2>3
<1>4. Parameters(h \o Colon \o t) = Append(<<<<"PONG">>>>, Colon \o t)
  <2>1. <<<<"PONG">>>> \in Seq(Seq(Sign)) /\ IsHeader(Sign, h, <<<<"PONG">>>>)
    BY <1>1, <1>2, <1>3
  <2> QED BY <1>1, <2>1, HeaderText, Signs
<1>5. Append(<<<<"PONG">>>>, Colon \o t) = <<<<"PONG">>, Colon \o t>>
  <2>1. <<"PONG">> \in Seq(Sign) /\ Colon \o t \in Seq(Sign)
    BY <1>1, Joining
  <2> QED BY <2>1, Appending
<1>6. PICK g \in Seq(Sign) : g = h \o Colon /\ Len(g) \in Nat /\ Len(g) >= 1 /\ g[1] = "PONG"
  <2>1. h \o Colon \in Seq(Sign) /\ Len(h \o Colon) = Len(h) + Len(Colon)
        /\ \A k \in 1 .. Len(h) : (h \o Colon)[k] = h[k]
    BY ONLY <1>1, h \in Seq(Sign), Joining
  <2>2. PICK g \in Seq(Sign) : g = h \o Colon
    BY <2>1
  <2>3. Len(g) \in Nat /\ Len(g) >= 1 /\ g[1] = "PONG"
    BY <1>1, <1>3, <2>1, <2>2, LenProperties
  <2> QED BY <2>2, <2>3
<1>7. PICK m \in Seq(Sign) : m = g \o t /\ Len(m) >= 1 /\ m[1] = "PONG"
  <2>1. g \o t \in Seq(Sign) /\ Len(g \o t) = Len(g) + Len(t)
        /\ \A k \in 1 .. Len(g) : (g \o t)[k] = g[k]
    BY ONLY g \in Seq(Sign), t \in Seq(Sign), Joining
  <2>2. PICK m \in Seq(Sign) : m = g \o t
    BY <2>1
  <2>3. Len(m) >= 1 /\ m[1] = "PONG"
    BY <1>6, <2>1, <2>2, LenProperties
  <2> QED BY <2>2, <2>3
<1>8. m = Pong(t)
  BY <1>3, <1>6, <1>7 DEF Pong
<1>9. m # <<>>
  BY <1>7, EmptySeq
<1> QED BY <1>3, <1>4, <1>5, <1>6, <1>7, <1>8, <1>9

\* What is read in an answer to PING, cut or not.
LEMMA PongCut ==
  ASSUME NEW m \in Seq(Sign), m # <<>>, m[1] = "PONG"
  PROVE  AreOrCutFrom(Read(FormatMessage(m)), Parameters(m), FormatMessage(m))
<1>0. MaxMessageLength \in Nat /\ 16 <= MaxMessageLength /\ Len(m) \in Nat /\ Len(m) # 0
  <2>1. 16 <= MaxMessageLength
    BY RelayAssumption, Zenon
  <2> QED BY <2>1, FormatterAssumption, LenProperties, EmptySeq
<1>1. PICK c \in Seq(Sign) :
           /\ c = SubSeq(FormatMessage(m), 1, Len(FormatMessage(m)) - 2)
           /\ IsPrefix(c, m)
           /\ Len(c) = IF Len(m) > MaxMessageLength THEN MaxMessageLength ELSE Len(m)
           /\ Len(FormatMessage(m)) = Len(c) + 2
           /\ Len(m) <= MaxMessageLength => c = m
  BY BodyIs, ServerWords
<1>2. Len(c) \in 1 .. Len(m) /\ c # <<>>
  <2>1. Len(c) \in 1 .. Len(m)
    BY <1>0, <1>1
  <2> QED BY <2>1, EmptySeq
<1>3. Head(c) = "PONG"
  <2>1. \A k \in 1 .. Len(c) : c[k] = m[k]
    <3>1. IsPrefix(c, m)
      BY <1>1
    <3> QED BY ONLY <3>1, c \in Seq(Sign), m \in Seq(Sign), PrefixIs
  <2>2. c[1] = "PONG"
    BY <1>2, <2>1
  <2> QED BY <1>2, <2>2
<1>4. Read(FormatMessage(m)) = Parameters(c)
  BY <1>1, <1>3 DEF Read, Unprefixed
<1>5. CASE Len(m) <= MaxMessageLength
  BY <1>1, <1>4, <1>5 DEF AreOrCutFrom
<1>6. CASE Len(m) > MaxMessageLength
  <2>1. Len(FormatMessage(m)) = MaxMessageLength + 2
    BY <1>1, <1>6
  <2>2. /\ Len(Parameters(c)) <= Len(Parameters(m))
        /\ \A i \in 1 .. Len(Parameters(c)) :
              IF i = Len(Parameters(c)) THEN IsPrefix(Parameters(c)[i], Parameters(m)[i])
              ELSE Parameters(c)[i] = Parameters(m)[i]
        /\ Parameters(c) \in Seq(Seq(Sign))
    BY <1>1, CutParameters
  <2>3. DOMAIN Parameters(c) = 1 .. Len(Parameters(c))
    BY <2>2, LenProperties
  <2> QED BY <1>4, <2>1, <2>2, <2>3 DEF AreOrCutFrom
<1> QED BY <1>0, <1>5, <1>6

-----------------------------------------------------------------------------
(* The texts. *)

\* The texts of PRIVMSG, TOPIC, KICK and PING are read as they were meant.
LEMMA TextRelayed ==
  ASSUME RelayInv PROVE TextIsRelayed
<1> SUFFICES ASSUME at = "said", Command \in {<<c>> : c \in Texts}, IsWellFormed(line)
             PROVE  AreOrCutFrom(Read(out), Meant(Parameters(line)), out)
  BY DEF TextIsRelayed
<1>1. /\ args \in Seq(Seq(Sign)) /\ Len(args) \in Nat
      /\ \A k \in 1 .. Len(args) :
           /\ args[k] \in Seq(Sign)
           /\ IsPlain(args[k]) \/ (k = Len(args) /\ IsTrailing(args[k]))
      /\ args = Parameters(line)
  BY ArgsAre, LenProperties
<1>2. SaidIs
  BY DEF RelayInv
<1>3. Sender = <<"s">> /\ Sender \in Seq(Sign) /\ IsPlain(Sender)
  BY ServerWords DEF Sender
<1>4. ASSUME NEW h \in Seq(Sign), NEW m \in Seq(Sign), m = Colon \o h, out = FormatMessage(m),
             Parameters(h) = Meant(args)
      PROVE  AreOrCutFrom(Read(out), Meant(Parameters(line)), out)
  BY <1>1, <1>4, CutOrNot, ServerWords, Signs
<1>5. CASE args[1] = <<"PRIVMSG">>
  <2>1. Len(args) = 3 /\ out = FormatMessage(SendMsg(Sender, args[2], Unprefixed(args[3])))
    BY <1>2, <1>5 DEF SaidIs, Command
  <2>2. args[2] \in Seq(Sign) /\ IsPlain(args[2]) /\ Unprefixed(args[3]) \in Seq(Sign)
    BY <1>1, <2>1, UnprefixedType
  <2>3. PICK m : m = SendMsg(Sender, args[2], Unprefixed(args[3]))
    OBVIOUS
  <2>4. /\ m \in Seq(Sign)
        /\ \E h \in Seq(Sign) : /\ m = Colon \o h
             /\ Parameters(h) = <<Sender, <<"PRIVMSG">>, args[2], Colon \o Unprefixed(args[3])>>
    <3>1. PICK b \in Seq(Sign), c \in Seq(Sign), t \in Seq(Sign) :
            /\ b = <<"PRIVMSG">> /\ c = args[2] /\ t = Unprefixed(args[3])
            /\ IsPlain(b) /\ IsPlain(c)
      BY <2>2, ServerWords
    <3>2. m = Three(Sender, b, c, t)
      BY <2>3, <3>1 DEF SendMsg, Three
    <3>3. IsMessage(Three(Sender, b, c, t), Len(Sender) + Len(b) + Len(c) + 5 + Len(t),
                    <<Sender, b, c, Colon \o t>>)
      BY <1>3, <3>1, ThreeWords
    <3> QED BY <3>1, <3>2, <3>3 DEF IsMessage
  <2>5. Meant(args) = <<Sender, <<"PRIVMSG">>, args[2], Colon \o Unprefixed(args[3])>>
    BY <1>5 DEF Meant
  <2> QED BY <1>4, <2>1, <2>3, <2>4, <2>5
<1>6. CASE args[1] = <<"TOPIC">>
  <2>1. Len(args) >= 3 /\ out = FormatMessage(TopicChange(Sender, args[2], Unprefixed(Rejoined(args))))
    BY <1>2, <1>6 DEF SaidIs, Command
  <2>2. args[2] \in Seq(Sign) /\ IsPlain(args[2]) /\ Unprefixed(Rejoined(args)) \in Seq(Sign)
    <3>1. Len(args) >= 3 /\ 2 \in 1 .. Len(args) /\ 2 # Len(args) /\ args \in Seq(Seq(Sign))
      <4>1. Len(args) >= 3 /\ Len(args) \in Nat
        BY <1>1, <2>1
      <4>2. 2 \in 1 .. Len(args) /\ 2 # Len(args)
        <5>1. PICK n \in Nat : n = Len(args) /\ n >= 3
          BY <4>1, Zenon
        <5>2. 2 \in 1 .. n /\ 2 # n
          BY ONLY <5>1, n \in Nat
        <5> QED BY <5>1, <5>2, Zenon
      <4>3. args \in Seq(Seq(Sign))
        BY <1>1, Zenon
      <4> QED BY <4>1, <4>2, <4>3
    <3>2. args[2] \in Seq(Sign) /\ IsPlain(args[2])
      BY <1>1, <3>1
    <3>3. Rejoined(args) \in Seq(Sign)
      BY <3>1, RejoinedType
    <3> QED BY <3>2, <3>3, UnprefixedType
  <2>3. PICK m : m = TopicChange(Sender, args[2], Unprefixed(Rejoined(args)))
    OBVIOUS
  <2>4. /\ m \in Seq(Sign)
        /\ \E h \in Seq(Sign) : /\ m = Colon \o h
             /\ Parameters(h) = <<Sender, <<"TOPIC">>, args[2], Colon \o Unprefixed(Rejoined(args))>>
    <3>1. PICK b \in Seq(Sign), c \in Seq(Sign), t \in Seq(Sign) :
            /\ b = <<"TOPIC">> /\ c = args[2] /\ t = Unprefixed(Rejoined(args))
            /\ IsPlain(b) /\ IsPlain(c)
      BY <2>2, ServerWords
    <3>2. m = Three(Sender, b, c, t)
      BY <2>3, <3>1 DEF TopicChange, Three
    <3>3. IsMessage(Three(Sender, b, c, t), Len(Sender) + Len(b) + Len(c) + 5 + Len(t),
                    <<Sender, b, c, Colon \o t>>)
      BY <1>3, <3>1, ThreeWords
    <3> QED BY <3>1, <3>2, <3>3 DEF IsMessage
  <2>5. Meant(args) = <<Sender, <<"TOPIC">>, args[2], Colon \o Unprefixed(Rejoined(args))>>
    BY <1>6 DEF Meant
  <2> QED BY <1>4, <2>1, <2>3, <2>4, <2>5
<1>7. CASE args[1] = <<"KICK">>
  <2>0. Len(args) >= 3 /\ 2 \in 1 .. Len(args) /\ 3 \in 1 .. Len(args) /\ 2 # Len(args)
    <3>1. Len(args) >= 3 /\ Len(args) \in Nat
      BY <1>1, <1>2, <1>7 DEF SaidIs, Command
    <3>2. PICK n \in Nat : n = Len(args) /\ n >= 3
      BY <3>1
    <3>3. n >= 3 /\ 2 \in 1 .. n /\ 3 \in 1 .. n /\ 2 # n
      BY <3>2
    <3> QED BY <3>2, <3>3
  <2> DEFINE w == IF Len(args) = 4 THEN args[4] ELSE <<>>
  <2>1. Len(args) >= 3 /\ ~Contains(args[3], ":")
        /\ out = FormatMessage(Kick(Sender, args[2], args[3], w))
    BY <1>2, <1>7 DEF SaidIs, Command
  <2>2. args[2] \in Seq(Sign) /\ IsPlain(args[2]) /\ args[3] \in Seq(Sign)
    BY <1>1, <2>0
  <2>3. IsPlain(args[3])
    <3>1. ~IsTrailing(args[3])
      <4> SUFFICES ASSUME IsTrailing(args[3]) PROVE FALSE
        OBVIOUS
      <4>1. 1 \in 1 .. Len(args[3]) /\ args[3][1] = ":"
        BY <2>2, EmptySeq, LenProperties DEF IsTrailing
      <4> QED BY <2>1, <4>1 DEF Contains
    <3> QED BY <1>1, <2>1, <3>1
  <2>4. w \in Seq(Sign)
    <3>1. CASE Len(args) = 4
      BY <1>1, <3>1
    <3>2. CASE Len(args) # 4
      BY <3>2
    <3> QED BY <3>1, <3>2
  <2>5. Meant(args) = <<Sender, <<"KICK">>, args[2], args[3], Colon \o w>>
    BY <1>7 DEF Meant
  <2> HIDE DEF w
  <2>6. PICK m : m = Kick(Sender, args[2], args[3], w)
    OBVIOUS
  <2>7. /\ m \in Seq(Sign)
        /\ \E h \in Seq(Sign) : /\ m = Colon \o h
             /\ Parameters(h) = <<Sender, <<"KICK">>, args[2], args[3], Colon \o w>>
    <3>1. PICK b \in Seq(Sign), c \in Seq(Sign), d \in Seq(Sign), t \in Seq(Sign) :
            /\ b = <<"KICK">> /\ c = args[2] /\ d = args[3] /\ t = w
            /\ IsPlain(b) /\ IsPlain(c) /\ IsPlain(d)
      BY <2>2, <2>3, <2>4, ServerWords
    <3>2. m = Four(Sender, b, c, d, t)
      BY <2>6, <3>1 DEF Kick, Four
    <3>3. IsMessage(Four(Sender, b, c, d, t), Len(Sender) + Len(b) + Len(c) + Len(d) + 6 + Len(t),
                    <<Sender, b, c, d, Colon \o t>>)
      BY <1>3, <3>1, FourWords
    <3> QED BY <3>1, <3>2, <3>3 DEF IsMessage
  <2> QED BY <1>4, <2>1, <2>5, <2>6, <2>7
<1>8. CASE args[1] = <<"PING">>
  <2>1. Len(args) = 2 /\ out = FormatMessage(Pong(args[2]))
    BY <1>2, <1>8 DEF SaidIs, Command
  <2>2. args[2] \in Seq(Sign)
    BY <1>1, <2>1
  <2>3. Meant(args) = <<<<"PONG">>, Colon \o args[2]>>
    BY <1>8 DEF Meant
  <2>4. PICK m \in Seq(Sign) : /\ m = Pong(args[2]) /\ m # <<>> /\ m[1] = "PONG"
                               /\ Parameters(m) = <<<<"PONG">>, Colon \o args[2]>>
    BY <2>2, PongRead
  <2>5. AreOrCutFrom(Read(out), Parameters(m), out)
    BY <2>1, <2>4, PongCut
  <2> QED BY <1>1, <2>3, <2>4, <2>5
<1> QED BY <1>5, <1>6, <1>7, <1>8 DEF Texts, Command

-----------------------------------------------------------------------------
(* The topic. *)

\* A member is told what setTopic was asked to store, and reads what it stored.
LEMMA TopicRead ==
  ASSUME RelayInv PROVE OnlyRefusedTopicsDiffer
<1> SUFFICES ASSUME at = "asked", told # <<>> PROVE OnlyRefusedTopicsDiffer
  BY DEF OnlyRefusedTopicsDiffer
<1>1. /\ args \in Seq(Seq(Sign))
      /\ \A k \in 1 .. Len(args) :
           /\ args[k] \in Seq(Sign)
           /\ IsPlain(args[k]) \/ (k = Len(args) /\ IsTrailing(args[k]))
  BY ArgsAre
<1>2. /\ Len(args) >= 3
      /\ told = FormatMessage(TopicChange(Sender, args[2], Unprefixed(Rejoined(args))))
      /\ topic = Kept
      /\ out = FormatMessage(IF topic = <<>> THEN NoTopicReply(Sender, args[2])
                             ELSE TopicReply(Sender, args[2], topic))
  BY DEF RelayInv, AskedIs
<1>3. Sender = <<"s">> /\ Sender \in Seq(Sign) /\ IsPlain(Sender)
  BY ServerWords DEF Sender
<1>4. PICK c \in Seq(Sign) : c = args[2] /\ IsPlain(c)
  <2>1. PICK n \in Nat : n = Len(args) /\ n >= 3
    BY <1>1, <1>2, LenProperties
  <2>2. 2 \in 1 .. n /\ 2 # n
    BY <2>1
  <2> QED BY <1>1, <2>1, <2>2
<1>5. PICK new \in Seq(Sign) : new = Unprefixed(Rejoined(args))
  <2>1. Rejoined(args) \in Seq(Sign)
    BY <1>1, <1>2, RejoinedType
  <2> QED BY <2>1, UnprefixedType
<1>6. PICK kept \in Seq(Sign) : kept = topic
                               /\ kept = IF Len(new) \in 1 .. MaxTopicLength THEN new ELSE former
  <2>1. topic = IF Len(new) \in 1 .. MaxTopicLength THEN new ELSE former
    BY <1>2, <1>5 DEF Kept
  <2>2. former \in Seq(Sign)
    <3>1. former \in {<<>>, <<"o">>}
      BY DEF RelayInv
    <3>2. "o" \in Sign
      BY Zenon DEF Sign
    <3>3. \A x \in Sign : <<x>> \in Seq(Sign)
      OBVIOUS
    <3>4. <<>> \in Seq(Sign)
      OBVIOUS
    <3> QED BY <3>1, <3>2, <3>3, <3>4
  <2> QED BY <2>1, <2>2
<1>7. AreOrCutFrom(Read(told), <<Sender, <<"TOPIC">>, c, Colon \o new>>, told)
  <2>1. PICK b \in Seq(Sign) : b = <<"TOPIC">> /\ IsPlain(b)
    BY ServerWords
  <2>2. TopicChange(Sender, c, new) = Three(Sender, b, c, new)
    BY <2>1 DEF TopicChange, Three
  <2>3. IsMessage(Three(Sender, b, c, new), Len(Sender) + Len(b) + Len(c) + 5 + Len(new),
                  <<Sender, b, c, Colon \o new>>)
    BY <1>3, <1>4, <2>1, ThreeWords
  <2>4. PICK m \in Seq(Sign), h \in Seq(Sign) :
          /\ m = TopicChange(Sender, c, new) /\ m = Colon \o h
          /\ Parameters(h) = <<Sender, b, c, Colon \o new>>
    BY <2>2, <2>3 DEF IsMessage
  <2>5. AreOrCutFrom(Read(FormatMessage(m)), Parameters(h), FormatMessage(m))
    BY <2>4, CutOrNot, ServerWords, Signs
  <2> QED BY <1>2, <1>4, <1>5, <2>1, <2>4, <2>5
<1>8. ASSUME NEW r \in Seq(Sign), IsPlain(r), NEW t \in Seq(Sign), NEW m,
             m = Four(ServerName, r, Sender, c, t), out = FormatMessage(m)
      PROVE  AreOrCutFrom(Read(out), <<ServerName, r, Sender, c, Colon \o t>>, out)
  <2>1. PICK v \in Seq(Sign) : v = ServerName /\ IsPlain(v)
    BY ServerWords DEF ServerName
  <2>2. IsMessage(Four(v, r, Sender, c, t), Len(v) + Len(r) + Len(Sender) + Len(c) + 6 + Len(t),
                  <<v, r, Sender, c, Colon \o t>>)
    BY <1>3, <1>4, <1>8, <2>1, FourWords
  <2>3. PICK h \in Seq(Sign) : /\ m \in Seq(Sign) /\ m = Colon \o h
                               /\ Parameters(h) = <<v, r, Sender, c, Colon \o t>>
    BY <1>8, <2>1, <2>2 DEF IsMessage
  <2>4. AreOrCutFrom(Read(FormatMessage(m)), Parameters(h), FormatMessage(m))
    BY <2>3, CutOrNot, ServerWords, Signs
  <2> QED BY <1>8, <2>1, <2>3, <2>4
<1>9. CASE kept = <<>>
  <2>1. PICK r \in Seq(Sign), t \in Seq(Sign) :
          r = <<"331">> /\ IsPlain(r) /\ t = <<"No topic is set">>
    <3>1. "No topic is set" \in Sign
      BY Zenon DEF Sign
    <3>2. <<"331">> \in Seq(Sign) /\ IsPlain(<<"331">>)
      BY ServerWords
    <3>3. \A x \in Sign : <<x>> \in Seq(Sign)
      OBVIOUS
    <3> QED BY <3>1, <3>2, <3>3, Zenon
  <2>2. out = FormatMessage(NoTopicReply(Sender, c))
    BY <1>2, <1>4, <1>6, <1>9
  <2>3. NoTopicReply(Sender, c) = Four(ServerName, r, Sender, c, t)
    BY <2>1 DEF NoTopicReply, Four
  <2>4. AreOrCutFrom(Read(out), <<ServerName, r, Sender, c, Colon \o t>>, out)
    BY <1>8, <2>1, <2>2, <2>3
  <2> QED BY <1>4, <1>5, <1>6, <1>7, <1>9, <2>1, <2>4 DEF OnlyRefusedTopicsDiffer
<1>10. CASE kept # <<>>
  <2>1. PICK r \in Seq(Sign) : r = <<"332">> /\ IsPlain(r)
    BY ServerWords
  <2>2. out = FormatMessage(TopicReply(Sender, c, kept))
    BY <1>2, <1>4, <1>6, <1>10
  <2>3. TopicReply(Sender, c, kept) = Four(ServerName, r, Sender, c, kept)
    BY <2>1 DEF TopicReply, Four
  <2>4. AreOrCutFrom(Read(out), <<ServerName, r, Sender, c, Colon \o kept>>, out)
    BY <1>8, <2>1, <2>2, <2>3
  <2> QED BY <1>4, <1>5, <1>6, <1>7, <1>10, <2>1, <2>4 DEF OnlyRefusedTopicsDiffer
<1> QED BY <1>9, <1>10

-----------------------------------------------------------------------------
(* The bot. *)

Sized(S, n) == {x \in Seq(S) : Len(x) = n}

\* The length of two joined sequences.
LEMMA JoiningSized ==
  ASSUME NEW S, NEW n \in Nat, NEW k \in Nat, NEW x \in Sized(S, n), NEW y \in Sized(S, k)
  PROVE  x \o y \in Sized(S, n + k)
<1>1. x \in Seq(S) /\ Len(x) = n /\ y \in Seq(S) /\ Len(y) = k
  BY DEF Sized
<1>2. x \o y \in Seq(S) /\ Len(x \o y) = n + k
  BY <1>1, JoiningTwo
<1> QED BY <1>2 DEF Sized

\* The bot's message, and where its words are in it.
LEMMA BotMessage ==
  ASSUME NEW p, NEW b, NEW r
  PROVE  /\ Len(FormatMessage(GenericError(<<"BOT">>, <<p, b, r>>))) = 10
         /\ SubSeq(FormatMessage(GenericError(<<"BOT">>, <<p, b, r>>)), 6, 8) = <<p, b, r>>
<1>1. PICK S : ":" \in S /\ Space \in S /\ "server" \in S /\ "BOT" \in S /\ "CR" \in S /\ "LF" \in S
               /\ p \in S /\ b \in S /\ r \in S
  <2> DEFINE T == {":", Space, "server", "BOT", "CR", "LF", p, b, r}
  <2>1. ":" \in T /\ Space \in T /\ "server" \in T /\ "BOT" \in T /\ "CR" \in T /\ "LF" \in T
        /\ p \in T /\ b \in T /\ r \in T
    OBVIOUS
  <2> HIDE DEF T
  <2> QED BY <2>1
<1>2. PICK cl \in Sized(S, 1) : cl = Colon
  <2>1. Colon \in Seq(S) /\ Len(Colon) = 1
    BY <1>1 DEF Colon
  <2> QED BY <2>1 DEF Sized
<1>3. PICK sp \in Sized(S, 1) : sp = Sp
  <2>1. Sp \in Seq(S) /\ Len(Sp) = 1
    BY <1>1, SpIs
  <2> QED BY <2>1 DEF Sized
<1>4. PICK sv \in Sized(S, 1) : sv = ServerName
  <2>1. ServerName \in Seq(S) /\ Len(ServerName) = 1
    BY <1>1 DEF ServerName
  <2> QED BY <2>1 DEF Sized
<1>5. PICK bt \in Sized(S, 1) : bt = <<"BOT">>
  <2>1. <<"BOT">> \in Seq(S) /\ Len(<<"BOT">>) = 1
    BY <1>1
  <2> QED BY <2>1 DEF Sized
<1>6. PICK cr \in Sized(S, 2) : cr = CRLF
  <2>1. CRLF \in Seq(S) /\ Len(CRLF) = 2
    BY <1>1 DEF CRLF
  <2> QED BY <2>1 DEF Sized
<1>7. PICK d \in Sized(S, 3) : d = <<p, b, r>>
  <2>1. <<p, b, r>> \in Seq(S) /\ Len(<<p, b, r>>) = 3
    BY <1>1
  <2> QED BY <2>1 DEF Sized
<1>8. PICK u \in Sized(S, 2) : u = cl \o sv
  <2>1. cl \o sv \in Sized(S, 1 + 1)
    BY JoiningSized
  <2>2. 1 + 1 = 2
    OBVIOUS
  <2> QED BY <2>1, <2>2, Zenon
<1>9. PICK v \in Sized(S, 3) : v = u \o sp
  <2>1. u \o sp \in Sized(S, 2 + 1)
    BY JoiningSized
  <2>2. 2 + 1 = 3
    OBVIOUS
  <2> QED BY <2>1, <2>2, Zenon
<1>10. PICK w \in Sized(S, 4) : w = v \o bt
  <2>1. v \o bt \in Sized(S, 3 + 1)
    BY JoiningSized
  <2>2. 3 + 1 = 4
    OBVIOUS
  <2> QED BY <2>1, <2>2, Zenon
<1>11. PICK h \in Sized(S, 5) : h = w \o sp
  <2>1. w \o sp \in Sized(S, 4 + 1)
    BY JoiningSized
  <2>2. 4 + 1 = 5
    OBVIOUS
  <2> QED BY <2>1, <2>2, Zenon
<1>12. PICK m \in Sized(S, 8) : m = h \o d
  <2>1. h \o d \in Sized(S, 5 + 3)
    BY JoiningSized
  <2>2. 5 + 3 = 8
    OBVIOUS
  <2> QED BY <2>1, <2>2, Zenon
<1>13. PICK z \in Sized(S, 10) : z = m \o cr
  <2>1. m \o cr \in Sized(S, 8 + 2)
    BY JoiningSized
  <2>2. 8 + 2 = 10
    OBVIOUS
  <2> QED BY <2>1, <2>2, Zenon
<1>a. /\ m \in Seq(S) /\ Len(m) = 8 /\ cr \in Seq(S) /\ h \in Seq(S) /\ Len(h) = 5
      /\ d \in Seq(S) /\ Len(d) = 3 /\ Len(z) = 10
  BY DEF Sized
<1>14. FormatMessage(GenericError(<<"BOT">>, <<p, b, r>>)) = z
  <2>1. GenericError(<<"BOT">>, <<p, b, r>>) = m
    BY <1>2, <1>3, <1>4, <1>5, <1>7, <1>8, <1>9, <1>10, <1>11, <1>12 DEF GenericError
  <2>2. ~(Len(m) > MaxMessageLength)
    <3>1. 16 <= MaxMessageLength /\ MaxMessageLength \in Nat
      BY RelayAssumption, FormatterAssumption, Zenon
    <3> QED BY <1>a, <3>1
  <2>3. FormatMessage(m) = z
    BY <1>6, <1>13, <2>2 DEF FormatMessage
  <2> QED BY <2>1, <2>3
<1>15. SubSeq(m \o cr, 6, 8) = SubSeq(m, 6, 8)
  <2>1. 6 \in 1 .. Len(m) /\ 8 \in 6 .. Len(m)
    BY <1>a
  <2> QED BY <1>a, <2>1, PartOfFirst
<1>16. SubSeq(h \o d, Len(h) + 1, Len(h) + 3) = SubSeq(d, 1, 3)
  <2>1. 1 \in 1 .. Len(d) /\ 3 \in 1 .. Len(d)
    BY <1>a
  <2> QED BY <1>a, <2>1, PartOfSecond
<1>17. SubSeq(d, 1, 3) = d
  <2>1. SubSeq(d, 1, Len(d)) = d
    BY <1>a
  <2> QED BY <1>a, <2>1
<1>18. SubSeq(m, 6, 8) = d
  <2>1. Len(h) + 1 = 6 /\ Len(h) + 3 = 8
    BY <1>a
  <2> QED BY <1>12, <1>16, <1>17, <2>1
<1> QED BY <1>a, <1>7, <1>13, <1>14, <1>15, <1>18

Place(m) == SelectInSeq(Moves, LAMBDA c : c = m)

\* The places of the moves in the circle.
LEMMA MoveIs == Place("rock") = 1 /\ Place("paper") = 2 /\ Place("scissors") = 3
<1>1. Len(Moves) = 3 /\ Moves[1] = "rock" /\ Moves[2] = "paper" /\ Moves[3] = "scissors"
  BY DEF Moves
<1>2. /\ {i \in 1 .. Len(Moves) : Moves[i] = "rock"} = {1}
      /\ {i \in 1 .. Len(Moves) : Moves[i] = "paper"} = {2}
      /\ {i \in 1 .. Len(Moves) : Moves[i] = "scissors"} = {3}
  BY <1>1
<1>3. Min({1}) = 1 /\ Min({2}) = 2 /\ Min({3}) = 3
  BY OnlyPlace
<1> QED BY <1>2, <1>3 DEF Place, SelectInSeq

\* The remainder of a division by three.
LEMMA Remainder ==
  ASSUME NEW i \in Int, NEW q \in Int, NEW r \in 0 .. 2, i = 3 * q + r
  PROVE  i % 3 = r
OBVIOUS

\* How far one place of the circle is ahead of another.
LEMMA AheadIs ==
  ASSUME NEW i \in 1 .. 3, NEW j \in 1 .. 3
  PROVE  (i - j) % 3 = IF i >= j THEN i - j ELSE i - j + 3
<1>1. CASE i >= j
  BY <1>1
<1>2. CASE ~(i >= j)
  <2>1. -1 \in Int /\ i - j \in Int /\ i - j + 3 \in 0 .. 2 /\ i - j = 3 * (-1) + (i - j + 3)
    BY <1>2
  <2>2. (i - j) % 3 = i - j + 3
    BY <2>1, Remainder
  <2> QED BY <1>2, <2>2
<1> QED BY <1>1, <1>2

\* Who wins is how far one move is ahead of the other.
LEMMA ResultIs ==
  ASSUME NEW p \in {"rock", "paper", "scissors"}, NEW b \in {"rock", "paper", "scissors"}
  PROVE  Result(p, b) = <<"It's a tie!", "You win!", "Bot wins!">>[
                          ((Place(p) - Place(b)) % 3) + 1]
<1>1. PICK i \in 1 .. 3, j \in 1 .. 3 :
        /\ i = Place(p) /\ j = Place(b)
        /\ p = "rock" => i = 1
        /\ p = "paper" => i = 2
        /\ p = "scissors" => i = 3
        /\ b = "rock" => j = 1
        /\ b = "paper" => j = 2
        /\ b = "scissors" => j = 3
  BY MoveIs
<1>2. PICK k : k = (i - j) % 3 /\ k = IF i >= j THEN i - j ELSE i - j + 3
  BY AheadIs
<1>3. /\ p = b => k = 0
      /\ p = "rock" /\ b = "scissors" => k = 1
      /\ p = "paper" /\ b = "rock" => k = 1
      /\ p = "scissors" /\ b = "paper" => k = 1
      /\ p = "rock" /\ b = "paper" => k = 2
      /\ p = "paper" /\ b = "scissors" => k = 2
      /\ p = "scissors" /\ b = "rock" => k = 2
  BY <1>1, <1>2
<1>4. \A tie, win, loss :
        (IF p = b THEN tie
         ELSE IF <<p, b>> \in {<<"rock", "scissors">>, <<"paper", "rock">>, <<"scissors", "paper">>}
         THEN win ELSE loss) = <<tie, win, loss>>[k + 1]
  BY <1>3
<1>5. Result(p, b) = <<"It's a tie!", "You win!", "Bot wins!">>[k + 1]
  BY <1>4, Zenon DEF Result
<1> QED BY <1>1, <1>2, <1>5, Zenon

\* The bot's verdict is the one the rules give.
LEMMA BotFair ==
  ASSUME RelayInv PROVE BotPlaysFair
<1> SUFFICES ASSUME at = "said", Command = <<"RPS">>, NEW said,
                    said = SubSeq(out, Len(out) - 4, Len(out) - 2)
             PROVE  said[3] = <<"It's a tie!", "You win!", "Bot wins!">>[
                      ((Place(said[1]) - Place(said[2])) % 3) + 1]
  BY Zenon DEF BotPlaysFair, Place
<1>1. PICK p \in ToSet(Moves), b \in ToSet(Moves) :
        out = FormatMessage(GenericError(<<"BOT">>, <<p, b, Result(p, b)>>))
  BY DEF RelayInv, SaidIs
<1>2. PICK r : r = Result(p, b)
  OBVIOUS
<1>3. Len(out) = 10 /\ SubSeq(out, 6, 8) = <<p, b, r>>
  <2>1. out = FormatMessage(GenericError(<<"BOT">>, <<p, b, r>>))
    BY <1>1, <1>2
  <2> QED BY <2>1, BotMessage, Zenon
<1>4. said = <<p, b, r>>
  BY <1>3
<1>5. PICK x, y, v : x = said[1] /\ y = said[2] /\ v = said[3] /\ x = p /\ y = b /\ v = r
  <2>1. <<p, b, r>>[1] = p /\ <<p, b, r>>[2] = b /\ <<p, b, r>>[3] = r
    BY ONLY TRUE
  <2> QED BY <1>4, <2>1
<1>6. p \in {"rock", "paper", "scissors"} /\ b \in {"rock", "paper", "scissors"}
  BY DEF ToSet, Moves
<1>7. Result(p, b) = <<"It's a tie!", "You win!", "Bot wins!">>[((Place(p) - Place(b)) % 3) + 1]
  BY <1>6, ResultIs, Zenon
<1> QED BY <1>2, <1>5, <1>7, Zenon

-----------------------------------------------------------------------------
(* The names. *)

\* A list of words, each with a blank behind it, is read as these words.
LEMMA ListIs ==
  ASSUME NEW S, Space \in S, NEW p \in Seq(Seq(S)), NEW q \in Seq(Seq(S)), Len(p) = Len(q),
         \A k \in 1 .. Len(q) : IsPlain(q[k]) /\ p[k] = q[k] \o Sp
  PROVE  FlattenSeq(p) \in Seq(S) /\ Parameters(FlattenSeq(p)) = q
<1> DEFINE I == {k \in Nat : k <= Len(q) => IsHeader(S, FlattenSeq(SubSeq(p, 1, k)), SubSeq(q, 1, k))}
<1>0. Len(q) \in Nat /\ Sp \in Seq(S) /\ Sp = <<Space>>
  BY SpIs, LenProperties
<1>1. 0 \in I
  <2>1. SubSeq(p, 1, 0) = <<>> /\ SubSeq(q, 1, 0) = <<>>
    BY EmptySeq
  <2>2. FlattenSeq(<<>>) = <<>>
    BY DEF FlattenSeq
  <2>3. <<>> \in Seq(S) /\ Len(<<>>) = 0
    OBVIOUS
  <2>4. Parameters(<<>>) = <<>>
    BY <2>3, UpToNothing
  <2>5. HasNoTrailing(<<>>)
    <3>1. \A j : j \notin 1 .. 0
      OBVIOUS
    <3>2. \A j : j \in Starts(<<>>) => j \in 1 .. Len(<<>>)
      BY ONLY <2>3, StartIs
    <3>3. \A j : j \notin Starts(<<>>)
      BY <2>3, <3>1, <3>2
    <3> QED BY <3>3 DEF HasNoTrailing
  <2>6. IsHeader(S, <<>>, <<>>)
    BY <2>3, <2>4, <2>5 DEF IsHeader, IsBlankEnded
  <2> QED BY <2>1, <2>2, <2>6
<1>2. ASSUME NEW k \in Nat, k \in I PROVE k + 1 \in I
  <2> SUFFICES ASSUME k + 1 <= Len(q)
               PROVE  IsHeader(S, FlattenSeq(SubSeq(p, 1, k + 1)), SubSeq(q, 1, k + 1))
    OBVIOUS
  <2>1. k + 1 \in 1 .. Len(q) /\ k + 1 - 1 = k /\ k <= Len(q)
    BY <1>0
  <2>2. PICK f : f = FlattenSeq(SubSeq(p, 1, k))
    OBVIOUS
  <2>3. PICK ps \in Seq(Seq(S)) : ps = SubSeq(q, 1, k)
    <3>1. SubSeq(q, 1, k + 1 - 1) \in Seq(Seq(S))
      BY ONLY <2>1, q \in Seq(Seq(S)), PartNext
    <3> QED BY <2>1, <3>1
  <2>4. IsHeader(S, f, ps)
    BY <1>2, <2>1, <2>2, <2>3
  <2>5. f \in Seq(S)
    BY <2>4 DEF IsHeader
  <2>6. PICK w \in Seq(S) : w = q[k + 1] /\ IsPlain(w) /\ p[k + 1] = w \o Sp
    <3>1. q[k + 1] \in Seq(S)
      BY <2>1, ElementOfSeq
    <3> QED BY <2>1, <3>1
  <2>7. FlattenSeq(SubSeq(p, 1, k + 1)) = f \o (w \o Sp)
    <3>1. k + 1 \in 1 .. Len(p)
      BY <2>1
    <3>2. FlattenSeq(SubSeq(p, 1, k + 1)) = FlattenSeq(SubSeq(p, 1, k)) \o p[k + 1]
      <4>1. \A n \in 1 .. Len(p) :
              FlattenSeq(SubSeq(p, 1, n)) = FlattenSeq(SubSeq(p, 1, n - 1)) \o p[n]
        BY ONLY p \in Seq(Seq(S)), FlatteningNext
      <4>2. PICK j \in 1 .. Len(p) : j = k + 1 /\ j - 1 = k
        BY <3>1
      <4>3. FlattenSeq(SubSeq(p, 1, j)) = FlattenSeq(SubSeq(p, 1, j - 1)) \o p[j]
        BY <4>1
      <4> QED BY <4>2, <4>3
    <3> QED BY <2>1, <2>2, <2>6, <3>2
  <2>8. f \o (w \o Sp) = (f \o w) \o Sp
    <3>1. Groups(f, w, Sp)
      BY <1>0, <2>5, Grouping, Zenon
    <3> QED BY <3>1 DEF Groups
  <2>9. SubSeq(q, 1, k + 1) = Append(ps, w)
    <3>1. SubSeq(q, 1, k + 1) = Append(SubSeq(q, 1, k + 1 - 1), q[k + 1])
      BY <2>1, PartNext
    <3> QED BY <2>1, <2>3, <2>6, <3>1
  <2>10. IsHeader(S, (f \o w) \o <<Space>>, Append(ps, w))
    BY <2>4, <2>6, HeaderNext
  <2> QED BY <1>0, <2>7, <2>8, <2>9, <2>10
<1>3. Len(q) \in I
  <2> HIDE DEF I
  <2> QED BY <1>0, <1>1, <1>2, Inducting
<1>4. SubSeq(p, 1, Len(q)) = p /\ SubSeq(q, 1, Len(q)) = q
  OBVIOUS
<1>5. IsHeader(S, FlattenSeq(p), q)
  <2>1. IsHeader(S, FlattenSeq(SubSeq(p, 1, Len(q))), SubSeq(q, 1, Len(q)))
    <3>1. Len(q) <= Len(q)
      BY <1>0
    <3> QED BY <1>3, <3>1
  <2> QED BY <1>4, <2>1, Zenon
<1> QED BY <1>5 DEF IsHeader

IsCutBehind(S, c, x, l) ==
  \E r \in Seq(S) : c = x \o r /\ IsPrefix(r, l) /\ Len(c) = Len(x) + Len(r)

\* A message that is cut behind its header is cut in its text.
LEMMA CutBehind ==
  ASSUME NEW S, NEW x \in Seq(S), NEW l \in Seq(S), NEW c \in Seq(S), IsPrefix(c, x \o l),
         Len(c) >= Len(x)
  PROVE  IsCutBehind(S, c, x, l)
<1>0. Len(x) \in Nat /\ Len(l) \in Nat /\ Len(c) \in Nat
  BY LenProperties
<1>1. PICK m \in Seq(S) : /\ m = x \o l /\ Len(m) = Len(x) + Len(l)
                          /\ \A k \in 1 .. Len(x) : m[k] = x[k]
                          /\ \A k \in 1 .. Len(l) : m[Len(x) + k] = l[k]
  <2>1. /\ x \o l \in Seq(S) /\ Len(x \o l) = Len(x) + Len(l)
        /\ \A k \in 1 .. Len(x) : (x \o l)[k] = x[k]
        /\ \A k \in 1 .. Len(l) : (x \o l)[Len(x) + k] = l[k]
    BY ONLY x \in Seq(S), l \in Seq(S), Joining
  <2> QED BY <2>1
<1>2. Len(c) <= Len(m) /\ \A k \in 1 .. Len(c) : c[k] = m[k]
  <2>1. IsPrefix(c, m)
    BY <1>1
  <2> QED BY ONLY <2>1, c \in Seq(S), m \in Seq(S), PrefixIs
<1>3. Len(x) \in 0 .. Len(c)
  BY <1>0
<1>4. PICK b \in Seq(S), r \in Seq(S) :
        /\ Len(b) = Len(x) /\ Len(r) = Len(c) - Len(x) /\ c = b \o r
  <2>1. /\ SubSeq(c, 1, Len(x)) \in Seq(S) /\ SubSeq(c, Len(x) + 1, Len(c)) \in Seq(S)
        /\ Len(SubSeq(c, 1, Len(x))) = Len(x)
        /\ Len(SubSeq(c, Len(x) + 1, Len(c))) = Len(c) - Len(x)
        /\ c = SubSeq(c, 1, Len(x)) \o SubSeq(c, Len(x) + 1, Len(c))
    <3>1. Parts(S, c, Len(x))
      BY <1>3, PartsAll, Zenon
    <3> QED BY <3>1, Zenon DEF Parts
  <2> QED BY <2>1, Zenon
<1>5. /\ \A k \in 1 .. Len(b) : c[k] = b[k]
      /\ \A k \in 1 .. Len(r) : c[Len(b) + k] = r[k]
  BY ONLY <1>4, b \in Seq(S), r \in Seq(S), Joining
<1>6. b = x
  <2>1. \A k \in 1 .. Len(x) : b[k] = x[k]
    <3> SUFFICES ASSUME NEW k \in 1 .. Len(x) PROVE b[k] = x[k]
      OBVIOUS
    <3>1. k \in 1 .. Len(c) /\ k \in 1 .. Len(b)
      BY <1>0, <1>4
    <3> QED BY <1>1, <1>2, <1>5, <3>1
  <2> QED BY <1>4, <2>1, SeqEqual
<1>7. IsPrefix(r, l)
  <2>1. Len(r) <= Len(l)
    BY <1>0, <1>1, <1>2, <1>4
  <2>2. ASSUME NEW k \in 1 .. Len(r) PROVE r[k] = l[k]
    <3>1. Len(x) + k \in 1 .. Len(c) /\ k \in 1 .. Len(l)
      BY <1>0, <1>4, <2>1
    <3> QED BY <1>1, <1>2, <1>4, <1>5, <3>1
  <2> QED BY <2>1, <2>2, PrefixIs
<1>8. c = x \o r /\ Len(c) = Len(x) + Len(r)
  <2>1. Len(c) = Len(x) + Len(r)
    BY <1>0, <1>4
  <2> QED BY <1>4, <1>6, <2>1
<1> QED BY <1>7, <1>8 DEF IsCutBehind

\* The header of the list of names.
LEMMA NamesLed ==
  ASSUME NEW v \in Seq(Sign), IsPlain(v), Len(v) \in 1 .. 2
  PROVE  \E l \in Seq(Sign), ps \in Seq(Seq(Sign)), n \in 1 .. 12 :
           /\ IsLed(Sign, l, ps, n)
           /\ \A t : NamesReply(v, <<"a">>, t) = l \o Colon \o t
<1>0. Space \in Sign /\ ":" \in Sign /\ "a" \in Sign /\ "a" # Space
  <2>1. "a" # Space
    BY Zenon DEF Space
  <2> QED BY <2>1, Signs
<1>1. PICK sv \in Seq(Sign) : sv = ServerName /\ IsPlain(sv) /\ Len(sv) = 1
  BY ServerWords DEF ServerName
<1>2. PICK r \in Seq(Sign) : r = <<"353">> /\ IsPlain(r) /\ Len(r) = 1
  BY ServerWords
<1>3. PICK e \in Seq(Sign) : e = <<"=">> /\ IsPlain(e) /\ Len(e) = 1
  BY ServerWords
<1>4. PICK a \in Seq(Sign) : a = <<"a">> /\ IsPlain(a) /\ Len(a) = 1
  <2>1. <<"a">> \in Seq(Sign) /\ IsPlain(<<"a">>) /\ Len(<<"a">>) = 1
    BY <1>0, PlainWords
  <2> QED BY <2>1
<1>5. PICK x : x = Colon \o sv \o Sp \o r \o Sp \o v \o Sp
  OBVIOUS
<1>6. PICK ps \in Seq(Seq(Sign)), n \in 7 .. 8 : IsLed(Sign, x, ps, n)
  <2>1. IsLed(Sign, x, <<sv, r, v>>, Len(sv) + Len(r) + Len(v) + 4)
    BY <1>0, <1>1, <1>2, <1>5, LedWords
  <2>2. <<sv, r, v>> \in Seq(Seq(Sign))
    OBVIOUS
  <2>3. Len(sv) + Len(r) + Len(v) + 4 \in 7 .. 8
    <3>1. PICK i \in 1 .. 2 : i = Len(v)
      OBVIOUS
    <3>2. 1 + 1 + i + 4 \in 7 .. 8
      OBVIOUS
    <3> QED BY <1>1, <1>2, <3>1, <3>2
  <2> QED BY <2>1, <2>2, <2>3
<1>7. PICK y : y = x \o e \o Sp
  OBVIOUS
<1>8. PICK qs \in Seq(Seq(Sign)), k \in 9 .. 10 : IsLed(Sign, y, qs, k)
  <2>1. IsLed(Sign, x \o e \o Sp, Append(ps, e), n + Len(e) + 1)
    <3>1. n \in Nat /\ IsLed(Sign, x, ps, n) /\ IsPlain(e)
      BY <1>3, <1>6
    <3> QED BY ONLY <1>0, <3>1, ps \in Seq(Seq(Sign)), e \in Seq(Sign), LedNext
  <2>2. Append(ps, e) \in Seq(Seq(Sign)) /\ n + Len(e) + 1 \in 9 .. 10
    BY <1>3, AppendProperties
  <2> QED BY <1>7, <2>1, <2>2
<1>9. PICK z : z = y \o a \o Sp
  OBVIOUS
<1>10. PICK rs \in Seq(Seq(Sign)), i \in 11 .. 12 : IsLed(Sign, z, rs, i)
  <2>1. IsLed(Sign, y \o a \o Sp, Append(qs, a), k + Len(a) + 1)
    <3>1. k \in Nat /\ IsLed(Sign, y, qs, k) /\ IsPlain(a)
      BY <1>4, <1>8
    <3> QED BY ONLY <1>0, <3>1, qs \in Seq(Seq(Sign)), a \in Seq(Sign), LedNext
  <2>2. Append(qs, a) \in Seq(Seq(Sign)) /\ k + Len(a) + 1 \in 11 .. 12
    BY <1>4, AppendProperties
  <2> QED BY <1>9, <2>1, <2>2
<1>11. \A t : NamesReply(v, <<"a">>, t) = z \o Colon \o t
  BY <1>1, <1>2, <1>3, <1>4, <1>5, <1>7, <1>9 DEF NamesReply
<1>12. z \in Seq(Sign) /\ i \in 1 .. 12
  BY <1>10 DEF IsLed
<1> QED BY <1>10, <1>11, <1>12

\* The nicknames of a channel, marked.
MarkedNick(k) == IF k \in ops THEN <<"@">> \o members[k] ELSE members[k]

\* The list of nicknames, read as words, is the marked names of the members.
LEMMA NickListIs ==
  ASSUME RelayInv
  PROVE  /\ [k \in DOMAIN members |-> MarkedNick(k)] \in Seq(Seq(Sign))
         /\ NickList \in Seq(Sign)
         /\ Parameters(NickList) = [k \in DOMAIN members |-> MarkedNick(k)]
         /\ Last(members) \in Seq(Sign) /\ IsPlain(Last(members)) /\ Len(Last(members)) \in 1 .. 2
<1>1. PICK n \in 1 .. Len(Nicks) : members = SubSeq(Nicks, 1, n)
  BY DEF RelayInv
<1>2. n \in Nat /\ n \in 1 .. n
  <2>1. Len(Nicks) = 4
    BY DEF Nicks
  <2> QED BY <2>1
<1>3. /\ members \in Seq(Seq(Sign)) /\ Len(members) = n
      /\ \A k \in 1 .. n : members[k] \in Seq(Sign) /\ Len(members[k]) \in 1 .. 2 /\ IsPlain(members[k])
  BY <1>1, <1>2, NicksType
<1>4. DOMAIN members = 1 .. n
  BY <1>3, LenProperties
<1>5. Last(members) = members[n]
  BY <1>3 DEF Last
<1>6. "@" \in Sign /\ "@" # Space /\ "@" # ":" /\ Space \in Sign /\ Sp \in Seq(Sign)
  BY ServerWords, Signs, SpIs
<1>7. ASSUME NEW k \in 1 .. n
      PROVE  MarkedNick(k) \in Seq(Sign) /\ IsPlain(MarkedNick(k)) /\ NickMarked(k) = MarkedNick(k)
  <2>1. PICK w \in Seq(Sign) : w = members[k] /\ IsPlain(w)
    BY <1>3
  <2>2. CASE k \in ops
    <3>1. /\ <<"@">> \o w \in Seq(Sign) /\ Len(<<"@">> \o w) = Len(w) + 1 /\ <<"@">> \o w # <<>>
          /\ Head(<<"@">> \o w) = "@" /\ Tail(<<"@">> \o w) = w
      BY <1>6, TailOfJoin
    <3>2. PICK v \in Seq(Sign) : v = <<"@">> \o w
      BY <3>1
    <3>3. Len(v) = Len(w) + 1 /\ Len(w) \in Nat /\ v # <<>> /\ v[1] = "@" /\ \A i \in 1 .. Len(w) : v[i + 1] = w[i]
      <4>1. Len(v) = Len(w) + 1 /\ v # <<>> /\ Head(v) = "@" /\ Tail(v) = w
        BY <3>1, <3>2, Zenon
      <4>2. Len(w) \in Nat
        BY LenProperties
      <4>3. \A i \in 1 .. Len(v) - 1 : Tail(v)[i] = v[i + 1]
        BY <4>1, <4>2
      <4>4. Len(v) - 1 = Len(w) /\ v[1] = "@"
        BY <4>1, <4>2
      <4> QED BY <4>1, <4>2, <4>3, <4>4, Zenon
    <3>4. IsPlain(v)
      <4>1. ASSUME NEW i \in 1 .. Len(v) PROVE v[i] # Space
        <5>1. CASE i = 1
          BY <1>6, <3>3, <5>1
        <5>2. CASE i # 1
          <6>1. i - 1 \in 1 .. Len(w) /\ i - 1 + 1 = i
            BY <3>3, <5>2
          <6>2. v[i] = w[i - 1]
            BY <3>3, <6>1
          <6> QED BY <2>1, <6>1, <6>2 DEF IsPlain
        <5> QED BY <5>1, <5>2
      <4> QED BY <1>6, <3>3, <4>1 DEF IsPlain
    <3>5. MarkedNick(k) = v /\ NickMarked(k) = v
      BY <2>1, <2>2, <3>2 DEF MarkedNick, NickMarked
    <3> QED BY <3>4, <3>5
  <2>3. CASE k \notin ops
    <3>1. <<>> \o w = w
      BY ONLY w \in Seq(Sign)
    <3>2. MarkedNick(k) = w /\ NickMarked(k) = w
      BY <2>1, <2>3, <3>1 DEF MarkedNick, NickMarked
    <3> QED BY <2>1, <3>2
  <2> QED BY <2>2, <2>3
<1>8. PICK q \in Seq(Seq(Sign)) : /\ q = [k \in DOMAIN members |-> MarkedNick(k)] /\ Len(q) = n
                                 /\ \A k \in 1 .. n : q[k] = MarkedNick(k)
  <2> DEFINE f == [k \in 1 .. n |-> MarkedNick(k)]
  <2>1. f \in [1 .. n -> Seq(Sign)] /\ \A k \in 1 .. n : f[k] = MarkedNick(k)
    BY <1>7
  <2>2. f = [k \in DOMAIN members |-> MarkedNick(k)]
    BY <1>4
  <2> HIDE DEF f
  <2>3. f \in Seq(Seq(Sign)) /\ Len(f) = n
    BY <1>2, <2>1, SeqDef
  <2> QED BY <2>1, <2>2, <2>3
<1>9. PICK p \in Seq(Seq(Sign)) : /\ p = [k \in DOMAIN members |-> NickMarked(k) \o Sp] /\ Len(p) = n
                                 /\ \A k \in 1 .. n : p[k] = MarkedNick(k) \o Sp
  <2> DEFINE f == [k \in 1 .. n |-> NickMarked(k) \o Sp]
  <2>1. ASSUME NEW k \in 1 .. n PROVE NickMarked(k) \o Sp \in Seq(Sign) /\ f[k] = MarkedNick(k) \o Sp
    <3>1. MarkedNick(k) \in Seq(Sign) /\ NickMarked(k) = MarkedNick(k)
      BY <1>7
    <3>2. MarkedNick(k) \o Sp \in Seq(Sign)
      BY <1>6, <3>1, Joining
    <3> QED BY <3>1, <3>2
  <2>2. f \in [1 .. n -> Seq(Sign)] /\ \A k \in 1 .. n : f[k] = MarkedNick(k) \o Sp
    BY <2>1
  <2>3. f = [k \in DOMAIN members |-> NickMarked(k) \o Sp]
    BY <1>4
  <2> HIDE DEF f
  <2>4. f \in Seq(Seq(Sign)) /\ Len(f) = n
    BY <1>2, <2>2, SeqDef
  <2> QED BY <2>2, <2>3, <2>4
<1>10. FlattenSeq(p) \in Seq(Sign) /\ Parameters(FlattenSeq(p)) = q
  <2>1. \A k \in 1 .. Len(q) : IsPlain(q[k]) /\ p[k] = q[k] \o Sp
    BY <1>7, <1>8, <1>9
  <2>2. Len(p) = Len(q)
    BY <1>8, <1>9
  <2> QED BY <1>6, <2>1, <2>2, ListIs
<1>11. NickList = FlattenSeq(p)
  BY <1>9 DEF NickList
<1> QED BY <1>2, <1>3, <1>5, <1>8, <1>10, <1>11

\* Only the line of a JOIN has the word.
LEMMA JoinIs ==
  ASSUME RelayInv, at = "said", Command = <<"JOIN">>
  PROVE  args[2] = <<"a">>
<1>1. args # <<>>
  BY DEF RelayInv, SaidIs
<1>2. line = JoinLine
  <2> SUFFICES ASSUME line # JoinLine PROVE FALSE
    OBVIOUS
  <2>1. args \in Seq(Seq(Sign \ {"JOIN"}))
    BY DEF RelayInv, SplitInv
  <2>2. args[1] \in Seq(Sign \ {"JOIN"})
    <3>1. 1 \in 1 .. Len(args)
      BY <1>1, <2>1, EmptySeq, LenProperties
    <3> QED BY <2>1, <3>1, ElementOfSeq
  <2>3. PICK w \in Seq(Sign \ {"JOIN"}) : w = <<"JOIN">> /\ Len(w) = 1 /\ w[1] = "JOIN"
    BY <2>2 DEF Command
  <2>4. w[1] \in Sign \ {"JOIN"}
    BY <2>3, ElementOfSeq
  <2> QED BY <2>3, <2>4
<1>3. args = Parameters(line)
  <2>1. SplitInv(Sign) /\ IsWellFormed(line)
    BY <1>2, JoinLineIs DEF RelayInv
  <2> QED BY <2>1, SplitWellFormed
<1>4. args = <<<<"JOIN">>, <<"a">>>>
  BY <1>2, <1>3, JoinLineIs
<1> QED BY <1>4

\* The names in the answer to JOIN are those of the members.
LEMMA NamesRead ==
  ASSUME RelayInv PROVE NamesAreMembers
<1> SUFFICES ASSUME at = "said", Command = <<"JOIN">>,
                    NEW q, q = [k \in DOMAIN members |-> MarkedNick(k)]
             PROVE  AreOrCutFrom(Parameters(Unprefixed(Last(Read(out)))), q, out)
  BY DEF NamesAreMembers, MarkedNick
<1>1. PICK v \in Seq(Sign), t \in Seq(Sign) :
        /\ v = Last(members) /\ IsPlain(v) /\ Len(v) \in 1 .. 2
        /\ t = NickList /\ Parameters(t) = q
  BY NickListIs
<1>2. out = FormatMessage(NamesReply(v, <<"a">>, t))
  BY <1>1, JoinIs DEF RelayInv, SaidIs
<1>3. PICK l \in Seq(Sign), ps \in Seq(Seq(Sign)), n \in 1 .. 12 :
        IsLed(Sign, l, ps, n) /\ NamesReply(v, <<"a">>, t) = l \o Colon \o t
  BY <1>1, NamesLed
<1>4. ":" \in Sign /\ "CR" \in Sign /\ "LF" \in Sign
  BY Signs, ServerWords
<1>5. ASSUME NEW e \in Seq(Sign) PROVE HasText(Sign, l, ps, n, e)
  BY <1>3, <1>4, LedText
<1>6. PICK x \in Seq(Sign) : x = l \o Colon /\ Len(x) = n + 1
  BY <1>5 DEF HasText
<1>7. PICK m \in Seq(Sign) : m = x \o t /\ Len(m) = n + 1 + Len(t)
  BY <1>5, <1>6 DEF HasText
<1>8. out = FormatMessage(m)
  BY <1>2, <1>3, <1>6, <1>7
<1>9. PICK c \in Seq(Sign) :
           /\ c = SubSeq(FormatMessage(m), 1, Len(FormatMessage(m)) - 2)
           /\ IsPrefix(c, m)
           /\ Len(c) = IF Len(m) > MaxMessageLength THEN MaxMessageLength ELSE Len(m)
           /\ Len(FormatMessage(m)) = Len(c) + 2
           /\ FormatMessage(m) = c \o CRLF
           /\ Len(m) <= MaxMessageLength => c = m
  BY <1>4, BodyIs
<1>10. MaxMessageLength \in Nat /\ 16 <= MaxMessageLength /\ Len(t) \in Nat
  <2>1. 16 <= MaxMessageLength
    BY RelayAssumption, Zenon
  <2> QED BY <2>1, FormatterAssumption, LenProperties
<1>11. Len(c) >= Len(x)
  <2>1. Len(m) >= n + 1 /\ n + 1 <= MaxMessageLength
    BY <1>7, <1>10
  <2> QED BY <1>6, <1>9, <2>1
<1>12. PICK r \in Seq(Sign) : c = x \o r /\ IsPrefix(r, t) /\ Len(c) = Len(x) + Len(r)
  <2>1. IsPrefix(c, x \o t)
    BY <1>7, <1>9
  <2>2. IsCutBehind(Sign, c, x, t)
    BY ONLY <1>11, <2>1, x \in Seq(Sign), t \in Seq(Sign), c \in Seq(Sign), CutBehind
  <2> QED BY <2>2 DEF IsCutBehind
<1>13. Read(out) = Append(ps, Colon \o r)
  <2>1. PICK h \in Seq(Sign) : l \o Colon \o r = Colon \o h /\ Parameters(h) = Append(ps, Colon \o r)
    BY <1>5 DEF HasText
  <2>2. Unprefixed(c) = h
    <3>1. c = Colon \o h
      BY <1>6, <1>12, <2>1
    <3>2. Colon \o h # <<>> /\ Head(Colon \o h) = ":" /\ Tail(Colon \o h) = h
      BY <1>4, TailOfJoin DEF Colon
    <3> QED BY <3>1, <3>2 DEF Unprefixed
  <2> QED BY <1>8, <1>9, <2>1, <2>2 DEF Read
<1>14. Unprefixed(Last(Read(out))) = r
  <2>1. PICK e \in Seq(Sign) : e = Colon \o r /\ e # <<>> /\ Head(e) = ":" /\ Tail(e) = r
    <3>1. /\ Colon \o r \in Seq(Sign) /\ Colon \o r # <<>>
          /\ Head(Colon \o r) = ":" /\ Tail(Colon \o r) = r
      BY <1>4, TailOfJoin DEF Colon
    <3> QED BY <3>1
  <2>2. Last(Append(ps, e)) = e
    <3>1. PICK y \in Seq(Seq(Sign)) : y = Append(ps, e) /\ Len(y) = Len(ps) + 1 /\ y[Len(ps) + 1] = e
      BY AppendProperties
    <3> QED BY <3>1 DEF Last
  <2> QED BY <1>13, <2>1, <2>2 DEF Unprefixed
<1>15. CASE Len(m) <= MaxMessageLength
  <2>1. Len(r) = Len(t)
    <3>1. Len(c) = Len(m) /\ Len(r) \in Nat
      BY <1>9, <1>15, LenProperties
    <3> QED BY <1>6, <1>7, <1>10, <1>12, <3>1
  <2>2. r = t
    <3>1. \A k \in 1 .. Len(r) : r[k] = t[k]
      <4>1. IsPrefix(r, t)
        BY <1>12
      <4> QED BY ONLY <4>1, r \in Seq(Sign), t \in Seq(Sign), PrefixIs
    <3> QED BY <2>1, <3>1, SeqEqual
  <2> QED BY <1>1, <1>14, <2>2 DEF AreOrCutFrom
<1>16. CASE Len(m) > MaxMessageLength
  <2>1. Len(out) = MaxMessageLength + 2
    BY <1>8, <1>9, <1>16
  <2>2. /\ Len(Parameters(r)) <= Len(q)
        /\ \A i \in 1 .. Len(Parameters(r)) :
              IF i = Len(Parameters(r)) THEN IsPrefix(Parameters(r)[i], q[i])
              ELSE Parameters(r)[i] = q[i]
        /\ Parameters(r) \in Seq(Seq(Sign))
    <3>1. IsPrefix(r, t)
      BY <1>12
    <3>2. /\ Parameters(r) \in Seq(Seq(Sign))
          /\ Len(Parameters(r)) <= Len(Parameters(t))
          /\ \A i \in 1 .. Len(Parameters(r)) :
                IF i = Len(Parameters(r)) THEN IsPrefix(Parameters(r)[i], Parameters(t)[i])
                ELSE Parameters(r)[i] = Parameters(t)[i]
      BY <3>1, CutParameters, Zenon
    <3> QED BY <1>1, <3>2, Zenon
  <2>3. DOMAIN Parameters(r) = 1 .. Len(Parameters(r))
    BY <2>2, LenProperties
  <2> QED BY <1>14, <2>1, <2>2, <2>3 DEF AreOrCutFrom
<1>17. Len(m) <= MaxMessageLength \/ Len(m) > MaxMessageLength
  BY <1>7, <1>10
<1> QED BY <1>15, <1>16, <1>17

-----------------------------------------------------------------------------
(* The theorems. *)

\* What is known of a line on its way: what split has found so far, and which
\* message each handler sent.
THEOREM RelayInvariant == Spec => []RelayInv
<1> QED BY RelayStarts, RelaySteps, PTL DEF Spec

\* split returns the parameters of every well-formed line, whatever its spaces.
THEOREM SplitsSafe == Spec => []SplitsIntoParameters
<1>1. RelayInv => SplitsIntoParameters
  BY SplitKeeps DEF RelayInv
<1> QED BY <1>1, RelayInvariant, PTL

\* Colons inside words make split lose no parameter and cut none.
THEOREM ParametersKeptSafe == Spec => []ParametersAreKept
<1>1. RelayInv => ParametersAreKept
  BY SplitKeeps DEF RelayInv
<1> QED BY <1>1, RelayInvariant, PTL

\* The text of PRIVMSG, TOPIC, KICK and PING arrives as it was sent, up to
\* where formatMessage cuts the message.
THEOREM TextSafe == Spec => []TextIsRelayed
<1>1. RelayInv => TextIsRelayed
  BY TextRelayed
<1> QED BY <1>1, RelayInvariant, PTL

\* For any line and any lengths, members read the topic they were told, and where
\* setTopic refused it the topic they had.
THEOREM TopicSafe == Spec => []OnlyRefusedTopicsDiffer
<1>1. RelayInv => OnlyRefusedTopicsDiffer
  BY TopicRead
<1> QED BY <1>1, RelayInvariant, PTL

\* The list of names is the members, with their marks.
THEOREM NamesSafe == Spec => []NamesAreMembers
<1>1. RelayInv => NamesAreMembers
  BY NamesRead
<1> QED BY <1>1, RelayInvariant, PTL

\* The bot's verdict follows the rules of the game.
THEOREM BotSafe == Spec => []BotPlaysFair
<1>1. RelayInv => BotPlaysFair
  BY BotFair
<1> QED BY <1>1, RelayInvariant, PTL
=============================================================================
