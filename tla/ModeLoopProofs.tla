--------------------------- MODULE ModeLoopProofs ---------------------------
(***************************************************************************)
(* The loop of handleMode computes ApplyModes, for every mode string: the  *)
(* closed form that IrcServer takes in one step is what the program        *)
(* reaches character by character, and stops where the program stops.      *)
(***************************************************************************)
EXTENDS ModeLoop, TLAPS

-----------------------------------------------------------------------------
(* The closed form, for the first n characters of s. *)

FlagsUpTo(s, n, f) == {p \in 1 .. n : s[p] = f}

KeyFlags(s, n, a) == {p \in FlagsUpTo(s, n, "k") : Adding(s, p) => a.key \in Key}

LimitFlags(s, n, a) == {p \in FlagsUpTo(s, n, "l") : Adding(s, p) => a.limit >= 0}

Marked(c, s, n, a, f) ==
  IF f = "l"
  THEN IF LimitFlags(s, n, a) = {} THEN f \in c.modes
       ELSE LastAdds(s, LimitFlags(s, n, a)) /\ a.limit > 0
  ELSE IF FlagsUpTo(s, n, f) = {} THEN f \in c.modes ELSE LastAdds(s, FlagsUpTo(s, n, f))

KeyAfter(c, s, n, a) ==
  IF KeyFlags(s, n, a) = {} THEN c.key
  ELSE IF LastAdds(s, KeyFlags(s, n, a)) THEN a.key ELSE NoKey

LimitAfter(c, s, n, a) ==
  IF LimitFlags(s, n, a) = {} THEN c.clientLimit
  ELSE IF LastAdds(s, LimitFlags(s, n, a)) THEN a.limit ELSE -1

OperatorsAfter(c, s, n, T) ==
  IF FlagsUpTo(s, n, "o") = {} THEN c.operators
  ELSE IF LastAdds(s, FlagsUpTo(s, n, "o")) THEN c.operators \cup T ELSE c.operators \ T

\* Channel d is channel c after the first n characters of s.
IsAfter(d, c, s, n, a, T) ==
  /\ \A f \in Flags : f \in d.modes <=> Marked(c, s, n, a, f)
  /\ d.key = KeyAfter(c, s, n, a)
  /\ d.clientLimit = LimitAfter(c, s, n, a)
  /\ d.operators = OperatorsAfter(c, s, n, T)
  /\ d.clients = c.clients /\ d.invited = c.invited /\ d.topic = c.topic

-----------------------------------------------------------------------------
(* The sign, and the last occurrence of a flag. *)

\* The sign in force changes at a sign, and only there.
LEMMA SignAfter ==
  ASSUME NEW s, NEW n \in Nat
  PROVE  /\ s[n + 1] = "+" => Adding(s, n + 2)
         /\ s[n + 1] = "-" => ~Adding(s, n + 2)
         /\ s[n + 1] \notin {"+", "-"} => (Adding(s, n + 2) <=> Adding(s, n + 1))
<1> DEFINE Minus(p, q) == s[q] = "-" /\ \A r \in q + 1 .. p - 1 : s[r] # "+"
<1>1. \A p \in Nat : Adding(s, p) <=> ~ \E q \in 1 .. p - 1 : Minus(p, q)
  BY DEF Adding
<1>2. ASSUME s[n + 1] = "+" PROVE \A q \in 1 .. n + 1 : ~Minus(n + 2, q)
  BY <1>2
<1>3. ASSUME s[n + 1] = "-" PROVE Minus(n + 2, n + 1)
  BY <1>3
<1>4. ASSUME s[n + 1] \notin {"+", "-"}
      PROVE  /\ ~Minus(n + 2, n + 1)
             /\ \A q \in 1 .. n : Minus(n + 2, q) <=> Minus(n + 1, q)
  BY <1>4
<1>5. /\ n + 1 \in Nat /\ n + 2 \in Nat /\ (n + 2) - 1 = n + 1 /\ (n + 1) - 1 = n
      /\ 1 .. n + 1 = (1 .. n) \cup {n + 1}
  OBVIOUS
<1> HIDE DEF Minus
<1>6. /\ Adding(s, n + 2) <=> ~ \E q \in (1 .. n) \cup {n + 1} : Minus(n + 2, q)
      /\ Adding(s, n + 1) <=> ~ \E q \in 1 .. n : Minus(n + 1, q)
  BY <1>1, <1>5
<1> QED BY <1>2, <1>3, <1>4, <1>5, <1>6

\* The last of the places of a mode, when one is added behind them, is that
\* one.
LEMMA LastIsNew ==
  ASSUME NEW s, NEW n \in Nat, NEW P \in SUBSET (1 .. n)
  PROVE  LastAdds(s, P \cup {n + 1}) <=> Adding(s, n + 1)
BY DEF LastAdds

\* What one more character does to the positions of each flag.
LEMMA OneMore ==
  ASSUME NEW s, NEW n \in Nat, NEW a
  PROVE  /\ \A f : /\ FlagsUpTo(s, n, f) \subseteq 1 .. n
                   /\ FlagsUpTo(s, n + 1, f) =
                        IF s[n + 1] = f THEN FlagsUpTo(s, n, f) \cup {n + 1} ELSE FlagsUpTo(s, n, f)
         /\ KeyFlags(s, n, a) \subseteq 1 .. n
         /\ KeyFlags(s, n + 1, a) =
              IF s[n + 1] = "k" /\ (Adding(s, n + 1) => a.key \in Key)
              THEN KeyFlags(s, n, a) \cup {n + 1} ELSE KeyFlags(s, n, a)
         /\ LimitFlags(s, n, a) \subseteq 1 .. n
         /\ LimitFlags(s, n + 1, a) =
              IF s[n + 1] = "l" /\ (Adding(s, n + 1) => a.limit >= 0)
              THEN LimitFlags(s, n, a) \cup {n + 1} ELSE LimitFlags(s, n, a)
<1>1. 1 .. n + 1 = (1 .. n) \cup {n + 1}
  OBVIOUS
<1>2. \A f : /\ FlagsUpTo(s, n, f) \subseteq 1 .. n
             /\ FlagsUpTo(s, n + 1, f) =
                  IF s[n + 1] = f THEN FlagsUpTo(s, n, f) \cup {n + 1} ELSE FlagsUpTo(s, n, f)
  BY <1>1 DEF FlagsUpTo
<1>3. \A f : FlagsUpTo(s, n + 1, f) \ {n + 1} = FlagsUpTo(s, n, f) /\ (n + 1 \in FlagsUpTo(s, n + 1, f) <=> s[n + 1] = f)
  <2>1. n + 1 \notin 1 .. n /\ n + 1 \in 1 .. n + 1
    OBVIOUS
  <2>2. \A f : n + 1 \in FlagsUpTo(s, n + 1, f) <=> s[n + 1] = f
    BY <2>1 DEF FlagsUpTo
  <2> QED BY ONLY <1>2, <2>1, <2>2
<1>4. /\ KeyFlags(s, n + 1, a) \ {n + 1} = KeyFlags(s, n, a)
      /\ n + 1 \in KeyFlags(s, n + 1, a) <=> s[n + 1] = "k" /\ (Adding(s, n + 1) => a.key \in Key)
  BY <1>3 DEF KeyFlags
<1>5. /\ LimitFlags(s, n + 1, a) \ {n + 1} = LimitFlags(s, n, a)
      /\ n + 1 \in LimitFlags(s, n + 1, a) <=> s[n + 1] = "l" /\ (Adding(s, n + 1) => a.limit >= 0)
  BY <1>3 DEF LimitFlags
<1>6. KeyFlags(s, n, a) \subseteq 1 .. n /\ LimitFlags(s, n, a) \subseteq 1 .. n
  BY <1>2 DEF KeyFlags, LimitFlags
<1> QED BY <1>2, <1>4, <1>5, <1>6

\* The new character is the last of its flag.
LEMMA LastOfFlag ==
  ASSUME NEW s, NEW n \in Nat, NEW a
  PROVE  /\ \A f : LastAdds(s, FlagsUpTo(s, n, f) \cup {n + 1}) <=> Adding(s, n + 1)
         /\ LastAdds(s, KeyFlags(s, n, a) \cup {n + 1}) <=> Adding(s, n + 1)
         /\ LastAdds(s, LimitFlags(s, n, a) \cup {n + 1}) <=> Adding(s, n + 1)
<1>1. \A P \in SUBSET (1 .. n) : LastAdds(s, P \cup {n + 1}) <=> Adding(s, n + 1)
  BY LastIsNew
<1> QED BY <1>1, OneMore

\* How one more character of the mode string changes a flag.
LEMMA FlagAfter ==
  ASSUME NEW s, NEW n \in Nat, NEW a, NEW c, NEW f \in Flags
  PROVE  /\ s[n + 1] # f => (Marked(c, s, n + 1, a, f) <=> Marked(c, s, n, a, f))
         /\ s[n + 1] = f /\ f # "l" => (Marked(c, s, n + 1, a, f) <=> Adding(s, n + 1))
         /\ s[n + 1] = f /\ f = "l" =>
              (Marked(c, s, n + 1, a, f) <=>
                 IF Adding(s, n + 1) => a.limit >= 0
                 THEN Adding(s, n + 1) /\ a.limit > 0 ELSE Marked(c, s, n, a, f))
<1>0. /\ FlagsUpTo(s, n + 1, f) =
           IF s[n + 1] = f THEN FlagsUpTo(s, n, f) \cup {n + 1} ELSE FlagsUpTo(s, n, f)
      /\ LimitFlags(s, n + 1, a) =
           IF s[n + 1] = "l" /\ (Adding(s, n + 1) => a.limit >= 0)
           THEN LimitFlags(s, n, a) \cup {n + 1} ELSE LimitFlags(s, n, a)
      /\ LastAdds(s, FlagsUpTo(s, n, f) \cup {n + 1}) <=> Adding(s, n + 1)
      /\ LastAdds(s, LimitFlags(s, n, a) \cup {n + 1}) <=> Adding(s, n + 1)
  BY OneMore, LastOfFlag
<1>1. ASSUME s[n + 1] # f PROVE Marked(c, s, n + 1, a, f) <=> Marked(c, s, n, a, f)
  BY ONLY <1>0, <1>1 DEF Marked
<1>2. ASSUME s[n + 1] = f, f # "l" PROVE Marked(c, s, n + 1, a, f) <=> Adding(s, n + 1)
  <2>1. FlagsUpTo(s, n + 1, f) = FlagsUpTo(s, n, f) \cup {n + 1} /\ FlagsUpTo(s, n + 1, f) # {}
    BY ONLY <1>0, <1>2
  <2> QED BY ONLY <1>0, <1>2, <2>1 DEF Marked
<1>3. ASSUME s[n + 1] = f, f = "l"
      PROVE  Marked(c, s, n + 1, a, f) <=>
               IF Adding(s, n + 1) => a.limit >= 0
               THEN Adding(s, n + 1) /\ a.limit > 0 ELSE Marked(c, s, n, a, f)
  <2>1. CASE Adding(s, n + 1) => a.limit >= 0
    <3>1. LimitFlags(s, n + 1, a) = LimitFlags(s, n, a) \cup {n + 1} /\ LimitFlags(s, n + 1, a) # {}
      BY ONLY <1>0, <1>3, <2>1
    <3> QED BY ONLY <1>0, <1>3, <2>1, <3>1 DEF Marked
  <2>2. CASE ~(Adding(s, n + 1) => a.limit >= 0)
    BY ONLY <1>0, <1>3, <2>2 DEF Marked
  <2> QED BY <2>1, <2>2
<1> QED BY <1>1, <1>2, <1>3

\* How one more character changes the key, the limit and the operators.
LEMMA ValuesAfter ==
  ASSUME NEW s, NEW n \in Nat, NEW a, NEW c, NEW T
  PROVE  /\ KeyAfter(c, s, n + 1, a) =
              IF s[n + 1] = "k" /\ (Adding(s, n + 1) => a.key \in Key)
              THEN IF Adding(s, n + 1) THEN a.key ELSE NoKey
              ELSE KeyAfter(c, s, n, a)
         /\ LimitAfter(c, s, n + 1, a) =
              IF s[n + 1] = "l" /\ (Adding(s, n + 1) => a.limit >= 0)
              THEN IF Adding(s, n + 1) THEN a.limit ELSE -1
              ELSE LimitAfter(c, s, n, a)
         /\ OperatorsAfter(c, s, n + 1, T) =
              IF s[n + 1] = "o"
              THEN IF Adding(s, n + 1) THEN OperatorsAfter(c, s, n, T) \cup T
                   ELSE OperatorsAfter(c, s, n, T) \ T
              ELSE OperatorsAfter(c, s, n, T)
<1>0. /\ KeyFlags(s, n + 1, a) =
           IF s[n + 1] = "k" /\ (Adding(s, n + 1) => a.key \in Key)
           THEN KeyFlags(s, n, a) \cup {n + 1} ELSE KeyFlags(s, n, a)
      /\ LimitFlags(s, n + 1, a) =
           IF s[n + 1] = "l" /\ (Adding(s, n + 1) => a.limit >= 0)
           THEN LimitFlags(s, n, a) \cup {n + 1} ELSE LimitFlags(s, n, a)
      /\ FlagsUpTo(s, n + 1, "o") =
           IF s[n + 1] = "o" THEN FlagsUpTo(s, n, "o") \cup {n + 1} ELSE FlagsUpTo(s, n, "o")
      /\ LastAdds(s, KeyFlags(s, n, a) \cup {n + 1}) <=> Adding(s, n + 1)
      /\ LastAdds(s, LimitFlags(s, n, a) \cup {n + 1}) <=> Adding(s, n + 1)
      /\ LastAdds(s, FlagsUpTo(s, n, "o") \cup {n + 1}) <=> Adding(s, n + 1)
  BY OneMore, LastOfFlag
<1>1. KeyAfter(c, s, n + 1, a) =
        IF s[n + 1] = "k" /\ (Adding(s, n + 1) => a.key \in Key)
        THEN IF Adding(s, n + 1) THEN a.key ELSE NoKey
        ELSE KeyAfter(c, s, n, a)
  <2>1. CASE s[n + 1] = "k" /\ (Adding(s, n + 1) => a.key \in Key)
    <3>1. KeyFlags(s, n + 1, a) = KeyFlags(s, n, a) \cup {n + 1} /\ KeyFlags(s, n + 1, a) # {}
      BY ONLY <1>0, <2>1
    <3> QED BY ONLY <1>0, <2>1, <3>1 DEF KeyAfter
  <2>2. CASE ~(s[n + 1] = "k" /\ (Adding(s, n + 1) => a.key \in Key))
    BY ONLY <1>0, <2>2 DEF KeyAfter
  <2> QED BY <2>1, <2>2
<1>2. LimitAfter(c, s, n + 1, a) =
        IF s[n + 1] = "l" /\ (Adding(s, n + 1) => a.limit >= 0)
        THEN IF Adding(s, n + 1) THEN a.limit ELSE -1
        ELSE LimitAfter(c, s, n, a)
  <2>1. CASE s[n + 1] = "l" /\ (Adding(s, n + 1) => a.limit >= 0)
    <3>1. LimitFlags(s, n + 1, a) = LimitFlags(s, n, a) \cup {n + 1} /\ LimitFlags(s, n + 1, a) # {}
      BY ONLY <1>0, <2>1
    <3> QED BY ONLY <1>0, <2>1, <3>1 DEF LimitAfter
  <2>2. CASE ~(s[n + 1] = "l" /\ (Adding(s, n + 1) => a.limit >= 0))
    BY ONLY <1>0, <2>2 DEF LimitAfter
  <2> QED BY <2>1, <2>2
<1>3. CASE s[n + 1] = "o"
  <2>1. FlagsUpTo(s, n + 1, "o") = FlagsUpTo(s, n, "o") \cup {n + 1} /\ FlagsUpTo(s, n + 1, "o") # {}
    BY ONLY <1>0, <1>3
  <2>2. OperatorsAfter(c, s, n + 1, T) =
          IF Adding(s, n + 1) THEN c.operators \cup T ELSE c.operators \ T
    BY ONLY <1>0, <2>1 DEF OperatorsAfter
  <2>3. OperatorsAfter(c, s, n, T) \in {c.operators, c.operators \cup T, c.operators \ T}
    BY ONLY DEF OperatorsAfter
  <2>4. /\ OperatorsAfter(c, s, n, T) \cup T = c.operators \cup T
        /\ OperatorsAfter(c, s, n, T) \ T = c.operators \ T
    BY ONLY <2>3
  <2> QED BY ONLY <1>1, <1>2, <1>3, <2>2, <2>4
<1>4. CASE s[n + 1] # "o"
  <2>1. OperatorsAfter(c, s, n + 1, T) = OperatorsAfter(c, s, n, T)
    BY ONLY <1>0, <1>4 DEF OperatorsAfter
  <2> QED BY ONLY <1>1, <1>2, <1>4, <2>1
<1> QED BY <1>3, <1>4

-----------------------------------------------------------------------------
(* The inductive invariant of the loop. *)

\* The command is one the loop can meet: a nickname has one holder at most, and a
\* command of three words names nobody.
CommandOK ==
  /\ ms \in ModeString /\ arg \in ModeArg \cup {NoArg} /\ before \in Start
  /\ targets \subseteq Addr /\ (\A t, u \in targets : t = u) /\ (arg = NoArg => targets = {})

\* The variable adding is the sign that Adding reads off the string, the characters
\* passed are those that do not fail, and the loop ends at the first that does.
ReachesWhatItPassed ==
  /\ adding <=> Adding(ms, pos + 1)
  /\ \A q \in 1 .. pos : ~ModeFails(ms, q, arg, targets)
  /\ result = "error" => pos < Len(ms) /\ ModeFails(ms, pos + 1, arg, targets)
  /\ result = "told" => pos = Len(ms)

LoopInv ==
  /\ CommandOK
  /\ TypeOK
  /\ ReachesWhatItPassed
  /\ IsAfter(chan, before, ms, pos, arg, targets)

\* The types of what the loop works on.
LEMMA CommandTypes ==
  ASSUME LoopInv
  PROVE  /\ ms \in Seq(STRING) /\ Len(ms) \in Nat /\ pos \in Nat
         /\ before \in Channel
         /\ arg # NoArg => arg.limit \in Int
<1>1. ms \in Seq(STRING) /\ before \in Channel
  BY LoopAssumption DEF LoopInv, CommandOK
<1>2. Len(ms) \in Nat
  BY <1>1
<1>3. arg # NoArg => arg.limit \in Int
  BY ConstantsAssumption DEF LoopInv, CommandOK
<1> QED BY <1>1, <1>2, <1>3 DEF LoopInv, TypeOK

\* The loop starts with the channel as it was.
LEMMA LoopInit == Init => LoopInv
<1> SUFFICES ASSUME Init PROVE LoopInv
  OBVIOUS
<1>1. CommandOK
  BY LoopAssumption DEF Init, CommandOK
<1>2. ms \in Seq(STRING) /\ Len(ms) \in Nat /\ before \in Channel
  BY <1>1, LoopAssumption DEF CommandOK
<1>3. TypeOK
  BY <1>2 DEF Init, TypeOK
<1>4. ReachesWhatItPassed
  BY DEF Init, ReachesWhatItPassed, Adding
<1>5. IsAfter(chan, before, ms, pos, arg, targets)
  <2>1. pos = 0 /\ chan = before
    BY DEF Init
  <2>2. \A f : FlagsUpTo(ms, 0, f) = {}
    BY DEF FlagsUpTo
  <2>3. KeyFlags(ms, 0, arg) = {} /\ LimitFlags(ms, 0, arg) = {}
    BY <2>2 DEF KeyFlags, LimitFlags
  <2> QED
    BY <2>1, <2>2, <2>3 DEF IsAfter, Marked, KeyAfter, LimitAfter, OperatorsAfter
<1> QED BY <1>1, <1>3, <1>4, <1>5 DEF LoopInv

\* What the next character of the loop's own string does to a mode.
LEMMA FlagHere ==
  ASSUME pos \in Nat
  PROVE  \A f \in Flags :
           /\ ms[pos + 1] # f => (Marked(before, ms, pos + 1, arg, f) <=> Marked(before, ms, pos, arg, f))
           /\ ms[pos + 1] = f /\ f # "l" => (Marked(before, ms, pos + 1, arg, f) <=> Adding(ms, pos + 1))
           /\ ms[pos + 1] = f /\ f = "l" =>
                (Marked(before, ms, pos + 1, arg, f) <=>
                   IF Adding(ms, pos + 1) => arg.limit >= 0
                   THEN Adding(ms, pos + 1) /\ arg.limit > 0 ELSE Marked(before, ms, pos, arg, f))
BY FlagAfter, Zenon

\* And to the key, the limit and the operators.
LEMMA ValuesHere ==
  ASSUME pos \in Nat
  PROVE  /\ KeyAfter(before, ms, pos + 1, arg) =
              IF ms[pos + 1] = "k" /\ (Adding(ms, pos + 1) => arg.key \in Key)
              THEN IF Adding(ms, pos + 1) THEN arg.key ELSE NoKey
              ELSE KeyAfter(before, ms, pos, arg)
         /\ LimitAfter(before, ms, pos + 1, arg) =
              IF ms[pos + 1] = "l" /\ (Adding(ms, pos + 1) => arg.limit >= 0)
              THEN IF Adding(ms, pos + 1) THEN arg.limit ELSE -1
              ELSE LimitAfter(before, ms, pos, arg)
         /\ OperatorsAfter(before, ms, pos + 1, targets) =
              IF ms[pos + 1] = "o"
              THEN IF Adding(ms, pos + 1) THEN OperatorsAfter(before, ms, pos, targets) \cup targets
                   ELSE OperatorsAfter(before, ms, pos, targets) \ targets
              ELSE OperatorsAfter(before, ms, pos, targets)
BY ValuesAfter, Zenon

\* What an iteration that does not fail owes.
LEMMA IterationInv ==
  ASSUME LoopInv, result = "running", pos < Len(ms), Advance,
         ~ModeFails(ms, pos + 1, arg, targets),
         adding' \in BOOLEAN, adding' <=> Adding(ms, pos + 2),
         chan' \in Channel, IsAfter(chan', before, ms, pos + 1, arg, targets)
  PROVE  LoopInv'
<1>1. /\ pos' = pos + 1 /\ ms' = ms /\ arg' = arg /\ targets' = targets /\ before' = before
      /\ result' = "running"
  BY DEF Advance, command
<1>2. CommandOK' /\ TypeOK'
  BY <1>1, CommandTypes DEF LoopInv, CommandOK, TypeOK
<1>3. ReachesWhatItPassed'
  <2>1. \A q \in 1 .. pos + 1 : q \in 1 .. pos \/ q = pos + 1
    BY CommandTypes
  <2>2. (pos + 1) + 1 = pos + 2
    BY CommandTypes
  <2> QED BY <1>1, <2>1, <2>2 DEF LoopInv, ReachesWhatItPassed
<1> QED BY <1>1, <1>2, <1>3 DEF LoopInv

\* A sign keeps the invariant of the loop.
LEMMA SignInv == LoopInv /\ Sign => LoopInv'
<1> SUFFICES ASSUME LoopInv, Sign PROVE LoopInv'
  OBVIOUS
<1> DEFINE x == ms[pos + 1]
<1>1. /\ result = "running" /\ pos < Len(ms) /\ x \in {"+", "-"} /\ Advance /\ chan' = chan
      /\ adding' = (x = "+")
  BY DEF Sign, At
<1>2. pos \in Nat /\ chan' \in Channel
  BY <1>1, CommandTypes DEF LoopInv, TypeOK
<1>3. adding' <=> Adding(ms, pos + 2)
  BY <1>1, <1>2, SignAfter
<1>4. ~ModeFails(ms, pos + 1, arg, targets)
  BY <1>1 DEF ModeFails
<1>5. IsAfter(chan', before, ms, pos + 1, arg, targets)
  <2>1. \A f \in Flags : x # f
    BY <1>1 DEF Flags
  <2>2. \A f \in Flags : Marked(before, ms, pos + 1, arg, f) <=> Marked(before, ms, pos, arg, f)
    BY <1>2, <2>1, FlagHere
  <2>3. /\ KeyAfter(before, ms, pos + 1, arg) = KeyAfter(before, ms, pos, arg)
        /\ LimitAfter(before, ms, pos + 1, arg) = LimitAfter(before, ms, pos, arg)
        /\ OperatorsAfter(before, ms, pos + 1, targets) = OperatorsAfter(before, ms, pos, targets)
    BY <1>1, <1>2, ValuesHere
  <2> QED BY <1>1, <2>2, <2>3 DEF LoopInv, IsAfter
<1> QED BY <1>1, <1>2, <1>3, <1>4, <1>5, IterationInv

\* What an iteration over a flag knows: the sign is the one in force.
LEMMA FlagIteration ==
  ASSUME LoopInv, At(Flags), Advance, UNCHANGED adding,
         ~ModeFails(ms, pos + 1, arg, targets), chan' \in Channel,
         IsAfter(chan', before, ms, pos + 1, arg, targets)
  PROVE  LoopInv'
<1>1. /\ result = "running" /\ pos < Len(ms) /\ ms[pos + 1] \notin {"+", "-"} /\ pos \in Nat
  BY CommandTypes DEF At, Flags
<1>2. adding' \in BOOLEAN /\ (adding' <=> Adding(ms, pos + 2))
  BY <1>1, SignAfter DEF LoopInv, TypeOK, ReachesWhatItPassed
<1> QED BY <1>1, <1>2, IterationInv

\* So do the modes i and t.
LEMMA SimpleModeInv == LoopInv /\ SimpleMode => LoopInv'
<1> SUFFICES ASSUME LoopInv, SimpleMode PROVE LoopInv'
  OBVIOUS
<1> DEFINE x == ms[pos + 1]
<1>1. /\ At(Flags) /\ x \in {"i", "t"} /\ x \in Flags /\ Advance /\ UNCHANGED adding /\ pos \in Nat
      /\ chan \in Channel /\ (adding <=> Adding(ms, pos + 1))
  BY CommandTypes DEF SimpleMode, At, Flags, LoopInv, TypeOK, ReachesWhatItPassed
<1>2. chan' = IF adding THEN SetMode(chan, x) ELSE UnsetMode(chan, x)
  BY DEF SimpleMode
<1> HIDE DEF x
<1>3. /\ chan' \in Channel
      /\ \A f \in Flags : f \in chan'.modes <=> IF f = x THEN adding ELSE f \in chan.modes
      /\ chan'.key = chan.key /\ chan'.clientLimit = chan.clientLimit
      /\ chan'.operators = chan.operators /\ chan'.clients = chan.clients
      /\ chan'.invited = chan.invited /\ chan'.topic = chan.topic
  <2>1. CASE adding
    BY ONLY <1>1, <1>2, <2>1 DEF SetMode, Channel
  <2>2. CASE ~adding
    BY ONLY <1>1, <1>2, <2>2 DEF UnsetMode, Channel
  <2> QED BY <2>1, <2>2
<1>4. ~ModeFails(ms, pos + 1, arg, targets)
  BY <1>1 DEF ModeFails, x
<1>5. IsAfter(chan', before, ms, pos + 1, arg, targets)
  <2>1. \A f \in Flags : Marked(before, ms, pos + 1, arg, f) <=>
                           IF f = x THEN Adding(ms, pos + 1) ELSE Marked(before, ms, pos, arg, f)
    BY <1>1, FlagHere DEF x
  <2>2. /\ KeyAfter(before, ms, pos + 1, arg) = KeyAfter(before, ms, pos, arg)
        /\ LimitAfter(before, ms, pos + 1, arg) = LimitAfter(before, ms, pos, arg)
        /\ OperatorsAfter(before, ms, pos + 1, targets) = OperatorsAfter(before, ms, pos, targets)
    BY <1>1, ValuesHere DEF x
  <2> QED BY <1>1, <1>3, <2>1, <2>2 DEF LoopInv, IsAfter
<1> QED BY <1>1, <1>3, <1>4, <1>5, FlagIteration

\* So does the key.
LEMMA KeyModeInv == LoopInv /\ KeyMode => LoopInv'
<1> SUFFICES ASSUME LoopInv, KeyMode PROVE LoopInv'
  OBVIOUS
<1>1. /\ At(Flags) /\ ms[pos + 1] = "k" /\ Advance /\ UNCHANGED adding /\ pos \in Nat
      /\ chan \in Channel /\ (adding <=> Adding(ms, pos + 1))
  BY CommandTypes DEF KeyMode, At, Flags, LoopInv, TypeOK, ReachesWhatItPassed
<1>2. /\ chan' = IF adding THEN SetMode(SetKey(chan, arg.key), "k") ELSE UnsetKey(chan)
      /\ adding => arg # NoArg
  BY DEF KeyMode
<1>3. /\ chan' \in Channel
      /\ \A f \in Flags : f \in chan'.modes <=> IF f = "k" THEN adding ELSE f \in chan.modes
      /\ chan'.key = IF adding => arg.key \in Key
                     THEN IF adding THEN arg.key ELSE NoKey ELSE chan.key
      /\ chan'.clientLimit = chan.clientLimit
      /\ chan'.operators = chan.operators /\ chan'.clients = chan.clients
      /\ chan'.invited = chan.invited /\ chan'.topic = chan.topic
  <2>1. CASE adding /\ arg.key \in Key
    BY ONLY <1>1, <1>2, <2>1 DEF SetMode, SetKey, Channel, Flags
  <2>2. CASE adding /\ arg.key \notin Key
    BY ONLY <1>1, <1>2, <2>2 DEF SetMode, SetKey, Channel, Flags
  <2>3. CASE ~adding
    BY ONLY <1>1, <1>2, <2>3 DEF UnsetKey, Channel, Flags
  <2> QED BY <2>1, <2>2, <2>3
<1>4. ~ModeFails(ms, pos + 1, arg, targets)
  BY <1>1, <1>2 DEF ModeFails, Flags
<1>5. IsAfter(chan', before, ms, pos + 1, arg, targets)
  <2>1. \A f \in Flags : Marked(before, ms, pos + 1, arg, f) <=>
                           IF f = "k" THEN Adding(ms, pos + 1) ELSE Marked(before, ms, pos, arg, f)
    BY <1>1, FlagHere
  <2>2. /\ KeyAfter(before, ms, pos + 1, arg) =
             IF Adding(ms, pos + 1) => arg.key \in Key
             THEN IF Adding(ms, pos + 1) THEN arg.key ELSE NoKey
             ELSE KeyAfter(before, ms, pos, arg)
        /\ LimitAfter(before, ms, pos + 1, arg) = LimitAfter(before, ms, pos, arg)
        /\ OperatorsAfter(before, ms, pos + 1, targets) = OperatorsAfter(before, ms, pos, targets)
    BY <1>1, ValuesHere
  <2>3. chan'.key = KeyAfter(before, ms, pos + 1, arg)
    BY <1>1, <1>3, <2>2 DEF LoopInv, IsAfter
  <2> QED BY <1>1, <1>3, <2>1, <2>2, <2>3 DEF LoopInv, IsAfter
<1> QED BY <1>1, <1>3, <1>4, <1>5, FlagIteration

\* The limit and the modes, stored together.
Limited(c, n, m) == [c EXCEPT !.clientLimit = n, !.modes = m]

\* Storing a limit changes the limit and the modes, and nothing else of the
\* channel.
LEMMA LimitStored ==
  ASSUME NEW c \in Channel, NEW n \in Int, NEW m \in SUBSET Flags
  PROVE  /\ Limited(c, n, m) \in Channel
         /\ Limited(c, n, m).modes = m /\ Limited(c, n, m).clientLimit = n
         /\ Limited(c, n, m).key = c.key /\ Limited(c, n, m).operators = c.operators
         /\ Limited(c, n, m).clients = c.clients /\ Limited(c, n, m).invited = c.invited
         /\ Limited(c, n, m).topic = c.topic
BY DEF Limited, Channel

\* So does the limit.
LEMMA LimitModeInv == LoopInv /\ LimitMode => LoopInv'
<1> SUFFICES ASSUME LoopInv, LimitMode PROVE LoopInv'
  OBVIOUS
<1>1. /\ At(Flags) /\ ms[pos + 1] = "l" /\ Advance /\ UNCHANGED adding /\ pos \in Nat
      /\ chan \in Channel /\ (adding <=> Adding(ms, pos + 1))
  BY CommandTypes DEF LimitMode, At, Flags, LoopInv, TypeOK, ReachesWhatItPassed
<1>2. /\ chan' = IF adding THEN SetClientLimit(chan, arg.limit) ELSE UnsetClientLimit(chan)
      /\ adding => arg # NoArg /\ arg.limit \in Int
  BY CommandTypes DEF LimitMode
<1>3. /\ chan' \in Channel
      /\ \A f \in Flags : f \in chan'.modes <=>
           IF f = "l" /\ (adding => arg.limit >= 0) THEN adding /\ arg.limit > 0 ELSE f \in chan.modes
      /\ chan'.clientLimit = IF adding => arg.limit >= 0
                             THEN IF adding THEN arg.limit ELSE -1 ELSE chan.clientLimit
      /\ chan'.key = chan.key
      /\ chan'.operators = chan.operators /\ chan'.clients = chan.clients
      /\ chan'.invited = chan.invited /\ chan'.topic = chan.topic
  <2> DEFINE modes == IF adding /\ arg.limit > 0 THEN chan.modes \cup {"l"} ELSE chan.modes \ {"l"}
             limit == IF adding THEN arg.limit ELSE -1
  <2>1. CASE adding => arg.limit >= 0
    <3>1. chan' = Limited(chan, limit, modes)
      <4>1. CASE adding /\ arg.limit > 0
        BY ONLY <1>2, <2>1, <4>1 DEF SetClientLimit, Limited
      <4>2. CASE adding /\ ~(arg.limit > 0)
        BY ONLY <1>2, <2>1, <4>2 DEF SetClientLimit, Limited
      <4>3. CASE ~adding
        BY ONLY <1>2, <4>3 DEF UnsetClientLimit, Limited
      <4> QED BY <4>1, <4>2, <4>3
    <3>2. limit \in Int /\ modes \in SUBSET Flags
      BY ONLY <1>1, <1>2 DEF Channel, Flags
    <3>3. \A f \in Flags : f \in modes <=> IF f = "l" THEN adding /\ arg.limit > 0 ELSE f \in chan.modes
      OBVIOUS
    <3> HIDE DEF limit, modes
    <3>4. /\ chan' \in Channel /\ chan'.modes = modes /\ chan'.clientLimit = limit
          /\ chan'.key = chan.key
          /\ chan'.operators = chan.operators /\ chan'.clients = chan.clients
          /\ chan'.invited = chan.invited /\ chan'.topic = chan.topic
      BY ONLY <1>1, <3>1, <3>2, LimitStored
    <3> QED BY ONLY <2>1, <3>3, <3>4 DEF limit
  <2>2. CASE ~(adding => arg.limit >= 0)
    <3>1. chan' = chan
      BY ONLY <1>2, <2>2 DEF SetClientLimit
    <3> QED BY ONLY <1>1, <2>2, <3>1
  <2> QED BY <2>1, <2>2
<1>4. ~ModeFails(ms, pos + 1, arg, targets)
  BY <1>1, <1>2 DEF ModeFails, Flags
<1>5. IsAfter(chan', before, ms, pos + 1, arg, targets)
  <2>1. \A f \in Flags : Marked(before, ms, pos + 1, arg, f) <=>
          IF f = "l" /\ (Adding(ms, pos + 1) => arg.limit >= 0)
          THEN Adding(ms, pos + 1) /\ arg.limit > 0 ELSE Marked(before, ms, pos, arg, f)
    BY <1>1, FlagHere
  <2>2. /\ LimitAfter(before, ms, pos + 1, arg) =
             IF Adding(ms, pos + 1) => arg.limit >= 0
             THEN IF Adding(ms, pos + 1) THEN arg.limit ELSE -1
             ELSE LimitAfter(before, ms, pos, arg)
        /\ KeyAfter(before, ms, pos + 1, arg) = KeyAfter(before, ms, pos, arg)
        /\ OperatorsAfter(before, ms, pos + 1, targets) = OperatorsAfter(before, ms, pos, targets)
    BY <1>1, ValuesHere
  <2>3. chan'.clientLimit = LimitAfter(before, ms, pos + 1, arg)
    BY <1>1, <1>3, <2>2 DEF LoopInv, IsAfter
  <2>4. \A f \in Flags : f \in chan'.modes <=> Marked(before, ms, pos + 1, arg, f)
    BY <1>1, <1>3, <2>1 DEF LoopInv, IsAfter
  <2> QED BY <1>3, <2>2, <2>3, <2>4 DEF LoopInv, IsAfter
<1> QED BY <1>1, <1>3, <1>4, <1>5, FlagIteration

\* The nickname names one member, so what the loop does to it is done to targets.
LEMMA OperatorModeInv == LoopInv /\ OperatorMode => LoopInv'
<1> SUFFICES ASSUME LoopInv, OperatorMode PROVE LoopInv'
  OBVIOUS
<1>1. /\ At(Flags) /\ ms[pos + 1] = "o" /\ Advance /\ UNCHANGED adding /\ pos \in Nat
      /\ chan \in Channel /\ (adding <=> Adding(ms, pos + 1))
  BY CommandTypes DEF OperatorMode, At, Flags, LoopInv, TypeOK, ReachesWhatItPassed
<1>2. PICK t \in targets :
        chan' = IF adding THEN AddOperator(SetMode(chan, "o"), t)
                ELSE RemoveOperator(UnsetMode(chan, "o"), t)
  BY DEF OperatorMode
<1>3. targets = {t} /\ t \in Addr /\ arg # NoArg
  BY <1>2 DEF LoopInv, CommandOK
<1>4. /\ chan' \in Channel
      /\ \A f \in Flags : f \in chan'.modes <=> IF f = "o" THEN adding ELSE f \in chan.modes
      /\ chan'.operators = IF adding THEN chan.operators \cup targets ELSE chan.operators \ targets
      /\ chan'.key = chan.key /\ chan'.clientLimit = chan.clientLimit
      /\ chan'.clients = chan.clients /\ chan'.invited = chan.invited /\ chan'.topic = chan.topic
  <2>1. CASE adding
    BY ONLY <1>1, <1>2, <1>3, <2>1 DEF SetMode, AddOperator, Channel, Flags
  <2>2. CASE ~adding
    BY ONLY <1>1, <1>2, <1>3, <2>2 DEF UnsetMode, RemoveOperator, Channel, Flags
  <2> QED BY <2>1, <2>2
<1>5. ~ModeFails(ms, pos + 1, arg, targets)
  BY <1>1, <1>3 DEF ModeFails, Flags
<1>6. IsAfter(chan', before, ms, pos + 1, arg, targets)
  <2>1. \A f \in Flags : Marked(before, ms, pos + 1, arg, f) <=>
                           IF f = "o" THEN Adding(ms, pos + 1) ELSE Marked(before, ms, pos, arg, f)
    BY <1>1, FlagHere
  <2>2. /\ OperatorsAfter(before, ms, pos + 1, targets) =
             IF Adding(ms, pos + 1) THEN OperatorsAfter(before, ms, pos, targets) \cup targets
             ELSE OperatorsAfter(before, ms, pos, targets) \ targets
        /\ KeyAfter(before, ms, pos + 1, arg) = KeyAfter(before, ms, pos, arg)
        /\ LimitAfter(before, ms, pos + 1, arg) = LimitAfter(before, ms, pos, arg)
    BY <1>1, ValuesHere
  <2>3. chan'.operators = OperatorsAfter(before, ms, pos + 1, targets)
    BY <1>1, <1>4, <2>2 DEF LoopInv, IsAfter
  <2> QED BY <1>1, <1>4, <2>1, <2>2, <2>3 DEF LoopInv, IsAfter
<1> QED BY <1>1, <1>4, <1>5, <1>6, FlagIteration

\* The loop ends where the closed form says it does.
LEMMA EndInv == LoopInv /\ (Fail \/ Announce) => LoopInv'
<1> SUFFICES ASSUME LoopInv, Fail \/ Announce PROVE LoopInv'
  OBVIOUS
<1>1. /\ UNCHANGED <<command, chan, pos, adding>>
      /\ result' \in {"error", "told"}
      /\ result' = "told" => pos = Len(ms)
      /\ result' = "error" => pos < Len(ms)
  BY DEF Fail, Announce, At
<1>2. CommandOK' /\ TypeOK' /\ IsAfter(chan', before', ms', pos', arg', targets')
  BY <1>1 DEF LoopInv, CommandOK, TypeOK, command
<1>3. result' = "error" => ModeFails(ms, pos + 1, arg, targets)
  BY DEF Fail, Announce, At, ModeFails, LoopInv, ReachesWhatItPassed
<1>4. ReachesWhatItPassed'
  BY <1>1, <1>3 DEF LoopInv, ReachesWhatItPassed, command
<1> QED BY <1>2, <1>4 DEF LoopInv

\* Every step keeps the invariant of the loop.
LEMMA LoopStep == LoopInv /\ [Next]_vars => LoopInv'
<1> SUFFICES ASSUME LoopInv, [Next]_vars PROVE LoopInv'
  OBVIOUS
<1>1. CASE UNCHANGED vars
  BY <1>1 DEF vars, command, LoopInv, CommandOK, TypeOK, ReachesWhatItPassed
<1> QED
  BY <1>1, SignInv, SimpleModeInv, KeyModeInv, LimitModeInv, OperatorModeInv, EndInv DEF Next

\* Between two characters the channel is what its flags so far make of it: each mode
\* as its last flag says, each key, limit and operator as the last flag that takes a
\* parameter says.
THEOREM LoopInvariant == Spec => []LoopInv
BY LoopInit, LoopStep, PTL DEF Spec

\* The channel stays a Channel after every character, for every mode string and
\* every parameter (handleMode).
THEOREM LoopTypeSafe == Spec => []TypeOK
<1>1. LoopInv => TypeOK
  BY DEF LoopInv
<1> QED BY <1>1, LoopInvariant, PTL

-----------------------------------------------------------------------------
(* The closed form. *)

\* When the characters reached are the first n, ApplyModes is what they do.
LEMMA ClosedForm ==
  ASSUME NEW c \in Channel, NEW d \in Channel, NEW s, NEW n \in Nat, NEW a, NEW T,
         Reached(s, a, T) = 1 .. n, IsAfter(d, c, s, n, a, T)
  PROVE  d = ApplyModes(c, s, a, T)
<1> DEFINE Here(f) == {p \in Reached(s, a, T) : s[p] = f}
           KeySet == {p \in Here("k") : Adding(s, p) => a.key \in Key}
           LimSet == {p \in Here("l") : Adding(s, p) => a.limit >= 0}
           Marks(f) ==
             IF f = "l" THEN LastAdds(s, LimSet) /\ a.limit > 0 ELSE LastAdds(s, Here(f))
           Silent(f) == IF f = "l" THEN LimSet = {} ELSE Here(f) = {}
           modes == {f \in Flags : IF Silent(f) THEN f \in c.modes ELSE Marks(f)}
           key == IF KeySet = {} THEN c.key
                  ELSE IF LastAdds(s, KeySet) THEN a.key ELSE NoKey
           limit == IF LimSet = {} THEN c.clientLimit
                    ELSE IF LastAdds(s, LimSet) THEN a.limit ELSE -1
           operators == IF Here("o") = {} THEN c.operators
                        ELSE IF LastAdds(s, Here("o")) THEN c.operators \cup T
                        ELSE c.operators \ T
<1>1. ApplyModes(c, s, a, T) =
        [c EXCEPT !.modes = modes, !.key = key, !.clientLimit = limit, !.operators = operators]
  BY DEF ApplyModes
<1>2. \A f : Here(f) = FlagsUpTo(s, n, f)
  BY DEF FlagsUpTo
<1>3. KeySet = KeyFlags(s, n, a) /\ LimSet = LimitFlags(s, n, a)
  BY <1>2 DEF KeyFlags, LimitFlags
<1> HIDE DEF KeySet, LimSet, Here
<1>4. \A f \in Flags : f \in modes <=> Marked(c, s, n, a, f)
  BY ONLY <1>2, <1>3 DEF modes, Silent, Marks, Marked
<1>5. /\ key = KeyAfter(c, s, n, a) /\ limit = LimitAfter(c, s, n, a)
      /\ operators = OperatorsAfter(c, s, n, T)
  BY <1>2, <1>3 DEF KeyAfter, LimitAfter, OperatorsAfter
<1>6. modes \subseteq Flags
  OBVIOUS
<1> HIDE DEF modes, key, limit, operators
<1>7. d.modes = modes /\ d.key = key /\ d.clientLimit = limit /\ d.operators = operators
  BY <1>4, <1>5, <1>6 DEF IsAfter, Channel
<1>8. d = [c EXCEPT !.modes = modes, !.key = key, !.clientLimit = limit, !.operators = operators]
  BY <1>7 DEF IsAfter, Channel
<1> QED BY <1>1, <1>8

\* What happens up to position n depends on the characters up to n only.
LEMMA PrefixDecides ==
  ASSUME NEW s, NEW u, NEW n \in Nat, \A p \in 1 .. n : u[p] = s[p],
         NEW c, NEW d, NEW a, NEW T
  PROVE  /\ \A p \in 1 .. n : ModeFails(u, p, a, T) <=> ModeFails(s, p, a, T)
         /\ IsAfter(d, c, s, n, a, T) => IsAfter(d, c, u, n, a, T)
<1>1. \A p \in 1 .. n : Adding(u, p) <=> Adding(s, p)
  BY DEF Adding
<1>2. \A p \in 1 .. n : ModeFails(u, p, a, T) <=> ModeFails(s, p, a, T)
  BY <1>1 DEF ModeFails
<1>3. \A f : FlagsUpTo(u, n, f) = FlagsUpTo(s, n, f)
  BY DEF FlagsUpTo
<1>4. KeyFlags(u, n, a) = KeyFlags(s, n, a) /\ LimitFlags(u, n, a) = LimitFlags(s, n, a)
  BY <1>1, <1>3 DEF KeyFlags, LimitFlags, FlagsUpTo
<1>5. \A P \in SUBSET (1 .. n) : LastAdds(u, P) <=> LastAdds(s, P)
  BY <1>1 DEF LastAdds
<1>6. /\ \A f : LastAdds(u, FlagsUpTo(s, n, f)) <=> LastAdds(s, FlagsUpTo(s, n, f))
      /\ LastAdds(u, KeyFlags(s, n, a)) <=> LastAdds(s, KeyFlags(s, n, a))
      /\ LastAdds(u, LimitFlags(s, n, a)) <=> LastAdds(s, LimitFlags(s, n, a))
  BY <1>5, OneMore
<1>7. \A f \in Flags : Marked(c, u, n, a, f) <=> Marked(c, s, n, a, f)
  BY ONLY <1>3, <1>4, <1>6 DEF Marked
<1>8. /\ KeyAfter(c, u, n, a) = KeyAfter(c, s, n, a)
      /\ LimitAfter(c, u, n, a) = LimitAfter(c, s, n, a)
      /\ OperatorsAfter(c, u, n, T) = OperatorsAfter(c, s, n, T)
  BY ONLY <1>3, <1>4, <1>6 DEF KeyAfter, LimitAfter, OperatorsAfter
<1> QED BY <1>2, <1>7, <1>8 DEF IsAfter

\* The loop of handleMode computes ApplyModes after every character, stops where
\* it says, and announces the change exactly when all characters were reached.
THEOREM LoopSafe == Spec => []LoopIsApplyModes
<1>1. ASSUME LoopInv PROVE LoopIsApplyModes
  <2> DEFINE u == SubSeq(ms, 1, pos)
  <2>1. /\ ms \in Seq(STRING) /\ Len(ms) \in Nat /\ pos \in 0 .. Len(ms) /\ DOMAIN ms = 1 .. Len(ms)
        /\ before \in Channel /\ chan \in Channel /\ pos \in Nat
        /\ IsAfter(chan, before, ms, pos, arg, targets)
    BY <1>1, CommandTypes DEF LoopInv, TypeOK
  <2>2. DOMAIN u = 1 .. pos /\ \A p \in 1 .. pos : u[p] = ms[p]
    BY <2>1
  <2>3. \A q \in 1 .. pos : ~ModeFails(ms, q, arg, targets)
    BY <1>1 DEF LoopInv, ReachesWhatItPassed
  <2> HIDE DEF u
  <2>4. /\ \A q \in 1 .. pos : ~ModeFails(u, q, arg, targets)
        /\ IsAfter(chan, before, u, pos, arg, targets)
    BY <2>1, <2>2, <2>3, PrefixDecides
  <2>5. Reached(u, arg, targets) = 1 .. pos
    BY <2>1, <2>2, <2>4 DEF Reached
  <2>6. chan = ApplyModes(before, u, arg, targets)
    BY <2>1, <2>4, <2>5, ClosedForm
  <2>7. 1 .. pos \subseteq Reached(ms, arg, targets)
    BY <2>1, <2>3 DEF Reached
  <2>8. ASSUME result # "running" PROVE Reached(ms, arg, targets) = 1 .. pos
    <3>1. CASE result = "error"
      <4>1. pos < Len(ms) /\ ModeFails(ms, pos + 1, arg, targets)
        BY <1>1, <3>1 DEF LoopInv, ReachesWhatItPassed
      <4>2. \A p \in DOMAIN ms : p \notin 1 .. pos => pos + 1 \in 1 .. p
        BY <2>1
      <4>3. \A p \in Reached(ms, arg, targets) : p \in 1 .. pos
        BY <4>1, <4>2 DEF Reached
      <4> QED BY <2>7, <4>3
    <3>2. CASE result = "told"
      BY <1>1, <2>1, <2>7, <3>2 DEF LoopInv, ReachesWhatItPassed, Reached
    <3> QED BY <1>1, <2>8, <3>1, <3>2 DEF LoopInv, TypeOK
  <2>9. result # "running" => chan = ApplyModes(before, ms, arg, targets)
    BY <2>1, <2>8, ClosedForm
  <2>10. result = "told" <=> result # "running" /\ Reached(ms, arg, targets) = DOMAIN ms
    <3>1. CASE result = "error"
      <4>1. pos < Len(ms)
        BY <1>1, <3>1 DEF LoopInv, ReachesWhatItPassed
      <4>2. Len(ms) \in DOMAIN ms /\ Len(ms) \notin 1 .. pos
        BY <2>1, <4>1
      <4> QED BY <2>8, <3>1, <4>2
    <3>2. CASE result = "told"
      BY <1>1, <2>1, <2>8, <3>2 DEF LoopInv, ReachesWhatItPassed
    <3> QED BY <1>1, <3>1, <3>2 DEF LoopInv, TypeOK
  <2> QED BY <2>6, <2>7, <2>8, <2>9, <2>10 DEF LoopIsApplyModes, u
<1> QED BY <1>1, LoopInvariant, PTL

\* The limit and its mark 'l', stored in two places, agree after every character of
\* every mode string.
THEOREM LimitMarkSafe == Spec => []LimitMarkAgrees
<1>1. ASSUME LoopInv PROVE LimitMarkAgrees
  <2>1. before \in Start
    BY <1>1 DEF LoopInv, CommandOK
  <2>2. "l" \in before.modes <=> before.clientLimit > 0
    BY <2>1, StartAssumption
  <2>3. /\ "l" \in chan.modes <=> Marked(before, ms, pos, arg, "l")
        /\ chan.clientLimit = LimitAfter(before, ms, pos, arg)
    BY <1>1 DEF LoopInv, IsAfter, Flags
  <2>4. Marked(before, ms, pos, arg, "l") <=>
          IF LimitFlags(ms, pos, arg) = {} THEN "l" \in before.modes
          ELSE LastAdds(ms, LimitFlags(ms, pos, arg)) /\ arg.limit > 0
    BY DEF Marked
  <2> QED BY <2>2, <2>3, <2>4 DEF LimitAfter, LimitMarkAgrees
<1> QED BY <1>1, LoopInvariant, PTL
=============================================================================
