------------------------------- MODULE Split -------------------------------
(***************************************************************************)
(* split (Server.class.cpp): the words of a line, up to the trailing       *)
(* parameter, which begins with ':' and keeps its spaces.  One step is one *)
(* iteration of the loop over the stream of words.  Relay is what becomes  *)
(* of them.                                                                *)
(***************************************************************************)
EXTENDS Integers, Sequences, SequencesExt

VARIABLES
  line,
  pos,    \* how much of line the stream has consumed
  args,   \* the words found
  at      \* "loop" until split returns

-----------------------------------------------------------------------------
Blank(l, k) == l[k] = " "

\* A word of l stands at j .. k.
IsWord(l, j, k) ==
  /\ j <= k /\ \A i \in j .. k : ~Blank(l, i)
  /\ \A i \in {j - 1, k + 1} \cap DOMAIN l : Blank(l, i)

\* Mutant: rfind.
LastColon(l) == SelectLastInSeq(l, LAMBDA c : c = ":")

\* line.find(':')
FirstColon(l) == SelectInSeq(l, LAMBDA c : c = ":")

\* Mutant: a trailing parameter is a word like the others.
StartsNoTrailing(l, j) == FALSE

StartsTrailing(l, j) == l[j] = ":"

\* iss >> buffer takes the next word. One that starts with ':' is replaced by
\* the rest of the line, searched for from the beginning of the line.
NextWord ==
  /\ at = "loop"
  /\ \E j, k \in pos + 1 .. Len(line) :
       /\ IsWord(line, j, k)
       /\ \A i \in pos + 1 .. j - 1 : Blank(line, i)
       /\ IF StartsTrailing(line, j)
          THEN args' = Append(args, SubSeq(line, FirstColon(line), Len(line)))
               /\ at' = "returned"
          ELSE args' = Append(args, SubSeq(line, j, k)) /\ UNCHANGED at
       /\ pos' = k
  /\ UNCHANGED line

NoMoreWords ==
  /\ at = "loop" /\ \A i \in pos + 1 .. Len(line) : Blank(line, i)
  /\ at' = "returned"
  /\ UNCHANGED <<line, pos, args>>

-----------------------------------------------------------------------------
(* What the parameters of a line are. *)

\* Where the words begin, and where the first word begins that starts with ':'.
Starts(l) == {j \in DOMAIN l : ~Blank(l, j) /\ (j = 1 \/ Blank(l, j - 1))}
ParameterStarts(l) == {j \in Starts(l) : \A i \in Starts(l) : i < j => l[i] # ":"}

Parameter(l, j) ==
  SubSeq(l, j, IF l[j] = ":" THEN Len(l) ELSE CHOOSE k \in j .. Len(l) : IsWord(l, j, k))

Parameters(l) ==
  FlattenSeq([j \in DOMAIN l |->
                IF j \in ParameterStarts(l) THEN <<Parameter(l, j)>> ELSE <<>>])

\* The first ':' begins a word.
IsWellFormed(l) == FirstColon(l) \in {0} \cup Starts(l)

\* A well-formed line is split into its parameters, wherever its spaces are.
SplitsIntoParameters ==
  at = "returned" /\ IsWellFormed(line) => args = Parameters(line)

\* Whatever colons are inside earlier words, no parameter is lost and none is
\* cut: the trailing one can only come with more text in front of it.
ParametersAreKept ==
  at = "returned" =>
    /\ Len(args) = Len(Parameters(line))
    /\ \A n \in DOMAIN args : IsSuffix(Parameters(line)[n], args[n])
=============================================================================
