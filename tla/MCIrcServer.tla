----------------------------- MODULE MCIrcServer -----------------------------
(* Small instances of IrcServer for TLC. *)
EXTENDS IrcServer, TLC

\* A word that is a nickname: std::atoi reads 0 in it, setKey takes it.
NickArgs == {[key |-> k, limit |-> 0, nick |-> n] : k \in Key, n \in Nick}

\* A word that is a number: no nickname starts with a digit.
NumberArgs(limits) == {[key |-> k, limit |-> l, nick |-> NoNick] : k \in Key, l \in limits}

\* A word too long for a key.
LongArg == [key |-> LongKey, limit |-> 0, nick |-> NoNick]

AllArgs == NickArgs \cup NumberArgs({-1, 0, 1}) \cup {LongArg}

\* Every flag, set and unset, alone and with others, and a string that fails
\* after a flag that was applied.
AllStrings ==
  {<<"+", "i", "t">>, <<"-", "t", "i">>, <<"+", "k", "l">>, <<"-", "k", "+", "o">>,
   <<"-", "l", "o">>, <<"+", "i", "x">>, <<"+">>}

Symmetry == Permutations(Addr) \cup Permutations(Nick) \cup Permutations(ChanName)
=============================================================================
