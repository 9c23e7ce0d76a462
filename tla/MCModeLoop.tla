----------------------------- MODULE MCModeLoop -----------------------------
(* Small instances of ModeLoop for TLC: every mode string up to MaxLen. *)
EXTENDS ModeLoop

CONSTANTS MaxLen, a1, k1, k2, n1

Chars == {"+", "-", "i", "k", "l", "o", "x"}
AllStrings == UNION {[1 .. n -> Chars] : n \in 1 .. MaxLen}

Args ==
  {[key |-> k2, limit |-> l, nick |-> NoNick] : l \in {-1, 0, 2}}
  \cup {[key |-> LongKey, limit |-> 0, nick |-> NoNick], [key |-> k2, limit |-> 0, nick |-> n1]}

\* A plain channel, one created by a JOIN with a key, and one with every setting
\* the flags can change.
Starts ==
  {[NewChannel EXCEPT !.clients = {a1}],
   [NewChannel EXCEPT !.clients = {a1}, !.key = k1, !.operators = {a1}],
   [NewChannel EXCEPT !.clients = {a1}, !.modes = {"i", "k", "l", "o"}, !.key = k1,
                      !.clientLimit = 1, !.operators = {a1}]}

OneOrNone == {{}, {a1}}
=============================================================================
