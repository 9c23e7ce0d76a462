---------------------------- MODULE MCMembership ----------------------------
(* Small instances of IrcServer for TLC: who is in which channel, what the *)
(* clients are told of it, and what Presence promises of it.               *)
EXTENDS ClientViews, IrcPresence, TLC

Symmetry == Permutations(Addr) \cup Permutations(Nick) \cup Permutations(ChanName)
=============================================================================
