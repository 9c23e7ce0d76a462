------------------------ MODULE MCPrivilegeHistory ------------------------
(* Small instances of PrivilegeHistory for TLC. *)
EXTENDS PrivilegeHistory, MCIrcServer

ModeStrings == {<<"+", "i">>, <<"-", "i">>, <<"+", "o">>, <<"-", "o">>}

SettingsArgs == NickArgs \cup NumberArgs({1}) \cup {LongArg}

\* Flags set and unset, status that is given and taken in one command and status
\* that is given by a command that fails.
SettingsStrings ==
  {<<"+", "i">>, <<"-", "i">>, <<"+", "k", "l">>, <<"-", "k", "+", "o">>,
   <<"-", "l", "o">>, <<"+", "o", "-", "o">>, <<"+", "o", "x">>}
=============================================================================
