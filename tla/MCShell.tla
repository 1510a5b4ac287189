------------------------------ MODULE MCShell ------------------------------
(***************************************************************************)
(* The instance of Shell.tla that TLC checks: rows of two characters,      *)
(* three of them.  Behind a command of one letter, every line of up to     *)
(* seven letters, spaces and quotes, so that arguments of every shape, too *)
(* long and too many of them occur; and every line of up to five with two  *)
(* different letters.  Ints of eight bits, all of which are printed.       *)
(***************************************************************************)
EXTENDS Shell

MCLines ==
  {<<"a", Space>> \o s : s \in SeqOf({"a", Space, Quote}, 7) \cup SeqOf({"a", "b", Space, Quote}, 5)}
    \cup {<<>>, <<"a">>, <<"a", "b", "a">>}

MCNumbers == INT_MIN .. INT_MAX
=============================================================================
