----------------------------- MODULE MCConsole -----------------------------
(***************************************************************************)
(* The instance of Console.tla that TLC checks: a grid of two rows of two  *)
(* cells, and a line buffer that is full after three characters, so that   *)
(* lines wrap, the screen scrolls and the buffer fills.  A write to row    *)
(* 65535 faults as it does on the real screen, and one to column 65535 of  *)
(* a row of the grid does not.                                             *)
(***************************************************************************)
EXTENDS Console

MCWelcome == <<NL>>
MCPrompt == <<">">>
MCOutputs == {<<"o", NL>>, <<"o", "o", "o">>}
=============================================================================
