------------------------------ MODULE MCRamFS ------------------------------
(***************************************************************************)
(* The instances of RamFS.tla that TLC checks.  The first gives every kind *)
(* of path on a small heap.  The second gives three absolute paths and has *)
(* room for six nodes, so that a folder with two children can be copied    *)
(* and a folder in a folder removed; a copy of the root put into the root  *)
(* is how its trees grow.                                                  *)
(***************************************************************************)
EXTENDS RamFS

MCNewNames == {"b"}
MCLongNames == {"a name of more than 31 characters"}

MCPaths ==
  [abs : {FALSE}, comps : {<<>>, <<"a">>, <<"b">>, <<"a", "b">>, <<"..">>}]
    \cup [abs : {TRUE}, comps : {<<>>, <<"b", "a">>}]

MCTreePaths == [abs : {TRUE}, comps : {<<>>, <<"a">>, <<"b">>}]
=============================================================================
