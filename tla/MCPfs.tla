------------------------------- MODULE MCPfs -------------------------------
(***************************************************************************)
(* The instance of Pfs.tla that TLC checks.  The disk is blank, or holds a *)
(* tree as pfs.hpp describes it: an empty root, or a root with a folder    *)
(* "a" and a file "b", and a file "c" in the folder.                       *)
(***************************************************************************)
EXTENDS Pfs

LOCAL Image(f) ==
  [s \in 0 .. SECTORS - 1 |-> IF s \in DOMAIN f THEN f[s] ELSE Blank]

MCDisks ==
  {Image(<<>>),
   Image(<<Super, Record("/", "Folder", FALSE, 2, 0, 0)>>),
   Image(<<Super,
           Record("/", "Folder", TRUE, 2, 3, 0),
           Record("a", "Folder", TRUE, 3, 5, 4),
           Record("b", "File", FALSE, 4, 0, 0),
           Record("c", "File", FALSE, 5, 0, 0)>>)}

MCPaths == {<<"">>, <<"a">>, <<"a", "b">>, <<"a", "..">>}
=============================================================================
