------------------------------- MODULE MCAta -------------------------------
(***************************************************************************)
(* The instance of Ata.tla that TLC checks: a timeout of two ticks, so     *)
(* that a tick can fall before, between and after the polls; two sectors   *)
(* in range, whose addresses differ in two registers, and one beyond it.   *)
(***************************************************************************)
EXTENDS Ata

MCLbas == {0, 257, 2^28}
MCDrives == {"disk", "absent", "floating"}
=============================================================================
