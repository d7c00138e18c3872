------------------------------ MODULE MCDrives -------------------------------
(***************************************************************************)
(* Small instance of Drives: two drives, each of which may go away, so     *)
(* that a live drive can come before or behind a dead one.                 *)
(***************************************************************************)
EXTENDS Drives

CONSTANTS usb, disk, s1, s2

MCOrder == <<disk, usb>>
=============================================================================
