------------------------------ MODULE MCUsnSync ------------------------------
(***************************************************************************)
(* Small instances of UsnSync: two files, a shown path or two and two      *)
(* excluded ones.                                                          *)
(***************************************************************************)
EXTENDS UsnSyncProps, TLC

CONSTANTS f1, f2, p, q, hidden, hidden2, s1, s2

\* Files are interchangeable (safety only).
Symmetric == Permutations(File)

=============================================================================
