------------------------------ MODULE MCReindex ------------------------------
(***************************************************************************)
(* Small instances of Reindex: two files, a folder with the first, and a   *)
(* folder around both.                                                     *)
(***************************************************************************)
EXTENDS ReindexProps, TLC

CONSTANTS a, b, inner, outer, t1, t2

MCUnder == [f \in Folder |-> IF f = inner THEN {a} ELSE {a, b}]
MCWithin == [f \in Folder |-> IF f = outer THEN {inner} ELSE {}]

\* Threads are interchangeable.
Symmetric == Permutations(Thread)
=============================================================================
