----------------------------- MODULE MCIndexPanel ----------------------------
(***************************************************************************)
(* Small instances of IndexPanel: folders side by side, each with one file *)
(* or none, and a folder inside another.                                   *)
(***************************************************************************)
EXTENDS IndexPanel, ReindexProps, TLC

CONSTANTS a, b, left, right, t1, t2

MCUnder == [f \in Folder |-> Path \cap IF f = left THEN {a} ELSE {b}]
MCWithin == [f \in Folder |-> {}]

MCUnderNested == [f \in Folder |-> Path]
MCWithinNested == [f \in Folder |-> IF f = right THEN {left} ELSE {}]

Symmetric == Permutations(Thread)
\* In the nested instance each folder holds every file.
SymmetricNested == Permutations(Thread) \cup Permutations(Path)
=============================================================================
