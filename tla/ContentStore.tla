---------------------------- MODULE ContentStore -----------------------------
(***************************************************************************)
(* What the content index promises a search: each path is found under the  *)
(* words of at most one text.  Some paths at a time get a new text in      *)
(* place of their old one, and the paths below some folders are forgotten  *)
(* all at once.                                                            *)
(***************************************************************************)
CONSTANTS Path, Folder, Under, Text

VARIABLE store    \* store[p]: the texts under which a search finds p

Put ==
  /\ store' \in [Path -> SUBSET Text]
  /\ \A p \in Path : store'[p] # store[p] => \E t \in Text : store'[p] = {t}

Remove(F) ==
  store' = [p \in Path |-> IF \E f \in F : p \in Under[f] THEN {} ELSE store[p]]

Init == store = [p \in Path |-> {}]

Next == Put \/ \E F \in SUBSET Folder : Remove(F)

Spec == Init /\ [][Next]_store
=============================================================================
