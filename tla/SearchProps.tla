----------------------------- MODULE SearchProps ------------------------------
(***************************************************************************)
(* What a user relies on when searching.                                   *)
(***************************************************************************)
EXTENDS Search

Version == 0..MaxWrites + 1

QueryType == [words : SUBSET Word, form : {"plain", "native", "broken"}]

Call ==
  [pc : {"initializing", "idle", "names", "contents", "list", "aborted"},
   req : [name : QueryType, content : QueryType, scope : SUBSET Folder],
   named : SUBSET File, found : SUBSET File, pos : Nat \ {0}, size : Nat, left : Nat,
   frozen : BOOLEAN, old : Seq(File \cup {Gone}), moved : BOOLEAN,
   must : SUBSET File, may : SUBSET File]

View ==
  [shown : SUBSET File, cache : [File -> Version], base : [File -> Version],
   preview : {NoPreview} \cup [file : File, ver : Version, from : {"index", "file"}]]

\* The types; a search never asks for more entries than the list had.
SearchTypeOK ==
  /\ list \in Seq(File \cup {Gone})
  /\ disk \in [File -> Version] /\ table \in [File -> Version \cup {NoRow}]
  /\ folders \subseteq Folder
  /\ run \in Call /\ run.left \leq run.size
  /\ view \in View
  /\ used \in [writes : 0..MaxWrites, changes : 0..MaxChanges]

\* While polls, scans and index threads change what is searched, the answer
\* holds every file that fitted from the first step of the search to the last
\* as the same record, and none that fitted at no moment of it.  The mishaps
\* that Unanswerable names lose files, and none of them adds one.
AnswerRight ==
  [][run.pc \in {"contents", "list"} /\ run'.pc = "idle" =>
       /\ view'.shown \subseteq run.may
       /\ Unanswerable(run) \/ run.must \subseteq view'.shown]_vars

\* The preview belongs to a row of the results, and a text that was read from
\* the file itself was read after the search (the texts kept for previews are
\* forgotten with each search).
PreviewTrue ==
  LET p == view.preview IN
  p # NoPreview =>
    /\ p.file \in view.shown
    /\ p.from = "file" => p.ver \geq view.base[p.file]
=============================================================================
