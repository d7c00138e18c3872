------------------------------ MODULE MCSearch --------------------------------
(***************************************************************************)
(* Two files of one name part below different folders of one name, one of  *)
(* them directly below the drive's folder that has it.                     *)
(***************************************************************************)
EXTENDS SearchProps, TLC

MCWord == {"docs", "old", "port", "report", "rep", "cat", "-"}
Same == {<<w, w>> : w \in MCWord}
MCBegins == Same \cup {<<"rep", "report">>}
MCInside == MCBegins \cup {<<"port", "report">>}

Report == <<"docs", "report">>
OldPort == <<"old", "docs", "port">>
MCFile == {Report, OldPort}
MCExtractable == {Report}
MCFolder == {<<"docs">>, <<>>}
MCText == <<{"cat", "rep"}, {"report"}, {}>>

Plain(S) == [words |-> S, form |-> "plain"]
Native(S) == [words |-> S, form |-> "native"]
Broken(S) == [words |-> S, form |-> "broken"]
MCForm ==
  {<<Plain({"port"}), Plain({})>>,          \* the file list
   <<Plain({"old"}), Plain({"cat"})>>,      \* a folder's name counts as well
   <<Plain({}), Plain({"rep"})>>,           \* prefixes
   <<Plain({}), Native({"rep"})>>,          \* whole words
   <<Plain({"-"}), Plain({"cat"})>>,
   <<Broken({"rep"}), Plain({"cat"})>>}
=============================================================================
