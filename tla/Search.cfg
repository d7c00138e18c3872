CONSTANTS
  Gone = Gone
  NoFile = NoFile
  Word <- MCWord
  Symbol = {"-"}
  Begins <- MCBegins
  Inside <- MCInside
  File <- MCFile
  Folder <- MCFolder
  Text <- MCText
  Form <- MCForm
  Extractable <- MCExtractable
  MaxWrites = 1
  MaxChanges = 2
SPECIFICATION Spec
INVARIANTS
  SearchTypeOK
  PreviewTrue
PROPERTIES
  AnswerRight
CHECK_DEADLOCK FALSE
