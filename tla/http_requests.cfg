\* One connection, since requests meet in the directory only, and three
\* changes of the directory, enough for one between any two of the checks
\* that a request makes.
SPECIFICATION Spec
CONSTANTS
  Conns = {c1}
  Requests <- MCRequests
  MaxChanges = 3
  MaxStarts = 2
INVARIANTS
  TypeOK
  StableAnswer
  OnlyLinksLeadOut
  AnswerJustified
PROPERTY EveryRequestEnds
\* The server may be stopped and every connection closed.
CHECK_DEADLOCK FALSE
