SPECIFICATION Spec
CONSTRAINT FewFaults
CONSTANTS
  d1 = d1
  d2 = d2
  m1 = m1
  a1 = a1
  c1 = c1
  w1 = w1
  w2 = w2
  NoTree = NoTree
  Docs <- AllDocs
  Trash <- OldDocs
  Managers <- OneManager
  Accounts <- OneAccount
  Commands <- OneCommand
  WorkerOf <- OtherWorker
  Keep = 2
  Links <- OneLink
  Modes = {TRUE, FALSE}
  MaxBackups = 3
  MaxFailures = 2
INVARIANTS RowsHaveFiles DeletedMeansErased LatestSurvives
PROPERTIES RestoredExactly
CHECK_DEADLOCK FALSE
