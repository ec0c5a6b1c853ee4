CONSTANTS
  i1 = i1  i2 = i2  p1 = p1  p2 = p2  A = A  B = B
  NoProject = NoProject
  Issue <- OneIssue
  Pipeline = {p1}
  PipelineOf <- OnePipe
  Project = {A}
  ProjectOf <- OneProject
  Scopes = {NoProject}
  MaxVersion = 2
  MaxLoad = 3
  MaxFault = 1
SPECIFICATION FairSpec
INVARIANTS TypeOK NoForgottenRebuild CompleteMeansWhole SettledIntervalsAreWhole
PROPERTIES LoadsDeliver HistoryNeverShrinks EventuallyRebuilt
CHECK_DEADLOCK FALSE
