CONSTANTS
  i1 = i1  i2 = i2  p1 = p1  p2 = p2  A = A  B = B
  NoProject = NoProject
  Issue <- OneIssue
  Pipeline = {p1}
  PipelineOf <- OnePipe
  Project = {A, B}
  ProjectOf <- TwoProjects
  Scopes = {NoProject}
  MaxVersion = 2
  MaxLoad = 2
  MaxFault = 1
SPECIFICATION Spec
INVARIANT OnlyReportedLoss
CHECK_DEADLOCK FALSE
