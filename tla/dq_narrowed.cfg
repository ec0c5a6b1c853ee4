CONSTANTS
  i1 = i1  i2 = i2  p1 = p1  p2 = p2  A = A  B = B
  NoProject = NoProject
  Issue <- TwoIssues
  Pipeline = {p1}
  PipelineOf <- OnePipe
  Project = {A, B}
  ProjectOf <- TwoProjects
  Scopes = {NoProject, A}
  MaxVersion = 1
  MaxLoad = 2
  MaxFault = 0
SPECIFICATION Spec
INVARIANT QueuedIsRebuilt
CHECK_DEADLOCK FALSE
