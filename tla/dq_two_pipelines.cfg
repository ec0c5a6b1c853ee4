CONSTANTS
  i1 = i1  i2 = i2  p1 = p1  p2 = p2  A = A  B = B
  NoProject = NoProject
  Issue <- TwoIssues
  Pipeline = {p1, p2}
  PipelineOf <- TwoPipes
  Project = {A, B}
  ProjectOf <- TwoProjects
  Scopes = {NoProject, A}
  MaxVersion = 2
  MaxLoad = 2
  MaxFault = 2
SPECIFICATION Spec
INVARIANTS NoForgottenRebuild SettledIntervalsAreWhole
CHECK_DEADLOCK FALSE
