CONSTANTS
  i1 = i1
  i2 = i2
  i3 = i3
  kafka = kafka
  n1 = n1
  NoState = NoState
  Issue <- ThreeIssues
  Scope = {kafka}
  Covers <- OneCovers
  Name = {n1}
  NameOf <- OneName
  Resource <- Changelog
  Overlap = 3
  MinuteSlip = 0
  ZoneSlip = 0
  MaxLag = 1
  MaxWalk = 1
  Limits = {2}
  Scheduled = 2
  Began = 3
  MaxClock = 3
  MaxFault = 0
SPECIFICATION FairSpec
PROPERTY ChunksReachEveryIssue
