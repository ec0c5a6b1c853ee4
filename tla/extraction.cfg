CONSTANTS
  i1 = i1
  i2 = i2
  i3 = i3
  kafka = kafka
  n1 = n1
  NoState = NoState
  Issue <- TwoIssues
  Scope = {kafka}
  Covers <- OneCovers
  Name = {n1}
  NameOf <- OneName
  Resource <- Changelog
  Overlap = 3
  MinuteSlip = 1
  ZoneSlip = 1
  MaxLag = 1
  MaxWalk = 1
  Limits = {0, 1}
  Scheduled = 0
  Began = 2
  MaxClock = 4
  MaxFault = 1
SPECIFICATION FairSpec
INVARIANTS TypeOK NothingSkipped StoredIsDelivered
PROPERTY ImplementsFeed NeverOlder CatchesUp
