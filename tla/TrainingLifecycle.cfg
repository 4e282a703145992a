SPECIFICATION FairSpec
CONSTANTS
  Run = {r1, r2}
  Pid = {p1, p2}
  Name = {n1}
  Kill = {k1}
  NoOne = NoOne
INVARIANTS
  SlotTellsTheTruth
  StopHolds
  WorkloadsExclude
  PromotedSurvivesUntilPublished
PROPERTY ExitIsRecorded
