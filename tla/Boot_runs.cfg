CONSTANTS
  Starts = {s1, s2}
  Polls = 1
  Levels <- LevelOrder
  Default = "5"
SPECIFICATION FairSpec
INVARIANTS
  DemoNeverBesideHud
  SecondRecordNeedsOverlap
  FindableAfterStart
  IdleLogo
PROPERTIES
  HudOnScreen
