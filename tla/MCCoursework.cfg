SPECIFICATION MCSpec
SYMMETRY Symmetric
CONSTANTS
  Work = {w1, w2}
  File = {f1, f2}
  Nothing = Nothing
  Text = {Nothing}
  MaxScores = {2}
  Proc = {p1, p2}
  MaxRequests = 3
  MaxFaults = 1
  Questions = {q1}
  NoFile = NoFile
  NotYet = NotYet
  None = None
  Gone = Gone
  Enrolled = {w1, w2}
  Cohort <- SameCohort
  Limits <- Bounds
  MaxTeamMembers = 2
  MaxEdits = 2
  MaxLinks = 3
  MaxRenames = 1
  MaxGroups = 2
  MaxTime = 0
  MaxSeeds = 6
  MaxSize = 5
INVARIANTS CountsAddUp BoardAddsUp FrozenOnceUnlessTwice PlanIsWhole
PROPERTIES KeepsPromise DecisionsStandUnlessOvertaken OnlyTheLeaderHandsOver FormedGroupsAreSound
CHECK_DEADLOCK FALSE
