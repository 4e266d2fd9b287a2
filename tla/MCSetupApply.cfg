CONSTANTS
  p1 = p1
  p2 = p2
  NoProc = NoProc
  Procs = {p1, p2}
  Targets = {"config", "skill"}
  Selected <- Selection
  Text <- Skill
  Order <- Group
  MaxEdits = 1
SPECIFICATION MCSpec
CHECK_DEADLOCK FALSE
INVARIANTS
  NoEditLost
  ManifestTrue
PROPERTIES
  AllOrNothing
  SetupEnds
