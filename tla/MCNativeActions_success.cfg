SPECIFICATION NativeSpec
CONSTANTS
  c1 = c1
  c2 = c2
  a1 = a1
  a2 = a2
  Nobody = Nobody
  Clients = {c1, c2}
  Apps = {a1, a2}
  Tools <- SendingTools
  AppOf <- MCAppOf
  WindowIsFront = TRUE
  MaxMoves = 1
  MaxReads = 1
INVARIANT SuccessInvalidates
CHECK_DEADLOCK FALSE
