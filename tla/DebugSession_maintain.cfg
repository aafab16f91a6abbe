CONSTANTS
  Gui = Gui
  Reader = Reader
  None = None
  s1 = s1
  s2 = s2
  s3 = s3
  Stops <- StopThreads
  Maintain = TRUE
  Overlap = FALSE
  MaxSessions = 2
SPECIFICATION Spec
PROPERTY EndsOwnSession
