CONSTANTS
  Gui = Gui
  Reader = Reader
  None = None
  s1 = s1
  s2 = s2
  s3 = s3
  Stops <- StopThreads
  Maintain = FALSE
  Overlap = FALSE
  MaxSessions = 2
  Files = {a, b}
  Missing = missing
  Chunks = 2
  DeleteFirst = TRUE
  Late = FALSE
  MaxEdits = 2
  MaxCalls = 2
  MaxStarts = 1
  MaxAsked = 2
  MaxParts = 2
  Sizes = {3}
  Chunk = 2
  Sources = {a}
  Keep = 1
  Racing = FALSE
  Erase = FALSE
  MaxTyped = 2
  MaxSaved = 2
  MaxShown = 1
SPECIFICATION PartsSpec
INVARIANTS FtpTypeOK QueryTypeOK TagTypeOK
           ViewsFollow DebuggingHears
           TransfersWhole RequestsNoticed RowsOfOneStatement AnimationFollows
           TreeCurrent SettledList
PROPERTIES EndsOwnSession SessionEnds ReplyMatches HandleReturned
CHECK_DEADLOCK FALSE
