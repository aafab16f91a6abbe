CONSTANTS
  Files = {a, b}
  Missing = missing
  Chunks = 2
  DeleteFirst = TRUE
  Late = TRUE
  MaxEdits = 2
  MaxCalls = 2
  MaxStarts = 0
SPECIFICATION FtpSpec
PROPERTIES ReplyMatches
CHECK_DEADLOCK FALSE
