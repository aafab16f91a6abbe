CONSTANTS
  gui = gui
  p1 = p1
  p2 = p2
  Projects <- OneProject
  Clients <- OnlyGui
  Gui = gui
  Batch = 2
  MaxSessions = 3
  manager = manager
  editor = editor
  log = log
  shellThread = shellThread
  guiThread = guiThread
  Listeners <- AllListeners
  Threads <- TwoThreads
  Manager = manager
  MaxLines = 2
SPECIFICATION MCSpec
INVARIANTS OneSessionAtATime MarkerEndsOwnSession FlagsOfActiveSession LineTypeOK CopiesInv
PROPERTY FeedSpec
CHECK_DEADLOCK FALSE
