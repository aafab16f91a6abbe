CONSTANTS
  manager = manager
  editor = editor
  log = log
  shellThread = shellThread
  guiThread = guiThread
  Listeners <- ViewsAndManager
  Threads <- OneThread
  Manager = manager
  MaxLines = 1
SPECIFICATION LineSpec
PROPERTY MarkerReachesViews
