CONSTANTS
  p1 = p1
  p2 = p2
  gui = gui
  worker = worker
  Projects <- OneProject
  Listeners <- OneListener
  Threads <- TwoThreads
  Gui = gui
  Kinds <- ModalKinds
  MaxItems = 3
  MaxPosts = 4
SPECIFICATION NestedSpec
INVARIANTS WholeQueueProcessed
CHECK_DEADLOCK FALSE
