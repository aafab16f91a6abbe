CONSTANTS
  p1 = p1
  p2 = p2
  gui = gui
  worker = worker
  Projects <- TwoProjects
  Listeners <- TwoListeners
  Threads <- TwoThreads
  Gui = gui
  Kinds <- CalmKinds
  MaxItems = 2
  MaxPosts = 4
  Places = {a, b, c}
  Files = {{a, c}, {b}}
  Closed = {b}
  Absent = {}
  Late = FALSE
  MaxActs = 2
  MaxStops = 1
  MaxStarts = 1
SPECIFICATION MCSpec
INVARIANTS TypeOK NoLostPost WholeQueueProcessed CommandsInOrder
           PointTypeOK PointsAgree ShownAgrees
PROPERTIES CallsSpec EveryCallDone
CHECK_DEADLOCK FALSE
