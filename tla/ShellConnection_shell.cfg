CONSTANTS
  gui = gui
  worker = worker
  Owner = gui
  Writer = worker
  Restarters <- OnlyGui
  MaxThreads = 2
  MaxWrites = 2
SPECIFICATION FairSpec
INVARIANTS TypeOK OneThread LinesAfterLogin StopStops
PROPERTIES CallsReturn
