CONSTANTS
  gui = gui
  p1 = p1
  p2 = p2
  Projects <- OneProject
  Clients <- OnlyGui
  Gui = gui
  Batch = 1
  MaxSessions = 2
SPECIFICATION FairSpec
INVARIANTS TypeOK SentInOrder SentAsBatches
PROPERTIES StopCompletes WorkReleasesBusy
