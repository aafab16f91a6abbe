CONSTANTS
  gui = gui
  p1 = p1
  p2 = p2
  Projects <- TwoProjects
  Clients <- OnlyGui
  Gui = gui
  Batch = 1
  MaxSessions = 2
SPECIFICATION Spec
INVARIANT CompilingSetsBusy
