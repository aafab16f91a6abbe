CONSTANTS
  gui = gui
  worker = worker
  Owner = gui
  Writer = worker
  Restarters <- Both
  MaxThreads = 3
  MaxWrites = 2
SPECIFICATION Spec
PROPERTY HandleFree
