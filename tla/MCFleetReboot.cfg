SPECIFICATION RunningSpec
CONSTANTS
  Sandboxes = {s1}
  Nodes = {n1}
  Handlers = {h1, h2}
  NoNode = NoNode
  Operations = {"wake", "delete"}
  Distributed = TRUE
  MaxGeneration = 1
  MaxBoot = 2
  MaxActivity = 2
  MaxCapture = 1
  MaxDelete = 1
  MaxBeats = 1
  MaxLag = 1
SYMMETRY Symmetry
INVARIANT TypeOK
INVARIANT LossIsFinal
PROPERTY DeleteIntentSticks
