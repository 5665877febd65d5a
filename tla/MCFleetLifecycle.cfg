SPECIFICATION RunningSpec
CONSTANTS
  Sandboxes = {s1}
  Nodes = {n1}
  Handlers = {h1, h2}
  NoNode = NoNode
  Operations = {"park", "wake"}
  Distributed = TRUE
  MaxGeneration = 1
  MaxBoot = 1
  MaxActivity = 3
  MaxCapture = 2
  MaxDelete = 1
  MaxBeats = 1
  MaxLag = 1
SYMMETRY Symmetry
INVARIANT NoStaleCheckpoint
PROPERTY ActivityNeverRewinds
