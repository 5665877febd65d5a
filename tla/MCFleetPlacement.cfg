SPECIFICATION Spec
CONSTANTS
  Sandboxes = {s1}
  Nodes = {n1, n2}
  Handlers = {h1, h2}
  NoNode = NoNode
  Operations = {"create", "publish"}
  Distributed = FALSE
  MaxGeneration = 3
  MaxBoot = 1
  MaxActivity = 2
  MaxCapture = 1
  MaxDelete = 1
  MaxBeats = 1
  MaxLag = 1
SYMMETRY Symmetry
INVARIANT SingleLive
