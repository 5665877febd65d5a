SPECIFICATION FairSpec
CONSTANTS
  Sandboxes = {s1}
  Nodes = {n1}
  Handlers = {h1}
  NoNode = NoNode
  Operations = {"wake", "delete"}
  Distributed = TRUE
  MaxGeneration = 1
  MaxBoot = 2
  MaxActivity = 1
  MaxCapture = 1
  MaxDelete = 1
  MaxBeats = 1
  MaxLag = 1
PROPERTY DeleteCompletes
PROPERTY ReaperDelivers
