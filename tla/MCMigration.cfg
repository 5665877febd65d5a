SPECIFICATION FairSpec
CONSTANTS
  a = a
  b = b
  none = none
  h1 = h1
  h2 = h2
  Nodes = {a, b}
  NoNode = none
  Handlers = {h1, h2}
  Starts = {"attached", "detached"}
  Discipline = {"alone", "through"}
  MaxMigrations = 2
  MaxWakes = 2
  MaxFaults = 2
INVARIANT TypeOK
 
 
 
 
 
CHECK_DEADLOCK FALSE
