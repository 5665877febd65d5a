SPECIFICATION Spec
CONSTANTS
  Keys = {k1}
  Slots = {t1, t2}
  NoSlot = NoSlot
  Deleters = {d1}
  MaxCommands = 2
  MaxGeneration = 2
  MaxFaults = 0
SYMMETRY Symmetry
INVARIANT TypeOK
INVARIANT DeletedStaysDeleted
INVARIANT BoundToItsRoute
INVARIANT NoOrphanDemand
PROPERTY ReplayNeverRecreates
