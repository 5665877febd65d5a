SPECIFICATION FairSpec
CONSTANTS
  Keys = {k1}
  Slots = {t1, t2}
  NoSlot = NoSlot
  Deleters = {d1}
  MaxCommands = 1
  MaxGeneration = 2
  MaxFaults = 1
PROPERTY AnsweredOnce
PROPERTY EveryCreateAnswered
