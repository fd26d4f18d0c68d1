SPECIFICATION MonSpec
CONSTANTS
  Threads = {t1, t2}
  Groups = {g1, g2}
  Fds <- MCFds
  Sizes <- MCSizes
  EventSets <- MCEventSets
  SupportSets <- MCSupportSets
  NoThread = NoThread
  NoGroup = NoGroup
SYMMETRY Symmetric
INVARIANTS CountersAreOurs EveryFdAccounted
