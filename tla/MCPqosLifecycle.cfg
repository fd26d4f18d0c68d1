CONSTANTS
  Main = Main  t1 = t1  t2 = t2
  NoThread = NoThread
  Threads = {Main, t1, t2}
  Machines <- MCMachines
  MaxLives = 3
  MaxFaults = 1
SPECIFICATION Spec
SYMMETRY Symmetry
INVARIANTS TypeOK InitAllOrNothing RunsWhereItDid TopologyIsTheMachines UsesLiveCapabilities
PROPERTY ImplementsService
