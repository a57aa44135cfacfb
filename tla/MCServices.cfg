SPECIFICATION FairServicesSpec
CONSTANTS
  Services = {"serve", "pair", "queue", "daemon", "loader"}
  Clients = {"a", "b", "c"}
  MaxTokens = 2
  MaxFails = 1
  DaemonCalls = {"d1", "d2", "d3"}
  MaxStuck = 1
INVARIANTS
  OneThreadServes
  SupervisorOwnsItsChild
PROPERTY EveryCallEnds
