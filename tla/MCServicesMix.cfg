SPECIFICATION ServicesSpec
CONSTANTS
  Services = {"pair"}
  Clients = {"a", "b", "c"}
  MaxTokens = 2
  MaxFails = 0
  DaemonCalls = {"d1", "d2", "d3"}
  MaxStuck = 1
INVARIANT OwnTokensOnly
