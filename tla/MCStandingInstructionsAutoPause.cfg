CONSTANTS
  rent = rent
  gym = gym
  Instructions <- MCInstructions
  Period <- MCPeriod
  EndAt <- MCEndAt
  MaxSiFailures = 2
  MaxFailureCount = 2
  MaxTime = 3
  MaxFaults = 1
  MaxCrashes = 1
SPECIFICATION Spec
PROPERTIES
  NoAutoPause
