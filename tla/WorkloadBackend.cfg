SPECIFICATION FairSpec
CONSTANTS
  Plan <- MCPlan
  MaxFaults = 6
INVARIANTS
  SourcesIntact
  ConfinedWhileRunning
  KernelStateOwned
PROPERTIES
  RetainedIsRecovered
