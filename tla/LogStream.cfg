SPECIFICATION StreamSpec
CONSTANTS
  Retentions <- MCRetentions
  Chunk = 2
  MaxWrite = 3
  MaxTotal = 7
INVARIANTS
  LogDelivered
PROPERTIES
  ReaderReturns
