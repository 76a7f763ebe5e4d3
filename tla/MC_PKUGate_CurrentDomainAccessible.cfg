CONSTANTS
  NUM_DOMAINS = 3
  NUM_REGISTERED_PKUCALLS = 2
  f1 = f1
  f2 = f2
  Null = Null
  Entries <- MC_Entries
  NoEntry <- Null
  MaxDepth = 2

SPECIFICATION Spec

INVARIANTS
  CurrentDomainAccessible
