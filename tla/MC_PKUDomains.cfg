\* The free path with 6 domains, so that key allocation reaches a hundred
\* states, and a range table one slot longer than PKUPkeyFree checks.
CONSTANTS
  NUM_DOMAINS = 6
  NUM_MPROTECT_RANGES = 7
  PAGESIZE = 4096

SPECIFICATION Spec

INVARIANTS
  TypeOK
