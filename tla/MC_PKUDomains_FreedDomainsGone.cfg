CONSTANTS
  NUM_DOMAINS = 3
  NUM_MPROTECT_RANGES = 4
  PAGESIZE = 4096

SPECIFICATION Spec


INVARIANTS
  FreedDomainsGone
