CONSTANTS
  Pages = {8192, 12288}
  HeapPages = {12288}
  Lengths = {4096, 8192}
  Pkeys = {0, 1}
  Dids = {0, 1}
  PkruWords <- MC_PkruWords
  MaxMmapMemory = 8192
SPECIFICATION Spec
INVARIANTS
  TypeOK
  ReadPKRUDecodes
  MmapAddrMapped
  MemoryAccounted
