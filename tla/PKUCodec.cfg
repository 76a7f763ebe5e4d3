\* Every key written with prot 0, so that fifteen calls clear every field
\* and rdpkru reads 0, the value SetPkey replaces by 0x55555554.
CONSTANTS
  Keys = {0, 1, 2, 3, 4, 5, 6, 7, 8, 9, 10, 11, 12, 13, 14, 15}
  Prots = {0}
SPECIFICATION Spec
PROPERTY CodecRefinement
