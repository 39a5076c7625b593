SPECIFICATION Spec
CONSTANTS
  Blocks <- MCBlocks
  Faultiness = {FALSE, TRUE}
  MaxAppends = 4
INVARIANTS
  StorageTypeOK
  AckedBlocksReadBack
PROPERTIES
  ImplementsLog
  ReadsAreStable
