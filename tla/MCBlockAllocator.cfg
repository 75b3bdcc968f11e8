SPECIFICATION Spec
CONSTANTS
  TOTAL_BLOCKS = 7
  OVERHEAD_BLOCKS = 2
  Callers = {c1, c2}
  MaxDrift = 8
INVARIANTS
  TypeOK
  BitmapExact
  FreeBlocksExact
  LastBlockNeverUsed
  RefusalExplained
PROPERTIES
  NeverReassigned
  DriftNeverRepaired
SYMMETRY CallerSymmetry
