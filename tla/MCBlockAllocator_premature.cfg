\* num_empty reaches zero while the disk has empty blocks.
SPECIFICATION Spec
CONSTANTS
  TOTAL_BLOCKS = 7
  OVERHEAD_BLOCKS = 2
  Callers = {c1}
  MaxDrift = 8
INVARIANT RefusedOnlyWhenFull
