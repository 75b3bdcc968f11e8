SPECIFICATION Spec
CONSTANTS
  foo = foo
  bar = bar
  baz = baz
  TOTAL_BLOCKS = 14
  OVERHEAD_BLOCKS = 1
  MaxDrift = 25
  INODES = 2
  DIRECT_POINTERS = 1
  BLOCK_PTRS = 2
  BLOCK_CELLS = 2
  Names = {foo}
  Data = {v}
  Pids = {p1}
  NUM_TABLES = 1
  TABLE_SIZE = 1
  Paths <- DeepPaths
  MkdirPaths = {}
  Fds = {0}
  ReadLens = {}
  WriteLens = {1, 4}
  SeekOffsets = {}
INVARIANTS
  BlocksHaveOnePlace
PROPERTIES
  LostOnlyOutside
  WritesExact
