\* A pointer table behind a null direct pointer is lost with its directory.
SPECIFICATION Spec
CONSTANTS
  foo = foo
  bar = bar
  baz = baz
  TOTAL_BLOCKS = 6
  OVERHEAD_BLOCKS = 1
  MaxDrift = 9
  INODES = 7
  DIRECT_POINTERS = 2
  BLOCK_PTRS = 2
  BLOCK_CELLS = 2
  Names = {foo, bar, baz, qux, quux}
  Data = {}
  Pids = {p1}
  NUM_TABLES = 1
  TABLE_SIZE = 1
  Paths <- StrandedPaths
  MkdirPaths <- StrandedMkdirPaths
  Fds = {}
  ReadLens = {}
  WriteLens = {}
  SeekOffsets = {}
PROPERTIES NothingBehindNull
SYMMETRY StrandedSymmetry
