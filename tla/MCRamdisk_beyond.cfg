\* A write beyond the end leaves a hole and loses a block.
SPECIFICATION Spec
CONSTANTS
  foo = foo
  bar = bar
  baz = baz
  TOTAL_BLOCKS = 7
  OVERHEAD_BLOCKS = 1
  MaxDrift = 4
  INODES = 3
  DIRECT_POINTERS = 1
  BLOCK_PTRS = 2
  BLOCK_CELLS = 2
  Names = {foo, bar}
  Data = {v, w}
  Pids = {p1}
  NUM_TABLES = 1
  TABLE_SIZE = 1
  Paths <- DataPaths
  MkdirPaths = {}
  Fds = {0}
  ReadLens = {2}
  WriteLens = {1, 3}
  SeekOffsets <- DataSeeks
INVARIANT FilesAreContiguous
