SPECIFICATION Spec
CONSTANTS
  foo = foo
  bar = bar
  baz = baz
  TOTAL_BLOCKS = 5
  OVERHEAD_BLOCKS = 1
  MaxDrift = 3
  INODES = 4
  DIRECT_POINTERS = 1
  BLOCK_PTRS = 2
  BLOCK_CELLS = 2
  Names = {foo, bar, baz}
  Data = {}
  Pids = {p1}
  NUM_TABLES = 1
  TABLE_SIZE = 2
  Paths <- NamesPaths
  MkdirPaths <- NamesMkdirPaths
  Fds = {0}
  ReadLens = {}
  WriteLens = {}
  SeekOffsets = {}
INVARIANTS
  TypeOK
  BlocksHaveOnePlace
  CountersExact
  DirectoriesCompact
  DirectoryTree
PROPERTIES
  LostOnlyOutside
  OrphansOnlyFromFailedCreation
  OpenInodesKept
