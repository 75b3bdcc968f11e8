SPECIFICATION ListingSpec
CONSTANTS
  foo = foo
  bar = bar
  baz = baz
  TOTAL_BLOCKS = 6
  OVERHEAD_BLOCKS = 1
  MaxDrift = 4
  INODES = 5
  DIRECT_POINTERS = 1
  BLOCK_PTRS = 2
  BLOCK_CELLS = 2
  Names = {foo, bar, baz}
  Data = {}
  Pids = {p1, p2}
  NUM_TABLES = 2
  TABLE_SIZE = 1
  Paths <- SharedPaths
  MkdirPaths <- SharedMkdirPaths
  Fds = {0}
  ReadLens = {}
  WriteLens = {}
  SeekOffsets = {}
INVARIANTS
  PassedEntriesShown
PROPERTIES
  ShowsNewEntries
  ImplementsFileSystem
SYMMETRY PidSymmetry
