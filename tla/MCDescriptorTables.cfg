SPECIFICATION Spec
CONSTANTS
  Pids = {p1, p2, p3}
  NUM_TABLES = 2
  TABLE_SIZE = 2
  Inodes <- MCInodes
  Fds <- MCFds
  Offsets <- MCOffsets
INVARIANTS
  TypeOK
  EntriesConsistent
  OneTablePerPid
  UnownedTablesEmpty
PROPERTIES
  NewcomersShutOut
  ImplementsOpenFiles
SYMMETRY PidSymmetry
