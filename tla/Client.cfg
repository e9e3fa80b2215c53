\* Two accounts and folders; six operations on two files and one in a
\* subdirectory and two restarts of the watcher; three commands; files of up to
\* three chunks.
SPECIFICATION Spec
CONSTANTS
  Accounts = {ann, bob}
  Folders = {home, other}
  Home = home
  None = None
  Slips = {"refused", "overlap", "gone"}
  RootFiles = {"f", "g"}
  SubFiles = {"h"}
  MaxOps = 6
  MaxStops = 2
  Timing = {}
  Callers = {window, watcher}
  MaxCommands = 3
  Bytes = {x, y}
  Pad = Pad
  LengthByte = LengthByte
  ChunkSize = 3
  MaxLength = 9
INVARIANTS ClientTypeOK MemoryIsTable TerminatesOnly WatchedWhenIn SeenIsFetched
  NamesTracked EditsTracked Restored OneNotFull BufferFits
PROPERTIES EndsOnlyByRemoval InTurn EveryCommandTaken
CHECK_DEADLOCK FALSE
