\* One browser, the watcher and an operator.
SPECIFICATION Spec
CONSTANTS
  b1 = b1
  other = other
  plain = plain
  secured = secured
  broken = broken
  default = default
  blank = blank
  Browsers <- OneBrowser
  Watcher = watcher
  Bodies <- AllBodies
  Secured = {secured}
  Broken = {broken}
  Invalid = {}
  Backups = {plain}
  Pieces = {plain, broken}
  Default = default
  Blank = blank
  NoFile = nofile
  NoRev = norev
  Nobody = nobody
  MaxChanges = 2
  MaxTokens = 10
  MaxTornTokens = 3
INVARIANTS
  TypeOK
  MemoryAgrees
  HalfFileIsOfAReload
PROPERTIES
  EverySaveEnds
  StaleOnlyByRace
