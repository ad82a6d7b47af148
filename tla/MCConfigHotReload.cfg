\* An edit between ReadFile and Stat is never loaded.
SPECIFICATION Spec
CONSTANTS
  b1 = b1
  other = other
  plain = plain
  secured = secured
  broken = broken
  default = default
  blank = blank
  Browsers <- NoBrowser
  Watcher = watcher
  Bodies <- AllBodies
  Secured = {secured}
  Broken = {broken}
  Invalid = {}
  Backups = {}
  Pieces = {}
  Default = default
  Blank = blank
  NoFile = nofile
  NoRev = norev
  Nobody = nobody
  MaxChanges = 2
  MaxTokens = 10
  MaxTornTokens = 3
CHECK_DEADLOCK FALSE
PROPERTY
  HotReload
