\* A page loaded while the configuration changes overwrites the change.
SPECIFICATION Spec
CONSTANTS
  b1 = b1
  other = other
  plain = plain
  secured = secured
  broken = broken
  default = default
  blank = blank
  Browsers <- OneBrowser
  Watcher = watcher
  Bodies <- PlainBodies
  Secured = {}
  Broken = {}
  Invalid = {}
  Backups = {}
  Pieces = {}
  Default = default
  Blank = blank
  NoFile = nofile
  NoRev = norev
  Nobody = nobody
  MaxChanges = 2
  MaxTokens = 10
  MaxTornTokens = 3
PROPERTY
  NoLostUpdate
