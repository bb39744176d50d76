SPECIFICATION MCSpec
CONSTANTS
  game = game
  other = other
  NoFile = NoFile
  Files = {game, other}
  Missing = {}
  FileSize <- Sizes
  Offsets = {0, 3, 5, 8}
  BadOffsets = {0, 8}
  BufSize = 3
  SectorSize = 2
  ScratchAddress = 99
  SlowHost = TRUE
  ReadsMayFail = FALSE
INVARIANTS
  TypeOK
  DeliveredRight
PROPERTY RequestServed
