SPECIFICATION MCSpec
CONSTANTS
  game = game
  other = other
  NoFile = NoFile
  Files = {game, other}
  Missing = {}
  FileSize <- Sizes
  Offsets = {0}
  BadOffsets = {0}
  BufSize = 3
  SectorSize = 2
  ScratchAddress = 99
  SlowHost = TRUE
  ReadsMayFail = FALSE
INVARIANT WrongIsReported
