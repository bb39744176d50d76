SPECIFICATION MountSpec
CONSTANTS
  root = root
  deep = deep
  NoSheet = NoSheet
  Sheets <- MCSheets
  PathOf <- MCPathOf
  BinsOf <- MCBinsOf
  OnDisk <- MCOnDisk
  ReadAhead = FALSE
  HostFails = TRUE
  Discs <- MCDiscs
  LostFiles <- MCLostFiles
  FileSize <- MCFileSize
  MaxTracks = 3
  NameSize = 6
  MaxPath = 4
  MaxUnended = 0
  MaxLoads = 2
INVARIANT PathStripped
CHECK_DEADLOCK FALSE
