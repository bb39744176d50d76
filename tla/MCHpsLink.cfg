SPECIFICATION LinkSpec
CONSTANTS
  ReqMod = 4
  MaxPosts = 2
  Statuses = {0, 513}
  Regions = {FALSE, TRUE}
  Mounts = {0, 1}
  Blocks <- MCBlocks
  Frames <- MCFrames
  BusyWords <- MCBusyWords
  Gap = 3
INVARIANTS
  TornIsReread
  BlockWhole
PROPERTIES
  FramesArrive
  FramesEnd
  ReplyIsToThisWord
  StatusWhole
  LastMessageActedOn
