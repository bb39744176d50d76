SPECIFICATION FairSpec
CONSTANTS
  NumTracks = 3
  TrackStart <- MCStart
  TrackEnd <- MCEnd
  TrackKind <- MCKind
  SeekTicks = {1}
  AudioDelayTicks = 0
  MountTicks = 1
  HuVideoBlocks = 3
  SherlockBlocks = 2
  SherlockTicks = 1
  LbaBound = 5
  LoadResults = {"mounted", "failed"}
  Chunks = 2
  FifoCap = 3
  Commands <- LiveCommands
  ReqMod = 5
  MaxResets = 1
  PatientReset = TRUE
  CarefulConsole = TRUE
PROPERTIES
  CommandAnswered
  ResetServed
