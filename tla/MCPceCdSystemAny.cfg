SPECIFICATION Spec
CONSTANTS
  NumTracks = 2
  TrackStart <- GapStart
  TrackEnd <- GapEnd
  TrackKind <- GapKind
  SeekTicks = {1}
  AudioDelayTicks = 2
  MountTicks = 1
  HuVideoBlocks = 3
  SherlockBlocks = 2
  SherlockTicks = 1
  LbaBound = 5
  LoadResults = {"mounted", "missing", "failed"}
  Chunks = 2
  FifoCap = 3
  Commands <- AnyCommands
  ReqMod = 5
  MaxResets = 2
  PatientReset = TRUE
  CarefulConsole = FALSE
INVARIANTS
  NoSecondAnswer
  IndexTracksLba
  MountNotified
