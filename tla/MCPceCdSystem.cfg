SPECIFICATION Spec
CONSTANTS
  NumTracks = 3
  TrackStart <- MCStart
  TrackEnd <- MCEnd
  TrackKind <- MCKind
  SeekTicks = {1, 3}
  AudioDelayTicks = 2
  MountTicks = 1
  HuVideoBlocks = 3
  SherlockBlocks = 2
  SherlockTicks = 1
  LbaBound = 5
  LoadResults = {"mounted", "failed"}
  Chunks = 2
  FifoCap = 2
  Commands <- SoundCommands
  ReqMod = 5
  MaxResets = 1
  PatientReset = TRUE
  CarefulConsole = TRUE
INVARIANTS
  TypeOK
  OneAnswer
  AnswerComplete
  CheckConditionExplained
PROPERTIES
  CommandKept
  ServiceGiven
