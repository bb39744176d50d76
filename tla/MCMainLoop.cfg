SPECIFICATION AllSpec
CONSTANTS
  Range = 50
  MaxTurn = 5
  Resets = TRUE
  Wraps = FALSE
  Targets <- MCTargets
  Stops <- MCStops
  Tracks <- MCTracks
  Files <- MCFiles
  Missing <- MCMissing
  NoticeTime = 3
  InfoTime = 2
  Waits <- MCWaits
  MaxDelay = 2
  MaxEvents = 2
  Words = 7
  Requests = {1, 2, 3}
  StatisticsWhen <- MCStatisticsWhen
INVARIANTS
  NoDrift
  DeadlineNear
  CrossesTheTracks
  FurtherIsLater
  PlaceIsMeant
  ErrorShown
  NoOverlap
  NullMeansFull
PROPERTIES
  NoticeGoes
  Allocates
CHECK_DEADLOCK FALSE
