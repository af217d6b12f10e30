SPECIFICATION FairSpec
CONSTANTS
  Files = {f1, f2}
  NoFile = NoFile
  ChannelCap = 1
  MaxCrashes = 1
CHECK_DEADLOCK FALSE
INVARIANTS TypeOK NothingIsLost DuplicatesNeedAFailure
PROPERTIES EventsAreTaken ImplementsRelay
