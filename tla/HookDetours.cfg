SPECIFICATION HookSpec
CONSTANTS
  Songs = {s1}
  NoSong = NoSong
  Threads = {t1}
  NoThread = NoThread
  Regions = {r1}
  NoRegion = NoRegion
  Windows = {"Standard", "LiveShow"}
  QueueCap = 1
  EventsCap = 1
  CommandsCap = 1
  MaxId = 1
  MaxFailures = 0
  ExtractionFails = FALSE
  AddressReuse = FALSE
  DetourFails = TRUE
INVARIANTS
  TypeOK
  FailClosed
  ActiveMeansDetoured
PROPERTIES
  RenderReturns
  HostGoneUnhooks
