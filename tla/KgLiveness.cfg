SPECIFICATION Spec
CONSTANTS
  Songs = {s1}
  NoSong = NoSong
  Threads = {t1}
  NoThread = NoThread
  Regions = {r1}
  NoRegion = NoRegion
  Windows = {"Standard", "LiveShow"}
  QueueCap = 1
  EventsCap = 1
  CommandsCap = 1
  InboxCap = 1
  MaxId = 2
  MaxFailures = 1
  ExtractionFails = FALSE
  AddressReuse = FALSE
  DetourFails = FALSE
PROPERTIES
  TimelineShown
  StartAnswered
  ShutdownHonoured
