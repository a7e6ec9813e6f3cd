SPECIFICATION Safety
CONSTANTS
  Songs = {s1, s2}
  NoSong = NoSong
  Threads = {t1, t2}
  NoThread = NoThread
  Regions = {r1, r2}
  NoRegion = NoRegion
  Windows = {"Standard"}
  QueueCap = 1
  EventsCap = 1
  CommandsCap = 1
  InboxCap = 1
  MaxId = 2
  MaxFailures = 1
  ExtractionFails = TRUE
  AddressReuse = FALSE
  DetourFails = FALSE
SYMMETRY Symmetry
INVARIANTS
  KgTypeOK
  InOrder
  LossIsCounted
  StreamingIsTrue
  PlaybackOfShownSong
PROPERTIES
  NeverBackwards
  LyricsAreAFeed
