SPECIFICATION Spec
CONSTANTS
  Songs = {}
  NoSong = NoSong
  MaxSessions = 3
  InboxCap = 1
INVARIANTS
  SessionsTypeOK
PROPERTIES
  ConnectingEnds
  LetGoMeansUnhooked
  ExitNoticed
