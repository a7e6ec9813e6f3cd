SPECIFICATION Safety
CONSTANTS
  Songs = {}
  NoSong = NoSong
  MaxSessions = 3
  InboxCap = 1
INVARIANTS
  OneWeSing
