SPECIFICATION EitherSpec
CONSTANTS
  Attachers = {a1}
  Launch = Launch
  Nobody = Nobody
  FeedCap = 3
INVARIANTS
  AttachTypeOK
  FailureLeavesNothing
  SessionIsServed
  ServesOneSession
  SmokeLeavesNoFixture
PROPERTIES
  HeldUntilHooked
  ConnectEnds
  NoOrphanHook
  AttachEnds
  SmokeReturns
