SPECIFICATION SmokeSpec
CONSTANT
  FeedCap = 3
INVARIANT
  SmokeKillsOnlyItsFixture
