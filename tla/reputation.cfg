SPECIFICATION Spec
CONSTANTS
  Bounties = {b1, b2}
  Ratings = {0, 100}
  Handlers = {h1, h2}
  BadgeAt = 2
  MaxEvents = 4
SYMMETRY Symmetry
CHECK_DEADLOCK FALSE
INVARIANTS
  TypeOK
  NothingInvented
  RankedHasWon
  SequentialIsExact
  QualityIsAnAverage
