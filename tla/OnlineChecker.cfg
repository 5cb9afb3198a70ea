SPECIFICATION FairSpec
CONSTANTS
  Requests = {r1, r2}
  Checks = {c1, c2}
  Keys = {k1, k2}
  FeedKeys = {k2}
  CheckOKSec = 2
  CheckFailedSec = 1
  MaxLag = 1
  NoKey = NoKey
INVARIANTS
  SingleCheck
  OutdatedOKOnce
PROPERTIES
  FailureIsCurrent
  CheckEnds
  Converges
