SPECIFICATION FairSpec
CONSTANTS
  Dials = {d1, d2}
  Conns = {c1, c2}
  RegistCap = 1
  NotifyCap = 1
  WriteCap = 1
  Expiry = 2
  MaxBreaks = 1
  NoConn = NoConn
INVARIANTS
  BusSound
  AttachedIsServed
PROPERTIES
  HealthyStaysAttached
  
  Reconnects
CHECK_DEADLOCK FALSE
