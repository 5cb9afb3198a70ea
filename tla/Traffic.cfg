SPECIFICATION TrafficSpec
CONSTANTS
  Callers = {c1, c2}
  Devs = {d1}
  TickSec = 5
  StopTicks = 10
  Slots = 2
  MaxFetch = 1
  MaxBytes = 0
  MaxResets = 0
  NoDev = NoDev
  NoCaller = NoCaller
  LanCallers = {"c1"}
  LanFlows <- MCFlows
  LanTickSec = 1
  LanStopTicks = 2
  LanSlots = 1
  MaxFlowBytes = 1
  MaxFaults = 1
INVARIANTS
  TickAhead
  
  LanStatsCorrect
PROPERTIES
  EveryCallAnswered
  EverySamplerStops
