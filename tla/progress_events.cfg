SPECIFICATION EventsSpec
CONSTANTS
  Sources = {s1, s2}
  Nobody = Nobody
  Maintainers = {m1}
  LastEvent = 1
  MaxEvents = 2
  OutboxLimit = 1
  MaxSourceFaults = 1
  Hosts = {h1, h2}
  Home = h1
  SameNames = FALSE
  LaterBy = "worker"
  MaxClears = 0
  LastSecond = 0
  MaxLedgerFaults = 1
  AlarmRunners = {r1}
  Expected = {r1}
  Jobs = {j1}
  Takers = {r1}
  AlarmAfter = 1
  SweepAge = 1
  MAX_ATTEMPTS = 2
  MaxForgeChanges = 2
  MaxAlarmFaults = 1
  LastHappening = 2
  Leads = 1
  Lags = 1
  MaxBacklog = 1
  MaxHistoryFaults = 1
PROPERTIES
  EventIsRecorded EventArrives AlarmsSettle RunsAreSettled
CHECK_DEADLOCK FALSE
