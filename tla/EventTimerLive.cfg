SPECIFICATION TimerLiveSpec
CONSTANTS
  idle = idle
  check = check
  notified = notified
  polled = polled
  none = none
  Event = {idle, check, notified, polled}
  NoEvent = none
  NotifySignal <- MCNotifySignal
  NotifyWait = {}
  NotifyTpl <- MCNotifyTpl
  EventGroup <- MCEventGroup
  NoGroup = none
  gIdleLoopEvent = idle
  mEfiCheckTimerEvent = check
  Registrable = {}
  WaitArray <- MCWaitArray
  Tpl = {4, 16, 30, 31}
  MaxIrq = 1
  MaxEvents = 4
  Timers = {notified, polled}
  Delays = {0}
  TickPeriod = 1
  Durations = {2}
  MaxTime = 2
PROPERTIES
  ExpiredTimersFire
  NotifyDue
