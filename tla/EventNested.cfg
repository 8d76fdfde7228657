SPECIFICATION Spec
CONSTANTS
  idle = idle
  check = check
  grouped = grouped
  waitable = waitable
  none = none
  DriverTpl = 16
  Event = {idle, check, grouped, waitable}
  NoEvent = none
  NotifySignal <- MCNotifySignal
  NotifyWait = {waitable}
  NotifyTpl <- MCNotifyTpl
  EventGroup <- MCEventGroup
  NoGroup = none
  gIdleLoopEvent = idle
  mEfiCheckTimerEvent = check
  Registrable = {grouped}
  WaitArray <- MCWaitArray
  Tpl = {4, 16, 30, 31}
  MaxIrq = 2
  MaxEvents = 3
INVARIANTS
  TypeOK
  QueuedOnceAtNotifyTpl
  SignalNotLost
  NotifyNesting
  TplAssertions
  QueuedIsPending
  QueuedIsLive
