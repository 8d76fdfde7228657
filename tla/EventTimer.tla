------------------------------ MODULE EventTimer ------------------------------
(***************************************************************************)
(* Timer events of the DXE core (MdeModulePkg/Core/Dxe/Event/Timer.c), on  *)
(* top of the events and task priority levels of EventTpl.                 *)
(*                                                                         *)
(* The timer list is edited at TPL_HIGH_LEVEL - 1 (mEfiTimerLock) with     *)
(* interrupts on, while the timer interrupt reads its head; so CoreSetTimer *)
(* and CoreCheckTimers are split wherever an interrupt may see the list.   *)
(* Every step is a step of EventTpl, or leaves its variables alone.        *)
(***************************************************************************)
EXTENDS EventTpl

CONSTANTS
  Timers,      \* events whose Type has EVT_TIMER
  Delays,      \* the TriggerTime arguments passed to SetTimer
  TickPeriod,  \* what gTimer->GetTimerPeriod answers
  Durations,   \* what the timer driver passes to CoreTimerTick
  MaxTime      \* bound: the system time stops there, the ticks go on

TPL_TIMER == TPL_HIGH_LEVEL - 1

ASSUME TimerAssumption ==
  /\ TPL_TIMER \in Tpl /\ NotifyTpl[mEfiCheckTimerEvent] = TPL_TIMER
  /\ Timers \subseteq Event \ {gIdleLoopEvent, mEfiCheckTimerEvent}
  /\ Delays \subseteq Nat /\ Durations \subseteq Nat \ {0}
  /\ TickPeriod \in Nat \ {0} /\ MaxTime \in Nat

VARIABLES
  mEfiSystemTime,  \* ticks counted since initialisation
  mEfiTimerList,   \* the armed timers, earliest first
  TriggerTime,     \* Event->Timer.TriggerTime
  Period,          \* Event->Timer.Period
  op,              \* the timer function that owns mEfiTimerLock
  canceller        \* per event, the depth of the CoreCloseEvent that has
                   \* cancelled its timer and not yet gone on, or 0

timerVars == <<mEfiSystemTime, mEfiTimerList, TriggerTime, Period>>
allVars   == <<vars, timerVars, op, canceller>>

-----------------------------------------------------------------------------
(* op: the event worked on, the system time read, the level mEfiTimerLock  *)
(* was taken at, and the arguments of CoreSetTimer; kind "close" is the    *)
(* TimerCancel of CoreCloseEvent.                                          *)

Idle == [pc |-> "none", kind |-> "check", ev |-> NoEvent, now |-> 0,
         owner |-> TPL_TIMER, delay |-> 0, period |-> 0]

OpPc == {"none",
         \* CoreSetTimer
         "remove", "lockTime", "readTime", "insert", "fire", "unlock",
         \* CoreCheckTimers
         "lockNow", "readNow", "loop", "signal", "advance", "again", "rearm"}

At(pc)     == Running("run") /\ op.pc = pc
Then(pc)   == op' = [op EXCEPT !.pc = pc]
Cancelling == {e \in Event : canceller[e] # 0}
Free       == op.pc = "none" /\ \A e \in Event : canceller[e] # Len(stack)

(* CoreInsertEventTimer: after every timer that triggers no later.         *)
InsertEventTimer(e, trigger) ==
  LET list  == mEfiTimerList
      later == {k \in 1 .. Len(list) : TriggerTime[list[k]] > trigger}
      at    == IF later = {} THEN Len(list) + 1
               ELSE CHOOSE k \in later : \A j \in later : k <= j
  IN  InsertAt(list, at, e)

-----------------------------------------------------------------------------
TimerInit ==
  /\ Init
  /\ mEfiSystemTime = 0
  /\ mEfiTimerList = <<>>
  /\ TriggerTime = [e \in Event |-> 0]
  /\ Period = [e \in Event |-> 0]
  /\ op = Idle
  /\ canceller = [e \in Event |-> 0]

-----------------------------------------------------------------------------
(* CoreSetTimer.  The caller holds a valid timer event that nobody closes. *)

(* Mutant: events that are no timers are accepted.                         *)
AcquireTimerLockUnchecked(kind, e, delay, period) ==
  /\ Running("run") /\ Top.ev # mEfiCheckTimerEvent /\ Free
  /\ gEfiCurrentTpl <= TPL_TIMER
  /\ e \in live \ (Closing \cup Cancelling)
  /\ IF gEfiCurrentTpl = TPL_TIMER THEN UNCHANGED vars ELSE CoreRaiseTpl(TPL_TIMER)
  /\ op' = [pc |-> "remove", kind |-> kind, ev |-> e, now |-> 0,
            owner |-> gEfiCurrentTpl, delay |-> delay, period |-> period]
  /\ UNCHANGED <<timerVars, canceller>>

(* Mutant: mEfiTimerLock is a lock at TPL_NOTIFY.                          *)
AcquireTimerLockLow(kind, e, delay, period) ==
  /\ Running("run") /\ Top.ev # mEfiCheckTimerEvent /\ Free
  /\ e \in (Timers \cap live) \ (Closing \cup Cancelling)
  /\ IF gEfiCurrentTpl = TPL_NOTIFY THEN UNCHANGED vars ELSE CoreRaiseTpl(TPL_NOTIFY)
  /\ op' = [pc |-> "remove", kind |-> kind, ev |-> e, now |-> 0,
            owner |-> gEfiCurrentTpl, delay |-> delay, period |-> period]
  /\ UNCHANGED <<timerVars, canceller>>

AcquireTimerLock(kind, e, delay, period) ==
  /\ Running("run") /\ Top.ev # mEfiCheckTimerEvent /\ Free
  /\ gEfiCurrentTpl <= TPL_TIMER
  /\ e \in (Timers \cap live) \ (Closing \cup Cancelling)
  /\ IF gEfiCurrentTpl = TPL_TIMER THEN UNCHANGED vars ELSE CoreRaiseTpl(TPL_TIMER)
  /\ op' = [pc |-> "remove", kind |-> kind, ev |-> e, now |-> 0,
            owner |-> gEfiCurrentTpl, delay |-> delay, period |-> period]
  /\ UNCHANGED <<timerVars, canceller>>

CoreSetTimer(e) ==
  \/ AcquireTimerLock("cancel", e, 0, 0)
  \/ \E t \in Delays :
        \/ AcquireTimerLock("relative", e, t, 0)
        \/ LET p == IF t = 0 THEN TickPeriod ELSE t
           IN  AcquireTimerLock("periodic", e, p, p)

SetTimerRemove ==
  /\ At("remove")
  /\ mEfiTimerList' = RemoveEntryList(mEfiTimerList, op.ev)
  /\ TriggerTime' = [TriggerTime EXCEPT ![op.ev] = 0]
  /\ Period' = [Period EXCEPT ![op.ev] = op.period]
  /\ Then(IF op.kind \in {"cancel", "close"} THEN "unlock" ELSE "lockTime")
  /\ UNCHANGED <<vars, mEfiSystemTime, canceller>>

(* CoreCurrentSystemTime, under mEfiSystemTimeLock (TPL_HIGH_LEVEL).       *)
LockSystemTime ==
  /\ At("lockTime") \/ At("lockNow")
  /\ CoreRaiseTpl(TPL_HIGH_LEVEL)
  /\ Then(IF op.pc = "lockTime" THEN "readTime" ELSE "readNow")
  /\ UNCHANGED <<timerVars, canceller>>

ReadSystemTime ==
  /\ At("readTime") \/ At("readNow")
  /\ op' = [op EXCEPT !.pc = IF @ = "readTime" THEN "insert" ELSE "loop",
                      !.now = mEfiSystemTime]
  /\ CoreRestoreTpl(TPL_TIMER)
  /\ UNCHANGED <<timerVars, canceller>>

SetTimerInsert ==
  /\ At("insert")
  /\ TriggerTime' = [TriggerTime EXCEPT ![op.ev] = op.now + op.delay]
  /\ mEfiTimerList' = InsertEventTimer(op.ev, op.now + op.delay)
  /\ Then(IF op.delay = 0 THEN "fire" ELSE "unlock")
  /\ UNCHANGED <<vars, mEfiSystemTime, Period, canceller>>

(* CoreSetTimer and CoreCheckTimers signal mEfiCheckTimerEvent.            *)
SignalCheckTimers ==
  /\ At("fire") \/ At("again")
  /\ CoreSignalEvent(mEfiCheckTimerEvent)
  /\ Then(IF op.pc = "fire" THEN "unlock" ELSE "rearm")
  /\ UNCHANGED <<timerVars, canceller>>

(* Mutant: the level is lowered without CoreRestoreTpl.                    *)
ReleaseTimerLockPlain ==
  /\ At("unlock")
  /\ gEfiCurrentTpl' = op.owner
  /\ canceller' = IF op.kind = "close"
                    THEN [canceller EXCEPT ![op.ev] = Len(stack)]
                    ELSE canceller
  /\ op' = Idle
  /\ UNCHANGED <<interrupts, queues, lifetimes, cursors, stack, timerVars>>

ReleaseTimerLock ==
  /\ At("unlock")
  /\ CoreRestoreTpl(op.owner)
  /\ canceller' = IF op.kind = "close"
                    THEN [canceller EXCEPT ![op.ev] = Len(stack)]
                    ELSE canceller
  /\ op' = Idle
  /\ UNCHANGED timerVars

-----------------------------------------------------------------------------
(* CoreCheckTimers, the notify function of mEfiCheckTimerEvent.  It reads  *)
(* the time once, and ticks go on while it walks the list.                 *)

StartCheckTimers ==
  /\ Running("call") /\ Top.ev = mEfiCheckTimerEvent
  /\ DispatchCall
  /\ op' = [Idle EXCEPT !.pc = "lockNow"]
  /\ UNCHANGED <<timerVars, canceller>>

Expired == mEfiTimerList # <<>> /\ TriggerTime[Head(mEfiTimerList)] <= op.now

CheckTimersRemove ==
  /\ At("loop") /\ Expired
  /\ mEfiTimerList' = Tail(mEfiTimerList)
  /\ op' = [op EXCEPT !.pc = "signal", !.ev = Head(mEfiTimerList)]
  /\ UNCHANGED <<vars, mEfiSystemTime, TriggerTime, Period, canceller>>

CheckTimersSignal ==
  /\ At("signal")
  /\ CoreSignalEvent(op.ev)
  /\ Then(IF Period[op.ev] # 0 THEN "advance" ELSE "loop")
  /\ UNCHANGED <<timerVars, canceller>>

CheckTimersAdvance ==
  /\ At("advance")
  /\ LET next == TriggerTime[op.ev] + Period[op.ev]
     IN  /\ TriggerTime' = [TriggerTime EXCEPT
                              ![op.ev] = IF next <= op.now THEN op.now ELSE next]
         /\ Then(IF next <= op.now THEN "again" ELSE "rearm")
  /\ UNCHANGED <<vars, mEfiSystemTime, mEfiTimerList, Period, canceller>>

CheckTimersRearm ==
  /\ At("rearm")
  /\ mEfiTimerList' = InsertEventTimer(op.ev, TriggerTime[op.ev])
  /\ Then("loop")
  /\ UNCHANGED <<vars, mEfiSystemTime, TriggerTime, Period, canceller>>

CheckTimersDone ==
  /\ At("loop") /\ ~Expired
  /\ CoreRestoreTpl(TPL_TIMER)
  /\ op' = Idle
  /\ UNCHANGED <<timerVars, canceller>>

-----------------------------------------------------------------------------
(* The tick, and closing a timer event.                                    *)

CoreTimerTick(Duration) ==
  LET time == IF mEfiSystemTime + Duration > MaxTime THEN MaxTime
              ELSE mEfiSystemTime + Duration
      due  == mEfiTimerList # <<>> /\ TriggerTime[Head(mEfiTimerList)] <= time
  IN  /\ mEfiSystemTime' = time
      /\ Interrupt(due)
      /\ UNCHANGED <<mEfiTimerList, TriggerTime, Period, op, canceller>>

(* CoreCloseEvent once CoreSetTimer (Event, TimerCancel, 0) has returned.  *)
(* Mutant: CoreCloseEvent does not cancel the timer.                       *)
CloseUncancelled(e) ==
  /\ Free
  /\ CoreCloseEvent(e)
  /\ UNCHANGED <<timerVars, op, canceller>>

CloseCancelled(e) ==
  /\ op.pc = "none" /\ canceller[e] = Len(stack)
  /\ CoreCloseEvent(e)
  /\ canceller' = [canceller EXCEPT ![e] = 0]
  /\ UNCHANGED <<timerVars, op>>

(* A driver asks for a service, or a notify function returns.              *)
DriverStep ==
  /\ Running("run") /\ Top.ev # mEfiCheckTimerEvent /\ Free
  /\ \/ \E t \in Tpl : CoreRaiseTpl(t) \/ CoreRestoreTpl(t)
     \/ \E e \in Event \ {mEfiCheckTimerEvent} :
          \/ CoreSignalEvent(e) \/ CoreCheckEvent(e)
          \/ CoreCreateEvent(e)
          \/ e \notin Timers /\ CoreCloseEvent(e)
     \/ CoreWaitForEvent
     \/ NotifyReturn
  /\ UNCHANGED <<timerVars, op, canceller>>

CheckTimersReturn ==
  /\ Running("run") /\ Top.ev = mEfiCheckTimerEvent /\ op.pc = "none"
  /\ NotifyReturn
  /\ UNCHANGED <<timerVars, op, canceller>>

OtherCoreStep ==
  /\ ~(Running("call") /\ Top.ev = mEfiCheckTimerEvent)
  /\ CoreStep
  /\ UNCHANGED <<timerVars, op, canceller>>

TimerStep ==
  \/ SetTimerRemove \/ LockSystemTime \/ ReadSystemTime \/ SetTimerInsert
  \/ SignalCheckTimers \/ ReleaseTimerLock
  \/ StartCheckTimers \/ CheckTimersRemove \/ CheckTimersSignal
  \/ CheckTimersAdvance \/ CheckTimersRearm \/ CheckTimersDone \/ CheckTimersReturn

TimerNext ==
  \/ TimerStep
  \/ OtherCoreStep
  \/ DriverStep
  \/ \E e \in Event : \/ CoreSetTimer(e)
                      \/ OwnerMayClose(e) /\ AcquireTimerLock("close", e, 0, 0)
                      \/ CloseCancelled(e)
  \/ \E d \in Durations : CoreTimerTick(d)

TimerSpec == TimerInit /\ [][TimerNext]_allVars

(* For liveness: notify functions ask for no services (one that signals    *)
(* its own event for ever starves the levels below, and may); the core and *)
(* the notify functions go on when no interrupt does; the application ends *)
(* what it has begun and goes on restoring levels, as every service that   *)
(* takes a lock does.  Ticks may go on or stop; those at the bound leave   *)
(* the core time to finish.                                                *)
Ticks == \E d \in Durations : gEfiCurrentTpl = TPL_APPLICATION /\ CoreTimerTick(d)

QuietTimerNext ==
  \/ TimerStep
  \/ OtherCoreStep
  \/ DriverStep /\ (Len(stack) = 1 \/ NotifyReturn)
  \/ \E e \in Event : Len(stack) = 1 /\ CoreSetTimer(e)
  \/ \E d \in Durations : mEfiSystemTime < MaxTime /\ CoreTimerTick(d)
  \/ Ticks

TimerLiveSpec ==
  /\ TimerInit /\ [][QuietTimerNext]_allVars
  /\ WF_allVars(TimerStep \/ OtherCoreStep \/ (DriverStep /\ NotifyReturn))
  /\ SF_allVars(Len(stack) = 1 /\ TimerStep)
  /\ SF_allVars(Len(stack) = 1 /\ DriverStep /\ CoreRestoreTpl(TPL_APPLICATION))

-----------------------------------------------------------------------------
(* Correctness.                                                            *)

TimerTypeOK ==
  /\ mEfiSystemTime \in 0 .. MaxTime
  /\ mEfiTimerList \in Seq(Timers)
  /\ TriggerTime \in [Event -> Nat]
  /\ Period \in [Event -> Nat]
  /\ op \in [pc : OpPc, kind : {"check", "cancel", "close", "relative", "periodic"},
             ev : Event \cup {NoEvent}, now : Nat, owner : Tpl, delay : Nat,
             period : Nat]
  /\ canceller \in [Event -> Nat]

(* mEfiTimerList (Timer.c:56-67): ascending and without repetition, at     *)
(* every moment the timer interrupt may read its head to decide whether    *)
(* anything has expired, also in the middle of CoreSetTimer; and free of   *)
(* closed events, which the interrupt would follow (CR in CoreTimerTick,   *)
(* Timer.c:217) whatever the driver that closed the event is doing.        *)
TimerListAscends ==
  \A j, k \in 1 .. Len(mEfiTimerList) :
    /\ mEfiTimerList[j] \in live
    /\ j < k => /\ TriggerTime[mEfiTimerList[j]] <= TriggerTime[mEfiTimerList[k]]
                /\ mEfiTimerList[j] # mEfiTimerList[k]

(* ASSERT (Lock->Lock == EfiLockReleased) in CoreAcquireLock (Library.c:71): *)
(* CoreCheckTimers is never called while CoreSetTimer, or itself, is in    *)
(* the middle of editing the list.                                         *)
TimerLockReleased ==
  Running("call") /\ Top.ev = mEfiCheckTimerEvent => op.pc = "none"

(* Every armed timer that has expired is signalled, cancelled or set       *)
(* again as long as ticks go on, even one put on the list after the tick   *)
(* it should have expired at, because CoreSetTimer and CoreCheckTimers     *)
(* read the time earlier.                                                  *)
ExpiredTimersFire ==
  SF_allVars(Ticks) =>
  \A e \in Timers :
    (e \in ToSet(mEfiTimerList) /\ TriggerTime[e] <= mEfiSystemTime)
      ~> ~(e \in ToSet(mEfiTimerList) /\ TriggerTime[e] <= mEfiSystemTime)
=============================================================================
