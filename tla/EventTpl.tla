------------------------------- MODULE EventTpl -------------------------------
(***************************************************************************)
(* Events and task priority levels of the DXE core                         *)
(* (MdeModulePkg/Core/Dxe/Event/Event.c, Tpl.c and Library/Library.c).     *)
(*                                                                         *)
(* One processor runs a stack of activations: the application, the notify  *)
(* functions the core calls, the core services those call, and the timer   *)
(* interrupt handler.  Only the top activation executes.  Each step is a   *)
(* piece of code that no interrupt can split: a critical section under     *)
(* gEventQueueLock (TPL_HIGH_LEVEL, interrupts off) up to the CoreRestoreTpl *)
(* its release calls, or one access outside the lock.  Between two steps   *)
(* an interrupt may arrive whenever interrupts are on.                     *)
(***************************************************************************)
EXTENDS Naturals, SequencesExt

CONSTANTS
  Event,               \* the IEVENT structures the allocator can hand out
  NoEvent,             \* not an event
  NotifySignal,        \* events whose Type has EVT_NOTIFY_SIGNAL
  NotifyWait,          \* events whose Type has EVT_NOTIFY_WAIT
  NotifyTpl,           \* Event->NotifyTpl, 0 where there is no notify function
  EventGroup,          \* Event->EventGroup
  NoGroup,             \* the event has no EVT_EXFLAG_EVENT_GROUP
  gIdleLoopEvent,      \* created by CoreInitializeEventServices
  mEfiCheckTimerEvent, \* created by CoreInitializeTimer
  Registrable,         \* events drivers may pass to RegisterProtocolNotify
  WaitArray,           \* the UserEvents array the application waits on
  Tpl,                 \* the task priority levels in use
  MaxIrq,              \* bound: interrupt handlers on the stack at one time
  MaxEvents            \* bound: IEVENT structures in use at one time

TPL_APPLICATION == 4
TPL_NOTIFY      == 16
TPL_HIGH_LEVEL  == 31

ASSUME TplAssumption ==
  /\ Tpl \subseteq 0 .. TPL_HIGH_LEVEL
  /\ {TPL_APPLICATION, TPL_HIGH_LEVEL} \subseteq Tpl

ASSUME EventAssumption ==
  /\ NoEvent \notin Event
  /\ NotifySignal \subseteq Event /\ NotifyWait \subseteq Event
  /\ NotifySignal \cap NotifyWait = {}
  /\ NotifyTpl \in [Event -> Tpl \cup {0}]
  /\ \A e \in NotifySignal \cup NotifyWait :
        TPL_APPLICATION < NotifyTpl[e] /\ NotifyTpl[e] < TPL_HIGH_LEVEL
  /\ DOMAIN EventGroup = Event

ASSUME CoreEventAssumption ==
  /\ gIdleLoopEvent \in NotifySignal
  /\ mEfiCheckTimerEvent \in NotifySignal \ {gIdleLoopEvent}
  /\ EventGroup[mEfiCheckTimerEvent] = NoGroup
  /\ Registrable \subseteq NotifySignal \ {gIdleLoopEvent, mEfiCheckTimerEvent}
  /\ WaitArray \in Seq(Event) /\ WaitArray # <<>>
  /\ MaxIrq \in Nat /\ MaxEvents \in Nat

VARIABLES
  gEfiCurrentTpl,     \* the current task priority level
  interrupts,         \* the processor takes interrupts
  gEventQueue,        \* per level, the events whose notify function is due
  gEventPending,      \* the levels whose pending bit is set
  gEventSignalQueue,  \* the EVT_NOTIFY_SIGNAL events, latest created first
  SignalCount,        \* Event->SignalCount
  live,               \* events whose Signature is EVENT_SIGNATURE
  registered,         \* events on a protocol's notify list
  Link,               \* CoreNotifySignalList: position in gEventSignalQueue
  Index,              \* CoreWaitForEvent: position in UserEvents
  stack               \* the activations, the running one last

vars == <<gEfiCurrentTpl, interrupts, gEventQueue, gEventPending,
          gEventSignalQueue, SignalCount, live, registered, Link, Index, stack>>

queues    == <<gEventQueue, gEventPending, SignalCount>>
lifetimes == <<gEventSignalQueue, live, registered>>
cursors   == <<Link, Index>>

-----------------------------------------------------------------------------
(* Activations.  lvl is the task priority level the code had when the      *)
(* activation was made and has again when it resumes; for "run" it is the  *)
(* level the notify function was called at, for "restore" and "set" the    *)
(* NewTpl argument, for "disp" the Priority argument.                      *)

Pc == {"run",      \* a notify function (ev), or the application (NoEvent)
       "restore",  \* CoreRestoreTpl, at the head of its loop
       "set",      \* CoreRestoreTpl, after its loop
       "disp",     \* CoreDispatchEventNotifies, about to take the lock
       "call",     \* CoreDispatchEventNotifies, about to call NotifyFunction
       "irq",      \* the timer interrupt handler
       "group",    \* CoreSignalEvent, lock released to signal ev's group
       "list",     \* CoreNotifySignalList, holding the lock
       "relock",   \* CoreSignalEvent, about to retake the lock
       "queue",    \* CoreCheckEvent, about to lock and queue the wait notify
       "check",    \* CoreCheckEvent, about to look at SignalCount again
       "clear",    \* CoreCheckEvent, about to lock and clear SignalCount
       "closing",  \* CoreCloseEvent, lock released, Signature not yet 0
       "wait",     \* CoreWaitForEvent, about to check UserEvents[Index]
       "waited",   \* CoreWaitForEvent, CoreCheckEvent returned EFI_NOT_READY
       "waitok"}   \* CoreWaitForEvent, CoreCheckEvent returned EFI_SUCCESS

Frame(pc, e, l) == [pc |-> pc, ev |-> e, lvl |-> l]

Top          == stack[Len(stack)]
Return       == Front(stack)
Push(f)      == Append(stack, f)
Goto(f)      == Append(Front(stack), f)

Running(pc)  == Top.pc = pc
Mentions(e)  == \E i \in 1 .. Len(stack) : stack[i].ev = e
Closing      == {e \in Event : \E i \in 1 .. Len(stack) :
                                  stack[i].pc = "closing" /\ stack[i].ev = e}
Handlers     == {i \in 1 .. Len(stack) : stack[i].pc = "irq"}

(* The end of every critical section: CoreReleaseLock calls CoreRestoreTpl *)
(* with the level the lock's owner had, still at TPL_HIGH_LEVEL.           *)
CoreReleaseEventLock(s) ==
  /\ gEfiCurrentTpl' = TPL_HIGH_LEVEL
  /\ interrupts' = FALSE
  /\ stack' = Append(s, Frame("restore", NoEvent, gEfiCurrentTpl))

-----------------------------------------------------------------------------
(* List and bitmask operations.                                            *)

HighBitSet64(S) == CHOOSE p \in S : \A q \in S : q <= p

Position(s, e) == CHOOSE i \in 1 .. Len(s) : s[i] = e

RemoveEntryList(s, e) ==
  IF \E i \in 1 .. Len(s) : s[i] = e THEN RemoveAt(s, Position(s, e)) ELSE s

(* Mutant: the event is not unlinked before it is queued again.            *)
CoreNotifyEventKeepsLink(e) ==
  /\ gEventQueue' = [gEventQueue EXCEPT ![NotifyTpl[e]] = Append(@, e)]
  /\ gEventPending' = gEventPending \cup {NotifyTpl[e]}

CoreNotifyEvent(e) ==
  /\ gEventQueue' = [gEventQueue EXCEPT
                       ![NotifyTpl[e]] = Append(RemoveEntryList(@, e), e)]
  /\ gEventPending' = gEventPending \cup {NotifyTpl[e]}

-----------------------------------------------------------------------------
Init ==
  /\ gEfiCurrentTpl = TPL_APPLICATION
  /\ interrupts = TRUE
  /\ gEventQueue = [t \in Tpl |-> <<>>]
  /\ gEventPending = {}
  /\ gEventSignalQueue = <<gIdleLoopEvent, mEfiCheckTimerEvent>>
  /\ SignalCount = [e \in Event |-> 0]
  /\ live = {gIdleLoopEvent, mEfiCheckTimerEvent}
  /\ registered = {}
  /\ Link = 1
  /\ Index = 1
  /\ stack = <<Frame("run", NoEvent, TPL_APPLICATION)>>

-----------------------------------------------------------------------------
(* The task priority level: gBS->RaiseTPL and gBS->RestoreTPL.             *)

CoreRaiseTpl(NewTpl) ==
  /\ Running("run") /\ gEfiCurrentTpl < NewTpl
  /\ gEfiCurrentTpl' = NewTpl
  /\ interrupts' = (interrupts /\ NewTpl < TPL_HIGH_LEVEL)
  /\ UNCHANGED <<queues, lifetimes, cursors, stack>>

(* A caller restores a level RaiseTPL returned to it, so never one below   *)
(* the level its own activation started at.                                *)
CoreRestoreTpl(NewTpl) ==
  /\ Running("run") /\ Top.lvl <= NewTpl /\ NewTpl <= gEfiCurrentTpl
  /\ stack' = Push(Frame("restore", NoEvent, NewTpl))
  /\ UNCHANGED <<gEfiCurrentTpl, interrupts, queues, lifetimes, cursors>>

(* Mutant: events at NewTpl itself are dispatched too.                     *)
RestoreTplDispatchInclusive ==
  LET PendingTpl == HighBitSet64(gEventPending)
  IN  /\ Running("restore")
      /\ \E t \in gEventPending : t >= Top.lvl
      /\ gEfiCurrentTpl' = PendingTpl
      /\ interrupts' = (interrupts \/ PendingTpl < TPL_HIGH_LEVEL)
      /\ stack' = Push(Frame("disp", NoEvent, PendingTpl))
      /\ UNCHANGED <<queues, lifetimes, cursors>>

RestoreTplDispatch ==
  LET PendingTpl == HighBitSet64(gEventPending)
  IN  /\ Running("restore")
      /\ \E t \in gEventPending : t > Top.lvl
      /\ gEfiCurrentTpl' = PendingTpl
      /\ interrupts' = (interrupts \/ PendingTpl < TPL_HIGH_LEVEL)
      /\ stack' = Push(Frame("disp", NoEvent, PendingTpl))
      /\ UNCHANGED <<queues, lifetimes, cursors>>

RestoreTplExitLoop ==
  /\ Running("restore")
  /\ \A t \in gEventPending : t <= Top.lvl
  /\ stack' = Goto(Frame("set", NoEvent, Top.lvl))
  /\ UNCHANGED <<gEfiCurrentTpl, interrupts, queues, lifetimes, cursors>>

(* Mutant: the level is left where the last dispatch put it.               *)
RestoreTplSetForgotten ==
  /\ Running("set")
  /\ interrupts' = (interrupts \/ Top.lvl < TPL_HIGH_LEVEL)
  /\ stack' = Return
  /\ UNCHANGED <<gEfiCurrentTpl, queues, lifetimes, cursors>>

RestoreTplSet ==
  /\ Running("set")
  /\ gEfiCurrentTpl' = Top.lvl
  /\ interrupts' = (interrupts \/ Top.lvl < TPL_HIGH_LEVEL)
  /\ stack' = Return
  /\ UNCHANGED <<queues, lifetimes, cursors>>

-----------------------------------------------------------------------------
(* CoreDispatchEventNotifies.                                              *)

(* Mutant: SignalCount is left set when the event leaves its queue.        *)
DispatchNextKeepsSignal ==
  /\ Running("disp")
  /\ gEventQueue[Top.lvl] # <<>>
  /\ CoreReleaseEventLock(Push(Frame("call", Head(gEventQueue[Top.lvl]), Top.lvl)))
  /\ gEventQueue' = [gEventQueue EXCEPT ![Top.lvl] = Tail(@)]
  /\ UNCHANGED <<gEventPending, SignalCount, lifetimes, cursors>>

(* Mutant: the pending bit is cleared with every event, not with the last. *)
DispatchNextClearsBit ==
  /\ Running("disp")
  /\ gEventQueue[Top.lvl] # <<>>
  /\ LET e == Head(gEventQueue[Top.lvl])
     IN  /\ SignalCount' = IF e \in NotifySignal
                             THEN [SignalCount EXCEPT ![e] = 0]
                             ELSE SignalCount
         /\ CoreReleaseEventLock(Push(Frame("call", e, Top.lvl)))
  /\ gEventQueue' = [gEventQueue EXCEPT ![Top.lvl] = Tail(@)]
  /\ gEventPending' = gEventPending \ {Top.lvl}
  /\ UNCHANGED <<lifetimes, cursors>>

DispatchNext ==
  /\ Running("disp")
  /\ gEventQueue[Top.lvl] # <<>>
  /\ LET e == Head(gEventQueue[Top.lvl])
     IN  /\ SignalCount' = IF e \in NotifySignal
                             THEN [SignalCount EXCEPT ![e] = 0]
                             ELSE SignalCount
         /\ CoreReleaseEventLock(Push(Frame("call", e, Top.lvl)))
  /\ gEventQueue' = [gEventQueue EXCEPT ![Top.lvl] = Tail(@)]
  /\ UNCHANGED <<gEventPending, lifetimes, cursors>>

DispatchCall ==
  /\ Running("call")
  /\ stack' = Goto(Frame("run", Top.ev, Top.lvl))
  /\ UNCHANGED <<gEfiCurrentTpl, interrupts, queues, lifetimes, cursors>>

(* A notify function returns at the level it was called at.                *)
NotifyReturn ==
  /\ Running("run") /\ Len(stack) > 1 /\ gEfiCurrentTpl = Top.lvl
  /\ stack' = Return
  /\ UNCHANGED <<gEfiCurrentTpl, interrupts, queues, lifetimes, cursors>>

(* Mutant: the dispatcher leaves its loop with events still queued.        *)
DispatchDoneEarly ==
  /\ Running("disp")
  /\ gEventPending' = gEventPending \ {Top.lvl}
  /\ CoreReleaseEventLock(Return)
  /\ UNCHANGED <<gEventQueue, SignalCount, lifetimes, cursors>>

DispatchDone ==
  /\ Running("disp")
  /\ gEventQueue[Top.lvl] = <<>>
  /\ gEventPending' = gEventPending \ {Top.lvl}
  /\ CoreReleaseEventLock(Return)
  /\ UNCHANGED <<gEventQueue, SignalCount, lifetimes, cursors>>

-----------------------------------------------------------------------------
(* CoreSignalEvent, called from activation s.  Signalling an event that    *)
(* belongs to a group drops the lock before it walks gEventSignalQueue.    *)

Grouped(e) == e \in NotifySignal /\ EventGroup[e] # NoGroup

(* Mutant: SignalCount counts the signals.                                 *)
SignalCounts(e, s) ==
  /\ SignalCount' = [SignalCount EXCEPT ![e] = @ + 1]
  /\ IF e \in NotifySignal /\ ~Grouped(e)
       THEN CoreNotifyEvent(e)
       ELSE UNCHANGED <<gEventQueue, gEventPending>>
  /\ CoreReleaseEventLock(IF Grouped(e)
                            THEN Append(s, Frame("group", e, gEfiCurrentTpl))
                            ELSE s)

Signal(e, s) ==
  \/ /\ SignalCount[e] # 0
     /\ CoreReleaseEventLock(s)
     /\ UNCHANGED queues
  \/ /\ SignalCount[e] = 0
     /\ SignalCount' = [SignalCount EXCEPT ![e] = 1]
     /\ IF e \in NotifySignal /\ ~Grouped(e)
          THEN CoreNotifyEvent(e)
          ELSE UNCHANGED <<gEventQueue, gEventPending>>
     /\ CoreReleaseEventLock(IF Grouped(e)
                               THEN Append(s, Frame("group", e, gEfiCurrentTpl))
                               ELSE s)

(* The caller holds a valid event that nobody is closing.                  *)
CoreSignalEvent(e) ==
  /\ Running("run")
  /\ e \in live \ Closing
  /\ Signal(e, stack)
  /\ UNCHANGED <<lifetimes, cursors>>

NotifySignalListLock ==
  /\ Running("group")
  /\ gEfiCurrentTpl' = TPL_HIGH_LEVEL
  /\ interrupts' = FALSE
  /\ Link' = 1
  /\ stack' = Goto(Frame("list", Top.ev, gEfiCurrentTpl))
  /\ UNCHANGED <<queues, lifetimes, Index>>

NotifySignalListStep ==
  /\ Running("list") /\ Link <= Len(gEventSignalQueue)
  /\ LET e == gEventSignalQueue[Link]
     IN  IF EventGroup[e] = EventGroup[Top.ev]
           THEN CoreNotifyEvent(e)
           ELSE UNCHANGED <<gEventQueue, gEventPending>>
  /\ Link' = Link + 1
  /\ UNCHANGED <<gEfiCurrentTpl, interrupts, SignalCount, lifetimes, Index, stack>>

NotifySignalListUnlock ==
  /\ Running("list") /\ Link > Len(gEventSignalQueue)
  /\ Link' = 1
  /\ stack' = Append(Goto(Frame("relock", Top.ev, Top.lvl)),
                     Frame("restore", NoEvent, Top.lvl))
  /\ UNCHANGED <<gEfiCurrentTpl, interrupts, queues, lifetimes, Index>>

SignalRelock ==
  /\ Running("relock")
  /\ CoreReleaseEventLock(Return)
  /\ UNCHANGED <<queues, lifetimes, cursors>>

-----------------------------------------------------------------------------
(* CoreCheckEvent, called from activation s, for an event that is valid.   *)

Check(e, s) ==
  /\ e \notin NotifySignal
  /\ LET first == IF SignalCount[e] = 0 /\ e \in NotifyWait THEN "queue" ELSE "check"
     IN  stack' = Append(s, Frame(first, e, gEfiCurrentTpl))
  /\ UNCHANGED <<gEfiCurrentTpl, interrupts>>

CoreCheckEvent(e) ==
  /\ Running("run")
  /\ e \in live \ Closing
  /\ Check(e, stack)
  /\ UNCHANGED <<queues, lifetimes, cursors>>

CheckQueue ==
  /\ Running("queue")
  /\ IF SignalCount[Top.ev] = 0
       THEN CoreNotifyEvent(Top.ev)
       ELSE UNCHANGED <<gEventQueue, gEventPending>>
  /\ CoreReleaseEventLock(Goto(Frame("check", Top.ev, Top.lvl)))
  /\ UNCHANGED <<SignalCount, lifetimes, cursors>>

CheckAgain ==
  /\ Running("check")
  /\ stack' = IF SignalCount[Top.ev] # 0
                THEN Goto(Frame("clear", Top.ev, Top.lvl))
                ELSE Return
  /\ UNCHANGED <<gEfiCurrentTpl, interrupts, queues, lifetimes, cursors>>

(* EFI_SUCCESS goes back to CoreWaitForEvent if that is the caller.        *)
CheckClear ==
  LET caller   == Last(Return)
      answered == IF caller.pc = "waited" /\ SignalCount[Top.ev] # 0
                    THEN Append(Front(Return), Frame("waitok", NoEvent, caller.lvl))
                    ELSE Return
  IN  /\ Running("clear")
      /\ SignalCount' = [SignalCount EXCEPT ![Top.ev] = 0]
      /\ CoreReleaseEventLock(answered)
      /\ UNCHANGED <<gEventQueue, gEventPending, lifetimes, cursors>>

-----------------------------------------------------------------------------
(* CoreWaitForEvent, by the application.                                   *)

CoreWaitForEvent ==
  /\ Running("run") /\ gEfiCurrentTpl = TPL_APPLICATION
  /\ ToSet(WaitArray) \subseteq live \ Closing
  /\ Index' = 1
  /\ stack' = Push(Frame("wait", NoEvent, TPL_APPLICATION))
  /\ UNCHANGED <<gEfiCurrentTpl, interrupts, queues, lifetimes, Link>>

WaitCheck ==
  /\ Running("wait")
  /\ Check(WaitArray[Index], Goto(Frame("waited", NoEvent, Top.lvl)))
  /\ UNCHANGED <<queues, lifetimes, cursors>>

WaitNotReady ==
  /\ Running("waited") /\ Index < Len(WaitArray)
  /\ Index' = Index + 1
  /\ stack' = Goto(Frame("wait", NoEvent, Top.lvl))
  /\ UNCHANGED <<gEfiCurrentTpl, interrupts, queues, lifetimes, Link>>

WaitIdle ==
  /\ Running("waited") /\ Index = Len(WaitArray)
  /\ Index' = 1
  /\ Signal(gIdleLoopEvent, Goto(Frame("wait", NoEvent, Top.lvl)))
  /\ UNCHANGED <<lifetimes, Link>>

(* EFI_SUCCESS, or EFI_INVALID_PARAMETER for an EVT_NOTIFY_SIGNAL event.   *)
WaitReturn ==
  /\ \/ Running("waitok")
     \/ Running("wait") /\ WaitArray[Index] \in NotifySignal
  /\ Index' = 1
  /\ stack' = Return
  /\ UNCHANGED <<gEfiCurrentTpl, interrupts, queues, lifetimes, Link>>

-----------------------------------------------------------------------------
(* Creation and closing.  Both use the pool, whose lock is at TPL_NOTIFY.  *)

Core == {gIdleLoopEvent, mEfiCheckTimerEvent}

CoreCreateEvent(e) ==
  /\ Running("run") /\ gEfiCurrentTpl <= TPL_NOTIFY
  /\ e \notin live /\ ~Mentions(e) /\ Cardinality(live) < MaxEvents
  /\ live' = live \cup {e}
  /\ SignalCount' = [SignalCount EXCEPT ![e] = 0]
  /\ gEventSignalQueue' = IF e \in NotifySignal
                            THEN <<e>> \o gEventSignalQueue
                            ELSE gEventSignalQueue
  /\ CoreReleaseEventLock(stack)
  /\ UNCHANGED <<gEventQueue, gEventPending, registered, cursors>>

(* The owner closes an event at or below its NotifyTpl, when no service it *)
(* passed the event to is still running.  A notify function may close its  *)
(* own event, and nothing keeps an owner from closing an event whose       *)
(* notify function the dispatcher is about to call.                        *)
OwnerMayClose(e) ==
  /\ Running("run") /\ gEfiCurrentTpl <= TPL_NOTIFY
  /\ e \in live \ Core
  /\ e \in NotifySignal \cup NotifyWait => gEfiCurrentTpl <= NotifyTpl[e]
  /\ \A i \in 1 .. Len(stack) :
        /\ stack[i].ev = e => stack[i].pc \in {"run", "call"}
        /\ stack[i].pc \in {"wait", "waited"} => e \notin ToSet(WaitArray)

(* Mutant: the event stays on the notify queue.                            *)
CoreCloseEventKeepsLink(e) ==
  /\ OwnerMayClose(e)
  /\ gEventSignalQueue' = RemoveEntryList(gEventSignalQueue, e)
  /\ CoreReleaseEventLock(Push(Frame("closing", e, gEfiCurrentTpl)))
  /\ UNCHANGED <<queues, live, registered, cursors>>

CoreCloseEvent(e) ==
  /\ OwnerMayClose(e)
  /\ gEventQueue' = [gEventQueue EXCEPT
                       ![NotifyTpl[e]] = RemoveEntryList(@, e)]
  /\ gEventSignalQueue' = RemoveEntryList(gEventSignalQueue, e)
  /\ CoreReleaseEventLock(Push(Frame("closing", e, gEfiCurrentTpl)))
  /\ UNCHANGED <<gEventPending, SignalCount, live, registered, cursors>>

(* CoreUnregisterProtocolNotify, then Signature = 0 and CoreFreePool.  The *)
(* fields of a freed IEVENT mean nothing; creation zeroes them again.      *)
FreeEvent ==
  /\ Running("closing")
  /\ registered' = registered \ {Top.ev}
  /\ live' = live \ {Top.ev}
  /\ stack' = Return
  /\ SignalCount' = [SignalCount EXCEPT ![Top.ev] = 0]
  /\ UNCHANGED <<gEfiCurrentTpl, interrupts, gEventQueue, gEventPending,
                 gEventSignalQueue, cursors>>

CoreRegisterProtocolNotify(e) ==
  /\ Running("run") /\ gEfiCurrentTpl <= TPL_NOTIFY
  /\ e \in (live \ Closing) \ registered
  /\ registered' = registered \cup {e}
  /\ UNCHANGED <<gEfiCurrentTpl, interrupts, queues, gEventSignalQueue, live,
                 cursors, stack>>

(* Installing a protocol signals the events on its notify list, whatever   *)
(* their owners are doing with them.                                       *)
CoreNotifyProtocolEntry(e) ==
  /\ Running("run") /\ gEfiCurrentTpl <= TPL_NOTIFY
  /\ e \in registered
  /\ Signal(e, stack)
  /\ UNCHANGED <<lifetimes, cursors>>

-----------------------------------------------------------------------------
(* The timer interrupt.  The handler raises to TPL_HIGH_LEVEL, calls       *)
(* CoreTimerTick (which may signal mEfiCheckTimerEvent), restores the      *)
(* level it interrupted, and returns.  Interrupts come back on inside that *)
(* RestoreTPL, so handlers can nest.                                       *)

Interrupt(tick) ==
  /\ interrupts /\ Cardinality(Handlers) < MaxIrq
  /\ IF tick /\ SignalCount[mEfiCheckTimerEvent] = 0
       THEN /\ SignalCount' = [SignalCount EXCEPT ![mEfiCheckTimerEvent] = 1]
            /\ CoreNotifyEvent(mEfiCheckTimerEvent)
       ELSE UNCHANGED queues
  /\ CoreReleaseEventLock(Push(Frame("irq", NoEvent, gEfiCurrentTpl)))
  /\ UNCHANGED <<lifetimes, cursors>>

InterruptReturn ==
  /\ Running("irq")
  /\ interrupts' = TRUE
  /\ stack' = Return
  /\ UNCHANGED <<gEfiCurrentTpl, queues, lifetimes, cursors>>

-----------------------------------------------------------------------------
(* What the core does by itself, what it is asked for, and the clock.      *)

CoreStep ==
  \/ RestoreTplDispatch \/ RestoreTplExitLoop \/ RestoreTplSet
  \/ DispatchNext \/ DispatchCall \/ DispatchDone
  \/ NotifySignalListLock \/ NotifySignalListStep \/ NotifySignalListUnlock
  \/ SignalRelock
  \/ CheckQueue \/ CheckAgain \/ CheckClear
  \/ WaitCheck \/ WaitNotReady \/ WaitIdle \/ WaitReturn
  \/ FreeEvent
  \/ InterruptReturn

Service ==
  \/ \E t \in Tpl : CoreRaiseTpl(t) \/ CoreRestoreTpl(t)
  \/ \E e \in Event : \/ CoreSignalEvent(e) \/ CoreCheckEvent(e)
                      \/ CoreCreateEvent(e) \/ CoreCloseEvent(e)
                      \/ CoreNotifyProtocolEntry(e)
  \/ \E e \in Registrable : CoreRegisterProtocolNotify(e)
  \/ CoreWaitForEvent

Next ==
  \/ CoreStep
  \/ Service
  \/ NotifyReturn
  \/ \E tick \in BOOLEAN : Interrupt(tick)

Spec == Init /\ [][Next]_vars

-----------------------------------------------------------------------------
(* Correctness.                                                            *)

Queued(e) == \E t \in Tpl : \E i \in 1 .. Len(gEventQueue[t]) : gEventQueue[t][i] = e

(* The state the C types and the allocator allow. *)
TypeOK ==
  /\ gEfiCurrentTpl \in Tpl
  /\ interrupts \in BOOLEAN
  /\ gEventQueue \in [Tpl -> Seq(Event)]
  /\ gEventPending \subseteq Tpl
  /\ gEventSignalQueue \in Seq(NotifySignal)
  /\ SignalCount \in [Event -> {0, 1}]
  /\ live \subseteq Event
  /\ registered \subseteq Event
  /\ Link \in Nat \ {0}
  /\ Index \in 1 .. Len(WaitArray)
  /\ stack \in Seq([pc : Pc, ev : Event \cup {NoEvent}, lvl : Tpl])
  /\ stack # <<>>

(* gEventQueue (Event.c:31-33): an event waits at its own NotifyTpl and    *)
(* nowhere else, once, however often it was signalled, checked, signalled  *)
(* with its group, dispatched and signalled again in between.              *)
QueuedOnceAtNotifyTpl ==
  \A t \in Tpl : \A i \in 1 .. Len(gEventQueue[t]) :
    /\ NotifyTpl[gEventQueue[t][i]] = t
    /\ \A j \in 1 .. Len(gEventQueue[t]) :
         gEventQueue[t][i] = gEventQueue[t][j] => i = j

(* gEventPending (Event.c:35-38): a level with a queued event has its bit  *)
(* set, though the bit is cleared by a dispatcher that dropped the lock    *)
(* for every notify function it called.                                    *)
QueuedIsPending ==
  \A t \in Tpl : gEventQueue[t] # <<>> => t \in gEventPending

(* CR (..., EVENT_SIGNATURE) in CoreDispatchEventNotifies (Event.c:181):   *)
(* an event on a queue has not been closed and freed; nor has one between  *)
(* the moment the dispatcher took it off its queue and the call of its     *)
(* NotifyFunction (Event.c:196-200), where the lock is free and interrupts *)
(* are on.                                                                 *)
QueuedIsLive ==
  /\ \A t \in Tpl : \A i \in 1 .. Len(gEventQueue[t]) : gEventQueue[t][i] \in live
  /\ \A i \in 1 .. Len(stack) : stack[i].pc = "call" => stack[i].ev \in live

(* CoreSignalEvent (Event.c:551-570): a signalled EVT_NOTIFY_SIGNAL event  *)
(* is never forgotten.  Its notify function is due, or the activation that *)
(* signalled it has still to walk the group list over it, or it is being   *)
(* closed: otherwise SignalCount would stay 1 and no later signal would    *)
(* ever queue it again.                                                    *)
WalkPending(e) ==
  \E i \in 1 .. Len(stack) :
    /\ Grouped(e) /\ stack[i].ev \in Event
    /\ EventGroup[stack[i].ev] = EventGroup[e]
    /\ \/ stack[i].pc = "group"
       \/ /\ stack[i].pc = "list"
          /\ \E k \in Link .. Len(gEventSignalQueue) : gEventSignalQueue[k] = e

SignalNotLost ==
  \A e \in (live \cap NotifySignal) \ Closing :
    SignalCount[e] = 1 => Queued(e) \/ WalkPending(e)

(* ASSERT (gEventQueueLock.OwnerTpl == Priority), Event.c:173, and the     *)
(* ASSERT of Tpl.c:109-112: each time the dispatcher takes the lock, also  *)
(* after the notify functions and interrupts in between, it is at the      *)
(* level it dispatches; and no CoreRestoreTpl restores a level above the   *)
(* current one.                                                            *)
TplAssertions ==
  /\ Running("disp") => gEfiCurrentTpl = Top.lvl
  /\ Running("restore") \/ Running("set") => Top.lvl <= gEfiCurrentTpl

(* The TPL rule: a notify function is entered at its own NotifyTpl and     *)
(* interrupts only activations at lower levels; two notify functions of    *)
(* one level are never both on the stack.                                  *)
NotifyNesting ==
  LET Functions == {i \in 1 .. Len(stack) : stack[i].pc = "run"}
  IN  /\ \A i \in Functions :
           stack[i].ev \in Event => stack[i].lvl = NotifyTpl[stack[i].ev]
      /\ \A i, j \in Functions : i < j => stack[i].lvl < stack[j].lvl

(* Tpl.c:51-53, "High level is implemented by disabling processor          *)
(* interrupts": interrupts are off exactly at TPL_HIGH_LEVEL.              *)
HighLevelMasksInterrupts == interrupts <=> gEfiCurrentTpl < TPL_HIGH_LEVEL

(* Every event whose notify function is due is eventually dispatched, even *)
(* one queued by an interrupt just as CoreRestoreTpl was done dispatching, *)
(* and without the help of a further interrupt.                            *)
NotifyDue == \A e \in Event : Queued(e) ~> ~Queued(e)
=============================================================================
