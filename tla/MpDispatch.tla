----------------------------- MODULE MpDispatch -----------------------------
(***************************************************************************)
(* The BSP dispatches procedures to the application processors (APs) and   *)
(* collects them: MpLib.c and DxeMpLib.c of UefiCpuPkg/Library/MpInitLib,  *)
(* after MpInitLibInitialize.                                              *)
(*                                                                         *)
(* pc[c] names the next statement of AP c in ApWakeupFunction; bsp names   *)
(* the next statement of the BSP.  Both sides share, without a lock, the   *)
(* state of every AP, its start-up signal and one FinishedCount.  ApLock   *)
(* is held for one store of the state and is left out.                     *)
(*                                                                         *)
(* The BSP makes one call at a time.  CheckApsStatus, which a periodic     *)
(* timer runs, returns at once while a call is in progress                 *)
(* (mStopCheckAllApsStatus), so that it is one more call of the BSP.       *)
(* A time-out may expire at any check of a call that has a time limit.     *)
(*                                                                         *)
(* One FinishedCount serves every AP: the reset of an AP is over for the   *)
(* BSP when any AP has counted itself.  cutShort tells whether a reset was *)
(* over before the AP that is reset had gone through ApWakeupFunction; the *)
(* guarantees end there, and the README says how.                          *)
(***************************************************************************)
EXTENDS Integers, FiniteSets

CONSTANTS
  CpuCount,   \* number of processors
  None,       \* no processor
  Limits,     \* whether calls have a time limit: a set of Booleans
  Excess      \* what callers and platforms do that the code does not cope with

(* "busyCall": a call is made for an AP another call is pending for.       *)
(* "disabledBroadcast": StartupAllAPs is called while an AP is disabled.   *)
(* "noMwait": PcdCpuApLoopMode asks for the MWAIT loop of a processor that *)
(* has none.  "refusedSwitch": SwitchBSP is called for a processor that    *)
(* cannot become the BSP.  "busySwitch": SwitchBSP is called while a call  *)
(* is pending for another AP.                                              *)
Excesses == {"busyCall", "disabledBroadcast", "noMwait", "refusedSwitch", "busySwitch"}

(* Bound: the count stops there.  It is compared with one only.            *)
MaxFinished == 1

CPU == 0 .. CpuCount - 1

ASSUME CpuCountAssumption == CpuCount \in Nat /\ CpuCount > 1
ASSUME NoneAssumption     == None \notin CPU
ASSUME LimitsAssumption   == Limits \subseteq BOOLEAN
ASSUME ExcessAssumption   == Excess \subseteq Excesses

VARIABLES
  pc,                                   \* next statement of every AP
  State, StartupApSignal, ApFunction,   \* CPU_AP_DATA
  Waiting, WaitEvent, limited,          \* CPU_AP_DATA: pending calls; limited is
                                        \* ExpectedTime # 0
  ApTopOfStack,                         \* CPU_INFO_IN_HOB: whose stack
  StartCount, RunningCount, FinishedCount, SingleThread,      \* CPU_MP_DATA
  allWaitEvent, allLimited,             \* WaitEvent and ExpectedTime of StartupAllAPs
  BspNumber, ApLoopMode,                \* CPU_MP_DATA
  pcdLoopMode,                          \* PcdCpuApLoopMode
  ticks,                                \* timer interrupts reach the BSP through its APIC
  bsp, ret,                             \* next statement of the BSP; where WakeUpAP returns
  caller, callee,                       \* the service in progress and its processor
  waking,                               \* the APs WakeUpAP waits for
  job, failed,                          \* why the BSP resets APs, those still to reset
  ran,                                  \* the AP completed what it was sent last
  cutShort                              \* a reset was over for the BSP before it was for the AP

ap    == <<StartupApSignal, ApFunction>>
calls == <<Waiting, WaitEvent, limited, StartCount, RunningCount, SingleThread,
           allWaitEvent, allLimited>>
fixed == <<BspNumber, ApLoopMode, pcdLoopMode, ticks>>
svc   == <<caller, callee>>
reset == <<job, failed, cutShort>>
vars  == <<pc, State, ap, ApTopOfStack, calls, FinishedCount, fixed, bsp, ret, svc, waking,
           reset, ran>>

APs == CPU \ {BspNumber}

(* Mutant: processors are looked for from the last one.                    *)
Greatest(S) == CHOOSE c \in S : \A d \in S : d <= c

(* Loops over processors go from the first one.                            *)
Least(S) == CHOOSE c \in S : \A d \in S : c <= d

Disabled(c) == State[c] = "Disabled"

Callable(c) == c # BspNumber /\ ~Disabled(c)

(* No call is pending for c.                                               *)
Unassigned(c) == ~Waiting[c] /\ ~WaitEvent[c]

InLoop(c) == pc[c] \in {"loop", "halted"}

(* What an AP executes in the state Busy.                                  *)
Procedures == {"task", "futureBsp", "relocate"}

SwitchBspFlag == caller = "switch"

-----------------------------------------------------------------------------
(* WakeUpAP.                                                               *)

(* A procedure of NULL resets the AP (InitFlag is not ApInitDone).         *)
ResetVectorRequired(loopMode, function) == loopMode = "hlt" \/ function = "null"

(* The INIT IPI and the wait for the APs' awakening are statements of      *)
(* their own.                                                              *)
WakeUpAP(targets, function, loopMode, then) ==
  /\ FinishedCount' = 0
  /\ ApFunction' = [c \in CPU |-> IF c \in targets THEN function ELSE ApFunction[c]]
  /\ State' = [c \in CPU |-> IF c \in targets THEN "Ready" ELSE State[c]]
  /\ StartupApSignal' = [c \in CPU |-> c \in targets \/ StartupApSignal[c]]
  /\ ran' = [c \in CPU |-> ran[c] /\ c \notin targets]
  /\ waking' = targets
  /\ bsp' = IF ResetVectorRequired(loopMode, function) THEN "ipi" ELSE "wakeup"
  /\ ret' = then
  /\ UNCHANGED <<pc, ApTopOfStack>>

(* The AP starts over, whatever it was doing.                              *)
SendInitSipiSipi ==
  /\ bsp = "ipi" /\ bsp' = "wakeup"
  /\ pc' = [c \in CPU |-> IF c \in waking THEN "woken" ELSE pc[c]]
  /\ UNCHANGED <<State, ap, ApTopOfStack, calls, FinishedCount, fixed, ret, svc, waking,
                 reset, ran>>

WaitApWakeup ==
  /\ bsp = "wakeup" /\ bsp' = ret /\ ret' = "idle"
  /\ \A c \in waking : ~StartupApSignal[c]
  /\ waking' = {}
  /\ UNCHANGED <<pc, State, ap, ApTopOfStack, calls, FinishedCount, fixed, svc, reset, ran>>

-----------------------------------------------------------------------------
(* CheckAllAPs, CheckThisAP and ResetProcessorToIdleState.                 *)

(* Where the BSP goes on when a call is over or not: the call was pending  *)
(* and is checked by CheckAndUpdateApsStatus, or its caller is waiting.    *)
AfterAll  == IF allWaitEvent THEN "updateThis" ELSE "return"
AfterThis(c) == IF WaitEvent[c] THEN "updateThis" ELSE "return"

CheckAllAPs ==
  LET finished == {c \in CPU : Waiting[c] /\ State[c] = "Finished"}
      left     == {c \in CPU : Waiting[c]} \ finished IN
  /\ bsp = "checkAll"
  /\ RunningCount' = RunningCount + Cardinality(finished)
  /\ Waiting' = [c \in CPU |-> c \in left]
  /\ State' = [c \in CPU |-> IF c \in finished THEN "Idle" ELSE State[c]]
  /\ ran' = [c \in CPU |-> ran[c] /\ c \notin finished]
  /\ bsp' = IF SingleThread /\ finished # {} /\ left # {} THEN "next" ELSE "decide"
  /\ UNCHANGED <<pc, ap, ApTopOfStack, WaitEvent, limited, StartCount, SingleThread,
                 allWaitEvent, allLimited, FinishedCount, fixed, ret, svc, waking, reset>>

(* GetNextWaitingProcessorNumber, in the single thread mode.               *)
WakeUpNext ==
  /\ bsp = "next"
  /\ WakeUpAP({Least({c \in CPU : Waiting[c]})}, "task", ApLoopMode, "decide")
  /\ UNCHANGED <<calls, fixed, svc, reset>>

AllFinished ==
  /\ bsp = "decide" /\ RunningCount = StartCount
  /\ bsp' = AfterAll
  /\ allWaitEvent' = FALSE /\ allLimited' = FALSE
  /\ UNCHANGED <<pc, State, ap, ApTopOfStack, Waiting, WaitEvent, limited, StartCount,
                 RunningCount, SingleThread, FinishedCount, fixed, ret, svc, waking, reset, ran>>

AllNotReady ==
  /\ bsp = "decide" /\ RunningCount # StartCount
  /\ bsp' = IF allWaitEvent THEN "updateThis" ELSE "checkAll"
  /\ UNCHANGED <<pc, State, ap, ApTopOfStack, calls, FinishedCount, fixed, ret, svc, waking,
                 reset, ran>>

(* Mutant: a caller that waits does not look at its time limit.            *)
AllTimeoutPending ==
  /\ bsp = "decide" /\ RunningCount # StartCount /\ allLimited /\ allWaitEvent
  /\ job' = "all" /\ failed' = {c \in CPU : Waiting[c]}
  /\ bsp' = "reset"
  /\ UNCHANGED <<pc, State, ap, ApTopOfStack, calls, FinishedCount, fixed, ret, svc, waking, ran,
                 cutShort>>

AllTimeout ==
  /\ bsp = "decide" /\ RunningCount # StartCount /\ allLimited
  /\ job' = "all" /\ failed' = {c \in CPU : Waiting[c]}
  /\ bsp' = "reset"
  /\ UNCHANGED <<pc, State, ap, ApTopOfStack, calls, FinishedCount, fixed, ret, svc, waking, ran,
                 cutShort>>

(* CheckThisAP, for every pending call or for the one the caller waits on. *)
ThisFinished(c) ==
  /\ \/ bsp = "updateThis" /\ WaitEvent[c] /\ bsp' = bsp
     \/ bsp = "checkThis" /\ c = callee /\ bsp' = "return"
  /\ State[c] = "Finished"
  /\ State' = [State EXCEPT ![c] = "Idle"]
  /\ WaitEvent' = [WaitEvent EXCEPT ![c] = FALSE]
  /\ limited' = [limited EXCEPT ![c] = FALSE]
  /\ ran' = [ran EXCEPT ![c] = FALSE]
  /\ UNCHANGED <<pc, ap, ApTopOfStack, Waiting, StartCount, RunningCount, SingleThread,
                 allWaitEvent, allLimited, FinishedCount, fixed, ret, svc, waking, reset>>

ThisTimeout(c) ==
  /\ \/ bsp = "updateThis" /\ WaitEvent[c]
     \/ bsp = "checkThis" /\ c = callee
  /\ State[c] # "Finished" /\ limited[c]
  /\ job' = "this" /\ failed' = {c}
  /\ bsp' = "reset"
  /\ UNCHANGED <<pc, State, ap, ApTopOfStack, calls, FinishedCount, fixed, ret, svc, waking, ran,
                 cutShort>>

(* ResetProcessorToIdleState.                                              *)
ResetProcessor ==
  /\ bsp = "reset"
  /\ WakeUpAP({Least(failed)}, "null", ApLoopMode, "count")
  /\ UNCHANGED <<calls, fixed, svc, reset>>

(* The AP has nothing left to do in ApWakeupFunction but to count itself.  *)
Restarted(c) == pc[c] \in {"loop", "halted", "counting"}

(* Mutant: the AP keeps the state it has set itself.                       *)
StillFinished(c) == State

IdleAgain(c) == [State EXCEPT ![c] = "Idle"]

(* The reset is over when an AP has counted itself.  CheckAllAPs goes on   *)
(* with the next one and ends its call with the last; the list of the      *)
(* failed APs it returns is left out.                                      *)
ResetToIdle ==
  LET c == Least(failed)
      over == failed = {c} IN
  /\ bsp = "count" /\ FinishedCount >= 1
  /\ State' = IdleAgain(c)
  /\ failed' = failed \ {c}
  /\ Waiting' = IF job = "all" THEN [Waiting EXCEPT ![c] = FALSE] ELSE Waiting
  /\ WaitEvent' = IF job = "this" THEN [WaitEvent EXCEPT ![c] = FALSE] ELSE WaitEvent
  /\ limited' = IF job = "this" THEN [limited EXCEPT ![c] = FALSE] ELSE limited
  /\ allWaitEvent' = (allWaitEvent /\ ~(over /\ job = "all"))
  /\ allLimited' = (allLimited /\ ~(over /\ job = "all"))
  /\ job' = IF over THEN "none" ELSE job
  /\ bsp' = IF ~over THEN "reset"
            ELSE IF job = "all" THEN AfterAll
            ELSE IF job = "this" THEN AfterThis(c) ELSE "return"
  /\ cutShort' = (cutShort \/ ~Restarted(c))
  /\ UNCHANGED <<pc, ap, ApTopOfStack, StartCount, RunningCount, SingleThread,
                 FinishedCount, fixed, ret, svc, waking, ran>>

-----------------------------------------------------------------------------
(* The services.                                                           *)

(* Mutant: the calls of StartupThisAP are looked at after one of           *)
(* StartupAllAPs only.                                                     *)
UpdateAllOnly ==
  IF allWaitEvent THEN "checkAll" ELSE IF caller' = "tick" THEN "return" ELSE "dispatch"

(* Another service starts with CheckAndUpdateApsStatus, as the timer does. *)
Update == IF allWaitEvent THEN "checkAll" ELSE "updateThis"

CheckApsStatus ==
  /\ bsp = "idle" /\ ticks /\ (allWaitEvent \/ \E c \in CPU : WaitEvent[c])
  /\ caller' = "tick" /\ bsp' = Update
  /\ UNCHANGED <<pc, State, ap, ApTopOfStack, calls, FinishedCount, fixed, ret, callee, waking,
                 reset, ran>>

CallStartup(service) ==
  /\ bsp = "idle"
  /\ caller' = service /\ bsp' = Update
  /\ UNCHANGED <<pc, State, ap, ApTopOfStack, calls, FinishedCount, fixed, ret, callee, waking,
                 reset, ran>>

UpdateDone ==
  /\ bsp = "updateThis"
  /\ \A c \in CPU : WaitEvent[c] => State[c] # "Finished"
  /\ bsp' = IF caller = "tick" THEN "return" ELSE "dispatch"
  /\ UNCHANGED <<pc, State, ap, ApTopOfStack, calls, FinishedCount, fixed, ret, svc, waking,
                 reset, ran>>

Return ==
  /\ bsp = "return"
  /\ bsp' = "idle" /\ caller' = "none" /\ callee' = None
  /\ UNCHANGED <<pc, State, ap, ApTopOfStack, calls, FinishedCount, fixed, ret, waking, reset,
                 ran>>

(* EFI_NOT_READY, EFI_NOT_STARTED.                                         *)
RefuseAllAPs ==
  /\ bsp = "dispatch" /\ caller = "all"
  /\ (\E c \in APs : State[c] \notin {"Idle", "Disabled"}) \/ \A c \in APs : Disabled(c)
  /\ bsp' = "return"
  /\ UNCHANGED <<pc, State, ap, ApTopOfStack, calls, FinishedCount, fixed, ret, svc, waking,
                 reset, ran>>

(* StartupAllAPsWorker; the broadcast goes to every AP.                    *)
StartupAllAPs(single, event, limit) ==
  LET enabled == {c \in APs : State[c] = "Idle"} IN
  /\ bsp = "dispatch" /\ caller = "all"
  /\ enabled # {} /\ \A c \in APs : State[c] \in {"Idle", "Disabled"}
  /\ single \/ "disabledBroadcast" \in Excess \/ enabled = APs
  /\ Waiting' = [c \in CPU |-> c \in enabled]
  /\ StartCount' = Cardinality(enabled) /\ RunningCount' = 0
  /\ SingleThread' = single /\ allWaitEvent' = event /\ allLimited' = limit
  /\ WakeUpAP(IF single THEN {Least(enabled)} ELSE APs, "task", ApLoopMode,
              IF event THEN "return" ELSE "checkAll")
  /\ UNCHANGED <<WaitEvent, limited, fixed, svc, reset>>

(* EFI_NOT_FOUND, EFI_INVALID_PARAMETER.                                   *)
RefuseThisAP ==
  /\ bsp = "dispatch" /\ caller = "this"
  /\ bsp' = "return"
  /\ UNCHANGED <<pc, State, ap, ApTopOfStack, calls, FinishedCount, fixed, ret, svc, waking,
                 reset, ran>>

(* StartupThisAPWorker, which looks at no state but Disabled.              *)
StartupThisAP(c, event, limit) ==
  /\ bsp = "dispatch" /\ caller = "this"
  /\ Callable(c)
  /\ "busyCall" \in Excess \/ Unassigned(c)
  /\ WaitEvent' = [WaitEvent EXCEPT ![c] = event]
  /\ limited' = [limited EXCEPT ![c] = limit]
  /\ callee' = c
  /\ WakeUpAP({c}, "task", ApLoopMode, IF event THEN "return" ELSE "checkThis")
  /\ UNCHANGED <<Waiting, StartCount, RunningCount, SingleThread, allWaitEvent, allLimited,
                 fixed, caller, reset>>

(* EnableDisableApWorker.                                                  *)
DisableAP(c) ==
  /\ bsp = "idle" /\ c # BspNumber
  /\ "busyCall" \in Excess \/ Unassigned(c)
  /\ State' = [State EXCEPT ![c] = "Disabled"]
  /\ UNCHANGED <<pc, ap, ApTopOfStack, calls, FinishedCount, fixed, bsp, ret, svc, waking, reset,
                 ran>>

EnableAP(c) ==
  /\ bsp = "idle" /\ c # BspNumber
  /\ "busyCall" \in Excess \/ Unassigned(c)
  /\ caller' = "enable" /\ job' = "enable" /\ failed' = {c} /\ bsp' = "reset"
  /\ UNCHANGED <<pc, State, ap, ApTopOfStack, calls, FinishedCount, fixed, ret, callee, waking,
                 ran, cutShort>>

(* SwitchBSPWorker masks LINT0 and the timer of the local APIC first, and  *)
(* its errors return without unmasking them.                               *)
RefuseSwitchBSP(c) ==
  /\ bsp = "idle" /\ "refusedSwitch" \in Excess
  /\ ~Callable(c) \/ State[c] = "Busy"
  /\ ticks' = FALSE
  /\ UNCHANGED <<pc, State, ap, ApTopOfStack, calls, FinishedCount, BspNumber, ApLoopMode,
                 pcdLoopMode, bsp, ret, svc, waking, reset, ran>>

SwitchBSP(c) ==
  /\ bsp = "idle" /\ Callable(c) /\ State[c] # "Busy"
  /\ "busyCall" \in Excess \/ Unassigned(c)
  /\ "busySwitch" \in Excess \/ \A d \in APs : Unassigned(d)
  /\ caller' = "switch" /\ callee' = c
  /\ WakeUpAP({c}, "futureBsp", ApLoopMode, "exchange")
  /\ UNCHANGED <<calls, fixed, reset>>

(* Mutant: the other of the two gets a new stack.                          *)
ExchangedStacksSwapped == [ApTopOfStack EXCEPT ![callee] = ApTopOfStack[BspNumber]]

(* The old BSP goes on on the stack of the AP.                             *)
ExchangedStacks == [ApTopOfStack EXCEPT ![BspNumber] = ApTopOfStack[callee]]

(* AsmExchangeRole: each of the two goes on where the other was.           *)
ExchangeRole ==
  /\ bsp = "exchange" /\ pc[callee] = "futureBsp"
  /\ bsp' = "exchanged"
  /\ pc' = [pc EXCEPT ![callee] = "bsp", ![BspNumber] = "finishing"]
  /\ ApTopOfStack' = ExchangedStacks
  /\ UNCHANGED <<State, ap, calls, FinishedCount, fixed, ret, svc, waking, reset, ran>>

OldBspFinished(enable) ==
  /\ bsp = "exchanged" /\ State[BspNumber] = "Finished"
  /\ State' = [State EXCEPT ![BspNumber] = IF enable THEN "Idle" ELSE "Disabled"]
  /\ BspNumber' = callee /\ bsp' = "return"
  /\ UNCHANGED <<pc, ap, ApTopOfStack, calls, FinishedCount, ApLoopMode, pcdLoopMode, ticks, ret,
                 svc, waking, reset, ran>>

(* MpInitChangeApLoopCallback, at the end of the boot services.  No call   *)
(* is pending.                                                             *)
ChangeApLoop ==
  /\ bsp = "idle"
  /\ \A c \in APs : Unassigned(c)
  /\ caller' = "exit" /\ ApLoopMode' = pcdLoopMode
  /\ WakeUpAP(APs, "relocate", pcdLoopMode, "relocating")
  /\ UNCHANGED <<calls, BspNumber, pcdLoopMode, ticks, callee, reset>>

ApsRelocated ==
  /\ bsp = "relocating" /\ \A c \in APs : pc[c] = "relocated"
  /\ bsp' = "done" /\ caller' = "none"
  /\ UNCHANGED <<pc, State, ap, ApTopOfStack, calls, FinishedCount, fixed, ret, callee, waking,
                 reset, ran>>

-----------------------------------------------------------------------------
(* ApWakeupFunction.                                                       *)

(* "mwait" is the MWAIT or the run loop, which end with the start-up       *)
(* signal; the HLT loop ends with the INIT IPI only.                       *)
SeeSignal(c) ==
  /\ pc[c] = "loop" /\ StartupApSignal[c]
  /\ pc' = [pc EXCEPT ![c] = "woken"]
  /\ UNCHANGED <<State, ap, ApTopOfStack, calls, FinishedCount, fixed, bsp, ret, svc, waking,
                 reset, ran>>

ClearSignal(c) ==
  /\ pc[c] = "woken"
  /\ pc' = [pc EXCEPT ![c] = "check"]
  /\ StartupApSignal' = [StartupApSignal EXCEPT ![c] = FALSE]
  /\ UNCHANGED <<State, ApFunction, ApTopOfStack, calls, FinishedCount, fixed, bsp, ret, svc,
                 waking, reset, ran>>

(* Mutant: a procedure of NULL is called.                                  *)
ExecutesNull(c) == IF State[c] = "Ready" THEN ApFunction[c] ELSE "counting"

Executes(c) ==
  IF State[c] # "Ready" THEN "counting"
  ELSE IF ApFunction[c] = "null" THEN "finishing" ELSE ApFunction[c]

(* Mutant: the AP is reported finished when it begins.                     *)
FinishedAtOnce(c) == IF Executes(c) \in Procedures THEN "Finished" ELSE State[c]

Executing(c) == IF Executes(c) \in Procedures THEN "Busy" ELSE State[c]

(* Whether it is ready, and the procedure, are read once.  The pointer,    *)
(* which nothing reads before WakeUpAP stores the next, is forgotten.      *)
CheckReady(c) ==
  /\ pc[c] = "check"
  /\ pc' = [pc EXCEPT ![c] = Executes(c)]
  /\ State' = [State EXCEPT ![c] = Executing(c)]
  /\ ApFunction' = [ApFunction EXCEPT ![c] = "null"]
  /\ UNCHANGED <<StartupApSignal, ApTopOfStack, calls, FinishedCount, fixed, bsp, ret, svc,
                 waking, reset, ran>>

(* The procedure returns.  An AP that sees SwitchBspFlag takes itself for  *)
(* one of the two that exchanged their roles.                              *)
ProcedureReturns(c) ==
  /\ pc[c] = "task"
  /\ pc' = [pc EXCEPT ![c] = "finishing"]
  /\ ran' = [ran EXCEPT ![c] = TRUE]
  /\ ApTopOfStack' = IF SwitchBspFlag THEN [ApTopOfStack EXCEPT ![c] = ApTopOfStack[callee]]
                     ELSE ApTopOfStack
  /\ UNCHANGED <<State, ap, calls, FinishedCount, fixed, bsp, ret, svc, waking, reset>>

(* RelocateApLoop does not return.                                         *)
RelocateApLoop(c) ==
  /\ pc[c] = "relocate"
  /\ pc' = [pc EXCEPT ![c] = "relocated"]
  /\ UNCHANGED <<State, ap, ApTopOfStack, calls, FinishedCount, fixed, bsp, ret, svc, waking,
                 reset, ran>>

SetFinished(c) ==
  /\ pc[c] = "finishing"
  /\ pc' = [pc EXCEPT ![c] = "counting"]
  /\ State' = [State EXCEPT ![c] = "Finished"]
  /\ UNCHANGED <<ap, ApTopOfStack, calls, FinishedCount, fixed, bsp, ret, svc, waking, reset,
                 ran>>

CountFinished(c) ==
  /\ pc[c] = "counting"
  /\ pc' = [pc EXCEPT ![c] = IF ApLoopMode = "hlt" THEN "halted" ELSE "loop"]
  /\ FinishedCount' = IF FinishedCount < MaxFinished THEN FinishedCount + 1 ELSE FinishedCount
  /\ UNCHANGED <<State, ap, ApTopOfStack, calls, fixed, bsp, ret, svc, waking, reset, ran>>

ApStep(c) ==
  \/ SeeSignal(c) \/ ClearSignal(c) \/ CheckReady(c) \/ RelocateApLoop(c)
  \/ SetFinished(c) \/ CountFinished(c)

-----------------------------------------------------------------------------
Init ==
  /\ BspNumber = 0 /\ ticks = TRUE
  /\ pcdLoopMode \in {"hlt", "mwait"}
  /\ \/ ApLoopMode = pcdLoopMode
     \/ "noMwait" \in Excess /\ pcdLoopMode = "mwait" /\ ApLoopMode = "hlt"
  /\ pc = [c \in CPU |-> IF c = 0 THEN "bsp" ELSE IF ApLoopMode = "hlt" THEN "halted" ELSE "loop"]
  /\ State = [c \in CPU |-> "Idle"]
  /\ StartupApSignal = [c \in CPU |-> FALSE] /\ ApFunction = [c \in CPU |-> "null"]
  /\ ApTopOfStack = [c \in CPU |-> c]
  /\ Waiting = [c \in CPU |-> FALSE] /\ WaitEvent = [c \in CPU |-> FALSE]
  /\ limited = [c \in CPU |-> FALSE]
  /\ StartCount = 0 /\ RunningCount = 0 /\ FinishedCount = MaxFinished
  /\ SingleThread = FALSE /\ allWaitEvent = FALSE /\ allLimited = FALSE
  /\ bsp = "idle" /\ ret = "idle" /\ caller = "none" /\ callee = None /\ waking = {}
  /\ job = "none" /\ failed = {}
  /\ ran = [c \in CPU |-> FALSE] /\ cutShort = FALSE

(* What the BSP does on its own within a call.                             *)
BspStep ==
  \/ SendInitSipiSipi \/ WaitApWakeup
  \/ CheckAllAPs \/ WakeUpNext \/ AllFinished \/ AllNotReady \/ AllTimeout
  \/ \E c \in CPU : ThisFinished(c) \/ ThisTimeout(c)
  \/ ResetProcessor \/ ResetToIdle
  \/ UpdateDone \/ Return \/ RefuseAllAPs \/ RefuseThisAP
  \/ \E single, event \in BOOLEAN, limit \in Limits : StartupAllAPs(single, event, limit)
  \/ \E c \in CPU, event \in BOOLEAN, limit \in Limits : StartupThisAP(c, event, limit)
  \/ ExchangeRole \/ (\E enable \in BOOLEAN : OldBspFinished(enable)) \/ ApsRelocated

Call ==
  \/ CheckApsStatus \/ CallStartup("all") \/ CallStartup("this")
  \/ \E c \in CPU : DisableAP(c) \/ EnableAP(c) \/ SwitchBSP(c) \/ RefuseSwitchBSP(c)
  \/ ChangeApLoop

(* The operating system has taken over.                                    *)
Done == bsp = "done" /\ UNCHANGED vars

Next == BspStep \/ Call \/ (\E c \in CPU : ApStep(c) \/ ProcedureReturns(c)) \/ Done

Spec == Init /\ [][Next]_vars

HasLimit(c) == (Waiting[c] /\ allLimited) \/ limited[c]

(* For liveness: the processors go on executing; CheckApsStatus runs       *)
(* between the calls of the BSP; a procedure returns, or its call has a    *)
(* time limit that expires.                                                *)
LiveSpec ==
  /\ Spec /\ WF_vars(BspStep) /\ SF_vars(CheckApsStatus) /\ SF_vars(AllTimeout)
  /\ \A c \in CPU : /\ WF_vars(ApStep(c)) /\ SF_vars(ThisTimeout(c))
                    /\ WF_vars(ProcedureReturns(c) /\ ~HasLimit(c))

-----------------------------------------------------------------------------
(* Correctness.                                                            *)

(* The variables of the dispatch have their types.                         *)
TypeOK ==
  /\ pc \in [CPU -> {"bsp", "loop", "halted", "woken", "check", "task", "futureBsp", "relocate",
                     "finishing", "counting", "relocated"}]
  /\ State \in [CPU -> {"Idle", "Ready", "Busy", "Finished", "Disabled"}]
  /\ StartupApSignal \in [CPU -> BOOLEAN]
  /\ ApFunction \in [CPU -> {"null"} \cup Procedures]
  /\ Waiting \in [CPU -> BOOLEAN] /\ WaitEvent \in [CPU -> BOOLEAN]
  /\ limited \in [CPU -> BOOLEAN]
  /\ ApTopOfStack \in [CPU -> CPU]
  /\ StartCount \in Nat /\ RunningCount \in Nat /\ FinishedCount \in Nat
  /\ SingleThread \in BOOLEAN /\ allWaitEvent \in BOOLEAN /\ allLimited \in BOOLEAN
  /\ BspNumber \in CPU
  /\ ticks \in BOOLEAN
  /\ ApLoopMode \in {"hlt", "mwait"} /\ pcdLoopMode \in {"hlt", "mwait"}
  /\ bsp \in {"idle", "ipi", "wakeup", "checkAll", "next", "decide", "updateThis", "checkThis",
              "reset", "count", "dispatch", "return", "exchange", "exchanged", "relocating",
              "done"}
  /\ ret \in {"idle", "decide", "count", "return", "checkAll", "checkThis", "exchange",
              "relocating"}
  /\ caller \in {"none", "tick", "all", "this", "enable", "switch", "exit"}
  /\ callee \in CPU \cup {None} /\ waking \subseteq CPU
  /\ job \in {"none", "all", "this", "enable"} /\ failed \subseteq CPU
  /\ ran \in [CPU -> BOOLEAN] /\ cutShort \in BOOLEAN

(* The call that is pending for c, or whose caller waits for c.            *)
Pending(c) == Waiting[c] \/ WaitEvent[c] \/ (bsp = "checkThis" /\ callee = c)

(* No reset was over for the BSP before it was for the AP.                 *)
Undisturbed == ~cutShort

(* "If it is CpuStateFinished, then the AP has finished its task": what    *)
(* CheckAllAPs and CheckThisAP take for the completion of a call is the    *)
(* completion of the procedure that call has started, as long as no reset  *)
(* was cut short.                                                          *)
FinishedHasRun ==
  Undisturbed =>
    \A c \in CPU : Pending(c) /\ State[c] = "Finished" /\ c \notin failed => ran[c]

(* "All enabled APs are always available for further calls", except after  *)
(* a reset that was cut short: whenever the BSP is back from the service,  *)
(* an AP no call is pending for executes no procedure and is idle, unless  *)
(* it is disabled, also after its procedure was terminated by a time-out   *)
(* while it, or any other AP, was returning.                               *)
ApsAvailable ==
  Undisturbed /\ bsp = "idle" => \A c \in APs : Unassigned(c) =>
    State[c] \in {"Idle", "Disabled"} /\ pc[c] \notin Procedures \cup {"finishing"}

(* "Execute the function one by one, in ascending order": in the single    *)
(* thread mode the only AP that has been started and not collected is the  *)
(* first of those that remain; and between the calls of the BSP, as long   *)
(* as some remain, one has been started, so that the next one's turn comes *)
(* (no reset was cut short).                                               *)
OneByOne ==
  Undisturbed /\ SingleThread =>
    /\ \A c, d \in CPU : Waiting[c] /\ Waiting[d] /\ State[c] # "Idle" => c <= d
    /\ bsp = "idle" /\ (\E c \in CPU : Waiting[c]) =>
         \E c \in CPU : Waiting[c] /\ State[c] # "Idle"

(* The stacks stay distinct through the exchanges of BSP and AP, as long   *)
(* as no reset was cut short.                                              *)
OwnStacks == Undisturbed => \A c, d \in APs : ApTopOfStack[c] = ApTopOfStack[d] => c = d

(* Every call returns: an awakened AP clears its signal, a blocking call   *)
(* ends with its APs or its time limit, the roles are exchanged, and at    *)
(* the end of the boot services every AP leaves the firmware's memory,     *)
(* unless a reset was cut short.                                           *)
CallsReturn == caller # "none" ~> caller = "none" \/ ~Undisturbed

(* "If this AP return from Procedure or TimeoutInMicroSeconds expires,     *)
(* this event is signaled": every event of a call that does not block is,  *)
(* unless a refused SwitchBSP has left the timer interrupts masked or a    *)
(* reset was cut short.                                                    *)
EventsAreSignalled ==
  LET over == bsp = "done" \/ ~ticks \/ ~Undisturbed IN
  /\ allWaitEvent ~> ~allWaitEvent \/ over
  /\ \A c \in CPU : WaitEvent[c] ~> ~WaitEvent[c] \/ over
=============================================================================
