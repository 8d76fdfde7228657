--------------------------- MODULE MpDispatchProofs ---------------------------
(***************************************************************************)
(* Proofs about MpDispatch, for any number of processors: what a call      *)
(* collects is the completion of the procedure it has started, and the     *)
(* processors no call is pending for are available, one after the other    *)
(* in the single thread mode, each on a stack of its own.                  *)
(*                                                                         *)
(* The argument gives every processor a role: what the calls that are      *)
(* pending and the statement of the BSP make of it.  A role bounds what    *)
(* the processor itself may be at (InRole).  A step of an AP keeps its     *)
(* role; a step of the BSP that changes a role does so when the processor  *)
(* is where the new role begins.  One step may not: the end of a reset     *)
(* that any other AP has counted itself for.  The theorems hold until it   *)
(* is taken while the AP being reset is still under way (Undisturbed).     *)
(***************************************************************************)
EXTENDS MpDispatch, FiniteSetTheorems, NaturalsInduction, WellFoundedInduction, TLAPS

(* No caller does what makes the properties fail in MpDispatch: the        *)
(* missing MWAIT and the refused SwitchBSP do not.                         *)
Tame == Excess \cap {"busyCall", "disabledBroadcast", "busySwitch"} = {}

-----------------------------------------------------------------------------
(* The invariant.                                                          *)

(* The statement of the BSP, or the one it goes on with when the           *)
(* processors it is waking are awake.                                      *)
Where == IF bsp \in {"ipi", "wakeup"} THEN ret ELSE bsp

Waited == {c \in CPU : Waiting[c]}

(* The role of a processor.                                                *)
Role(c) ==
  IF c = BspNumber THEN IF Where = "exchanged" THEN "oldBsp" ELSE "bsp"
  ELSE IF Where \in {"relocating", "done"} THEN "relocated"
  ELSE IF Where = "exchange" /\ c = callee THEN "nextBsp"
  ELSE IF Where = "exchanged" /\ c = callee THEN "newBsp"
  ELSE IF Where = "count" /\ c = Least(failed) THEN "resetting"
  ELSE IF Waiting[c] THEN "waiting"
  ELSE IF WaitEvent[c] \/ (caller = "this" /\ callee = c /\ Where # "return") THEN "started"
  ELSE "resting"

(* l is the statement of the processor, s its state, signal its start-up   *)
(* signal, f its procedure, and r is whether it has run what was sent      *)
(* last.                                                                   *)
AtRest == {"loop", "halted", "counting"}

Resting(l, s, signal) == s \in {"Idle", "Disabled"} /\ ~signal /\ l \in AtRest

Sent(function, l, s, signal, f) ==
  /\ s = "Ready" /\ f = function
  /\ \/ signal /\ (l \in AtRest \/ l = "woken")
     \/ ~signal /\ l = "check"

Started(l, s, signal, f, r) ==
  \/ Sent("task", l, s, signal, f)
  \/ ~signal /\ s = "Busy" /\ l = "task"
  \/ ~signal /\ s = "Busy" /\ l = "finishing" /\ r
  \/ ~signal /\ s = "Finished" /\ l \in AtRest /\ r

BeingReset(l, s, f) ==
  /\ s \in {"Ready", "Finished"} /\ f = "null"
  /\ l \in AtRest \cup {"woken", "check", "task", "finishing"}

InRole(role, l, s, signal, f, r) ==
  /\ role = "bsp" => l = "bsp" /\ ~signal /\ s \in {"Idle", "Busy"}
  /\ role = "oldBsp" =>
       /\ ~signal
       /\ \/ l = "finishing" /\ s \in {"Idle", "Busy"}
          \/ l \in AtRest /\ s = "Finished"
  /\ role = "newBsp" => l = "bsp" /\ ~signal /\ s = "Busy"
  /\ role = "nextBsp" =>
       \/ Sent("futureBsp", l, s, signal, f)
       \/ ~signal /\ s = "Busy" /\ l = "futureBsp"
  /\ role = "relocated" =>
       \/ Sent("relocate", l, s, signal, f)
       \/ ~signal /\ s = "Busy" /\ l \in {"relocate", "relocated"}
  /\ role = "resetting" => BeingReset(l, s, f)
  /\ role = "waiting" => \/ Started(l, s, signal, f, r)
                         \/ s = "Idle" /\ Resting(l, s, signal)
  /\ role = "started" => Started(l, s, signal, f, r)
  /\ role = "resting" => Resting(l, s, signal)

PlaysRole(c) == InRole(Role(c), pc[c], State[c], StartupApSignal[c], ApFunction[c], ran[c])

AllInRole == \A c \in CPU : PlaysRole(c)

(* A start-up signal is up only for the processors the BSP is waking.      *)
Waking ==
  /\ bsp \in {"ipi", "wakeup"} <=> ret # "idle"
  /\ ret = "idle" => waking = {}
  /\ \A c \in CPU : StartupApSignal[c] => c \in waking
  /\ bsp = "ipi" /\ ret # "count" =>
       ApLoopMode = "hlt" /\ \A c \in waking : StartupApSignal[c] /\ pc[c] # "woken"
  /\ Where = "count" => \A c \in waking : c = Least(failed)

(* An AP in the HLT loop sees no signal, so that outside resets the INIT   *)
(* IPI finds it at rest.                                                   *)
Halts ==
  /\ ApLoopMode = "hlt" => \A c \in CPU : pc[c] # "loop"
  /\ pcdLoopMode = "hlt" => ApLoopMode = "hlt"

(* Where the services are, and whom they serve.                            *)
Services ==
  /\ caller = "none" <=> Where \in {"idle", "done"}
  /\ caller = "exit" <=> Where = "relocating"
  /\ caller = "enable" => Where \in {"reset", "count", "return"}
  /\ caller = "switch" => Where \in {"exchange", "exchanged", "return"}
  /\ Where \in {"exchange", "exchanged"} => caller = "switch" /\ callee \in APs
  /\ Where = "checkThis" => caller = "this" /\ callee \in APs /\ ~WaitEvent[callee]
  /\ callee # None => caller \in {"this", "switch"}
  /\ caller = "this" /\ callee # None =>
       /\ callee \in APs /\ ~Waiting[callee]
       /\ Where \in {"checkThis", "return"} \/ (job = "this" /\ failed = {callee})

(* A processor has one call pending at most.                               *)
Calls ==
  /\ \A c \in CPU : Waiting[c] \/ WaitEvent[c] => c # BspNumber /\ ~(Waiting[c] /\ WaitEvent[c])
  /\ caller \in {"switch", "exit"} \/ Where = "done" => \A c \in CPU : Unassigned(c)

(* Which processors the BSP resets.                                        *)
Resets ==
  /\ job = "none" <=> failed = {}
  /\ job = "none" <=> Where \notin {"reset", "count"}
  /\ failed \subseteq APs
  /\ job = "all" => failed = Waited /\ callee = None /\ caller \in {"tick", "all", "this"}
  /\ job = "this" =>
       /\ caller \in {"tick", "all", "this"}
       /\ \A c, d \in failed : c = d
       /\ \A c \in failed : ~Waiting[c] /\ callee = IF WaitEvent[c] THEN None ELSE c
  /\ job = "enable" =>
       caller = "enable" /\ (\A c, d \in failed : c = d) /\ (\A c \in failed : Unassigned(c))

(* RunningCount is the number of the processors collected, and a processor *)
(* that is not started yet waits for another one, in the single thread     *)
(* mode.                                                                   *)
Counts ==
  /\ (allWaitEvent \/ Where \in {"checkAll", "next", "decide"}) /\ job # "all" =>
       RunningCount + Cardinality(Waited) = StartCount
  /\ Where = "next" => Waited # {} /\ \A c \in CPU : Waiting[c] => State[c] = "Idle"
  /\ \A c \in CPU : Waiting[c] /\ State[c] = "Idle" =>
       /\ SingleThread
       /\ Where = "next" \/ job = "all" \/ \E d \in CPU : Waiting[d] /\ State[d] # "Idle"

Ordered ==
  SingleThread => \A c, d \in CPU : Waiting[c] /\ Waiting[d] /\ State[c] # "Idle" => c <= d

StacksApart == \A c, d \in APs : ApTopOfStack[c] = ApTopOfStack[d] => c = d

Stacks == StacksApart /\ (Where = "exchanged" => ApTopOfStack[BspNumber] = ApTopOfStack[callee])

DispatchInv ==
  /\ TypeOK /\ AllInRole /\ Waking /\ Services /\ Calls /\ Resets
  /\ Counts /\ Ordered /\ Stacks

-----------------------------------------------------------------------------
(* Processors and their number.                                            *)

LEMMA LeastIn ==
  ASSUME NEW S, S \subseteq CPU, S # {}
  PROVE  Least(S) \in S /\ Least(S) \in CPU /\ \A d \in S : Least(S) <= d
<1> DEFINE R == {pair \in Nat \X Nat : pair[1] < pair[2]}
<1>0. S \subseteq Nat
  BY CpuCountAssumption DEF CPU
<1>1. IsWellFoundedOn(R, Nat)
  BY NatLessThanWellFounded DEF OpToRel
<1> HIDE DEF R
<1>2. PICK m \in S : \A j \in S : <<j, m>> \notin R
  BY <1>0, <1>1, WFMin
<1>3. ASSUME NEW j \in S
      PROVE  m <= j
  <2>1. <<j, m>> \notin R /\ j \in Nat /\ m \in Nat
    BY <1>0, <1>2
  <2> QED BY <2>1 DEF R
<1> QED BY <1>3 DEF Least

LEMMA CpusFinite ==
  ASSUME NEW S, S \subseteq CPU
  PROVE  IsFiniteSet(S) /\ Cardinality(S) \in Nat /\ (Cardinality(S) = 0 <=> S = {})
<1>1. IsFiniteSet(CPU)
  BY CpuCountAssumption, FS_Interval DEF CPU
<1> QED BY <1>1, FS_Subset, FS_CardinalityType, FS_EmptySet

LEMMA NoneIsNobody == ~(None \in CPU)
BY NoneAssumption

-----------------------------------------------------------------------------
(* A step of an AP.                                                        *)

bspVars == <<ApTopOfStack, calls, fixed, bsp, ret, svc, waking, reset>>

LEMMA BspWaits ==
  ASSUME UNCHANGED bspVars
  PROVE  /\ Where' = Where /\ Waited' = Waited /\ APs' = APs
         /\ \A c \in CPU : Role(c)' = Role(c)
BY DEF bspVars, calls, fixed, svc, reset, Where, Waited, APs, Role

(* The step of c keeps its role, its signal does not rise, and nothing     *)
(* else changes but the number of the finished.                            *)
LEMMA ApMoved ==
  ASSUME DispatchInv, TypeOK', NEW c \in CPU, UNCHANGED bspVars,
         \A d \in CPU : d # c => /\ pc'[d] = pc[d] /\ State'[d] = State[d]
                                 /\ StartupApSignal'[d] = StartupApSignal[d]
                                 /\ ApFunction'[d] = ApFunction[d] /\ ran'[d] = ran[d],
         InRole(Role(c), pc'[c], State'[c], StartupApSignal'[c], ApFunction'[c], ran'[c]),
         StartupApSignal'[c] => StartupApSignal[c],
         bsp = "ipi" /\ ret # "count" /\ c \in waking => StartupApSignal'[c] /\ pc'[c] # "woken",
         Waiting[c] => (State'[c] = "Idle" <=> State[c] = "Idle")
  PROVE  DispatchInv'
<1>0. /\ Where' = Where /\ Waited' = Waited /\ APs' = APs
      /\ \A d \in CPU : Role(d)' = Role(d)
  BY BspWaits
<1>1. AllInRole'
  BY <1>0 DEF DispatchInv, AllInRole, PlaysRole
<1>2. Waking'
  BY <1>0 DEF DispatchInv, Waking, bspVars, reset, fixed, TypeOK
<1>3. Services'
  BY <1>0 DEF DispatchInv, Services, bspVars, reset, svc, calls
<1>4. Calls' /\ Resets'
  BY <1>0 DEF DispatchInv, Calls, Resets, Unassigned, bspVars, reset, svc, calls, fixed
<1>6. \A d \in CPU : Waiting[d] => (State'[d] = "Idle" <=> State[d] = "Idle")
  OBVIOUS
<1>7. Counts'
  <2>1. /\ Waiting' = Waiting /\ SingleThread' = SingleThread /\ job' = job /\ StartCount' = StartCount
        /\ RunningCount' = RunningCount /\ allWaitEvent' = allWaitEvent
    BY DEF bspVars, reset, calls
  <2> QED BY <1>0, <1>6, <2>1 DEF DispatchInv, Counts
<1>8. Ordered'
  BY <1>0, <1>6 DEF DispatchInv, Ordered, bspVars, calls
<1>9. Stacks'
  BY <1>0 DEF DispatchInv, Stacks, StacksApart, bspVars, fixed, svc
<1> QED BY <1>1, <1>2, <1>3, <1>4, <1>7, <1>8, <1>9 DEF DispatchInv

LEMMA InvTypes ==
  ASSUME DispatchInv, NEW c \in CPU
  PROVE  /\ TypeOK /\ PlaysRole(c)
         /\ State[c] \in {"Idle", "Ready", "Busy", "Finished", "Disabled"}
         /\ StartupApSignal[c] \in BOOLEAN /\ FinishedCount \in Nat
BY DEF DispatchInv, TypeOK, AllInRole

(* At "count" the processor being reset has that role.                     *)
LEMMA TheOneReset ==
  ASSUME DispatchInv, Where = "count"
  PROVE  /\ failed \subseteq APs /\ failed # {} /\ Least(failed) \in failed
         /\ Least(failed) \in CPU /\ Least(failed) # BspNumber /\ Role(Least(failed)) = "resetting"
<1>1. failed \subseteq APs /\ failed # {}
  BY DEF DispatchInv, Resets
<1>2. Least(failed) \in failed /\ Least(failed) \in CPU /\ Least(failed) # BspNumber
  BY <1>1, LeastIn DEF APs
<1> QED BY <1>1, <1>2 DEF Role

LEMMA SeeSignalKept ==
  ASSUME DispatchInv, Halts, NEW c \in CPU, SeeSignal(c)
  PROVE  DispatchInv'
<1> USE DEF SeeSignal, ap, calls, fixed, svc, reset
<1>1. UNCHANGED bspVars /\ TypeOK' /\ pc \in [CPU -> {"bsp", "loop", "halted", "woken", "check", "task",
         "futureBsp", "relocate", "finishing", "counting", "relocated"}]
  BY DEF bspVars, DispatchInv, TypeOK
<1>2. InRole(Role(c), "loop", State[c], TRUE, ApFunction[c], ran[c])
  <2>1. StartupApSignal[c] = TRUE
    BY InvTypes
  <2> QED BY <2>1, InvTypes DEF PlaysRole
<1>3. InRole(Role(c), "woken", State[c], TRUE, ApFunction[c], ran[c])
  BY <1>2 DEF InRole, Started, Sent, Resting, BeingReset, AtRest
<1>4. pc'[c] = "woken"
  BY <1>1
<1>5. ~(bsp = "ipi" /\ ret # "count" /\ c \in waking)
  BY DEF DispatchInv, Waking, Halts
<1> QED
  <2>1. InRole(Role(c), pc'[c], State'[c], StartupApSignal'[c], ApFunction'[c], ran'[c])
    <3>1. StartupApSignal'[c] = TRUE /\ State' = State /\ ApFunction' = ApFunction /\ ran' = ran
      BY InvTypes
    <3> QED BY <1>3, <1>4, <3>1
  <2> QED BY <1>1, <1>4, <1>5, <2>1, ApMoved

LEMMA ClearSignalKept ==
  ASSUME DispatchInv, NEW c \in CPU, ClearSignal(c)
  PROVE  DispatchInv'
<1> USE DEF ClearSignal, ap, calls, fixed, svc, reset
<1>1. UNCHANGED bspVars /\ TypeOK' /\ pc'[c] = "check" /\ StartupApSignal'[c] = FALSE
  BY DEF bspVars, DispatchInv, TypeOK
<1>2. InRole(Role(c), "woken", State[c], StartupApSignal[c], ApFunction[c], ran[c])
  BY InvTypes DEF PlaysRole
<1>3. InRole(Role(c), "check", State[c], FALSE, ApFunction[c], ran[c])
  BY <1>2 DEF InRole, Started, Sent, Resting, BeingReset, AtRest
<1>4. ~(bsp = "ipi" /\ ret # "count" /\ c \in waking)
  BY DEF DispatchInv, Waking
<1> QED
  <2>1. /\ \A d \in CPU : d # c => pc'[d] = pc[d] /\ StartupApSignal'[d] = StartupApSignal[d]
        /\ State' = State /\ ApFunction' = ApFunction /\ ran' = ran
    BY DEF DispatchInv, TypeOK
  <2>2. InRole(Role(c), pc'[c], State'[c], StartupApSignal'[c], ApFunction'[c], ran'[c])
    BY <1>1, <1>3, <2>1
  <2> QED BY <1>1, <1>4, <2>1, <2>2, ApMoved

LEMMA CheckReadyKept ==
  ASSUME DispatchInv, NEW c \in CPU, CheckReady(c)
  PROVE  DispatchInv'
<1> USE DEF CheckReady, ap, calls, fixed, svc, reset
<1>1. InRole(Role(c), "check", State[c], StartupApSignal[c], ApFunction[c], ran[c])
  BY InvTypes DEF PlaysRole
<1>2. Role(c) \in {"bsp", "oldBsp", "newBsp", "nextBsp", "relocated", "resetting", "waiting", "started",
                   "resting"}
  BY DEF Role
<1>3. /\ State[c] \in {"Ready", "Finished"}
      /\ Role(c) # "resetting" => State[c] = "Ready" /\ ~StartupApSignal[c]
      /\ Role(c) = "resetting" => ApFunction[c] = "null"
  BY <1>1, <1>2 DEF InRole, Started, Sent, Resting, BeingReset, AtRest
<1>4. ApFunction[c] \in {"null", "task", "futureBsp", "relocate"} /\ StartupApSignal[c] \in BOOLEAN
  BY DEF DispatchInv, TypeOK, Procedures
<1>5. /\ Executes(c) = IF State[c] # "Ready" THEN "counting"
                       ELSE IF ApFunction[c] = "null" THEN "finishing" ELSE ApFunction[c]
      /\ Executing(c) = IF State[c] # "Ready" \/ ApFunction[c] = "null" THEN State[c] ELSE "Busy"
  BY <1>4 DEF Executes, Executing, Procedures
<1>6. /\ pc'[c] = Executes(c) /\ State'[c] = Executing(c) /\ ApFunction'[c] = "null"
      /\ StartupApSignal' = StartupApSignal /\ ran' = ran
      /\ \A d \in CPU : d # c => pc'[d] = pc[d] /\ State'[d] = State[d] /\ ApFunction'[d] = ApFunction[d]
  BY DEF DispatchInv, TypeOK
<1>7. UNCHANGED bspVars
  BY DEF bspVars
<1>8. TypeOK'
  <2>1. /\ Executes(c) \in {"counting", "finishing", "task", "futureBsp", "relocate"}
        /\ Executing(c) \in {"Ready", "Busy", "Finished"}
    BY <1>3, <1>4, <1>5
  <2> QED BY <2>1 DEF DispatchInv, TypeOK
<1>9. InRole(Role(c), Executes(c), Executing(c), StartupApSignal[c], "null", ran[c])
  <2>1. CASE Role(c) = "resetting"
    BY <1>3, <1>5, <2>1 DEF InRole, BeingReset, AtRest
  <2>2. CASE Role(c) # "resetting"
    BY <1>1, <1>2, <1>3, <1>4, <1>5, <2>2 DEF InRole, Started, Sent, Resting, AtRest
  <2> QED BY <2>1, <2>2
<1>10. InRole(Role(c), pc'[c], State'[c], StartupApSignal'[c], ApFunction'[c], ran'[c])
  BY <1>6, <1>9
<1>11. ~(bsp = "ipi" /\ ret # "count" /\ c \in waking)
  <2>1. ASSUME bsp = "ipi", ret # "count" PROVE Role(c) # "resetting"
    BY <2>1 DEF Role, Where
  <2> QED BY <1>3, <2>1 DEF DispatchInv, Waking
<1>12. State'[c] # "Idle" /\ State[c] # "Idle"
  BY <1>3, <1>5, <1>6
<1> QED BY <1>6, <1>7, <1>8, <1>10, <1>11, <1>12, ApMoved

LEMMA RelocateApLoopKept ==
  ASSUME DispatchInv, NEW c \in CPU, RelocateApLoop(c)
  PROVE  DispatchInv'
<1> USE DEF RelocateApLoop, ap, calls, fixed, svc, reset
<1>1. UNCHANGED bspVars /\ TypeOK' /\ pc'[c] = "relocated"
  BY DEF bspVars, DispatchInv, TypeOK
<1>2. InRole(Role(c), "relocate", State[c], StartupApSignal[c], ApFunction[c], ran[c])
  BY InvTypes DEF PlaysRole
<1>3. InRole(Role(c), "relocated", State[c], StartupApSignal[c], ApFunction[c], ran[c])
  BY <1>2 DEF InRole, Started, Sent, Resting, BeingReset, AtRest
<1>4. ~(bsp = "ipi" /\ ret # "count" /\ c \in waking)
  <2>1. Role(c) \in {"bsp", "oldBsp", "newBsp", "nextBsp", "relocated", "resetting", "waiting", "started",
                     "resting"}
    BY DEF Role
  <2>2. ~StartupApSignal[c]
    BY <1>2, <2>1 DEF InRole, Started, Sent, Resting, BeingReset, AtRest
  <2> QED BY <2>2 DEF DispatchInv, Waking
<1> QED
  <2>1. /\ \A d \in CPU : d # c => pc'[d] = pc[d] /\ StartupApSignal' = StartupApSignal
        /\ State' = State /\ ApFunction' = ApFunction /\ ran' = ran /\ StartupApSignal' = StartupApSignal
    BY DEF DispatchInv, TypeOK
  <2>2. InRole(Role(c), pc'[c], State'[c], StartupApSignal'[c], ApFunction'[c], ran'[c])
    BY <1>1, <1>3, <2>1
  <2> QED BY <1>1, <1>4, <2>1, <2>2, ApMoved

LEMMA SetFinishedKept ==
  ASSUME DispatchInv, NEW c \in CPU, SetFinished(c)
  PROVE  DispatchInv'
<1> USE DEF SetFinished, ap, calls, fixed, svc, reset
<1>1. UNCHANGED bspVars /\ TypeOK' /\ pc'[c] = "counting" /\ State'[c] = "Finished"
  BY DEF bspVars, DispatchInv, TypeOK
<1>2. InRole(Role(c), "finishing", State[c], StartupApSignal[c], ApFunction[c], ran[c])
  BY InvTypes DEF PlaysRole
<1>3. Role(c) \in {"bsp", "oldBsp", "newBsp", "nextBsp", "relocated", "resetting", "waiting", "started",
                   "resting"}
  BY DEF Role
<1>4. InRole(Role(c), "counting", "Finished", StartupApSignal[c], ApFunction[c], ran[c])
  BY <1>2, <1>3 DEF InRole, Started, Sent, Resting, BeingReset, AtRest
<1>5. Role(c) # "resetting" => ~StartupApSignal[c]
  BY <1>2, <1>3 DEF InRole, Started, Sent, Resting, BeingReset, AtRest
<1>6. Waiting[c] => State[c] # "Idle"
  <2> SUFFICES ASSUME Waiting[c] PROVE State[c] # "Idle"
    OBVIOUS
  <2>1. c # BspNumber /\ Where \notin {"exchange", "exchanged", "relocating", "done"}
    BY DEF DispatchInv, Calls, Services, Unassigned
  <2>2. Role(c) \in {"resetting", "waiting"}
    BY <2>1 DEF Role
  <2> QED BY <1>2, <2>2 DEF InRole, Started, Sent, Resting, BeingReset, AtRest
<1>7. ~(bsp = "ipi" /\ ret # "count" /\ c \in waking)
  <2>1. ASSUME bsp = "ipi", ret # "count" PROVE Role(c) # "resetting"
    BY <2>1 DEF Role, Where
  <2> QED BY <1>5, <2>1 DEF DispatchInv, Waking
<1> QED
  <2>1. /\ \A d \in CPU : d # c => pc'[d] = pc[d] /\ State'[d] = State[d]
        /\ StartupApSignal' = StartupApSignal /\ ApFunction' = ApFunction /\ ran' = ran
    BY DEF DispatchInv, TypeOK
  <2>2. InRole(Role(c), pc'[c], State'[c], StartupApSignal'[c], ApFunction'[c], ran'[c])
    BY <1>1, <1>4, <2>1
  <2> QED BY <1>1, <1>6, <1>7, <2>1, <2>2, ApMoved

LEMMA CountFinishedKept ==
  ASSUME DispatchInv, NEW c \in CPU, CountFinished(c)
  PROVE  DispatchInv'
<1> USE DEF CountFinished, ap, calls, fixed, svc, reset
<1>1. UNCHANGED bspVars /\ TypeOK' /\ pc'[c] \in {"loop", "halted"}
  BY DEF bspVars, DispatchInv, TypeOK, MaxFinished
<1>2. InRole(Role(c), "counting", State[c], StartupApSignal[c], ApFunction[c], ran[c])
  BY InvTypes DEF PlaysRole
<1>3. Role(c) \in {"bsp", "oldBsp", "newBsp", "nextBsp", "relocated", "resetting", "waiting", "started",
                   "resting"}
  BY DEF Role
<1>4. InRole(Role(c), pc'[c], State[c], StartupApSignal[c], ApFunction[c], ran[c])
  BY <1>1, <1>2, <1>3 DEF InRole, Started, Sent, Resting, BeingReset, AtRest
<1> QED
  <2>1. /\ \A d \in CPU : d # c => pc'[d] = pc[d]
        /\ State' = State /\ StartupApSignal' = StartupApSignal /\ ApFunction' = ApFunction /\ ran' = ran
    BY DEF DispatchInv, TypeOK
  <2>2. InRole(Role(c), pc'[c], State'[c], StartupApSignal'[c], ApFunction'[c], ran'[c])
    BY <1>4, <2>1
  <2>3. bsp = "ipi" /\ ret # "count" /\ c \in waking => StartupApSignal'[c] /\ pc'[c] # "woken"
    BY <1>1, <2>1 DEF DispatchInv, Waking
  <2> QED BY <1>1, <2>1, <2>2, <2>3, ApMoved

LEMMA ProcedureReturnsKept ==
  ASSUME DispatchInv, NEW c \in CPU, ProcedureReturns(c)
  PROVE  DispatchInv'
<1> USE DEF ProcedureReturns, ap, calls, fixed, svc, reset
<1>1. InRole(Role(c), "task", State[c], StartupApSignal[c], ApFunction[c], ran[c])
  BY InvTypes DEF PlaysRole
<1>2. Role(c) \in {"bsp", "oldBsp", "newBsp", "nextBsp", "relocated", "resetting", "waiting", "started",
                   "resting"}
  BY DEF Role
<1>3. Role(c) \in {"resetting", "waiting", "started"}
  BY <1>1, <1>2 DEF InRole, Started, Sent, Resting, AtRest
<1>4. ~SwitchBspFlag
  <2> SUFFICES ASSUME caller = "switch" PROVE FALSE
    BY DEF SwitchBspFlag
  <2>1. job = "none"
    BY DEF DispatchInv, Resets, TypeOK
  <2>2. Where # "count"
    BY <2>1 DEF DispatchInv, Resets
  <2> QED BY <1>3, <2>2 DEF DispatchInv, Calls, Unassigned, Role
<1>5. /\ UNCHANGED bspVars /\ pc'[c] = "finishing" /\ ran'[c] = TRUE
      /\ \A d \in CPU : d # c => pc'[d] = pc[d] /\ ran'[d] = ran[d]
      /\ State' = State /\ StartupApSignal' = StartupApSignal /\ ApFunction' = ApFunction
  BY <1>4 DEF bspVars, DispatchInv, TypeOK
<1>6. TypeOK'
  BY <1>4 DEF DispatchInv, TypeOK
<1>7. /\ InRole(Role(c), "finishing", State[c], StartupApSignal[c], ApFunction[c], TRUE)
      /\ Role(c) # "resetting" => ~StartupApSignal[c]
  BY <1>1, <1>3 DEF InRole, Started, Sent, Resting, BeingReset, AtRest
<1>8. ~(bsp = "ipi" /\ ret # "count" /\ c \in waking)
  <2>1. ASSUME bsp = "ipi", ret # "count" PROVE Role(c) # "resetting"
    BY <2>1 DEF Role, Where
  <2> QED BY <1>7, <2>1 DEF DispatchInv, Waking
<1>9. InRole(Role(c), pc'[c], State'[c], StartupApSignal'[c], ApFunction'[c], ran'[c])
  BY <1>5, <1>7
<1> QED BY <1>5, <1>6, <1>8, <1>9, ApMoved

LEMMA ApKept ==
  ASSUME DispatchInv, Halts, NEW c \in CPU, ApStep(c) \/ ProcedureReturns(c)
  PROVE  DispatchInv'
BY SeeSignalKept, ClearSignalKept, CheckReadyKept, RelocateApLoopKept, SetFinishedKept, CountFinishedKept,
   ProcedureReturnsKept DEF ApStep

-----------------------------------------------------------------------------
(* A step of the BSP that leaves the APs alone.                            *)

awake == {"idle", "checkAll", "next", "decide", "updateThis", "checkThis", "reset", "count", "dispatch",
          "return", "exchange", "exchanged", "relocating", "done"}

LEMMA AwakeFacts ==
  ASSUME DispatchInv, bsp \in awake
  PROVE  Where = bsp /\ ret = "idle" /\ waking = {} /\ \A c \in CPU : ~StartupApSignal[c]
BY DEF DispatchInv, Waking, Where, awake

LEMMA QuietStep ==
  ASSUME DispatchInv, bsp \in awake, bsp' \in awake \ {"exchanged"},
         UNCHANGED <<pc, State, ap, ApTopOfStack, ret, waking, ran, BspNumber, Waiting, SingleThread>>,
         \A c \in CPU : Role(c)' = Role(c),
         TypeOK', Services', Calls', Resets', Counts'
  PROVE  DispatchInv'
<1>1. Where' = bsp'
  BY DEF Where, awake
<1>2. AllInRole'
  BY DEF DispatchInv, AllInRole, PlaysRole, ap
<1>3. Waking'
  BY <1>1, AwakeFacts DEF Waking, ap, awake
<1>4. Stacks'
  BY <1>1 DEF DispatchInv, Stacks, StacksApart, APs, awake
<1>5. Ordered'
  BY DEF DispatchInv, Ordered
<1> QED BY <1>2, <1>3, <1>4, <1>5 DEF DispatchInv

(* Where a call is looked at, no processor is called by StartupThisAP.     *)
LEMMA NoCallee ==
  ASSUME DispatchInv, Where \in {"idle", "checkAll", "next", "decide", "updateThis", "dispatch"}
  PROVE  /\ callee = None /\ job = "none" /\ failed = {} /\ caller \notin {"exit", "switch", "enable"}
         /\ \A c \in CPU : ~(caller = "this" /\ callee = c)
         /\ Where # "idle" => caller \in {"tick", "all", "this"}
<1>1. job = "none" /\ failed = {}
  BY DEF DispatchInv, Resets
<1>2. caller \notin {"exit", "switch", "enable"} /\ (caller = "none" <=> Where = "idle")
  BY DEF DispatchInv, Services
<1>3. callee = None
  BY <1>1, <1>2 DEF DispatchInv, Services
<1>4. caller \in {"none", "tick", "all", "this", "enable", "switch", "exit"}
  BY DEF DispatchInv, TypeOK
<1> QED BY <1>1, <1>2, <1>3, <1>4, NoneIsNobody

USE DEF ap, calls, fixed, svc, reset

LEMMA AllFinishedKept ==
  ASSUME DispatchInv, AllFinished
  PROVE  DispatchInv'
<1> USE DEF AllFinished
<1>1. bsp \in awake /\ bsp' \in {"updateThis", "return"} /\ Where = "decide" /\ Where' = bsp'
  BY DEF AfterAll, awake, Where
<1>2. /\ callee = None /\ job = "none" /\ caller \in {"tick", "all", "this"}
      /\ \A c \in CPU : ~(caller = "this" /\ callee = c)
  BY <1>1, NoCallee
<1>3. Waited = {}
  <2>1. RunningCount + Cardinality(Waited) = StartCount /\ RunningCount \in Nat
    BY <1>1, <1>2 DEF DispatchInv, Counts, TypeOK
  <2>2. Waited \subseteq CPU
    BY DEF Waited
  <2> QED BY <2>1, <2>2, CpusFinite
<1>4. \A c \in CPU : Role(c)' = Role(c)
  BY <1>1, <1>2 DEF Role
<1>5. TypeOK'
  <2>1. allWaitEvent' \in BOOLEAN /\ allLimited' \in BOOLEAN
    BY Zenon
  <2>2. UNCHANGED <<pc, State, ap, ApTopOfStack, Waiting, WaitEvent, limited, StartCount, RunningCount,
                    SingleThread, FinishedCount, fixed, ret, svc, waking, reset, ran>>
    OBVIOUS
  <2> HIDE DEF AllFinished
  <2> QED BY <1>1, <2>1, <2>2 DEF DispatchInv, TypeOK
<1>6. Services' /\ Calls'
  BY <1>1, <1>2 DEF DispatchInv, Services, Calls, Unassigned
<1>7. Resets'
  BY <1>1, <1>2 DEF DispatchInv, Resets, APs
<1>8. Counts'
  BY <1>1, <1>3 DEF Counts, Waited
<1>9. bsp' \in awake \ {"exchanged"}
  BY <1>1 DEF awake
<1> QED BY <1>1, <1>4, <1>5, <1>6, <1>7, <1>8, <1>9, QuietStep

LEMMA AllNotReadyKept ==
  ASSUME DispatchInv, AllNotReady
  PROVE  DispatchInv'
<1> USE DEF AllNotReady
<1>1. bsp \in awake /\ bsp' \in {"updateThis", "checkAll"} /\ Where = "decide" /\ Where' = bsp'
  BY DEF awake, Where
<1>2. /\ callee = None /\ job = "none" /\ caller \in {"tick", "all", "this"}
      /\ \A c \in CPU : ~(caller = "this" /\ callee = c)
  BY <1>1, NoCallee
<1>4. \A c \in CPU : Role(c)' = Role(c)
  BY <1>1, <1>2 DEF Role
<1>5. TypeOK'
  BY <1>1 DEF DispatchInv, TypeOK
<1>6. Services' /\ Calls'
  BY <1>1, <1>2 DEF DispatchInv, Services, Calls, Unassigned
<1>7. Resets'
  BY <1>1, <1>2 DEF DispatchInv, Resets, APs
<1>8. Counts'
  BY <1>1, <1>2 DEF DispatchInv, Counts, Waited
<1>9. bsp' \in awake \ {"exchanged"}
  BY <1>1 DEF awake
<1> QED BY <1>1, <1>4, <1>5, <1>6, <1>7, <1>8, <1>9, QuietStep

LEMMA AllTimeoutKept ==
  ASSUME DispatchInv, AllTimeout
  PROVE  DispatchInv'
<1> USE DEF AllTimeout
<1>1. bsp \in awake /\ bsp' = "reset" /\ Where = "decide" /\ Where' = "reset" /\ failed' = Waited
  BY DEF awake, Where, Waited
<1>2. /\ callee = None /\ job = "none" /\ caller \in {"tick", "all", "this"}
      /\ \A c \in CPU : ~(caller = "this" /\ callee = c)
  BY <1>1, NoCallee
<1>3. Waited # {}
  <2>1. RunningCount + Cardinality(Waited) = StartCount /\ RunningCount \in Nat
    BY <1>1, <1>2 DEF DispatchInv, Counts, TypeOK
  <2>2. Waited \subseteq CPU
    BY DEF Waited
  <2> QED BY <2>1, <2>2, CpusFinite
<1>4. \A c \in CPU : Role(c)' = Role(c)
  BY <1>1, <1>2 DEF Role
<1>5. TypeOK'
  BY <1>1 DEF DispatchInv, TypeOK, Waited
<1>6. Services' /\ Calls'
  BY <1>1, <1>2 DEF DispatchInv, Services, Calls, Unassigned
<1>7. Resets'
  BY <1>1, <1>2, <1>3 DEF DispatchInv, Resets, Calls, APs, Waited
<1>8. Counts'
  BY <1>1, <1>2 DEF DispatchInv, Counts, Waited
<1>9. bsp' \in awake \ {"exchanged"}
  BY <1>1 DEF awake
<1> QED BY <1>1, <1>4, <1>5, <1>6, <1>7, <1>8, <1>9, QuietStep

LEMMA ThisTimeoutKept ==
  ASSUME DispatchInv, NEW c \in CPU, ThisTimeout(c)
  PROVE  DispatchInv'
<1> USE DEF ThisTimeout
<1>1. bsp \in awake /\ bsp' = "reset" /\ Where = bsp /\ Where' = "reset"
  BY DEF awake, Where
<1>2. /\ job = "none" /\ caller \in {"tick", "all", "this"} /\ ~Waiting[c] /\ c # BspNumber
      /\ callee = IF WaitEvent[c] THEN None ELSE c
      /\ bsp = "checkThis" => caller = "this" /\ callee = c
  <2>1. CASE bsp = "updateThis" /\ WaitEvent[c]
    BY <2>1, <1>1, NoCallee DEF DispatchInv, Calls
  <2>2. CASE bsp = "checkThis" /\ c = callee
    <3>1. caller = "this" /\ callee \in APs /\ ~WaitEvent[callee]
      BY <1>1, <2>2 DEF DispatchInv, Services
    <3>2. ~Waiting[callee] /\ callee # None
      BY <3>1, NoneIsNobody DEF DispatchInv, Services, APs
    <3>3. job = "none"
      BY <1>1, <2>2 DEF DispatchInv, Resets
    <3> QED BY <2>2, <3>1, <3>2, <3>3 DEF APs
  <2> QED BY <2>1, <2>2
<1>4. \A d \in CPU : Role(d)' = Role(d)
  <2>1. bsp \in {"updateThis", "checkThis"}
    OBVIOUS
  <2> QED BY <1>1, <2>1 DEF Role
<1>5. TypeOK'
  BY <1>1 DEF DispatchInv, TypeOK
<1>6. Services' /\ Calls'
  <2>1. bsp \in {"updateThis", "checkThis"}
    OBVIOUS
  <2>2. Calls'
    BY <1>1, <1>2 DEF DispatchInv, Calls, Unassigned
  <2>3. Services'
    BY <1>1, <1>2, <2>1 DEF DispatchInv, Services, APs
  <2> QED BY <2>2, <2>3
<1>7. Resets'
  BY <1>1, <1>2 DEF Resets, APs
<1>8. Counts'
  <2>1. bsp \in {"updateThis", "checkThis"}
    OBVIOUS
  <2> QED BY <1>1, <1>2, <2>1 DEF DispatchInv, Counts, Waited
<1>9. bsp' \in awake \ {"exchanged"}
  BY <1>1 DEF awake
<1> QED BY <1>1, <1>4, <1>5, <1>6, <1>7, <1>8, <1>9, QuietStep

(* A call of the BSP begins with a look at those that are pending.         *)
LEMMA UpdateBegins ==
  ASSUME DispatchInv, bsp = "idle", bsp' = Update, caller' \in {"tick", "all", "this"},
         UNCHANGED <<pc, State, ap, ApTopOfStack, calls, FinishedCount, fixed, ret, callee, waking,
                     reset, ran>>
  PROVE  DispatchInv'
<1>1. bsp \in awake /\ bsp' \in {"updateThis", "checkAll"} /\ Where = "idle" /\ Where' = bsp'
  BY DEF awake, Where, Update
<1>2. callee = None /\ job = "none" /\ caller = "none"
  BY <1>1, NoCallee DEF DispatchInv, Services
<1>3. bsp' = "checkAll" => allWaitEvent
  BY DEF Update
<1>4. \A c \in CPU : Role(c)' = Role(c)
  BY <1>1, <1>2, NoneIsNobody DEF Role
<1>5. TypeOK'
  BY <1>1 DEF DispatchInv, TypeOK
<1>6. Services' /\ Calls'
  BY <1>1, <1>2 DEF DispatchInv, Services, Calls, Unassigned
<1>7. Resets'
  BY <1>1, <1>2 DEF DispatchInv, Resets, APs
<1>8. Counts'
  BY <1>1, <1>2, <1>3 DEF DispatchInv, Counts, Waited
<1>9. bsp' \in awake \ {"exchanged"}
  BY <1>1 DEF awake
<1> QED BY <1>1, <1>4, <1>5, <1>6, <1>7, <1>8, <1>9, QuietStep

LEMMA UpdateEnds ==
  ASSUME DispatchInv, UpdateDone \/ RefuseAllAPs \/ RefuseThisAP
  PROVE  DispatchInv'
<1> USE DEF UpdateDone, RefuseAllAPs, RefuseThisAP
<1>1. /\ bsp \in awake /\ bsp' \in {"dispatch", "return"} /\ Where = bsp /\ Where' = bsp'
      /\ Where \in {"updateThis", "dispatch"}
      /\ UNCHANGED <<pc, State, ap, ApTopOfStack, calls, FinishedCount, fixed, ret, svc, waking, reset, ran>>
  BY DEF awake, Where
<1> HIDE DEF UpdateDone, RefuseAllAPs, RefuseThisAP
<1>2. /\ callee = None /\ job = "none" /\ caller \in {"tick", "all", "this"}
      /\ \A c \in CPU : ~(caller = "this" /\ callee = c)
  BY <1>1, NoCallee
<1>4. \A c \in CPU : Role(c)' = Role(c)
  BY <1>1, <1>2 DEF Role
<1>5. TypeOK'
  BY <1>1 DEF DispatchInv, TypeOK
<1>6. Services' /\ Calls'
  BY <1>1, <1>2 DEF DispatchInv, Services, Calls, Unassigned
<1>7. Resets'
  BY <1>1, <1>2 DEF DispatchInv, Resets, APs
<1>8. Counts'
  BY <1>1, <1>2 DEF DispatchInv, Counts, Waited
<1>9. bsp' \in awake \ {"exchanged"}
  BY <1>1 DEF awake
<1> QED BY <1>1, <1>4, <1>5, <1>6, <1>7, <1>8, <1>9, QuietStep

LEMMA ReturnKept ==
  ASSUME DispatchInv, Return
  PROVE  DispatchInv'
<1> USE DEF Return
<1>1. bsp \in awake /\ bsp' = "idle" /\ Where = "return" /\ Where' = "idle"
  BY DEF awake, Where
<1>2. job = "none" /\ failed = {}
  BY <1>1 DEF DispatchInv, Resets
<1>4. \A c \in CPU : Role(c)' = Role(c)
  BY <1>1 DEF Role
<1>5. TypeOK'
  BY <1>1 DEF DispatchInv, TypeOK
<1>6. Services' /\ Calls'
  BY <1>1, <1>2 DEF DispatchInv, Services, Calls, Unassigned
<1>7. Resets'
  BY <1>1, <1>2 DEF Resets, APs
<1>8. Counts'
  BY <1>1, <1>2 DEF DispatchInv, Counts, Waited
<1>9. bsp' \in awake \ {"exchanged"}
  BY <1>1 DEF awake
<1> QED BY <1>1, <1>4, <1>5, <1>6, <1>7, <1>8, <1>9, QuietStep

LEMMA EnableAPKept ==
  ASSUME DispatchInv, Tame, NEW c \in CPU, EnableAP(c)
  PROVE  DispatchInv'
<1> USE DEF EnableAP
<1>1. bsp \in awake /\ bsp' = "reset" /\ Where = "idle" /\ Where' = "reset"
  BY DEF awake, Where
<1>2. callee = None /\ job = "none" /\ caller = "none" /\ Unassigned(c)
  BY <1>1, NoCallee DEF DispatchInv, Services, Tame
<1>4. \A d \in CPU : Role(d)' = Role(d)
  BY <1>1, <1>2, NoneIsNobody DEF Role
<1>5. TypeOK'
  BY <1>1 DEF DispatchInv, TypeOK
<1>6. Services' /\ Calls'
  BY <1>1, <1>2 DEF DispatchInv, Services, Calls, Unassigned
<1>7. Resets'
  BY <1>1, <1>2 DEF Resets, APs, Unassigned
<1>8. Counts'
  BY <1>1, <1>2 DEF DispatchInv, Counts, Waited
<1>9. bsp' \in awake \ {"exchanged"}
  BY <1>1 DEF awake
<1> QED BY <1>1, <1>4, <1>5, <1>6, <1>7, <1>8, <1>9, QuietStep

LEMMA RefuseSwitchBSPKept ==
  ASSUME DispatchInv, NEW c \in CPU, RefuseSwitchBSP(c)
  PROVE  DispatchInv'
<1>1. /\ bsp \in awake /\ bsp' = bsp /\ Where' = Where /\ bsp = "idle" /\ ticks' = FALSE
      /\ UNCHANGED <<pc, State, ap, ApTopOfStack, calls, FinishedCount, BspNumber, ApLoopMode,
                     pcdLoopMode, bsp, ret, svc, waking, reset, ran>>
  BY DEF RefuseSwitchBSP, awake, Where
<1>4. \A d \in CPU : Role(d)' = Role(d)
  BY <1>1 DEF Role
<1>5. TypeOK'
  <2>1. ticks' \in BOOLEAN
    BY <1>1, Zenon
  <2>2. UNCHANGED <<pc, State, ap, ApTopOfStack, calls, FinishedCount, BspNumber, ApLoopMode,
                    pcdLoopMode, bsp, ret, svc, waking, reset, ran>>
    BY <1>1
  <2> QED BY <2>1, <2>2 DEF DispatchInv, TypeOK
<1>6. Services' /\ Calls'
  BY <1>1 DEF DispatchInv, Services, Calls, Unassigned, APs
<1>7. Resets'
  BY <1>1 DEF DispatchInv, Resets, APs, Unassigned, Waited
<1>8. Counts'
  BY <1>1 DEF DispatchInv, Counts, Waited
<1>9. bsp' \in awake \ {"exchanged"}
  BY <1>1 DEF awake
<1> QED BY <1>1, <1>4, <1>5, <1>6, <1>7, <1>8, <1>9, QuietStep

-----------------------------------------------------------------------------
(* A step of the BSP that changes the state of APs.                        *)

LEMMA StillAwake ==
  ASSUME DispatchInv, bsp \in awake, bsp' \in awake, UNCHANGED <<StartupApSignal, ret, waking>>
  PROVE  Where = bsp /\ Where' = bsp' /\ Waking' /\ \A c \in CPU : ~StartupApSignal[c]
<1>1. Where' = bsp'
  BY DEF Where, awake
<1> QED BY <1>1, AwakeFacts DEF Waking, awake

LEMMA DisableAPKept ==
  ASSUME DispatchInv, Tame, NEW c \in CPU, DisableAP(c)
  PROVE  DispatchInv'
<1> USE DEF DisableAP
<1>1. bsp \in awake /\ bsp' \in awake /\ bsp = "idle" /\ bsp' = "idle"
  BY DEF awake
<1>2. Where = "idle" /\ Where' = "idle" /\ Waking' /\ \A d \in CPU : ~StartupApSignal[d]
  BY <1>1, StillAwake
<1>3. callee = None /\ job = "none" /\ caller = "none" /\ Unassigned(c) /\ c # BspNumber
  BY <1>2, NoCallee DEF DispatchInv, Services, Tame
<1>4. /\ State'[c] = "Disabled" /\ ~Waiting[c]
      /\ \A d \in CPU : d # c => State'[d] = State[d]
  BY <1>3 DEF DispatchInv, TypeOK, Unassigned
<1>5. \A d \in CPU : Role(d)' = Role(d)
  BY <1>2, <1>3, NoneIsNobody DEF Role
<1>6. Role(c) = "resting"
  BY <1>2, <1>3, NoneIsNobody DEF Role, Unassigned
<1>7. PlaysRole(c)'
  <2>1. InRole("resting", pc[c], State[c], StartupApSignal[c], ApFunction[c], ran[c])
    BY <1>6, InvTypes DEF PlaysRole
  <2>2. InRole("resting", pc[c], "Disabled", StartupApSignal[c], ApFunction[c], ran[c])
    BY <2>1 DEF InRole, Resting
  <2> QED BY <1>4, <1>5, <1>6, <2>2 DEF PlaysRole
<1>8. \A d \in CPU : d # c => PlaysRole(d)'
  BY <1>4, <1>5, InvTypes DEF PlaysRole
<1>9. TypeOK' /\ Services' /\ Resets'
  BY <1>2, <1>3 DEF DispatchInv, TypeOK, Services, Resets, APs, Unassigned, Waited
<1>10. Calls' /\ Stacks'
  BY <1>2 DEF DispatchInv, Calls, Unassigned, Stacks, StacksApart, APs
<1>11. Counts'
  BY <1>2, <1>4 DEF DispatchInv, Counts, Waited
<1>12. Ordered'
  BY <1>4 DEF DispatchInv, Ordered
<1> QED BY <1>2, <1>7, <1>8, <1>9, <1>10, <1>11, <1>12 DEF DispatchInv, AllInRole

LEMMA ThisFinishedKept ==
  ASSUME DispatchInv, NEW c \in CPU, ThisFinished(c)
  PROVE  DispatchInv'
<1> USE DEF ThisFinished
<1>1. bsp \in awake /\ bsp' \in awake /\ bsp \in {"updateThis", "checkThis"} /\ bsp' \in {"updateThis", "return"}
  BY DEF awake
<1>2. Where = bsp /\ Where' = bsp' /\ Waking' /\ \A d \in CPU : ~StartupApSignal[d]
  BY <1>1, StillAwake
<1>3. /\ job = "none" /\ caller \in {"tick", "all", "this"} /\ ~Waiting[c] /\ c # BspNumber
      /\ bsp = "updateThis" => WaitEvent[c] /\ callee = None /\ bsp' = "updateThis"
      /\ bsp = "checkThis" => caller = "this" /\ callee = c /\ ~WaitEvent[c] /\ bsp' = "return"
  <2>1. CASE bsp = "updateThis" /\ WaitEvent[c] /\ bsp' = bsp
    BY <2>1, <1>2, NoCallee DEF DispatchInv, Calls
  <2>2. CASE bsp = "checkThis" /\ c = callee /\ bsp' = "return"
    <3>1. caller = "this" /\ callee \in APs /\ ~WaitEvent[callee]
      BY <1>2, <2>2 DEF DispatchInv, Services
    <3>2. ~Waiting[callee] /\ callee # None
      BY <3>1, NoneIsNobody DEF DispatchInv, Services, APs
    <3>3. job = "none"
      BY <1>2, <2>2 DEF DispatchInv, Resets
    <3> QED BY <2>2, <3>1, <3>2, <3>3 DEF APs
  <2> QED BY <2>1, <2>2
<1>4. /\ State'[c] = "Idle" /\ State[c] = "Finished" /\ ~WaitEvent'[c] /\ Waiting' = Waiting
      /\ \A d \in CPU : d # c => State'[d] = State[d] /\ ran'[d] = ran[d] /\ WaitEvent'[d] = WaitEvent[d]
  BY DEF DispatchInv, TypeOK
<1>5. Role(c) = "started" /\ Role(c)' = "resting"
  BY <1>1, <1>2, <1>3, <1>4, NoneIsNobody DEF Role
<1>6. \A d \in CPU : d # c => Role(d)' = Role(d)
  BY <1>1, <1>2, <1>3, <1>4, NoneIsNobody DEF Role
<1>7. PlaysRole(c)'
  <2>1. InRole("started", pc[c], "Finished", StartupApSignal[c], ApFunction[c], ran[c])
    BY <1>4, <1>5, InvTypes DEF PlaysRole
  <2>2. InRole("resting", pc[c], "Idle", StartupApSignal[c], ApFunction[c], ran'[c])
    BY <2>1 DEF InRole, Resting, Started, Sent
  <2> QED BY <1>4, <1>5, <2>2 DEF PlaysRole
<1>8. \A d \in CPU : d # c => PlaysRole(d)'
  BY <1>4, <1>6, InvTypes DEF PlaysRole
<1>9. TypeOK'
  <2>1. bsp' \in awake
    BY <1>1
  <2>2. UNCHANGED <<pc, ap, ApTopOfStack, Waiting, StartCount, RunningCount, SingleThread,
                    allWaitEvent, allLimited, FinishedCount, fixed, ret, svc, waking, reset>>
    OBVIOUS
  <2>3. /\ State' \in [CPU -> {"Idle", "Ready", "Busy", "Finished", "Disabled"}]
        /\ WaitEvent' \in [CPU -> BOOLEAN] /\ limited' \in [CPU -> BOOLEAN] /\ ran' \in [CPU -> BOOLEAN]
    BY DEF DispatchInv, TypeOK
  <2> HIDE DEF ThisFinished
  <2> QED BY <2>1, <2>2, <2>3 DEF DispatchInv, TypeOK, awake
<1>10. Services'
  BY <1>1, <1>2, <1>3, <1>4 DEF DispatchInv, Services, APs
<1>11. Resets'
  BY <1>1, <1>2, <1>3 DEF DispatchInv, Resets, APs
<1>12. Calls'
  BY <1>1, <1>2, <1>3, <1>4 DEF DispatchInv, Calls, Unassigned
<1>13. Counts'
  BY <1>1, <1>2, <1>3, <1>4 DEF DispatchInv, Counts, Waited
<1>14. Ordered'
  BY <1>3, <1>4 DEF DispatchInv, Ordered
<1>15. Stacks'
  BY <1>1, <1>2 DEF DispatchInv, Stacks, StacksApart, APs
<1> QED BY <1>2, <1>7, <1>8, <1>9, <1>10, <1>11, <1>12, <1>13, <1>14, <1>15 DEF DispatchInv, AllInRole

LEMMA CheckAllAPsKept ==
  ASSUME DispatchInv, CheckAllAPs
  PROVE  DispatchInv'
<1> DEFINE finished == {c \in CPU : Waiting[c] /\ State[c] = "Finished"}
           left     == {c \in CPU : Waiting[c]} \ finished
<1> USE DEF CheckAllAPs
<1>1. /\ bsp \in awake /\ bsp' \in awake /\ bsp = "checkAll" /\ bsp' \in {"next", "decide"}
      /\ bsp' = "next" <=> SingleThread /\ finished # {} /\ left # {}
  BY DEF awake
<1>2. Where = bsp /\ Where' = bsp' /\ Waking' /\ \A d \in CPU : ~StartupApSignal[d]
  BY <1>1, StillAwake
<1>3. callee = None /\ job = "none" /\ caller \in {"tick", "all", "this"}
  BY <1>1, <1>2, NoCallee
<1>4. ASSUME NEW c \in CPU
      PROVE  /\ Waiting'[c] <=> Waiting[c] /\ State[c] # "Finished"
             /\ Waiting[c] /\ State[c] = "Finished" => State'[c] = "Idle"
             /\ ~(Waiting[c] /\ State[c] = "Finished") => State'[c] = State[c] /\ (ran'[c] <=> ran[c])
             /\ ran'[c] \in BOOLEAN /\ ran[c] \in BOOLEAN
  BY <1>4 DEF DispatchInv, TypeOK
<1>5. ASSUME NEW c \in CPU, ~(Waiting[c] /\ State[c] = "Finished")
      PROVE  PlaysRole(c)'
  <2>1. Role(c)' = Role(c)
    BY <1>1, <1>2, <1>3, <1>4, <1>5, NoneIsNobody DEF Role
  <2>2. InRole(Role(c), pc[c], State[c], StartupApSignal[c], ApFunction[c], ran[c])
    BY InvTypes DEF PlaysRole
  <2>3. State'[c] = State[c] /\ ran'[c] = ran[c] /\ UNCHANGED <<pc, ap>>
    BY <1>4, <1>5
  <2> QED BY <2>1, <2>2, <2>3 DEF PlaysRole
<1>6. ASSUME NEW c \in CPU, Waiting[c] /\ State[c] = "Finished"
      PROVE  PlaysRole(c)'
  <2>1. c # BspNumber /\ ~WaitEvent[c]
    BY <1>6 DEF DispatchInv, Calls
  <2>2. Role(c) = "waiting" /\ Role(c)' = "resting"
    BY <1>1, <1>2, <1>3, <1>4, <1>6, <2>1, NoneIsNobody DEF Role
  <2>3. InRole("waiting", pc[c], "Finished", StartupApSignal[c], ApFunction[c], ran[c])
    BY <1>6, <2>2, InvTypes DEF PlaysRole
  <2>4. InRole("resting", pc[c], "Idle", StartupApSignal[c], ApFunction[c], ran'[c])
    BY <2>3 DEF InRole, Resting, Started, Sent
  <2>5. State'[c] = "Idle" /\ UNCHANGED <<pc, ap>>
    BY <1>4, <1>6
  <2> QED BY <2>2, <2>4, <2>5 DEF PlaysRole
<1>7. AllInRole'
  BY <1>5, <1>6 DEF AllInRole
<1>8. Waited' = left /\ Waited = finished \cup left /\ finished \cap left = {}
  BY <1>4 DEF Waited
<1>9. Cardinality(Waited) = Cardinality(finished) + Cardinality(left) /\ Cardinality(finished) \in Nat
  <2>1. IsFiniteSet(finished) /\ IsFiniteSet(left) /\ Cardinality(finished) \in Nat /\ Cardinality(left) \in Nat
    BY CpusFinite
  <2>2. Cardinality(finished \cap left) = 0
    BY <1>8, FS_EmptySet
  <2> HIDE DEF finished, left
  <2>3. Cardinality(finished \cup left) =
          Cardinality(finished) + Cardinality(left) - Cardinality(finished \cap left)
    BY <2>1, FS_Union
  <2> QED BY <1>8, <2>1, <2>2, <2>3
<1>10. TypeOK'
  <2>1. bsp' \in awake
    BY <1>1
  <2>2. UNCHANGED <<pc, ap, ApTopOfStack, WaitEvent, limited, StartCount, SingleThread,
                    allWaitEvent, allLimited, FinishedCount, fixed, ret, svc, waking, reset>>
    OBVIOUS
  <2>3. State' \in [CPU -> {"Idle", "Ready", "Busy", "Finished", "Disabled"}] /\ ran' \in [CPU -> BOOLEAN]
    BY DEF DispatchInv, TypeOK
  <2>4. Waiting' \in [CPU -> BOOLEAN]
    <3>1. Waiting' = [c \in CPU |-> c \in left]
      OBVIOUS
    <3> HIDE DEF CheckAllAPs, left, finished
    <3>2. [c \in CPU |-> c \in left] \in [CPU -> BOOLEAN]
      OBVIOUS
    <3> QED BY <3>1, <3>2
  <2>5. RunningCount' \in Nat
    BY <1>9 DEF DispatchInv, TypeOK
  <2> HIDE DEF CheckAllAPs
  <2> QED BY <2>1, <2>2, <2>3, <2>4, <2>5 DEF DispatchInv, TypeOK, awake
<1>11. Services'
  BY <1>1, <1>2, <1>3 DEF DispatchInv, Services
<1>12. Resets'
  BY <1>1, <1>2, <1>3 DEF DispatchInv, Resets, APs
<1>13. Calls'
  BY <1>1, <1>2, <1>3, <1>4 DEF DispatchInv, Calls, Unassigned
<1>14. finished # {} /\ SingleThread => \A c \in left : State[c] = "Idle"
  <2> SUFFICES ASSUME NEW d \in finished, SingleThread, NEW c \in left, State[c] # "Idle"
               PROVE  FALSE
    OBVIOUS
  <2>1. c <= d /\ d <= c
    BY DEF DispatchInv, Ordered
  <2>2. c \in Nat /\ d \in Nat
    BY CpuCountAssumption DEF CPU
  <2>3. c = d
    BY <2>1, <2>2
  <2> QED BY <2>3
<1>15. Counts'
  <2>1. RunningCount' + Cardinality(Waited') = StartCount'
    <3>1. RunningCount + Cardinality(Waited) = StartCount
      BY <1>1, <1>2, <1>3 DEF DispatchInv, Counts
    <3>2. RunningCount' = RunningCount + Cardinality(finished) /\ StartCount' = StartCount
      OBVIOUS
    <3>3. RunningCount \in Nat /\ Cardinality(left) \in Nat
      BY CpusFinite DEF DispatchInv, TypeOK
    <3> QED BY <1>8, <1>9, <3>1, <3>2, <3>3
  <2>2. Where' = "next" => Waited' # {} /\ \A c \in CPU : Waiting'[c] => State'[c] = "Idle"
    BY <1>1, <1>2, <1>4, <1>8, <1>14
  <2>3. ASSUME NEW c \in CPU, Waiting'[c], State'[c] = "Idle"
        PROVE  SingleThread' /\ (Where' = "next" \/ \E d \in CPU : Waiting'[d] /\ State'[d] # "Idle")
    <3>1. Waiting[c] /\ State[c] = "Idle" /\ c \in left
      BY <1>4, <2>3
    <3>2. SingleThread /\ \E d \in CPU : Waiting[d] /\ State[d] # "Idle"
      BY <1>1, <1>2, <1>3, <3>1 DEF DispatchInv, Counts
    <3>3. CASE finished # {}
      BY <1>1, <1>2, <3>1, <3>2, <3>3
    <3>4. CASE finished = {}
      BY <1>4, <3>2, <3>4
    <3> QED BY <3>3, <3>4
  <2> QED BY <2>1, <2>2, <2>3 DEF Counts
<1>16. Ordered'
  BY <1>4 DEF DispatchInv, Ordered
<1>17. Stacks'
  BY <1>1, <1>2 DEF DispatchInv, Stacks, StacksApart, APs
<1> QED BY <1>2, <1>7, <1>10, <1>11, <1>12, <1>13, <1>15, <1>16, <1>17 DEF DispatchInv

(* The processor that has been reset is at rest, and nothing waits for it. *)
LEMMA ResetToIdleKept ==
  ASSUME DispatchInv, ResetToIdle, ~cutShort'
  PROVE  DispatchInv'
<1> USE DEF ResetToIdle
<1>1. bsp \in awake /\ bsp = "count" /\ FinishedCount >= 1 /\ Where = "count"
  BY DEF awake, Where
<1>0. PICK c \in CPU : c = Least(failed)
  BY <1>1, TheOneReset
<1> DEFINE over == failed = {c}
<1>2. /\ failed \subseteq APs /\ failed # {} /\ c \in failed /\ c \in CPU /\ c # BspNumber
      /\ Role(c) = "resetting"
  BY <1>0, <1>1, TheOneReset
<1>3. job \in {"all", "this", "enable"}
  <2>1. job # "none"
    BY <1>1 DEF DispatchInv, Resets
  <2> QED BY <2>1 DEF DispatchInv, TypeOK
<1>4. /\ job # "all" => over /\ ~Waiting[c]
      /\ job = "all" => failed = Waited /\ Waiting[c] /\ ~WaitEvent[c]
      /\ job = "enable" => ~WaitEvent[c]
  BY <1>2, <1>3 DEF DispatchInv, Resets, Calls, Waited, Unassigned
<1>5. /\ caller \in {"tick", "all", "this", "enable"}
      /\ callee # None => caller = "this" /\ job = "this" /\ callee = c /\ ~WaitEvent[c]
      /\ caller = "enable" <=> job = "enable"
  BY <1>2, <1>3 DEF DispatchInv, Resets, Services
<1>6. /\ bsp' \in {"reset", "updateThis", "return"} /\ (bsp' = "reset" <=> ~over)
      /\ callee # None => bsp' = "return"
      /\ caller = "enable" => bsp' = "return"
      /\ job = "all" /\ over => bsp' \in {"updateThis", "return"}
      /\ job' = IF over THEN "none" ELSE job
      /\ failed' = failed \ {c}
  BY <1>0, <1>3, <1>4, <1>5 DEF AfterAll, AfterThis
<1>7. bsp' \in awake
  BY <1>6 DEF awake
<1>8. Where' = bsp' /\ Waking' /\ \A d \in CPU : ~StartupApSignal[d]
  BY <1>1, <1>7, StillAwake
<1>9. /\ State'[c] = "Idle" /\ ~Waiting'[c] /\ ~WaitEvent'[c]
      /\ \A d \in CPU : d # c => State'[d] = State[d] /\ Waiting'[d] = Waiting[d] /\ WaitEvent'[d] = WaitEvent[d]
      /\ UNCHANGED <<pc, ap, ApTopOfStack, StartCount, RunningCount, SingleThread, FinishedCount, fixed, ret, svc,
                     waking, ran>>
      /\ allWaitEvent' => allWaitEvent /\ ~(over /\ job = "all")
  <2>1. /\ State'[c] = "Idle" /\ \A d \in CPU : d # c => State'[d] = State[d]
    BY <1>0, <1>2 DEF DispatchInv, TypeOK, IdleAgain
  <2>0. /\ UNCHANGED <<pc, ap, ApTopOfStack, StartCount, RunningCount, SingleThread, FinishedCount, fixed, ret,
                        svc, waking, ran>>
        /\ allWaitEvent' => allWaitEvent /\ ~(over /\ job = "all")
    BY <1>0
  <2>2. ~Waiting'[c] /\ ~WaitEvent'[c]
    BY <1>0, <1>2, <1>3, <1>4 DEF DispatchInv, TypeOK
  <2>3. \A d \in CPU : d # c => Waiting'[d] = Waiting[d] /\ WaitEvent'[d] = WaitEvent[d]
    BY <1>0, <1>2 DEF DispatchInv, TypeOK
  <2> HIDE DEF ResetToIdle
  <2> QED BY <2>0, <2>1, <2>2, <2>3
<1>10. PlaysRole(c)'
  <2>1. pc[c] \in AtRest /\ ~StartupApSignal[c]
    BY <1>0, <1>8 DEF Restarted, AtRest
  <2>2. Role(c)' = "resting"
    BY <1>2, <1>5, <1>6, <1>8, <1>9, NoneIsNobody DEF Role
  <2>3. InRole("resting", pc[c], "Idle", StartupApSignal[c], ApFunction[c], ran[c])
    BY <2>1 DEF InRole, Resting
  <2> QED BY <1>9, <2>2, <2>3 DEF PlaysRole
<1>11. ASSUME NEW d \in CPU, d # c
       PROVE  PlaysRole(d)'
  <2>1. Role(d)' = Role(d)
    <3>1. ~(caller = "this" /\ callee = d)
      BY <1>5, <1>11, NoneIsNobody
    <3> QED BY <1>1, <1>6, <1>8, <1>9, <1>11, <3>1, <1>0 DEF Role
  <2> QED BY <1>9, <1>11, <2>1, InvTypes DEF PlaysRole
<1>12. AllInRole'
  BY <1>10, <1>11 DEF AllInRole
<1>13. TypeOK'
  <2>1. bsp' \in awake /\ job' \in {"none", "all", "this", "enable"} /\ failed' \subseteq CPU
    BY <1>3, <1>6, <1>7 DEF DispatchInv, TypeOK
  <2>2. /\ State' \in [CPU -> {"Idle", "Ready", "Busy", "Finished", "Disabled"}]
        /\ WaitEvent' \in [CPU -> BOOLEAN] /\ limited' \in [CPU -> BOOLEAN] /\ Waiting' \in [CPU -> BOOLEAN]
    BY <1>2 DEF DispatchInv, TypeOK, IdleAgain
  <2>3. allWaitEvent' \in BOOLEAN /\ allLimited' \in BOOLEAN /\ cutShort' \in BOOLEAN
    BY DEF DispatchInv, TypeOK
  <2> HIDE DEF ResetToIdle
  <2> QED BY <1>9, <2>1, <2>2, <2>3 DEF DispatchInv, TypeOK, awake
<1>14. Services'
  <2>1. Where' \in {"reset", "updateThis", "return"} /\ (Where' = "return" \/ callee = None)
    BY <1>6, <1>8
  <2>2. callee # None => callee \in APs /\ ~Waiting'[callee]
    BY <1>2, <1>5, <1>9
  <2>3. caller' = caller /\ callee' = callee /\ APs' = APs
    BY <1>9 DEF APs
  <2> HIDE DEF ResetToIdle
  <2>4. caller = "enable" => Where' = "return"
    BY <1>6, <1>8
  <2> QED BY <1>5, <2>1, <2>2, <2>3, <2>4 DEF Services
<1>15. Calls'
  <2>1. \A d \in CPU : (Waiting'[d] => Waiting[d]) /\ (WaitEvent'[d] => WaitEvent[d])
    BY <1>9
  <2>2. caller' = caller /\ BspNumber' = BspNumber /\ Where' # "done"
    BY <1>6, <1>8, <1>9
  <2> HIDE DEF ResetToIdle
  <2> QED BY <1>5, <2>1, <2>2 DEF DispatchInv, Calls
<1>16. Waited' = IF job = "all" THEN Waited \ {c} ELSE Waited
  <2>1. \A d \in CPU : Waiting'[d] <=> Waiting[d] /\ d # c
    BY <1>4, <1>9
  <2> HIDE DEF ResetToIdle
  <2> QED BY <1>4, <2>1 DEF Waited
<1>17. Resets'
  <2>1. (job' = "none" <=> failed' = {}) /\ (job' = "none" <=> Where' \notin {"reset", "count"})
    BY <1>2, <1>3, <1>6, <1>8
  <2>2. failed' \subseteq APs'
    BY <1>2, <1>6, <1>9 DEF APs
  <2>3. job' \in {"none", "all"}
    BY <1>3, <1>4, <1>6
  <2>4. job' = "all" => failed' = Waited' /\ callee' = None /\ caller' \in {"tick", "all", "this"}
    <3>1. job' = "all" => job = "all" /\ failed = Waited
      BY <1>4, <1>6
    <3>2. callee' = callee /\ caller' = caller
      BY <1>9
    <3> HIDE DEF ResetToIdle
    <3> QED BY <1>5, <1>6, <1>16, <3>1, <3>2
  <2> HIDE DEF ResetToIdle
  <2> QED BY <2>1, <2>2, <2>3, <2>4 DEF Resets
<1>18. Counts'
  <2>1. (allWaitEvent' \/ Where' \in {"checkAll", "next", "decide"}) /\ job' # "all" =>
          RunningCount' + Cardinality(Waited') = StartCount'
    <3>1. CASE job = "all"
      BY <1>6, <1>8, <1>9, <3>1
    <3>2. CASE job # "all"
      BY <1>6, <1>8, <1>9, <1>16, <3>2 DEF DispatchInv, Counts
    <3> QED BY <3>1, <3>2
  <2>2. Where' # "next"
    BY <1>6, <1>8
  <2>3. ASSUME NEW d \in CPU, Waiting'[d], State'[d] = "Idle"
        PROVE  SingleThread' /\ (Where' = "next" \/ job' = "all" \/ \E e \in CPU : Waiting'[e] /\ State'[e] # "Idle")
    <3>1. d # c /\ Waiting[d] /\ State[d] = "Idle"
      BY <1>9, <2>3
    <3>2. SingleThread /\ (job = "all" \/ \E e \in CPU : Waiting[e] /\ State[e] # "Idle")
      BY <1>1, <3>1 DEF DispatchInv, Counts
    <3>3. CASE job = "all"
      <4>1. d \in Waited' /\ ~over
        BY <1>4, <2>3, <3>1, <3>3 DEF Waited
      <4> QED BY <1>6, <1>9, <3>2, <3>3, <4>1
    <3>4. CASE job # "all"
      <4>1. PICK e \in CPU : Waiting[e] /\ State[e] # "Idle"
        BY <3>2, <3>4
      <4>2. e # c
        BY <1>4, <3>4, <4>1
      <4> HIDE DEF ResetToIdle
      <4> QED BY <1>9, <3>2, <4>1, <4>2
    <3> QED BY <3>3, <3>4
  <2> HIDE DEF ResetToIdle
  <2> QED BY <2>1, <2>2, <2>3 DEF Counts
<1>19. Ordered'
  <2> HIDE DEF ResetToIdle
  <2> QED BY <1>9 DEF DispatchInv, Ordered
<1>20. Stacks'
  <2>1. Where' # "exchanged" /\ ApTopOfStack' = ApTopOfStack /\ BspNumber' = BspNumber
    BY <1>6, <1>8, <1>9
  <2> HIDE DEF ResetToIdle
  <2> QED BY <2>1 DEF DispatchInv, Stacks, StacksApart, APs
<1> QED BY <1>8, <1>12, <1>13, <1>14, <1>15, <1>17, <1>18, <1>19, <1>20 DEF DispatchInv

-----------------------------------------------------------------------------
(* The BSP waits for the processors it wakes.                              *)

LEMMA SendInitSipiSipiKept ==
  ASSUME DispatchInv, SendInitSipiSipi
  PROVE  DispatchInv'
<1> USE DEF SendInitSipiSipi
<1>1. Where' = Where /\ Waited' = Waited /\ \A c \in CPU : Role(c)' = Role(c)
  BY DEF Where, Waited, Role
<1>2. /\ waking \subseteq CPU
      /\ ret # "count" => \A c \in waking : StartupApSignal[c] /\ pc[c] # "woken"
      /\ ret = "count" => \A c \in waking : Role(c) = "resetting"
  <2>1. ret = "count" => Where = "count" /\ Role(Least(failed)) = "resetting"
    BY TheOneReset DEF Where
  <2> QED BY <2>1 DEF DispatchInv, TypeOK, Waking
<1>3. ASSUME NEW c \in CPU
      PROVE  PlaysRole(c)'
  <2>1. CASE c \in waking
    <3>1. InRole(Role(c), pc[c], State[c], StartupApSignal[c], ApFunction[c], ran[c])
      BY InvTypes DEF PlaysRole
    <3>2. CASE ret # "count"
      <4>1. StartupApSignal[c] = TRUE
        BY <1>2, <2>1, <3>2, InvTypes
      <4>2. InRole(Role(c), pc[c], State[c], TRUE, ApFunction[c], ran[c])
        BY <3>1, <4>1
      <4>3. InRole(Role(c), "woken", State[c], TRUE, ApFunction[c], ran[c])
        BY <4>2 DEF InRole, Started, Sent, Resting, BeingReset, AtRest
      <4> QED BY <1>1, <2>1, <4>1, <4>3 DEF PlaysRole
    <3>3. CASE ret = "count"
      <4>1. InRole(Role(c), "woken", State[c], StartupApSignal[c], ApFunction[c], ran[c])
        BY <1>2, <2>1, <3>1, <3>3 DEF InRole, BeingReset
      <4> QED BY <1>1, <2>1, <4>1 DEF PlaysRole
    <3> QED BY <3>2, <3>3
  <2>2. CASE c \notin waking
    BY <1>1, <2>2, InvTypes DEF PlaysRole
  <2> QED BY <2>1, <2>2
<1>4. TypeOK'
  <2>1. pc' \in [CPU -> {"bsp", "loop", "halted", "woken", "check", "task", "futureBsp", "relocate", "finishing",
                         "counting", "relocated"}]
    BY DEF DispatchInv, TypeOK
  <2>2. bsp' = "wakeup" /\ UNCHANGED <<State, ap, ApTopOfStack, calls, FinishedCount, fixed, ret, svc, waking,
                                       reset, ran>>
    OBVIOUS
  <2> HIDE DEF SendInitSipiSipi
  <2> QED BY <2>1, <2>2 DEF DispatchInv, TypeOK
<1>5. Waking' /\ Services' /\ Calls'
  BY <1>1, <1>2 DEF DispatchInv, Waking, Services, Calls, Unassigned, APs
<1>6. Resets'
  BY <1>1 DEF DispatchInv, Resets, Unassigned, APs
<1>7. Counts' /\ Ordered' /\ Stacks'
  BY <1>1 DEF DispatchInv, Counts, Ordered, Stacks, StacksApart, APs
<1> QED BY <1>3, <1>4, <1>5, <1>6, <1>7 DEF DispatchInv, AllInRole

LEMMA WaitApWakeupKept ==
  ASSUME DispatchInv, WaitApWakeup
  PROVE  DispatchInv'
<1> USE DEF WaitApWakeup
<1>1. ret # "idle" /\ ret \notin {"ipi", "wakeup"} /\ bsp' = ret
  BY DEF DispatchInv, Waking, TypeOK
<1>2. Where' = Where /\ Waited' = Waited /\ \A c \in CPU : Role(c)' = Role(c)
  <2>1. Where' = Where
    BY <1>1 DEF Where
  <2> QED BY <2>1 DEF Waited, Role
<1>3. AllInRole'
  BY <1>2 DEF DispatchInv, AllInRole, PlaysRole
<1>4. TypeOK'
  <2>1. bsp' \in {"decide", "count", "return", "checkAll", "checkThis", "exchange", "relocating"}
    BY <1>1 DEF DispatchInv, TypeOK
  <2> QED BY <2>1 DEF DispatchInv, TypeOK
<1>5. Waking'
  <2>1. \A c \in CPU : ~StartupApSignal[c]
    BY DEF DispatchInv, Waking
  <2> QED BY <1>1, <2>1 DEF Waking
<1>6. Services' /\ Calls'
  BY <1>2 DEF DispatchInv, Services, Calls, Unassigned, APs
<1>7. Resets'
  BY <1>2 DEF DispatchInv, Resets, Unassigned, APs
<1>8. Counts' /\ Ordered' /\ Stacks'
  BY <1>2 DEF DispatchInv, Counts, Ordered, Stacks, StacksApart, APs
<1> QED BY <1>3, <1>4, <1>5, <1>6, <1>7, <1>8 DEF DispatchInv

-----------------------------------------------------------------------------
(* A step of the BSP that wakes APs.                                       *)

thenSet == {"decide", "count", "return", "checkAll", "checkThis", "exchange", "relocating"}

(* What is true of the processors that are awakened, and of the others.    *)
Woken(targets, function, then) ==
  /\ Where = bsp /\ Where' = then /\ Waking' /\ pc' = pc /\ ApTopOfStack' = ApTopOfStack /\ FinishedCount' = 0
  /\ \A c \in CPU : ~StartupApSignal[c]
  /\ \A c \in targets : State'[c] = "Ready" /\ StartupApSignal'[c] = TRUE /\ ApFunction'[c] = function
  /\ \A c \in CPU \ targets : /\ State'[c] = State[c] /\ StartupApSignal'[c] = StartupApSignal[c]
                              /\ ApFunction'[c] = ApFunction[c] /\ ran'[c] = ran[c]

LEMMA WokenUp ==
  ASSUME DispatchInv, bsp \in awake,
         NEW targets \in SUBSET CPU, NEW function, NEW loopMode, NEW then \in thenSet,
         WakeUpAP(targets, function, loopMode, then),
         then # "count" => /\ function # "null" /\ loopMode = ApLoopMode'
                           /\ \A c \in targets : pc[c] # "woken",
         then = "count" => \A c \in targets : c = Least(failed')
  PROVE  Woken(targets, function, then)
<1>1. /\ pc' = pc /\ ApTopOfStack' = ApTopOfStack /\ FinishedCount' = 0 /\ waking' = targets
      /\ bsp' \in {"ipi", "wakeup"} /\ ret' = then /\ Where' = then
      /\ bsp' = "ipi" /\ then # "count" => ApLoopMode' = "hlt"
  BY DEF WakeUpAP, Where, ResetVectorRequired
<1>2. Where = bsp /\ \A c \in CPU : ~StartupApSignal[c]
  BY AwakeFacts
<1>3. \A c \in targets : State'[c] = "Ready" /\ StartupApSignal'[c] = TRUE /\ ApFunction'[c] = function
  BY DEF WakeUpAP
<1>4. \A c \in CPU \ targets : /\ State'[c] = State[c] /\ ApFunction'[c] = ApFunction[c]
                               /\ StartupApSignal'[c] <=> StartupApSignal[c]
                               /\ ran'[c] <=> ran[c]
  BY DEF WakeUpAP
<1>5. StartupApSignal' \in [CPU -> BOOLEAN] /\ ran' \in [CPU -> BOOLEAN]
  BY DEF WakeUpAP
<1>6. \A c \in CPU \ targets : StartupApSignal'[c] = StartupApSignal[c] /\ ran'[c] = ran[c]
  BY <1>4, <1>5 DEF DispatchInv, TypeOK
<1>7. Waking'
  <2>1. \A c \in CPU : StartupApSignal'[c] => c \in targets
    BY <1>2, <1>4
  <2>2. then # "idle"
    BY DEF thenSet
  <2> QED BY <1>1, <1>3, <2>1, <2>2 DEF Waking
<1> QED BY <1>1, <1>2, <1>3, <1>4, <1>6, <1>7 DEF Woken

LEMMA WokenUpTypes ==
  ASSUME DispatchInv, NEW targets \in SUBSET CPU, NEW function \in {"null"} \cup Procedures, NEW loopMode,
         NEW then \in thenSet, WakeUpAP(targets, function, loopMode, then),
         Waiting' \in [CPU -> BOOLEAN], WaitEvent' \in [CPU -> BOOLEAN], limited' \in [CPU -> BOOLEAN],
         StartCount' \in Nat, RunningCount' \in Nat, SingleThread' \in BOOLEAN, allWaitEvent' \in BOOLEAN,
         allLimited' \in BOOLEAN, BspNumber' = BspNumber, ticks' = ticks, pcdLoopMode' = pcdLoopMode,
         ApLoopMode' \in {"hlt", "mwait"}, caller' \in {"none", "tick", "all", "this", "enable", "switch", "exit"},
         callee' \in CPU \cup {None}, UNCHANGED reset
  PROVE  TypeOK'
<1>1. /\ State' \in [CPU -> {"Idle", "Ready", "Busy", "Finished", "Disabled"}]
      /\ ApFunction' \in [CPU -> {"null"} \cup Procedures]
  BY DEF WakeUpAP, DispatchInv, TypeOK
<1>2. StartupApSignal' \in [CPU -> BOOLEAN] /\ ran' \in [CPU -> BOOLEAN]
  BY DEF WakeUpAP
<1>3. pc' = pc /\ ApTopOfStack' = ApTopOfStack /\ FinishedCount' = 0 /\ waking' = targets
      /\ bsp' \in {"ipi", "wakeup"} /\ ret' = then
  BY DEF WakeUpAP
<1> QED BY <1>1, <1>2, <1>3 DEF DispatchInv, TypeOK, thenSet

(* The roles of the processors that are awakened, and those of the others. *)
LEMMA RolesWoken ==
  ASSUME DispatchInv, NEW targets \in SUBSET CPU, NEW function, NEW then, Woken(targets, function, then),
         \A c \in targets : InRole(Role(c)', pc[c], "Ready", TRUE, function, ran'[c]),
         \A c \in CPU \ targets :
           InRole(Role(c)', pc[c], State[c], StartupApSignal[c], ApFunction[c], ran[c])
  PROVE  AllInRole'
<1> SUFFICES ASSUME NEW c \in CPU
             PROVE  InRole(Role(c)', pc'[c], State'[c], StartupApSignal'[c], ApFunction'[c], ran'[c])
  BY DEF AllInRole, PlaysRole
<1>1. CASE c \in targets
  BY <1>1 DEF Woken
<1>2. CASE c \notin targets
  BY <1>2 DEF Woken
<1> QED BY <1>1, <1>2

LEMMA WakeUpNextKept ==
  ASSUME DispatchInv, WakeUpNext
  PROVE  DispatchInv'
<1>1. /\ bsp = "next" /\ bsp \in awake /\ Where = "next" /\ UNCHANGED <<calls, fixed, svc, reset>>
      /\ Waited # {} /\ Waited \subseteq CPU
  <2>1. bsp = "next" /\ bsp \in awake /\ Where = "next" /\ UNCHANGED <<calls, fixed, svc, reset>>
    BY DEF WakeUpNext, awake, Where
  <2> QED BY <2>1 DEF DispatchInv, Counts, Waited
<1>2. PICK t \in CPU : t = Least(Waited) /\ t \in Waited /\ \A d \in Waited : t <= d
  BY <1>1, LeastIn
<1>3. PICK mode : mode = ApLoopMode' /\ WakeUpAP({t}, "task", mode, "decide")
  BY <1>2 DEF WakeUpNext, WakeUpAP, Waited
<1>4. /\ callee = None /\ job = "none" /\ caller \in {"tick", "all", "this"}
      /\ \A c \in CPU : ~(caller = "this" /\ callee = c)
  BY <1>1, NoCallee
<1>5. \A c \in CPU : Waiting[c] => State[c] = "Idle"
  BY <1>1 DEF DispatchInv, Counts
<1>6. Role(t) = "waiting" /\ pc[t] \in AtRest
  <2>1. t # BspNumber /\ Waiting[t] /\ State[t] = "Idle"
    BY <1>2, <1>5 DEF DispatchInv, Calls, Waited
  <2>2. Role(t) = "waiting"
    BY <1>1, <2>1 DEF Role
  <2>3. InRole("waiting", pc[t], "Idle", StartupApSignal[t], ApFunction[t], ran[t])
    BY <2>1, <2>2, InvTypes DEF PlaysRole
  <2> QED BY <2>2, <2>3 DEF InRole, Started, Sent, Resting
<1>7. /\ {t} \in SUBSET CPU /\ "task" \in {"null"} \cup Procedures /\ "decide" \in thenSet
      /\ \A c \in {t} : pc[c] # "woken"
  BY <1>6 DEF Procedures, thenSet, AtRest
<1>20. Woken({t}, "task", "decide")
  <2>1. DispatchInv /\ bsp \in awake
    BY <1>1
  <2> QED BY <2>1, <1>3, <1>7, WokenUp
<1>8. /\ Where' = "decide" /\ Waking' /\ pc' = pc /\ ApTopOfStack' = ApTopOfStack /\ FinishedCount' = 0
      /\ State'[t] = "Ready" /\ StartupApSignal'[t] = TRUE /\ ApFunction'[t] = "task"
      /\ \A c \in CPU \ {t} : /\ State'[c] = State[c] /\ StartupApSignal'[c] = StartupApSignal[c]
                              /\ ApFunction'[c] = ApFunction[c] /\ ran'[c] = ran[c]
  BY <1>20 DEF Woken
<1>9. \A c \in CPU : Role(c)' = Role(c)
  BY <1>1, <1>4, <1>8 DEF Role
<1>10. AllInRole'
  <2>1. InRole("waiting", pc[t], "Ready", TRUE, "task", ran'[t])
    BY <1>6 DEF InRole, Started, Sent
  <2>2. \A c \in CPU \ {t} : InRole(Role(c)', pc[c], State[c], StartupApSignal[c], ApFunction[c], ran[c])
    BY <1>9, InvTypes DEF PlaysRole
  <2>3. \A c \in {t} : InRole(Role(c)', pc[c], "Ready", TRUE, "task", ran'[c])
    BY <1>6, <1>9, <2>1
  <2> QED BY <1>20, <1>7, <2>2, <2>3, RolesWoken
<1>11. TypeOK'
  <2>1. /\ Waiting' \in [CPU -> BOOLEAN] /\ WaitEvent' \in [CPU -> BOOLEAN] /\ limited' \in [CPU -> BOOLEAN]
        /\ StartCount' \in Nat /\ RunningCount' \in Nat /\ SingleThread' \in BOOLEAN /\ allWaitEvent' \in BOOLEAN
        /\ allLimited' \in BOOLEAN /\ BspNumber' = BspNumber /\ ticks' = ticks /\ pcdLoopMode' = pcdLoopMode
        /\ ApLoopMode' \in {"hlt", "mwait"} /\ callee' \in CPU \cup {None}
        /\ caller' \in {"none", "tick", "all", "this", "enable", "switch", "exit"}
    BY <1>1 DEF DispatchInv, TypeOK
  <2> QED BY <1>1, <1>3, <1>7, <2>1, WokenUpTypes
<1>12. Services'
  BY <1>1, <1>4, <1>8 DEF DispatchInv, Services
<1>13. Calls'
  BY <1>1, <1>4, <1>8 DEF DispatchInv, Calls
<1>14. Resets'
  BY <1>1, <1>4, <1>8 DEF DispatchInv, Resets, APs
<1>15. Counts'
  <2>1. Waited' = Waited
    BY <1>1 DEF Waited
  <2>2. Waiting'[t] /\ State'[t] # "Idle"
    BY <1>1, <1>2, <1>8 DEF Waited
  <2>3. \A c \in CPU : Waiting'[c] /\ State'[c] = "Idle" => Waiting[c] /\ State[c] = "Idle"
    BY <1>1, <1>5
  <2> QED BY <1>1, <1>4, <1>8, <2>1, <2>2, <2>3 DEF DispatchInv, Counts
<1>16. Ordered'
  <2>1. \A c \in CPU : Waiting'[c] /\ State'[c] # "Idle" => c = t
    BY <1>1, <1>5, <1>8
  <2>2. \A d \in CPU : Waiting'[d] => t <= d
    BY <1>1, <1>2 DEF Waited
  <2> QED BY <2>1, <2>2 DEF Ordered
<1>17. Stacks'
  BY <1>1, <1>8 DEF DispatchInv, Stacks, StacksApart, APs
<1> QED BY <1>8, <1>10, <1>11, <1>12, <1>13, <1>14, <1>15, <1>16, <1>17 DEF DispatchInv

LEMMA ResetProcessorKept ==
  ASSUME DispatchInv, ResetProcessor
  PROVE  DispatchInv'
<1>1. /\ bsp = "reset" /\ bsp \in awake /\ Where = "reset" /\ UNCHANGED <<calls, fixed, svc, reset>>
  BY DEF ResetProcessor, awake, Where
<1>2. failed \subseteq APs /\ failed # {} /\ job # "none"
  BY <1>1 DEF DispatchInv, Resets
<1>3. PICK t \in CPU : t = Least(failed) /\ t \in failed /\ t # BspNumber
  BY <1>2, LeastIn DEF APs
<1>4. PICK mode : WakeUpAP({t}, "null", mode, "count")
  BY <1>3 DEF ResetProcessor, WakeUpAP
<1>6. pc[t] \in AtRest \cup {"woken", "check", "task", "finishing"}
  <2>1. Role(t) \in {"waiting", "started", "resting"}
    BY <1>1, <1>3 DEF Role
  <2> QED BY <2>1, InvTypes DEF PlaysRole, InRole, Started, Sent, Resting
<1>7. /\ {t} \in SUBSET CPU /\ "null" \in {"null"} \cup Procedures /\ "count" \in thenSet
      /\ \A c \in {t} : c = Least(failed')
  BY <1>1, <1>3 DEF Procedures, thenSet
<1>20. Woken({t}, "null", "count")
  <2>1. DispatchInv /\ bsp \in awake
    BY <1>1
  <2> QED BY <2>1, <1>4, <1>7, WokenUp
<1>8. /\ Where' = "count" /\ Waking' /\ pc' = pc /\ ApTopOfStack' = ApTopOfStack /\ FinishedCount' = 0
      /\ State'[t] = "Ready" /\ StartupApSignal'[t] = TRUE /\ ApFunction'[t] = "null"
      /\ \A c \in CPU \ {t} : /\ State'[c] = State[c] /\ StartupApSignal'[c] = StartupApSignal[c]
                              /\ ApFunction'[c] = ApFunction[c] /\ ran'[c] = ran[c]
  BY <1>20 DEF Woken
<1>9. Role(t)' = "resetting" /\ \A c \in CPU \ {t} : Role(c)' = Role(c)
  BY <1>1, <1>3, <1>8 DEF Role
<1>10. AllInRole'
  <2>1. InRole("resetting", pc[t], "Ready", TRUE, "null", ran'[t])
    BY <1>6 DEF InRole, BeingReset
  <2>2. \A c \in CPU \ {t} : InRole(Role(c)', pc[c], State[c], StartupApSignal[c], ApFunction[c], ran[c])
    BY <1>9, InvTypes DEF PlaysRole
  <2>3. \A c \in {t} : InRole(Role(c)', pc[c], "Ready", TRUE, "null", ran'[c])
    BY <1>9, <2>1
  <2> QED BY <1>20, <1>7, <2>2, <2>3, RolesWoken
<1>11. TypeOK'
  <2>1. /\ Waiting' \in [CPU -> BOOLEAN] /\ WaitEvent' \in [CPU -> BOOLEAN] /\ limited' \in [CPU -> BOOLEAN]
        /\ StartCount' \in Nat /\ RunningCount' \in Nat /\ SingleThread' \in BOOLEAN /\ allWaitEvent' \in BOOLEAN
        /\ allLimited' \in BOOLEAN /\ BspNumber' = BspNumber /\ ticks' = ticks /\ pcdLoopMode' = pcdLoopMode
        /\ ApLoopMode' \in {"hlt", "mwait"} /\ callee' \in CPU \cup {None}
        /\ caller' \in {"none", "tick", "all", "this", "enable", "switch", "exit"}
    BY <1>1 DEF DispatchInv, TypeOK
  <2> QED BY <1>1, <1>4, <1>7, <2>1, WokenUpTypes
<1>12. Services'
  BY <1>1, <1>8 DEF DispatchInv, Services, APs
<1>13. Calls'
  BY <1>1, <1>8 DEF DispatchInv, Calls, Unassigned
<1>14. Resets'
  BY <1>1, <1>8 DEF DispatchInv, Resets, APs, Waited, Unassigned
<1>16. ASSUME NEW c \in CPU, Waiting[c]
       PROVE  (State'[c] = "Idle" => State[c] = "Idle") /\ (State[c] # "Idle" => State'[c] # "Idle")
  BY <1>8
<1>17. Counts'
  <2>1. Waited' = Waited
    BY <1>1 DEF Waited
  <2> QED BY <1>1, <1>8, <1>16, <2>1 DEF DispatchInv, Counts
<1>18. Ordered'
  <2> SUFFICES ASSUME SingleThread, NEW c \in CPU, NEW d \in CPU, Waiting[c], Waiting[d], State'[c] # "Idle"
               PROVE  c <= d
    BY <1>1 DEF Ordered
  <2>1. CASE c = t
    <3>1. job = "all" => \A e \in CPU : Waiting[e] => t <= e
      BY <1>2, <1>3, LeastIn DEF DispatchInv, Resets, Waited, APs
    <3>2. job # "all" => ~Waiting[t]
      BY <1>2, <1>3 DEF DispatchInv, Resets, TypeOK, Unassigned
    <3> QED BY <2>1, <3>1, <3>2
  <2>2. CASE c # t
    BY <1>8, <2>2 DEF DispatchInv, Ordered
  <2> QED BY <2>1, <2>2
<1>19. Stacks'
  BY <1>1, <1>8 DEF DispatchInv, Stacks, StacksApart, APs
<1> QED BY <1>8, <1>10, <1>11, <1>12, <1>13, <1>14, <1>17, <1>18, <1>19 DEF DispatchInv

(* Where a new call begins, an AP that is idle or disabled has no call, if *)
(* no AP is executing.                                                     *)
LEMMA NobodyCalled ==
  ASSUME DispatchInv, Where = "dispatch", \A c \in APs : State[c] \in {"Idle", "Disabled"}
  PROVE  \A c \in CPU : Unassigned(c) /\ (c # BspNumber => Role(c) = "resting")
<1>1. callee = None /\ job = "none"
  BY NoCallee
<1>2. ASSUME NEW c \in CPU, c # BspNumber, Role(c) \in {"waiting", "started"}
      PROVE  Role(c) = "waiting" /\ State[c] = "Idle"
  <2>1. State[c] \in {"Idle", "Disabled"}
    BY <1>2 DEF APs
  <2> QED BY <1>2, <2>1, InvTypes DEF PlaysRole, InRole, Started, Sent
<1>3. ASSUME NEW c \in CPU
      PROVE  ~Waiting[c]
  <2> SUFFICES ASSUME Waiting[c] PROVE FALSE
    OBVIOUS
  <2>1. \A d \in CPU : Waiting[d] => d # BspNumber /\ Role(d) = "waiting"
    BY DEF DispatchInv, Calls, Role
  <2>2. \A d \in CPU : Waiting[d] => State[d] = "Idle"
    BY <1>2, <2>1
  <2> QED BY <1>1, <2>2 DEF DispatchInv, Counts
<1>4. ASSUME NEW c \in CPU
      PROVE  ~WaitEvent[c]
  <2> SUFFICES ASSUME WaitEvent[c] PROVE FALSE
    OBVIOUS
  <2>1. c # BspNumber /\ Role(c) = "started"
    BY <1>3 DEF DispatchInv, Calls, Role
  <2> QED BY <1>2, <2>1
<1> QED BY <1>1, <1>3, <1>4, NoneIsNobody DEF Role, Unassigned

LEMMA StartupAllAPsKept ==
  ASSUME DispatchInv, Tame, NEW single \in BOOLEAN, NEW event \in BOOLEAN, NEW limit \in BOOLEAN,
         StartupAllAPs(single, event, limit)
  PROVE  DispatchInv'
<1>1. PICK enabled \in SUBSET CPU :
        /\ enabled = {c \in APs : State[c] = "Idle"} /\ enabled # {}
        /\ single \/ enabled = APs
        /\ Waiting' = [c \in CPU |-> c \in enabled]
        /\ StartCount' = Cardinality(enabled)
  BY DEF StartupAllAPs, Tame, APs
<1>2. /\ bsp = "dispatch" /\ bsp \in awake /\ Where = "dispatch" /\ caller = "all"
      /\ \A c \in APs : State[c] \in {"Idle", "Disabled"}
      /\ RunningCount' = 0 /\ SingleThread' = single /\ allWaitEvent' = event /\ allLimited' = limit
      /\ UNCHANGED <<WaitEvent, limited, fixed, svc, reset>>
  BY DEF StartupAllAPs, awake, Where
<1>3. PICK t \in CPU : t = Least(enabled) /\ t \in enabled /\ \A d \in enabled : t <= d
  BY <1>1, LeastIn
<1>4. PICK targets \in SUBSET CPU : targets = IF single THEN {t} ELSE APs
  BY DEF APs
<1>5. PICK then \in {"return", "checkAll"} : then = IF event THEN "return" ELSE "checkAll"
  OBVIOUS
<1>6. PICK mode : mode = ApLoopMode' /\ WakeUpAP(targets, "task", mode, then)
  BY <1>1, <1>3, <1>4, <1>5 DEF StartupAllAPs, WakeUpAP
<1>7. callee = None /\ job = "none" /\ failed = {}
  BY <1>2, NoCallee
<1>8. \A c \in CPU : ~WaitEvent[c] /\ ~Waiting[c] /\ (c # BspNumber => Role(c) = "resting")
  BY <1>2, NobodyCalled DEF Unassigned
<1>9. targets \subseteq enabled /\ t \in targets /\ BspNumber \notin enabled
  BY <1>1, <1>3, <1>4 DEF APs
<1>10. \A c \in CPU : c # BspNumber => Resting(pc[c], State[c], StartupApSignal[c])
  BY <1>8, InvTypes DEF PlaysRole, InRole
<1>11. then \in thenSet /\ "task" \in {"null"} \cup Procedures /\ \A c \in targets : pc[c] # "woken"
  BY <1>9, <1>10 DEF thenSet, Procedures, Resting, AtRest
<1>12. Woken(targets, "task", then)
  <2>1. DispatchInv /\ bsp \in awake /\ then # "count"
    BY <1>2
  <2> QED BY <2>1, <1>6, <1>11, WokenUp
<1>13. \A c \in CPU : Waiting'[c] <=> c \in enabled
  BY <1>1
<1>14. Where' = then
  BY <1>12 DEF Woken
<1>15. \A c \in CPU : Role(c)' = IF c = BspNumber THEN "bsp" ELSE IF c \in enabled THEN "waiting" ELSE "resting"
  BY <1>2, <1>7, <1>8, <1>13, <1>14 DEF Role
<1>16. AllInRole'
  <2>1. \A c \in targets : InRole(Role(c)', pc[c], "Ready", TRUE, "task", ran'[c])
    <3> SUFFICES ASSUME NEW c \in targets PROVE InRole(Role(c)', pc[c], "Ready", TRUE, "task", ran'[c])
      OBVIOUS
    <3>1. Role(c)' = "waiting" /\ pc[c] \in AtRest
      BY <1>9, <1>10, <1>15 DEF Resting
    <3>2. InRole("waiting", pc[c], "Ready", TRUE, "task", ran'[c])
      BY <3>1 DEF InRole, Started, Sent
    <3> QED BY <3>1, <3>2
  <2>2. \A c \in CPU \ targets : InRole(Role(c)', pc[c], State[c], StartupApSignal[c], ApFunction[c], ran[c])
    <3> SUFFICES ASSUME NEW c \in CPU \ targets
                 PROVE  InRole(Role(c)', pc[c], State[c], StartupApSignal[c], ApFunction[c], ran[c])
      OBVIOUS
    <3>1. CASE c = BspNumber
      <4>1. Role(c) = "bsp" /\ Role(c)' = "bsp"
        BY <1>2, <1>15, <3>1 DEF Role
      <4> QED BY <4>1, InvTypes DEF PlaysRole
    <3>2. CASE c # BspNumber /\ c \in enabled
      <4>1. InRole("waiting", pc[c], State[c], StartupApSignal[c], ApFunction[c], ran[c])
        BY <1>1, <1>10, <3>2 DEF InRole
      <4> QED BY <1>15, <3>2, <4>1
    <3>3. CASE c # BspNumber /\ c \notin enabled
      <4>1. InRole("resting", pc[c], State[c], StartupApSignal[c], ApFunction[c], ran[c])
        BY <1>10, <3>3 DEF InRole
      <4> QED BY <1>15, <3>3, <4>1
    <3> QED BY <3>1, <3>2, <3>3
  <2> QED BY <1>12, <2>1, <2>2, RolesWoken
<1>17. TypeOK'
  <2>1. Waiting' \in [CPU -> BOOLEAN]
    <3>1. [c \in CPU |-> c \in enabled] \in [CPU -> BOOLEAN]
      OBVIOUS
    <3> QED BY <1>1, <3>1
  <2>2. StartCount' \in Nat
    BY <1>1, CpusFinite
  <2>3. /\ WaitEvent' \in [CPU -> BOOLEAN] /\ limited' \in [CPU -> BOOLEAN]
        /\ RunningCount' \in Nat /\ SingleThread' \in BOOLEAN /\ allWaitEvent' \in BOOLEAN
        /\ allLimited' \in BOOLEAN /\ BspNumber' = BspNumber /\ ticks' = ticks /\ pcdLoopMode' = pcdLoopMode
        /\ ApLoopMode' \in {"hlt", "mwait"} /\ callee' \in CPU \cup {None}
        /\ caller' \in {"none", "tick", "all", "this", "enable", "switch", "exit"} /\ UNCHANGED reset
    BY <1>2 DEF DispatchInv, TypeOK
  <2> QED BY <1>6, <1>11, <2>1, <2>2, <2>3, WokenUpTypes
<1>18. Waking' /\ Services'
  BY <1>2, <1>7, <1>12, <1>14 DEF Woken, Services
<1>19. Calls' /\ Resets'
  BY <1>2, <1>7, <1>8, <1>9, <1>13, <1>14 DEF Calls, Resets, APs
<1>20. Waited' = enabled
  BY <1>13 DEF Waited
<1>21. \A c \in CPU : Waiting'[c] /\ State'[c] # "Idle" => c \in targets
  BY <1>1, <1>12, <1>13 DEF Woken
<1>22. Counts'
  <2>1. RunningCount' + Cardinality(Waited') = StartCount'
    BY <1>1, <1>2, <1>20, CpusFinite
  <2>2. Waiting'[t] /\ State'[t] # "Idle"
    BY <1>3, <1>9, <1>12, <1>13 DEF Woken
  <2>3. \A c \in CPU : Waiting'[c] /\ State'[c] = "Idle" => SingleThread'
    <3> SUFFICES ASSUME NEW c \in CPU, Waiting'[c], State'[c] = "Idle", ~single PROVE FALSE
      BY <1>2
    <3>1. c \in targets
      BY <1>1, <1>4, <1>13
    <3> QED BY <1>12, <3>1 DEF Woken
  <2> QED BY <1>14, <2>1, <2>2, <2>3 DEF Counts
<1>23. Ordered'
  <2> SUFFICES ASSUME single, NEW c \in CPU, NEW d \in CPU, Waiting'[c], Waiting'[d], State'[c] # "Idle"
               PROVE  c <= d
    BY <1>2 DEF Ordered
  <2> QED BY <1>3, <1>4, <1>13, <1>21
<1>24. Stacks'
  BY <1>2, <1>12, <1>14 DEF DispatchInv, Woken, Stacks, StacksApart, APs
<1> QED BY <1>16, <1>17, <1>18, <1>19, <1>22, <1>23, <1>24 DEF DispatchInv

LEMMA StartupThisAPKept ==
  ASSUME DispatchInv, Tame, NEW t \in CPU, NEW event \in BOOLEAN, NEW limit \in BOOLEAN,
         StartupThisAP(t, event, limit)
  PROVE  DispatchInv'
<1>1. /\ bsp = "dispatch" /\ bsp \in awake /\ Where = "dispatch" /\ caller = "this" /\ t # BspNumber
      /\ ~Waiting[t] /\ ~WaitEvent[t]
      /\ WaitEvent' = [WaitEvent EXCEPT ![t] = event] /\ limited' = [limited EXCEPT ![t] = limit]
      /\ callee' = t
      /\ UNCHANGED <<Waiting, StartCount, RunningCount, SingleThread, allWaitEvent, allLimited,
                     fixed, caller, reset>>
  BY DEF StartupThisAP, Callable, Tame, Unassigned, awake, Where
<1>2. PICK then \in {"return", "checkThis"} : then = IF event THEN "return" ELSE "checkThis"
  OBVIOUS
<1>3. PICK mode : mode = ApLoopMode' /\ WakeUpAP({t}, "task", mode, then)
  BY <1>2 DEF StartupThisAP, WakeUpAP
<1>4. /\ callee = None /\ job = "none" /\ failed = {}
      /\ \A c \in CPU : ~(caller = "this" /\ callee = c)
  BY <1>1, NoCallee
<1>5. Role(t) = "resting"
  BY <1>1, <1>4 DEF Role
<1>6. pc[t] \in AtRest
  BY <1>5, InvTypes DEF PlaysRole, InRole, Resting
<1>7. {t} \in SUBSET CPU /\ then \in thenSet /\ "task" \in {"null"} \cup Procedures /\ \A c \in {t} : pc[c] # "woken"
  BY <1>6 DEF thenSet, Procedures, AtRest
<1>8. Woken({t}, "task", then)
  <2>1. DispatchInv /\ bsp \in awake /\ then # "count"
    BY <1>1
  <2> QED BY <2>1, <1>3, <1>7, WokenUp
<1>9. Where' = then
  BY <1>8 DEF Woken
<1>10. (WaitEvent'[t] <=> event) /\ \A c \in CPU \ {t} : WaitEvent'[c] = WaitEvent[c]
  BY <1>1 DEF DispatchInv, TypeOK
<1>11. Role(t)' = "started" /\ \A c \in CPU \ {t} : Role(c)' = Role(c)
  <2>1. Role(t)' = "started"
    BY <1>1, <1>2, <1>9, <1>10 DEF Role
  <2>2. ASSUME NEW c \in CPU \ {t} PROVE Role(c)' = Role(c)
    BY <1>1, <1>2, <1>4, <1>9, <1>10 DEF Role
  <2> QED BY <2>1, <2>2
<1>12. AllInRole'
  <2>1. InRole("started", pc[t], "Ready", TRUE, "task", ran'[t])
    BY <1>6 DEF InRole, Started, Sent
  <2>2. \A c \in CPU \ {t} : InRole(Role(c)', pc[c], State[c], StartupApSignal[c], ApFunction[c], ran[c])
    BY <1>11, InvTypes DEF PlaysRole
  <2>3. \A c \in {t} : InRole(Role(c)', pc[c], "Ready", TRUE, "task", ran'[c])
    BY <1>11, <2>1
  <2> QED BY <1>7, <1>8, <2>2, <2>3, RolesWoken
<1>13. TypeOK'
  <2>1. WaitEvent' \in [CPU -> BOOLEAN] /\ limited' \in [CPU -> BOOLEAN]
    BY <1>1 DEF DispatchInv, TypeOK
  <2>2. /\ Waiting' \in [CPU -> BOOLEAN] /\ StartCount' \in Nat
        /\ RunningCount' \in Nat /\ SingleThread' \in BOOLEAN /\ allWaitEvent' \in BOOLEAN
        /\ allLimited' \in BOOLEAN /\ BspNumber' = BspNumber /\ ticks' = ticks /\ pcdLoopMode' = pcdLoopMode
        /\ ApLoopMode' \in {"hlt", "mwait"} /\ callee' \in CPU \cup {None}
        /\ caller' \in {"none", "tick", "all", "this", "enable", "switch", "exit"} /\ UNCHANGED reset
    BY <1>1 DEF DispatchInv, TypeOK
  <2> QED BY <1>3, <1>7, <2>1, <2>2, WokenUpTypes
<1>14. Waking'
  BY <1>8, <1>9 DEF Woken
<1>15. Services'
  BY <1>1, <1>2, <1>9, <1>10 DEF Services, APs
<1>16. Calls'
  BY <1>1, <1>9, <1>10 DEF DispatchInv, Calls
<1>17. Resets'
  BY <1>1, <1>4, <1>9 DEF Resets
<1>18. \A c \in CPU : Waiting[c] => State'[c] = State[c]
  BY <1>1, <1>8 DEF Woken
<1>19. Counts'
  <2>1. Waited' = Waited
    BY <1>1 DEF Waited
  <2> QED BY <1>1, <1>4, <1>9, <1>18, <2>1 DEF DispatchInv, Counts
<1>20. Ordered'
  BY <1>1, <1>18 DEF DispatchInv, Ordered
<1>21. Stacks'
  BY <1>1, <1>8, <1>9 DEF DispatchInv, Woken, Stacks, StacksApart, APs
<1> QED BY <1>12, <1>13, <1>14, <1>15, <1>16, <1>17, <1>19, <1>20, <1>21 DEF DispatchInv

(* Between the calls, a processor no call is pending for is at rest.       *)
LEMMA IdleRest ==
  ASSUME DispatchInv, Where = "idle", NEW c \in CPU, c # BspNumber, Unassigned(c)
  PROVE  Role(c) = "resting" /\ Resting(pc[c], State[c], StartupApSignal[c])
<1>1. \A d \in CPU : ~(caller = "this" /\ callee = d)
  BY NoCallee
<1>2. Role(c) = "resting"
  BY <1>1 DEF Role, Unassigned
<1> QED BY <1>2, InvTypes DEF PlaysRole, InRole

LEMMA SwitchBSPKept ==
  ASSUME DispatchInv, Tame, NEW t \in CPU, SwitchBSP(t)
  PROVE  DispatchInv'
<1>1. /\ bsp = "idle" /\ bsp \in awake /\ Where = "idle" /\ t # BspNumber
      /\ \A d \in CPU : d # BspNumber => Unassigned(d)
      /\ caller' = "switch" /\ callee' = t
      /\ UNCHANGED <<calls, fixed, reset>>
  BY DEF SwitchBSP, Callable, Tame, APs, awake, Where
<1>2. PICK mode : mode = ApLoopMode' /\ WakeUpAP({t}, "futureBsp", mode, "exchange")
  BY DEF SwitchBSP, WakeUpAP
<1>3. \A c \in CPU : Unassigned(c)
  BY <1>1 DEF DispatchInv, Calls, Unassigned
<1>4. job = "none" /\ failed = {} /\ \A c \in CPU : ~(caller = "this" /\ callee = c)
  BY <1>1, NoCallee
<1>5. pc[t] \in AtRest
  BY <1>1, <1>3, IdleRest DEF Resting
<1>6. /\ {t} \in SUBSET CPU /\ "exchange" \in thenSet /\ "futureBsp" \in {"null"} \cup Procedures
      /\ \A c \in {t} : pc[c] # "woken"
  BY <1>5 DEF thenSet, Procedures, AtRest
<1>7. Woken({t}, "futureBsp", "exchange")
  <2>1. DispatchInv /\ bsp \in awake
    BY <1>1
  <2> QED BY <2>1, <1>2, <1>6, WokenUp
<1>8. Where' = "exchange"
  BY <1>7 DEF Woken
<1>9. Role(t)' = "nextBsp" /\ \A c \in CPU \ {t} : Role(c)' = Role(c)
  <2>1. Role(t)' = "nextBsp"
    BY <1>1, <1>8 DEF Role
  <2>2. ASSUME NEW c \in CPU \ {t} PROVE Role(c)' = Role(c)
    BY <1>1, <1>3, <1>4, <1>8 DEF Role, Unassigned
  <2> QED BY <2>1, <2>2
<1>10. AllInRole'
  <2>1. InRole("nextBsp", pc[t], "Ready", TRUE, "futureBsp", ran'[t])
    BY <1>5 DEF InRole, Sent
  <2>2. \A c \in CPU \ {t} : InRole(Role(c)', pc[c], State[c], StartupApSignal[c], ApFunction[c], ran[c])
    BY <1>9, InvTypes DEF PlaysRole
  <2>3. \A c \in {t} : InRole(Role(c)', pc[c], "Ready", TRUE, "futureBsp", ran'[c])
    BY <1>9, <2>1
  <2> QED BY <1>6, <1>7, <2>2, <2>3, RolesWoken
<1>11. TypeOK'
  <2>1. /\ Waiting' \in [CPU -> BOOLEAN] /\ WaitEvent' \in [CPU -> BOOLEAN] /\ limited' \in [CPU -> BOOLEAN]
        /\ StartCount' \in Nat /\ RunningCount' \in Nat /\ SingleThread' \in BOOLEAN /\ allWaitEvent' \in BOOLEAN
        /\ allLimited' \in BOOLEAN /\ BspNumber' = BspNumber /\ ticks' = ticks /\ pcdLoopMode' = pcdLoopMode
        /\ ApLoopMode' \in {"hlt", "mwait"} /\ callee' \in CPU \cup {None}
        /\ caller' \in {"none", "tick", "all", "this", "enable", "switch", "exit"} /\ UNCHANGED reset
    BY <1>1 DEF DispatchInv, TypeOK
  <2> QED BY <1>2, <1>6, <2>1, WokenUpTypes
<1>12. Waking' /\ Services' /\ Resets'
  BY <1>1, <1>4, <1>7, <1>8 DEF Woken, Services, Resets, APs
<1>13. Calls'
  BY <1>1, <1>3 DEF Calls, Unassigned
<1>14. Counts' /\ Ordered'
  <2>1. Waited' = Waited /\ \A c \in CPU : ~Waiting'[c]
    BY <1>1, <1>3 DEF Waited, Unassigned
  <2> QED BY <1>1, <1>4, <1>8, <2>1 DEF DispatchInv, Counts, Ordered
<1>15. Stacks'
  BY <1>1, <1>7, <1>8 DEF DispatchInv, Woken, Stacks, StacksApart, APs
<1> QED BY <1>10, <1>11, <1>12, <1>13, <1>14, <1>15 DEF DispatchInv

LEMMA ChangeApLoopKept ==
  ASSUME DispatchInv, ChangeApLoop
  PROVE  DispatchInv'
<1>1. /\ bsp = "idle" /\ bsp \in awake /\ Where = "idle"
      /\ \A d \in APs : Unassigned(d)
      /\ caller' = "exit" /\ ApLoopMode' = pcdLoopMode
      /\ UNCHANGED <<calls, BspNumber, pcdLoopMode, ticks, callee, reset>>
  BY DEF ChangeApLoop, awake, Where
<1>0. PICK targets \in SUBSET CPU : targets = APs
  BY DEF APs
<1>2. PICK mode : mode = ApLoopMode' /\ WakeUpAP(targets, "relocate", mode, "relocating")
  BY <1>0 DEF ChangeApLoop, WakeUpAP
<1>3. \A c \in CPU : Unassigned(c)
  BY <1>1 DEF DispatchInv, Calls, Unassigned, APs
<1>4. job = "none" /\ failed = {} /\ callee = None
  BY <1>1, NoCallee
<1>5. \A c \in targets : pc[c] \in AtRest
  BY <1>0, <1>1, <1>3, IdleRest DEF Resting, APs
<1>6. /\ "relocating" \in thenSet /\ "relocate" \in {"null"} \cup Procedures
      /\ \A c \in targets : pc[c] # "woken"
  BY <1>5 DEF thenSet, Procedures, AtRest
<1>7. Woken(targets, "relocate", "relocating")
  <2>1. DispatchInv /\ bsp \in awake
    BY <1>1
  <2> QED BY <2>1, <1>2, <1>6, WokenUp
<1>8. Where' = "relocating"
  BY <1>7 DEF Woken
<1>9. /\ \A c \in targets : Role(c)' = "relocated"
      /\ \A c \in CPU \ targets : Role(c)' = "bsp" /\ Role(c) = "bsp"
  BY <1>0, <1>1, <1>8 DEF Role, APs
<1>10. AllInRole'
  <2>1. \A c \in targets : InRole(Role(c)', pc[c], "Ready", TRUE, "relocate", ran'[c])
    <3> SUFFICES ASSUME NEW c \in targets PROVE InRole("relocated", pc[c], "Ready", TRUE, "relocate", ran'[c])
      BY <1>9
    <3> QED BY <1>5 DEF InRole, Sent
  <2>2. \A c \in CPU \ targets : InRole(Role(c)', pc[c], State[c], StartupApSignal[c], ApFunction[c], ran[c])
    BY <1>9, InvTypes DEF PlaysRole
  <2> QED BY <1>7, <2>1, <2>2, RolesWoken
<1>11. TypeOK'
  <2>1. /\ Waiting' \in [CPU -> BOOLEAN] /\ WaitEvent' \in [CPU -> BOOLEAN] /\ limited' \in [CPU -> BOOLEAN]
        /\ StartCount' \in Nat /\ RunningCount' \in Nat /\ SingleThread' \in BOOLEAN /\ allWaitEvent' \in BOOLEAN
        /\ allLimited' \in BOOLEAN /\ BspNumber' = BspNumber /\ ticks' = ticks /\ pcdLoopMode' = pcdLoopMode
        /\ ApLoopMode' \in {"hlt", "mwait"} /\ callee' \in CPU \cup {None}
        /\ caller' \in {"none", "tick", "all", "this", "enable", "switch", "exit"} /\ UNCHANGED reset
    BY <1>1 DEF DispatchInv, TypeOK
  <2> QED BY <1>2, <1>6, <2>1, WokenUpTypes
<1>12. Waking' /\ Services' /\ Resets'
  BY <1>1, <1>4, <1>7, <1>8 DEF Woken, Services, Resets, APs
<1>13. Calls'
  BY <1>1, <1>3 DEF Calls, Unassigned
<1>14. Counts' /\ Ordered'
  <2>1. Waited' = Waited /\ \A c \in CPU : ~Waiting'[c]
    BY <1>1, <1>3 DEF Waited, Unassigned
  <2> QED BY <1>1, <1>4, <1>8, <2>1 DEF DispatchInv, Counts, Ordered
<1>15. Stacks'
  BY <1>1, <1>7, <1>8 DEF DispatchInv, Woken, Stacks, StacksApart, APs
<1> QED BY <1>10, <1>11, <1>12, <1>13, <1>14, <1>15 DEF DispatchInv

-----------------------------------------------------------------------------
(* The exchange of the roles, and the end of the boot services.            *)

LEMMA ExchangeRoleKept ==
  ASSUME DispatchInv, ExchangeRole
  PROVE  DispatchInv'
<1>1. /\ bsp = "exchange" /\ bsp' = "exchanged" /\ pc[callee] = "futureBsp"
      /\ UNCHANGED <<State, ap, calls, FinishedCount, fixed, ret, svc, waking, reset, ran>>
      /\ pc' = [pc EXCEPT ![callee] = "bsp", ![BspNumber] = "finishing"]
      /\ ApTopOfStack' = [ApTopOfStack EXCEPT ![BspNumber] = ApTopOfStack[callee]]
  BY DEF ExchangeRole, ExchangedStacks
<1>2. bsp \in awake /\ bsp' \in awake
  BY <1>1 DEF awake
<1>3. Where = "exchange" /\ Where' = "exchanged" /\ Waking' /\ \A c \in CPU : ~StartupApSignal[c]
  BY <1>1, <1>2, StillAwake
<1>4. caller = "switch" /\ callee \in CPU /\ callee # BspNumber /\ BspNumber \in CPU /\ job = "none"
  BY <1>3 DEF DispatchInv, Services, Resets, TypeOK, APs
<1>5. /\ pc'[callee] = "bsp" /\ pc'[BspNumber] = "finishing"
      /\ \A c \in CPU : c # callee /\ c # BspNumber => pc'[c] = pc[c]
  BY <1>1, <1>4 DEF DispatchInv, TypeOK
<1>6. /\ Role(callee) = "nextBsp" /\ Role(BspNumber) = "bsp"
      /\ \A c \in CPU : c # callee /\ c # BspNumber => Role(c)' = Role(c)
  BY <1>1, <1>3, <1>4 DEF Role
<1>7. ASSUME NEW c \in CPU
      PROVE  PlaysRole(c)'
  <2>1. CASE c = callee
    <3>1. Role(c)' = "newBsp"
      BY <1>1, <1>3, <1>4, <2>1 DEF Role
    <3>2. InRole("nextBsp", "futureBsp", State[c], StartupApSignal[c], ApFunction[c], ran[c])
      BY <1>1, <1>6, <2>1, InvTypes DEF PlaysRole
    <3>3. InRole("newBsp", "bsp", State[c], StartupApSignal[c], ApFunction[c], ran[c])
      BY <3>2 DEF InRole, Sent, AtRest
    <3> QED BY <1>1, <1>5, <2>1, <3>1, <3>3 DEF PlaysRole
  <2>2. CASE c = BspNumber
    <3>1. Role(c)' = "oldBsp"
      BY <1>1, <1>3, <2>2 DEF Role
    <3>2. InRole("bsp", pc[c], State[c], StartupApSignal[c], ApFunction[c], ran[c])
      BY <1>6, <2>2, InvTypes DEF PlaysRole
    <3>3. InRole("oldBsp", "finishing", State[c], StartupApSignal[c], ApFunction[c], ran[c])
      BY <3>2 DEF InRole
    <3> QED BY <1>1, <1>5, <2>2, <3>1, <3>3 DEF PlaysRole
  <2>3. CASE c # callee /\ c # BspNumber
    BY <1>1, <1>5, <1>6, <2>3, InvTypes DEF PlaysRole
  <2> QED BY <2>1, <2>2, <2>3
<1>8. TypeOK'
  <2>1. pc' \in [CPU -> {"bsp", "loop", "halted", "woken", "check", "task", "futureBsp", "relocate", "finishing",
                         "counting", "relocated"}]
        /\ ApTopOfStack' \in [CPU -> CPU]
    BY <1>1, <1>4 DEF DispatchInv, TypeOK
  <2> QED BY <1>1, <2>1 DEF DispatchInv, TypeOK
<1>9. Services' /\ Calls' /\ Resets'
  BY <1>1, <1>3, <1>4 DEF DispatchInv, Services, Calls, Resets, Unassigned, APs
<1>10. Counts' /\ Ordered'
  <2>1. Waited' = Waited
    BY <1>1 DEF Waited
  <2> QED BY <1>1, <1>3, <1>4, <2>1 DEF DispatchInv, Counts, Ordered
<1>11. Stacks'
  <2>1. /\ ApTopOfStack'[BspNumber] = ApTopOfStack[callee] /\ ApTopOfStack'[callee] = ApTopOfStack[callee]
        /\ \A c \in APs : ApTopOfStack'[c] = ApTopOfStack[c]
    BY <1>1, <1>4 DEF DispatchInv, TypeOK, APs
  <2> QED BY <1>1, <2>1 DEF DispatchInv, Stacks, StacksApart, APs
<1> QED BY <1>3, <1>7, <1>8, <1>9, <1>10, <1>11 DEF DispatchInv, AllInRole

LEMMA OldBspFinishedKept ==
  ASSUME DispatchInv, NEW enable \in BOOLEAN, OldBspFinished(enable)
  PROVE  DispatchInv'
<1>1. /\ bsp = "exchanged" /\ bsp' = "return" /\ State[BspNumber] = "Finished"
      /\ BspNumber' = callee
      /\ UNCHANGED <<pc, ap, ApTopOfStack, calls, FinishedCount, ApLoopMode, pcdLoopMode, ticks, ret, svc,
                     waking, reset, ran>>
  BY DEF OldBspFinished
<1>2. bsp \in awake /\ bsp' \in awake
  BY <1>1 DEF awake
<1>3. Where = "exchanged" /\ Where' = "return" /\ Waking' /\ \A c \in CPU : ~StartupApSignal[c]
  BY <1>1, <1>2, StillAwake
<1>4. caller = "switch" /\ callee \in CPU /\ callee # BspNumber /\ BspNumber \in CPU /\ job = "none" /\ failed = {}
  BY <1>3 DEF DispatchInv, Services, Resets, TypeOK, APs
<1>5. \A c \in CPU : ~Waiting[c] /\ ~WaitEvent[c]
  BY <1>4 DEF DispatchInv, Calls, Unassigned
<1>6. PICK s \in {"Idle", "Disabled"} :
        s = State'[BspNumber] /\ \A c \in CPU : c # BspNumber => State'[c] = State[c]
  BY <1>4 DEF OldBspFinished, DispatchInv, TypeOK
<1>7. ASSUME NEW c \in CPU
      PROVE  PlaysRole(c)'
  <2>1. CASE c = BspNumber
    <3>1. Role(c)' = "resting" /\ Role(c) = "oldBsp"
      BY <1>1, <1>3, <1>4, <1>5, <2>1 DEF Role
    <3>2. InRole("oldBsp", pc[c], "Finished", StartupApSignal[c], ApFunction[c], ran[c])
      BY <1>1, <2>1, <3>1, InvTypes DEF PlaysRole
    <3>3. InRole("resting", pc[c], s, StartupApSignal[c], ApFunction[c], ran[c])
      BY <3>2 DEF InRole, Resting
    <3> QED BY <1>1, <1>6, <2>1, <3>1, <3>3 DEF PlaysRole
  <2>2. CASE c = callee
    <3>1. Role(c)' = "bsp" /\ Role(c) = "newBsp"
      BY <1>1, <1>3, <1>4, <2>2 DEF Role
    <3>2. InRole("newBsp", pc[c], State[c], StartupApSignal[c], ApFunction[c], ran[c])
      BY <3>1, InvTypes DEF PlaysRole
    <3>3. InRole("bsp", pc[c], State[c], StartupApSignal[c], ApFunction[c], ran[c])
      BY <3>2 DEF InRole
    <3> QED BY <1>1, <1>4, <1>6, <2>2, <3>1, <3>3 DEF PlaysRole
  <2>3. CASE c # BspNumber /\ c # callee
    <3>1. Role(c)' = "resting" /\ Role(c) = "resting"
      BY <1>1, <1>3, <1>4, <1>5, <2>3 DEF Role
    <3>2. InRole("resting", pc[c], State[c], StartupApSignal[c], ApFunction[c], ran[c])
      BY <3>1, InvTypes DEF PlaysRole
    <3> QED BY <1>1, <1>6, <2>3, <3>1, <3>2 DEF PlaysRole
  <2> QED BY <2>1, <2>2, <2>3
<1>8. TypeOK'
  <2>1. State' \in [CPU -> {"Idle", "Ready", "Busy", "Finished", "Disabled"}]
    BY <1>4 DEF OldBspFinished, DispatchInv, TypeOK
  <2>2. UNCHANGED <<pc, ap, ApTopOfStack, calls, FinishedCount, ApLoopMode, pcdLoopMode, ticks, ret, svc,
                    waking, reset, ran>>
    BY <1>1
  <2> QED BY <1>1, <1>4, <2>1, <2>2 DEF DispatchInv, TypeOK
<1>9. Services' /\ Calls' /\ Resets'
  BY <1>1, <1>3, <1>4, <1>5 DEF Services, Calls, Resets, Unassigned, APs
<1>10. Counts' /\ Ordered'
  <2>1. Waited' = Waited
    BY <1>1 DEF Waited
  <2> QED BY <1>1, <1>3, <1>4, <1>5, <2>1 DEF DispatchInv, Counts, Ordered
<1>11. Stacks'
  <2>1. ApTopOfStack[BspNumber] = ApTopOfStack[callee]
    BY <1>3 DEF DispatchInv, Stacks
  <2>2. StacksApart
    BY DEF DispatchInv, Stacks
  <2>3. StacksApart'
    <3> SUFFICES ASSUME NEW c \in CPU \ {callee}, NEW d \in CPU \ {callee}, ApTopOfStack[c] = ApTopOfStack[d]
                 PROVE  c = d
      BY <1>1 DEF StacksApart, APs
    <3>1. c # BspNumber /\ d # BspNumber => c = d
      BY <2>2 DEF StacksApart, APs
    <3>2. c = BspNumber /\ d # BspNumber => d = callee
      BY <1>4, <2>1, <2>2 DEF StacksApart, APs
    <3>3. d = BspNumber /\ c # BspNumber => c = callee
      BY <1>4, <2>1, <2>2 DEF StacksApart, APs
    <3> QED BY <3>1, <3>2, <3>3
  <2> QED BY <1>3, <2>3 DEF Stacks
<1> QED BY <1>3, <1>7, <1>8, <1>9, <1>10, <1>11 DEF DispatchInv, AllInRole

LEMMA ApsRelocatedKept ==
  ASSUME DispatchInv, ApsRelocated
  PROVE  DispatchInv'
<1> USE DEF ApsRelocated
<1>1. bsp \in awake /\ bsp' = "done" /\ Where = "relocating" /\ Where' = "done"
  BY DEF awake, Where
<1>2. caller = "exit" /\ callee = None /\ job = "none"
  BY <1>1 DEF DispatchInv, Services, Resets
<1>3. \A c \in CPU : Role(c)' = Role(c)
  BY <1>1 DEF Role
<1>4. TypeOK'
  BY <1>1 DEF DispatchInv, TypeOK
<1>5. Services' /\ Calls'
  BY <1>1, <1>2 DEF DispatchInv, Services, Calls, Unassigned
<1>6. Resets'
  BY <1>1, <1>2 DEF DispatchInv, Resets, APs
<1>7. Counts'
  BY <1>1, <1>2 DEF DispatchInv, Counts, Waited
<1>8. bsp' \in awake \ {"exchanged"}
  BY <1>1 DEF awake
<1> QED BY <1>1, <1>3, <1>4, <1>5, <1>6, <1>7, <1>8, QuietStep

-----------------------------------------------------------------------------
(* The theorems.                                                           *)

LEMMA DispatchInit ==
  ASSUME Init
  PROVE  DispatchInv /\ Halts
<1> USE DEF Init
<1>1. 0 \in CPU /\ CpuCount - 1 \in Nat
  BY CpuCountAssumption DEF CPU
<1>2. Where = "idle" /\ Waited = {} /\ ApLoopMode \in {"hlt", "mwait"}
  BY DEF Where, Waited
<1>3. \A c \in CPU : ~Waiting[c] /\ ~WaitEvent[c] /\ State[c] = "Idle" /\ ~StartupApSignal[c] /\ ApTopOfStack[c] = c
  OBVIOUS
<1>4. AllInRole
  <2> SUFFICES ASSUME NEW c \in CPU PROVE InRole(Role(c), pc[c], State[c], StartupApSignal[c], ApFunction[c], ran[c])
    BY DEF AllInRole, PlaysRole
  <2>1. CASE c = 0
    <3>1. Role(c) = "bsp" /\ pc[c] = "bsp"
      BY <1>2, <2>1 DEF Role
    <3> QED BY <1>3, <3>1 DEF InRole
  <2>2. CASE c # 0
    <3>1. Role(c) = "resting" /\ pc[c] \in {"loop", "halted"}
      BY <1>2, <1>3, <2>2 DEF Role
    <3> QED BY <1>3, <3>1 DEF InRole, Resting, AtRest
  <2> QED BY <2>1, <2>2
<1>5. TypeOK
  <2>1. /\ pc \in [CPU -> {"bsp", "loop", "halted", "woken", "check", "task", "futureBsp", "relocate", "finishing",
                           "counting", "relocated"}]
        /\ State \in [CPU -> {"Idle", "Ready", "Busy", "Finished", "Disabled"}]
        /\ ApFunction \in [CPU -> {"null"} \cup Procedures] /\ ApTopOfStack \in [CPU -> CPU]
    BY <1>2
  <2>2. ran \in [CPU -> BOOLEAN] /\ StartupApSignal \in [CPU -> BOOLEAN] /\ Waiting \in [CPU -> BOOLEAN]
        /\ WaitEvent \in [CPU -> BOOLEAN] /\ limited \in [CPU -> BOOLEAN]
    BY Zenon
  <2>3. ticks \in BOOLEAN /\ SingleThread \in BOOLEAN /\ allWaitEvent \in BOOLEAN /\ allLimited \in BOOLEAN
        /\ cutShort \in BOOLEAN
    BY Zenon
  <2>4. /\ BspNumber \in CPU /\ pcdLoopMode \in {"hlt", "mwait"} /\ bsp = "idle" /\ ret = "idle" /\ caller = "none"
        /\ callee = None /\ waking = {} /\ job = "none" /\ failed = {}
        /\ StartCount = 0 /\ RunningCount = 0 /\ FinishedCount \in Nat
    BY <1>1 DEF MaxFinished
  <2> HIDE DEF Init
  <2> QED BY <1>2, <2>1, <2>2, <2>3, <2>4 DEF TypeOK
<1>6. Waking /\ Services /\ Resets
  BY <1>2, <1>3 DEF Waking, Services, Resets
<1>7. Calls /\ Counts /\ Ordered
  BY <1>2, <1>3 DEF Calls, Counts, Ordered
<1>8. Stacks
  BY <1>2, <1>3 DEF Stacks, StacksApart, APs
<1>9. Halts
  BY DEF Halts
<1> QED BY <1>4, <1>5, <1>6, <1>7, <1>8, <1>9 DEF DispatchInv

LEMMA BspStepKept ==
  ASSUME DispatchInv, Tame, BspStep, ~cutShort'
  PROVE  DispatchInv'
<1>1. CASE \E c \in CPU : ThisFinished(c) \/ ThisTimeout(c)
  BY <1>1, ThisFinishedKept, ThisTimeoutKept
<1>2. CASE \E single, event \in BOOLEAN, limit \in Limits : StartupAllAPs(single, event, limit)
  BY <1>2, LimitsAssumption, StartupAllAPsKept
<1>3. CASE \E c \in CPU, event \in BOOLEAN, limit \in Limits : StartupThisAP(c, event, limit)
  BY <1>3, LimitsAssumption, StartupThisAPKept
<1>4. CASE \E enable \in BOOLEAN : OldBspFinished(enable)
  BY <1>4, OldBspFinishedKept
<1>5. CASE UpdateDone \/ RefuseAllAPs \/ RefuseThisAP
  BY <1>5, UpdateEnds
<1>6. CASE ResetProcessor \/ ResetToIdle \/ SendInitSipiSipi \/ WaitApWakeup
  BY <1>6, ResetProcessorKept, ResetToIdleKept, SendInitSipiSipiKept, WaitApWakeupKept
<1>7. CASE CheckAllAPs \/ WakeUpNext \/ AllFinished \/ AllNotReady \/ AllTimeout
  BY <1>7, CheckAllAPsKept, WakeUpNextKept, AllFinishedKept, AllNotReadyKept, AllTimeoutKept
<1>8. CASE Return \/ ExchangeRole \/ ApsRelocated
  BY <1>8, ReturnKept, ExchangeRoleKept, ApsRelocatedKept
<1> QED BY <1>1, <1>2, <1>3, <1>4, <1>5, <1>6, <1>7, <1>8 DEF BspStep

LEMMA CallKept ==
  ASSUME DispatchInv, Tame, Call
  PROVE  DispatchInv'
<1>1. CASE CheckApsStatus
  BY <1>1, UpdateBegins DEF CheckApsStatus
<1>2. CASE CallStartup("all") \/ CallStartup("this")
  BY <1>2, UpdateBegins DEF CallStartup
<1>3. CASE \E c \in CPU : DisableAP(c) \/ EnableAP(c) \/ SwitchBSP(c) \/ RefuseSwitchBSP(c)
  BY <1>3, DisableAPKept, EnableAPKept, SwitchBSPKept, RefuseSwitchBSPKept
<1>4. CASE ChangeApLoop
  BY <1>4, ChangeApLoopKept
<1> QED BY <1>1, <1>2, <1>3, <1>4 DEF Call

LEMMA DispatchNext ==
  ASSUME DispatchInv, Halts, Tame, [Next]_vars, ~cutShort'
  PROVE  DispatchInv'
<1>1. CASE BspStep \/ Call \/ \E c \in CPU : ApStep(c) \/ ProcedureReturns(c)
  BY <1>1, BspStepKept, CallKept, ApKept
<1>2. CASE UNCHANGED vars
  <2>1. UNCHANGED bspVars /\ UNCHANGED <<pc, State, ap, ran, FinishedCount>>
    BY <1>2 DEF vars, bspVars
  <2>2. /\ Where' = Where /\ Waited' = Waited /\ APs' = APs /\ \A c \in CPU : Role(c)' = Role(c)
    BY <2>1, BspWaits
  <2>3. TypeOK' /\ AllInRole' /\ Waking'
    BY <2>1, <2>2 DEF bspVars, DispatchInv, TypeOK, AllInRole, PlaysRole, Waking
  <2>4. Services' /\ Calls' /\ Resets'
    BY <2>1, <2>2 DEF bspVars, DispatchInv, Services, Calls, Resets, Unassigned
  <2>5. Counts' /\ Ordered' /\ Stacks'
    BY <2>1, <2>2 DEF bspVars, DispatchInv, Counts, Ordered, Stacks, StacksApart
  <2> QED BY <2>3, <2>4, <2>5 DEF DispatchInv
<1> QED BY <1>1, <1>2 DEF Next, Done

(* The loop mode changes at the end of the boot services only, and an AP   *)
(* enters the loop the mode asks for.                                      *)
LEMMA HaltsNext ==
  ASSUME DispatchInv, Halts, [Next]_vars
  PROVE  Halts'
<1> USE DEF Halts
<1>1. pc \in [CPU -> {"bsp", "loop", "halted", "woken", "check", "task", "futureBsp", "relocate",
                     "finishing", "counting", "relocated"}]
      /\ ApLoopMode \in {"hlt", "mwait"}
  BY DEF DispatchInv, TypeOK
<1>2. CASE UNCHANGED <<pc, ApLoopMode, pcdLoopMode>>
  BY <1>2
<1>3. ASSUME NEW c \in CPU, ApStep(c) \/ ProcedureReturns(c) PROVE Halts'
  <2>1. /\ UNCHANGED <<ApLoopMode, pcdLoopMode>>
        /\ \A d \in CPU : d # c => pc'[d] = pc[d]
    BY <1>1, <1>3 DEF ApStep, SeeSignal, ClearSignal, CheckReady, RelocateApLoop, SetFinished,
      CountFinished, ProcedureReturns
  <2>2. ApLoopMode = "hlt" => pc'[c] # "loop"
    <3>1. ApFunction[c] \in {"null", "task", "futureBsp", "relocate"}
      BY DEF DispatchInv, TypeOK, Procedures
    <3>2. Executes(c) # "loop"
      BY <3>1 DEF Executes
    <3> QED BY <1>1, <1>3, <3>2 DEF ApStep, SeeSignal, ClearSignal, CheckReady, RelocateApLoop,
          SetFinished, CountFinished, ProcedureReturns
  <2> QED BY <2>1, <2>2
<1>4. CASE SendInitSipiSipi
  BY <1>1, <1>4 DEF SendInitSipiSipi
<1>5. CASE ExchangeRole
  BY <1>1, <1>5 DEF ExchangeRole
<1>6. CASE ChangeApLoop
  BY <1>1, <1>6 DEF ChangeApLoop, WakeUpAP
<1>7. CASE BspStep
  <2>1. SendInitSipiSipi \/ ExchangeRole \/ UNCHANGED <<pc, ApLoopMode, pcdLoopMode>>
    BY <1>7 DEF BspStep, WaitApWakeup, CheckAllAPs, WakeUpNext, AllFinished, AllNotReady, AllTimeout,
      ThisFinished, ThisTimeout, ResetProcessor, ResetToIdle, UpdateDone, Return, RefuseAllAPs, RefuseThisAP,
      StartupAllAPs, StartupThisAP, OldBspFinished, ApsRelocated, WakeUpAP
  <2> QED BY <1>2, <1>4, <1>5, <2>1
<1>8. CASE Call
  <2>1. ChangeApLoop \/ UNCHANGED <<pc, ApLoopMode, pcdLoopMode>>
    BY <1>8 DEF Call, CheckApsStatus, CallStartup, DisableAP, EnableAP, SwitchBSP, RefuseSwitchBSP, WakeUpAP
  <2> QED BY <1>2, <1>6, <2>1
<1> QED BY <1>2, <1>3, <1>7, <1>8 DEF Next, Done, vars

(* What was cut short stays so.                                            *)
LEMMA CutShortStays ==
  ASSUME cutShort, [Next]_vars
  PROVE  cutShort'
<1>1. ASSUME NEW c \in CPU, ApStep(c) \/ ProcedureReturns(c) PROVE cutShort'
  BY <1>1 DEF ApStep, SeeSignal, ClearSignal, CheckReady, RelocateApLoop, SetFinished, CountFinished,
    ProcedureReturns
<1>2. CASE BspStep
  <2>1. ResetToIdle \/ UNCHANGED cutShort
    BY <1>2 DEF BspStep, SendInitSipiSipi, WaitApWakeup, CheckAllAPs, WakeUpNext, AllFinished, AllNotReady,
      AllTimeout, ThisFinished, ThisTimeout, ResetProcessor, UpdateDone, Return, RefuseAllAPs, RefuseThisAP,
      StartupAllAPs, StartupThisAP, ExchangeRole, OldBspFinished, ApsRelocated
  <2> QED BY <2>1 DEF ResetToIdle
<1>3. CASE Call
  BY <1>3 DEF Call, CheckApsStatus, CallStartup, DisableAP, EnableAP, SwitchBSP, RefuseSwitchBSP, ChangeApLoop
<1>4. CASE UNCHANGED vars
  BY <1>4 DEF vars
<1> QED BY <1>1, <1>2, <1>3, <1>4 DEF Next, Done

(* As long as no reset was over for the BSP before it was for the AP,      *)
(* every processor is where its role lets it be, whatever the order in     *)
(* which the APs awake, return and count themselves, the calls are made    *)
(* and their time limits expire, also while the BSP resets APs.            *)
THEOREM RolesArePlayed == ASSUME Tame PROVE Spec => [](Undisturbed => DispatchInv)
<1> DEFINE I == cutShort \/ (DispatchInv /\ Halts)
<1>1. Init => I
  BY DispatchInit
<1>2. I /\ [Next]_vars => I'
  BY DispatchNext, HaltsNext, CutShortStays
<1>3. I => (Undisturbed => DispatchInv)
  BY DEF Undisturbed
<1> HIDE DEF I
<1> QED BY <1>1, <1>2, <1>3, PTL DEF Spec

(* The variables of the dispatch have their types, as long as no reset was *)
(* cut short.                                                              *)
THEOREM DispatchTypes == ASSUME Tame PROVE Spec => [](Undisturbed => TypeOK)
<1>1. DispatchInv => TypeOK
  BY DEF DispatchInv
<1> QED BY <1>1, RolesArePlayed, PTL

(* The roles of the processors a call is pending for.                      *)
LEMMA PendingRole ==
  ASSUME DispatchInv, NEW c \in CPU, Pending(c), c \notin failed
  PROVE  Role(c) \in {"waiting", "started"}
<1>1. bsp = "checkThis" /\ callee = c => Where = "checkThis" /\ caller = "this" /\ c # BspNumber
  BY DEF Where, DispatchInv, Services, APs
<1>2. Waiting[c] \/ WaitEvent[c] => c # BspNumber /\ Where \notin {"exchange", "exchanged", "relocating", "done"}
  BY DEF DispatchInv, Calls, Services, Unassigned
<1>3. Where = "count" => c # Least(failed)
  BY TheOneReset
<1> QED BY <1>1, <1>2, <1>3 DEF Role, Pending

(* What CheckAllAPs and CheckThisAP take for the completion of a call is   *)
(* the completion of the procedure that call has started, also when APs    *)
(* were reset, disabled or exchanged before, as long as no reset was cut   *)
(* short.                                                                  *)
THEOREM CompletionsAreReal == ASSUME Tame PROVE Spec => []FinishedHasRun
<1>1. ASSUME Undisturbed => DispatchInv PROVE FinishedHasRun
  <2> SUFFICES ASSUME Undisturbed, NEW c \in CPU, Pending(c), State[c] = "Finished", c \notin failed
               PROVE  ran[c]
    BY DEF FinishedHasRun
  <2>1. Role(c) \in {"waiting", "started"}
    BY <1>1, PendingRole
  <2> QED BY <1>1, <2>1, InvTypes DEF PlaysRole, InRole, Started, Sent
<1> QED BY <1>1, RolesArePlayed, PTL

(* Only a reset that is over for the BSP before it is for the AP takes an  *)
(* AP away: as long as there was none, whenever the BSP is back from the   *)
(* service, an AP no call is pending for executes no procedure and is idle *)
(* or disabled, also after its procedure was terminated by a time-out      *)
(* while it, or any other AP, was returning.                               *)
THEOREM ApsBecomeAvailable == ASSUME Tame PROVE Spec => []ApsAvailable
<1>1. ASSUME Undisturbed => DispatchInv PROVE ApsAvailable
  <2> SUFFICES ASSUME Undisturbed, bsp = "idle", NEW c \in APs, Unassigned(c)
               PROVE  State[c] \in {"Idle", "Disabled"} /\ pc[c] \notin Procedures \cup {"finishing"}
    BY DEF ApsAvailable
  <2>1. Where = "idle" /\ c \in CPU /\ c # BspNumber
    BY DEF Where, APs
  <2>2. Resting(pc[c], State[c], StartupApSignal[c])
    BY <1>1, <2>1, IdleRest
  <2> QED BY <2>2 DEF Resting, AtRest, Procedures
<1> QED BY <1>1, RolesArePlayed, PTL

(* In the single thread mode the only AP that has been started and not     *)
(* collected is the first of those that remain, and between the calls of   *)
(* the BSP one has been started as long as some remain; no reset was cut   *)
(* short.                                                                  *)
THEOREM ExecutedOneByOne == ASSUME Tame PROVE Spec => []OneByOne
<1>1. ASSUME Undisturbed => DispatchInv PROVE OneByOne
  <2> SUFFICES ASSUME Undisturbed, SingleThread
               PROVE  /\ \A c, d \in CPU : Waiting[c] /\ Waiting[d] /\ State[c] # "Idle" => c <= d
                      /\ bsp = "idle" /\ (\E c \in CPU : Waiting[c]) =>
                           \E c \in CPU : Waiting[c] /\ State[c] # "Idle"
    BY DEF OneByOne
  <2>1. bsp = "idle" => Where = "idle" /\ job = "none"
    BY <1>1, NoCallee DEF Where
  <2>2. bsp = "idle" => \A c \in CPU : Waiting[c] /\ State[c] = "Idle" =>
          \E d \in CPU : Waiting[d] /\ State[d] # "Idle"
    BY <1>1, <2>1 DEF DispatchInv, Counts
  <2> QED BY <1>1, <2>2 DEF DispatchInv, Ordered
<1> QED BY <1>1, RolesArePlayed, PTL

(* The stacks stay distinct through any number of exchanges of BSP and AP, *)
(* as long as no reset was cut short.                                      *)
THEOREM StacksStayDistinct == ASSUME Tame PROVE Spec => []OwnStacks
<1>1. ASSUME Undisturbed => DispatchInv PROVE OwnStacks
  BY <1>1 DEF OwnStacks, DispatchInv, Stacks, StacksApart
<1> QED BY <1>1, RolesArePlayed, PTL

=============================================================================
