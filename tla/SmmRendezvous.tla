--------------------------- MODULE SmmRendezvous ---------------------------
(***************************************************************************)
(* The processors of a platform enter, synchronise in and leave System     *)
(* Management Mode: UefiCpuPkg/PiSmmCpuDxeSmm/MpService.c.                 *)
(*                                                                         *)
(* An SMI pends on every processor; each takes it when it may, checks in   *)
(* by counting itself in Counter, and one of them is elected BSP.  The BSP *)
(* locks the counter: from then on it knows how many APs follow it, and a  *)
(* processor that arrives later waits for the end of the run and leaves.   *)
(* Run[c] is the semaphore processor c waits on: an AP for the next signal *)
(* of the BSP, the BSP for every AP it counted.                            *)
(*                                                                         *)
(* pc[c] names the next statement of processor c.  Statements of one       *)
(* processor between which no other can tell the difference are one step.  *)
(* A time-out may end at any moment, under the two assumptions the code    *)
(* states or needs: see SecondTimeout and Prompt.                          *)
(***************************************************************************)
EXTENDS Integers, FiniteSets

CONSTANTS
  CPU,          \* the processors, all present in the platform
  None,         \* INVALID: no BSP elected, no target
  SwitchesBsp,  \* the SMI handlers call SmmSwitchBsp
  Stalls        \* a processor may stall for the length of a time-out between
                \* two adjacent instructions

ASSUME NoneAssumption  == None \notin CPU
ASSUME CpuAssumption   == IsFiniteSet(CPU) /\ CPU # {}
ASSUME FlagsAssumption == SwitchesBsp \in BOOLEAN /\ Stalls \in BOOLEAN

VARIABLES
  pc,            \* next statement of every processor
  pending,       \* an SMI is latched for the processor
  smiStatus,     \* the top level SMI status bit
  hasStatus,     \* the platform hook reads and clears a top level SMI status
                 \* bit; the repository's hook takes every SMI for valid
  relaxed,       \* EffectiveSyncMode is SmmCpuSyncModeRelaxedAp
  fixedBsp,      \* the BSP of every SMI where BSP election is disabled, else None
  needMtrrs,     \* SmmCpuFeaturesNeedConfigureMtrrs
  Counter, InsideSmm, AllCpusInSync, BspIndex,      \* mSmmMpSyncData
  Run, Present, Busy,                               \* mSmmMpSyncData->CpuData
  CandidateBsp,  \* the candidates; SwitchBsp is CandidateBsp # {}
  Operation,     \* processors whose Operation is SmmCpuSwitchBsp
  validSmi, bspInProgress,   \* locals of SmiRendezvous
  bspIndex,      \* local BspIndex of APHandler
  apCount,       \* local ApCount of BSPHandler
  target,        \* the AP a blocking SmmStartupThisAp waits for
  mtrr,          \* whose MTRR settings a processor uses
  scheduled,     \* processors with a procedure scheduled and not yet run
  unhandled      \* no BSP has set out to run the SMI handlers since the last SMI

entry == <<validSmi, bspInProgress>>
env   == <<pending, smiStatus, unhandled>>
mode  == <<hasStatus, relaxed, fixedBsp, needMtrrs>>
flags == <<InsideSmm, AllCpusInSync, BspIndex>>
elect == <<CandidateBsp, Operation>>
proc  == <<Busy, target, scheduled>>
local == <<bspIndex, apCount>>
vars  == <<pc, env, mode, Counter, flags, Run, Present, elect, entry, local, proc, mtrr>>

N == Cardinality(CPU)

(* A counter of 32 bits that lost one from zero; nothing releases it.      *)
Locked == -1

At(c, l)         == pc[c] = l
Step(c, from, to) == pc[c] = from /\ pc' = [pc EXCEPT ![c] = to]

-----------------------------------------------------------------------------
(* Semaphores (WaitForSemaphore, ReleaseSemaphore, LockdownSemaphore).     *)

Released(v) == IF v = Locked THEN v ELSE v + 1

(* Mutant: the BSP signals itself with the APs.                            *)
ReleaseAllCpus(b) == Run' = [d \in CPU |-> IF Present[d] THEN Released(Run[d]) ELSE Run[d]]

(* ReleaseAllAPs: one signal for every processor present but b.            *)
ReleaseAllAPs(b) ==
  Run' = [d \in CPU |-> IF d # b /\ Present[d] THEN Released(Run[d]) ELSE Run[d]]

(* Mutant: the BSP does not wait.                                          *)
WaitForNobody(b, from, to) ==
  /\ Step(b, from, to)
  /\ Run' = [Run EXCEPT ![b] = @ - apCount[b]]
  /\ UNCHANGED <<env, mode, Counter, flags, Present, elect, entry, local, proc, mtrr>>

(* WaitForAllAPs: b takes one signal of each of the APs it counted.        *)
WaitForAllAPs(b, from, to) ==
  /\ Step(b, from, to)
  /\ Run[b] >= apCount[b]
  /\ Run' = [Run EXCEPT ![b] = @ - apCount[b]]
  /\ UNCHANGED <<env, mode, Counter, flags, Present, elect, entry, local, proc, mtrr>>

(* An AP answers the BSP, or takes its signal and answers.                 *)
Answer(c) == Run' = [Run EXCEPT ![bspIndex[c]] = Released(@)]

TakeAndAnswer(c) ==
  /\ Run[c] # 0
  /\ Run' = [d \in CPU |-> IF d = c THEN Run[d] - 1
                          ELSE IF d = bspIndex[c] THEN Released(Run[d]) ELSE Run[d]]

-----------------------------------------------------------------------------
(* Entry.                                                                  *)

(* PlatformValidSmi of the platform hook.                                  *)
PlatformValidSmi == hasStatus => smiStatus

(* The status is sampled before InsideSmm, which the BSP sets before it    *)
(* clears the status.                                                      *)
SampleStatus(c) ==
  /\ Step(c, "entry", "sampled")
  /\ validSmi' = [validSmi EXCEPT ![c] = PlatformValidSmi]
  /\ UNCHANGED <<env, mode, Counter, flags, Run, Present, elect, bspInProgress, local, proc, mtrr>>

SampleInside(c) ==
  /\ Step(c, "sampled", IF InsideSmm \/ validSmi[c] THEN "checkIn" ELSE "exit")
  /\ bspInProgress' = [bspInProgress EXCEPT ![c] = InsideSmm]
  /\ validSmi' = [validSmi EXCEPT ![c] = FALSE]
  /\ UNCHANGED <<env, mode, Counter, flags, Run, Present, elect, local, proc, mtrr>>

CheckIn(c) ==
  /\ Step(c, "checkIn", IF Released(Counter) = Counter THEN "drain"
                        ELSE IF bspInProgress[c] THEN "wait" ELSE "elect")
  /\ Counter' = Released(Counter)
  /\ Busy' = IF Counter = Locked THEN Busy ELSE [Busy EXCEPT ![c] = FALSE]
  /\ bspInProgress' = [bspInProgress EXCEPT ![c] = FALSE]
  /\ UNCHANGED <<env, mode, flags, Run, Present, elect, validSmi, local, target, scheduled, mtrr>>

(* Mutant: BspIndex is stored, not exchanged.                              *)
ElectBspByStore(c) ==
  /\ Step(c, "elect", "inside")
  /\ BspIndex' = c
  /\ CandidateBsp' = {}
  /\ UNCHANGED <<env, mode, Counter, InsideSmm, AllCpusInSync, Run, Present, Operation,
                 entry, local, proc, mtrr>>

(* The platform hook elects nobody; the first processor that exchanges     *)
(* BspIndex is the BSP.  The BSP drops the last request to switch.         *)
ElectBsp(c) ==
  /\ At(c, "elect")
  /\ BspIndex' = IF BspIndex = None /\ fixedBsp = None /\ (CandidateBsp = {} \/ c \in CandidateBsp)
                 THEN c ELSE BspIndex
  /\ pc' = [pc EXCEPT ![c] = IF BspIndex' = c THEN "inside" ELSE "wait"]
  /\ CandidateBsp' = IF BspIndex' = c THEN {} ELSE CandidateBsp
  /\ UNCHANGED <<env, mode, Counter, InsideSmm, AllCpusInSync, Run, Present, Operation,
                 entry, local, proc, mtrr>>

(* Wait for the BSP's signal to exit SMI.                                  *)
Drain(c) ==
  /\ Step(c, "drain", "exit")
  /\ ~AllCpusInSync
  /\ UNCHANGED <<env, mode, Counter, flags, Run, Present, elect, entry, local, proc, mtrr>>

-----------------------------------------------------------------------------
(* BSPHandler.                                                             *)

(* The APs are gathered before the SMI handlers run; in the relaxed mode   *)
(* without MTRRs to configure, after they have run.                        *)
Gathers == ~relaxed \/ needMtrrs

(* AllCpusInSmmWithExceptions: no processor reports an exception.          *)
AllCpusInSmm == Counter = N \/ \A d \in CPU : Present[d]

(* The second time-out is long enough to give every processor time to take *)
(* the SMI IPI: the comment at the head of SmmWaitForApArrival.            *)
SecondTimeout == \A d \in CPU : ~At(d, "normal")

(* No time-out and no SMI handler ends while a processor is between two    *)
(* adjacent instructions, or polls AllCpusInSync once.                     *)
Prompt ==
  Stalls \/ \A d \in CPU : /\ pc[d] \notin {"giveUp", "resync"}
                           /\ At(d, "drain") => AllCpusInSync

FlagPresence(b) ==
  /\ Step(b, "inside", "clear")
  /\ InsideSmm' = TRUE
  /\ UNCHANGED <<env, mode, Counter, AllCpusInSync, BspIndex, Run, Present, elect, entry,
                 local, proc, mtrr>>

ClearTopLevelSmiStatus(b) ==
  /\ Step(b, "clear", IF Gathers THEN "arriving" ELSE "acquire")
  /\ Present' = [Present EXCEPT ![b] = TRUE]
  /\ smiStatus' = FALSE /\ unhandled' = FALSE
  /\ UNCHANGED <<pending, mode, Counter, flags, Run, elect, entry, local, proc, mtrr>>

(* SmmWaitForApArrival: the APs are in or the first time-out is over; an   *)
(* IPI to the absent ones; the second wait.                                *)
FirstWait(b) ==
  /\ Step(b, "arriving", "ipi")
  /\ Prompt
  /\ UNCHANGED <<env, mode, Counter, flags, Run, Present, elect, entry, local, proc, mtrr>>

(* Mutant: the absent processors get no IPI.                               *)
SendNoIpis(b) ==
  /\ Step(b, "ipi", IF Counter < N THEN "arrivingAgain" ELSE "sync")
  /\ UNCHANGED <<env, mode, Counter, flags, Run, Present, elect, entry, local, proc, mtrr>>

SendSmiIpis(b) ==
  /\ Step(b, "ipi", IF Counter < N THEN "arrivingAgain" ELSE "sync")
  /\ pending' = IF Counter < N THEN [d \in CPU |-> pending[d] \/ ~Present[d]] ELSE pending
  /\ UNCHANGED <<smiStatus, unhandled, mode, Counter, flags, Run, Present, elect, entry, local, proc, mtrr>>

SecondWait(b) ==
  /\ Step(b, "arrivingAgain", "sync")
  /\ AllCpusInSmm \/ SecondTimeout
  /\ UNCHANGED <<env, mode, Counter, flags, Run, Present, elect, entry, local, proc, mtrr>>

SyncOn(b) ==
  /\ Step(b, "sync", "lock")
  /\ Gathers \/ Prompt
  /\ AllCpusInSync' = TRUE
  /\ UNCHANGED <<env, mode, Counter, InsideSmm, BspIndex, Run, Present, elect, entry,
                 local, proc, mtrr>>

(* Mutant: the counter is read and not locked.                             *)
ReadCounter(b) ==
  /\ Step(b, "lock", IF Gathers THEN "gather" ELSE "present")
  /\ apCount' = [apCount EXCEPT ![b] = Counter - 1]
  /\ UNCHANGED <<env, mode, Counter, flags, Run, Present, elect, entry, bspIndex, proc, mtrr>>

LockdownSemaphore(b) ==
  /\ Step(b, "lock", IF Gathers THEN "gather" ELSE "present")
  /\ apCount' = [apCount EXCEPT ![b] = Counter - 1]
  /\ Counter' = Locked
  /\ UNCHANGED <<env, mode, flags, Run, Present, elect, entry, bspIndex, proc, mtrr>>

(* A round in which the APs and the BSP change their MTRRs.                *)
MtrrRound(b, from, to, settings) ==
  /\ Step(b, from, to)
  /\ ReleaseAllAPs(b)
  /\ mtrr' = [mtrr EXCEPT ![b] = settings]
  /\ UNCHANGED <<env, mode, Counter, flags, Present, elect, entry, local, proc>>

(* Mutant: the first round does not wait for the APs.                      *)
BackupAlone(b) == MtrrRound(b, "backup", "program", "saved")

BackupMtrrs(b) == MtrrRound(b, "backup", "backedUp", "saved")
ProgramMtrrs(b) == MtrrRound(b, "program", "programmed", "smm")
RestoreMtrrs(b) == MtrrRound(b, "restore", "restored", "os")

AcquireBusy(b) ==
  /\ Step(b, "acquire", "handlers")
  /\ ~Busy[b]
  /\ Busy' = [Busy EXCEPT ![b] = TRUE]
  /\ UNCHANGED <<env, mode, Counter, flags, Run, Present, elect, entry, local, target,
                 scheduled, mtrr>>

(* InternalSmmStartupThisAp, called by an SMI handler; a call that returns *)
(* an error changes nothing.                                               *)
StartupThisAp(b, d, blocking) ==
  /\ Step(b, "handlers", IF blocking THEN "startWait" ELSE "handlers")
  /\ d # b /\ Present[d] /\ ~Busy[d]
  /\ Busy' = [Busy EXCEPT ![d] = TRUE]
  /\ Run' = [Run EXCEPT ![d] = Released(@)]
  /\ target' = IF blocking THEN d ELSE None
  /\ scheduled' = scheduled \cup {d}
  /\ UNCHANGED <<env, mode, Counter, flags, Present, elect, entry, local, mtrr>>

StartupDone(b) ==
  /\ Step(b, "startWait", "handlers")
  /\ ~Busy[target]
  /\ target' = None
  /\ UNCHANGED <<env, mode, Counter, flags, Run, Present, elect, entry, local, Busy,
                 scheduled, mtrr>>

(* SmmSwitchBsp of CpuService.c.  The handlers name no processor that does *)
(* not take SMIs yet.                                                      *)
SmmSwitchBsp(b, d) ==
  /\ SwitchesBsp /\ At(b, "handlers")
  /\ d \notin Operation \cup {b} /\ ~At(d, "blocked")
  /\ Operation' = Operation \cup {d}
  /\ UNCHANGED <<pc, env, mode, Counter, flags, Run, Present, CandidateBsp, entry, local,
                 proc, mtrr>>

(* Mutant: the BSP does not wait for the tasks it started.                 *)
EndHandlersAtOnce(b) ==
  /\ Step(b, "handlers", IF Gathers THEN "quit" ELSE "sync")
  /\ UNCHANGED <<env, mode, Counter, flags, Run, Present, elect, entry, local, proc, mtrr>>

(* The SMI handlers are over and the APs have completed their tasks.       *)
EndHandlers(b) ==
  /\ Step(b, "handlers", IF Gathers THEN "quit" ELSE "sync")
  /\ \A d \in CPU \ {b} : Present[d] => ~Busy[d]
  /\ UNCHANGED <<env, mode, Counter, flags, Run, Present, elect, entry, local, proc, mtrr>>

AllPresent(b) ==
  /\ Step(b, "present", "quit")
  /\ Cardinality({d \in CPU : Present[d]}) > apCount[b]
  /\ UNCHANGED <<env, mode, Counter, flags, Run, Present, elect, entry, local, proc, mtrr>>

(* Mutant: the status is cleared once more after the SMI handlers.         *)
QuitAndClear(b) ==
  /\ Step(b, "quit", "released")
  /\ InsideSmm' = FALSE
  /\ ReleaseAllAPs(b)
  /\ smiStatus' = FALSE
  /\ UNCHANGED <<pending, unhandled, mode, Counter, AllCpusInSync, BspIndex, Present, elect,
                 entry, local, proc, mtrr>>

(* Notify all APs to exit.                                                 *)
QuitSmm(b) ==
  /\ Step(b, "quit", "released")
  /\ InsideSmm' = FALSE
  /\ ReleaseAllAPs(b)
  /\ UNCHANGED <<env, mode, Counter, AllCpusInSync, BspIndex, Present, elect, entry,
                 local, proc, mtrr>>

(* The APs may reset their states; SmmCpuUpdate handles a pending switch   *)
(* of the BSP; the BSP is no longer present.                               *)
Dismiss(b) ==
  /\ Step(b, "dismiss", "dismissed")
  /\ ReleaseAllAPs(b)
  /\ CandidateBsp' = CandidateBsp \cup Operation
  /\ Operation' = {}
  /\ Present' = [Present EXCEPT ![b] = FALSE]
  /\ UNCHANGED <<env, mode, Counter, flags, entry, local, proc, mtrr>>

(* BspIndex is reset while the counter still keeps everybody out.          *)
ResetCounter(b) ==
  /\ Step(b, "reset", "resync")
  /\ BspIndex' = fixedBsp
  /\ Counter' = 0
  /\ apCount' = [apCount EXCEPT ![b] = 0]
  /\ UNCHANGED <<env, mode, InsideSmm, AllCpusInSync, Run, Present, elect, entry, bspIndex,
                 proc, mtrr>>

SyncOff(b) ==
  /\ Step(b, "resync", "drain")
  /\ AllCpusInSync' = FALSE
  /\ UNCHANGED <<env, mode, Counter, InsideSmm, BspIndex, Run, Present, elect, entry,
                 local, proc, mtrr>>

BspStep(b) ==
  \/ FlagPresence(b) \/ ClearTopLevelSmiStatus(b)
  \/ FirstWait(b) \/ SendSmiIpis(b) \/ SecondWait(b) \/ SyncOn(b) \/ LockdownSemaphore(b)
  \/ WaitForAllAPs(b, "gather", IF needMtrrs THEN "backup" ELSE "acquire")
  \/ BackupMtrrs(b)  \/ WaitForAllAPs(b, "backedUp", "program")
  \/ ProgramMtrrs(b) \/ WaitForAllAPs(b, "programmed", "acquire")
  \/ AcquireBusy(b) \/ StartupDone(b) \/ EndHandlers(b) \/ AllPresent(b)
  \/ QuitSmm(b)
  \/ WaitForAllAPs(b, "released", IF needMtrrs THEN "restore" ELSE "dismiss")
  \/ RestoreMtrrs(b) \/ WaitForAllAPs(b, "restored", "dismiss")
  \/ Dismiss(b) \/ WaitForAllAPs(b, "dismissed", "reset")
  \/ ResetCounter(b) \/ SyncOff(b)

-----------------------------------------------------------------------------
(* APHandler.                                                              *)

(* The BSP is in SMM, or the time-out is over: an IPI brings in a BSP that *)
(* is known, and the AP waits once more.                                   *)
BspIsInside(c) ==
  /\ pc[c] \in {"wait", "waitAgain"}
  /\ InsideSmm
  /\ pc' = [pc EXCEPT ![c] = "flag"]
  /\ UNCHANGED <<env, mode, Counter, flags, Run, Present, elect, entry, local, proc, mtrr>>

BspTimeout(c) ==
  /\ Step(c, "wait", IF BspIndex = None THEN "giveUp" ELSE "waitAgain")
  /\ ~InsideSmm
  /\ pending' = IF BspIndex = None THEN pending ELSE [pending EXCEPT ![BspIndex] = TRUE]
  /\ UNCHANGED <<smiStatus, unhandled, mode, Counter, flags, Run, Present, elect, entry, local, proc, mtrr>>

BspTimeoutAgain(c) ==
  /\ Step(c, "waitAgain", "giveUp")
  /\ ~InsideSmm
  /\ UNCHANGED <<env, mode, Counter, flags, Run, Present, elect, entry, local, proc, mtrr>>

(* Mutant: an AP that gives up stays counted.                              *)
GiveUpCounted(c) ==
  /\ Step(c, "giveUp", "drain")
  /\ UNCHANGED <<env, mode, Counter, flags, Run, Present, elect, entry, local, proc, mtrr>>

GiveUp(c) ==
  /\ Step(c, "giveUp", "drain")
  /\ Counter # 0
  /\ Counter' = Counter - 1
  /\ UNCHANGED <<env, mode, flags, Run, Present, elect, entry, local, proc, mtrr>>

(* BSP is available: mark this processor's presence.                       *)
MarkPresence(c) ==
  /\ Step(c, "flag", IF Gathers THEN "arrived" ELSE "idle")
  /\ bspIndex' = [bspIndex EXCEPT ![c] = BspIndex]
  /\ Present' = [Present EXCEPT ![c] = TRUE]
  /\ UNCHANGED <<env, mode, Counter, flags, Run, elect, entry, apCount, proc, mtrr>>

NotifyArrival(c) ==
  /\ Step(c, "arrived", IF needMtrrs THEN "saveMtrrs" ELSE "idle")
  /\ Answer(c)
  /\ UNCHANGED <<env, mode, Counter, flags, Present, elect, entry, local, proc, mtrr>>

(* The AP's part in a round of MTRRs.                                      *)
ApMtrrs(c, from, to, settings) ==
  /\ Step(c, from, to)
  /\ TakeAndAnswer(c)
  /\ mtrr' = [mtrr EXCEPT ![c] = settings]
  /\ UNCHANGED <<env, mode, Counter, flags, Present, elect, entry, local, proc>>

(* Wait for something to happen: to exit SMM or to run a procedure.        *)
WakeUp(c) ==
  /\ Step(c, "idle", "woken")
  /\ Run[c] # 0
  /\ Run' = [Run EXCEPT ![c] = @ - 1]
  /\ UNCHANGED <<env, mode, Counter, flags, Present, elect, entry, local, proc, mtrr>>

RunProcedure(c) ==
  /\ Step(c, "woken", "ran")
  /\ InsideSmm
  /\ scheduled' = scheduled \ {c}
  /\ UNCHANGED <<env, mode, Counter, flags, Run, Present, elect, entry, local, Busy, target, mtrr>>

ReleaseBusy(c) ==
  /\ Step(c, "ran", "idle")
  /\ Busy' = [Busy EXCEPT ![c] = FALSE]
  /\ UNCHANGED <<env, mode, Counter, flags, Run, Present, elect, entry, local, target,
                 scheduled, mtrr>>

NotifyExit(c) ==
  /\ Step(c, "woken", IF needMtrrs THEN "restoreMtrrs" ELSE "ready")
  /\ ~InsideSmm
  /\ Answer(c)
  /\ UNCHANGED <<env, mode, Counter, flags, Present, elect, entry, local, proc, mtrr>>

(* Mutant: the AP leaves the rendezvous without the last signal.           *)
ResetStatesUnasked(c) ==
  /\ Step(c, "ready", "left")
  /\ Present' = [Present EXCEPT ![c] = FALSE]
  /\ UNCHANGED <<env, mode, Counter, flags, Run, elect, entry, local, proc, mtrr>>

ResetStates(c) ==
  /\ Step(c, "ready", "left")
  /\ Run[c] # 0
  /\ Run' = [Run EXCEPT ![c] = @ - 1]
  /\ Present' = [Present EXCEPT ![c] = FALSE]
  /\ UNCHANGED <<env, mode, Counter, flags, elect, entry, local, proc, mtrr>>

NotifyLeft(c) ==
  /\ Step(c, "left", "drain")
  /\ Answer(c)
  /\ bspIndex' = [bspIndex EXCEPT ![c] = None]
  /\ UNCHANGED <<env, mode, Counter, flags, Present, elect, entry, apCount, proc, mtrr>>

ApStep(c) ==
  \/ BspIsInside(c) \/ BspTimeout(c) \/ BspTimeoutAgain(c) \/ GiveUp(c)
  \/ MarkPresence(c) \/ NotifyArrival(c)
  \/ ApMtrrs(c, "saveMtrrs", "loadMtrrs", "saved")
  \/ ApMtrrs(c, "loadMtrrs", "idle", "smm")
  \/ WakeUp(c) \/ RunProcedure(c) \/ ReleaseBusy(c) \/ NotifyExit(c)
  \/ ApMtrrs(c, "restoreMtrrs", "ready", "os")
  \/ ResetStates(c) \/ NotifyLeft(c)

-----------------------------------------------------------------------------
(* The hardware.                                                           *)

(* An SMI is signalled to every processor; a processor in SMM or waiting   *)
(* for its start-up IPI latches one.                                       *)
RaiseSmi ==
  /\ smiStatus' = TRUE /\ unhandled' = TRUE
  /\ pending' = [d \in CPU |-> TRUE]
  /\ UNCHANGED <<pc, mode, Counter, flags, Run, Present, elect, entry, local, proc, mtrr>>

EnterSmm(c) ==
  /\ Step(c, "normal", "entry")
  /\ pending[c]
  /\ pending' = [pending EXCEPT ![c] = FALSE]
  /\ UNCHANGED <<smiStatus, unhandled, mode, Counter, flags, Run, Present, elect, entry, local, proc, mtrr>>

(* Back to what the SMI interrupted; a latched SMI is taken at once.       *)
Resume(c, from) ==
  /\ Step(c, from, IF pending[c] THEN "entry" ELSE "normal")
  /\ pending' = [pending EXCEPT ![c] = FALSE]
  /\ UNCHANGED <<smiStatus, unhandled, mode, Counter, flags, Run, Present, elect, entry, local, proc, mtrr>>

ExitSmm(c) == Resume(c, "exit")

(* A processor running normal mode code starts a blocked one.              *)
Unblock(c) == (\E d \in CPU : At(d, "normal")) /\ Resume(c, "blocked")

-----------------------------------------------------------------------------
Init ==
  /\ relaxed \in BOOLEAN /\ needMtrrs \in BOOLEAN
  /\ hasStatus \in BOOLEAN /\ fixedBsp \in CPU \cup {None}
  /\ \E blocked \in SUBSET (CPU \ {fixedBsp}) :
       /\ blocked # CPU
       /\ pc = [c \in CPU |-> IF c \in blocked THEN "blocked" ELSE "normal"]
  /\ pending = [c \in CPU |-> FALSE] /\ smiStatus = FALSE /\ unhandled = FALSE
  /\ Counter = 0 /\ InsideSmm = FALSE /\ AllCpusInSync = FALSE /\ BspIndex = fixedBsp
  /\ Run = [c \in CPU |-> 0]
  /\ Present = [c \in CPU |-> FALSE] /\ Busy = [c \in CPU |-> FALSE]
  /\ CandidateBsp = {} /\ Operation = {}
  /\ validSmi = [c \in CPU |-> FALSE] /\ bspInProgress = [c \in CPU |-> FALSE]
  /\ bspIndex = [c \in CPU |-> None] /\ apCount = [c \in CPU |-> 0]
  /\ target = None /\ scheduled = {}
  /\ mtrr = [c \in CPU |-> "os"]

(* What a processor in SMM does on its own; what the SMI handlers may do.  *)
SmmStep(c) ==
  \/ SampleStatus(c) \/ SampleInside(c) \/ CheckIn(c) \/ ElectBsp(c) \/ Drain(c)
  \/ BspStep(c) \/ ApStep(c) \/ ExitSmm(c)

HandlerCall(b) ==
  \E d \in CPU : SmmSwitchBsp(b, d) \/ \E blocking \in BOOLEAN : StartupThisAp(b, d, blocking)

Next ==
  \/ RaiseSmi
  \/ \E c \in CPU : SmmStep(c) \/ HandlerCall(c) \/ EnterSmm(c) \/ Unblock(c)

Spec == Init /\ [][Next]_vars

(* For liveness: every processor goes on executing in SMM and takes the    *)
(* SMIs latched for it, time-outs end, and the SMI handlers make finitely  *)
(* many calls.                                                             *)
LiveSpec ==
  Spec /\ \A c \in CPU : WF_vars(SmmStep(c)) /\ WF_vars(EnterSmm(c)) /\ SF_vars(EndHandlers(c))

-----------------------------------------------------------------------------
(* Correctness.                                                            *)

BspLabels ==
  {"inside", "clear", "arriving", "ipi", "arrivingAgain", "sync", "lock", "gather",
   "backup", "backedUp", "program", "programmed", "acquire", "handlers", "startWait",
   "present", "quit", "released", "restore", "restored", "dismiss",
   "dismissed", "reset"}

ApLabels ==
  {"flag", "arrived", "saveMtrrs", "loadMtrrs", "idle", "woken", "ran", "restoreMtrrs",
   "ready", "left"}

Labels ==
  BspLabels \cup ApLabels \cup
  {"normal", "blocked", "entry", "sampled", "checkIn", "elect", "wait", "waitAgain",
   "giveUp", "resync", "drain", "exit"}

Handling(b) == pc[b] \in {"handlers", "startWait"}

(* The variables of the rendezvous have their types.                       *)
TypeOK ==
  /\ pc \in [CPU -> Labels]
  /\ pending \in [CPU -> BOOLEAN] /\ smiStatus \in BOOLEAN /\ unhandled \in BOOLEAN
  /\ hasStatus \in BOOLEAN /\ relaxed \in BOOLEAN /\ needMtrrs \in BOOLEAN
  /\ fixedBsp \in CPU \cup {None}
  /\ Counter \in Int /\ InsideSmm \in BOOLEAN /\ AllCpusInSync \in BOOLEAN
  /\ BspIndex \in CPU \cup {None}
  /\ Run \in [CPU -> Nat] /\ Present \in [CPU -> BOOLEAN] /\ Busy \in [CPU -> BOOLEAN]
  /\ CandidateBsp \subseteq CPU /\ Operation \subseteq CPU
  /\ validSmi \in [CPU -> BOOLEAN] /\ bspInProgress \in [CPU -> BOOLEAN]
  /\ bspIndex \in [CPU -> CPU \cup {None}] /\ apCount \in [CPU -> Int]
  /\ target \in CPU \cup {None} /\ scheduled \subseteq CPU
  /\ mtrr \in [CPU -> {"os", "saved", "smm"}]

(* BSP election: whoever runs BSPHandler is BspIndex, so that at most one  *)
(* processor does, from its election to the reset of the counter.          *)
OneBsp == \A b \in CPU : pc[b] \in BspLabels => BspIndex = b

(* A processor that arrives in SMM around the end of the BSP's wait is     *)
(* counted, or left out for the whole run.  The BspIndex an AP read when   *)
(* it saw a BSP in SMM, and answers to until it leaves, is the BSP that    *)
(* counted it; and once the BSP has gathered the APs it counted, they are  *)
(* the ones it signals, until it dismisses them.                           *)
ApsFollowBsp ==
  /\ \A c \in CPU : pc[c] \in ApLabels \ {"flag"} =>
                    bspIndex[c] = BspIndex /\ BspIndex # None /\ pc[BspIndex] \in BspLabels
  /\ \A b \in CPU :
       \/ pc[b] \in {"quit", "released", "restore", "restored", "dismiss"}
       \/ Gathers /\ pc[b] \in {"backup", "backedUp", "program", "programmed", "acquire",
                                "handlers", "startWait"}
       => /\ Counter = Locked
          /\ Cardinality({d \in CPU : Present[d]}) = apCount[b] + 1
          /\ \A d \in CPU \ {b} : Present[d] => pc[d] \in ApLabels

(* SmmWaitForApArrival: "insure when this function returns, no AP will     *)
(* execute normal mode code before entering SMM".  Where the APs are       *)
(* gathered first, none executes it while the SMI handlers run.            *)
NoNormalCode ==
  \A b \in CPU : Gathers /\ Handling(b) => \A d \in CPU : ~At(d, "normal")

(* The ASSERTs of MpService.c: the counter counts no more processors than  *)
(* there are, an AP is not the BSP, no signal is left when a processor     *)
(* leaves the rendezvous, and an AP that is woken for a procedure is busy. *)
CodeAsserts ==
  \A c \in CPU :
    /\ pc[c] \in {"arriving", "arrivingAgain"} => Counter \in 0 .. N
    /\ At(c, "flag") => BspIndex \notin {c, None}
    /\ pc[c] \in {"drain", "exit", "normal"} => Run[c] = 0
    /\ At(c, "woken") /\ InsideSmm => Busy[c]

(* SmmStartupThisAp: a procedure that was scheduled is run by its AP,      *)
(* once, before the AP leaves SMM: the AP waits for it or is woken by it.  *)
ScheduledRuns ==
  \A c \in CPU :
    /\ c \in scheduled => Busy[c] /\ pc[c] \in {"idle", "woken"} /\ InsideSmm
    /\ At(c, "woken") /\ InsideSmm => c \in scheduled

(* "Threads within a core share the same set of MTRRs.  We do the backup   *)
(* first and then set MTRR": no processor that is to save its MTRRs does   *)
(* so once another has set them.  The SMI handlers run with the MTRRs of   *)
(* SMM on every processor present, and normal mode code with its own.      *)
MtrrsInPlace ==
  \A c \in CPU :
    /\ pc[c] \in {"saveMtrrs", "backup"} => \A d \in CPU : mtrr[d] # "smm"
    /\ Handling(c) /\ needMtrrs => \A d \in CPU : Present[d] => mtrr[d] = "smm"
    /\ pc[c] \in {"normal", "exit", "drain"} => mtrr[c] = "os"

(* No processor stays in SMM: the BSP waits for no AP that does not come   *)
(* and an AP for no BSP that does not come or forgets it.                  *)
EveryoneLeaves == \A c \in CPU : At(c, "checkIn") ~> At(c, "exit")

(* An SMI is handled: after every SMI that is raised a BSP sets out to run *)
(* the SMI handlers, no matter when in the previous run it was raised.     *)
SmiIsHandled == unhandled ~> ~unhandled
=============================================================================
