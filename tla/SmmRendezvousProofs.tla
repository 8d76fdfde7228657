------------------------ MODULE SmmRendezvousProofs ------------------------
(***************************************************************************)
(* Proofs about SmmRendezvous, for any processors, any BSP that is fixed   *)
(* in advance or elected, every time-out and every call of SMI handlers.   *)
(***************************************************************************)
EXTENDS SmmRendezvous, TLAPS

(* A signal more or less leaves the semaphores natural numbers.            *)
LEMMA SignalTyped ==
  ASSUME NEW v \in Nat
  PROVE  Released(v) \in Nat
BY DEF Released, Locked

LEMMA ReleaseTyped ==
  ASSUME TypeOK, NEW b \in CPU, ReleaseAllAPs(b)
  PROVE  Run' \in [CPU -> Nat]
BY SignalTyped DEF ReleaseAllAPs, TypeOK

LEMMA AnswerTyped ==
  ASSUME TypeOK, NEW c \in CPU, Answer(c)
  PROVE  Run' \in [CPU -> Nat]
<1> Run \in [CPU -> Nat] /\ bspIndex[c] \in CPU \cup {None}
  BY DEF TypeOK
<1> QED BY SignalTyped DEF Answer

LEMMA TakeAndAnswerTyped ==
  ASSUME TypeOK, NEW c \in CPU, TakeAndAnswer(c)
  PROVE  Run' \in [CPU -> Nat]
BY SignalTyped DEF TakeAndAnswer, TypeOK

LEMMA TakeTyped ==
  ASSUME TypeOK, NEW c \in CPU, Run[c] # 0, Run' = [Run EXCEPT ![c] = @ - 1]
  PROVE  Run' \in [CPU -> Nat]
BY DEF TypeOK

LEMMA GatherTyped ==
  ASSUME TypeOK, NEW b \in CPU, NEW from, NEW to, WaitForAllAPs(b, from, to)
  PROVE  Run' \in [CPU -> Nat]
BY DEF TypeOK, WaitForAllAPs

(* The statements of the two handlers are statements.                      *)
LEMMA LabelsKnown ==
  /\ BspLabels \subseteq Labels
  /\ ApLabels \subseteq Labels
  /\ {"normal", "blocked", "entry", "sampled", "checkIn", "elect", "wait", "waitAgain",
      "giveUp", "resync", "drain", "exit"} \subseteq Labels
BY DEF Labels

LEMMA StepTyped ==
  ASSUME TypeOK, NEW c \in CPU, NEW from, NEW to \in Labels, Step(c, from, to)
  PROVE  pc' \in [CPU -> Labels]
BY DEF TypeOK, Step

USE DEF env, mode, flags, elect, entry, local, proc

(* What every processor does before it follows the BSP or becomes it.      *)
LEMMA EntryTyped ==
  ASSUME TypeOK, NEW c \in CPU,
         SampleStatus(c) \/ SampleInside(c) \/ CheckIn(c) \/ ElectBsp(c) \/ Drain(c)
  PROVE  TypeOK'
<1>1. CASE SampleStatus(c)
  BY <1>1 DEF TypeOK, SampleStatus, Step, Labels, PlatformValidSmi
<1>2. CASE SampleInside(c)
  BY <1>2 DEF TypeOK, SampleInside, Step, Labels
<1>3. CASE CheckIn(c)
  <2>1. Released(Counter) \in Int
    BY DEF TypeOK, Released, Locked
  <2> QED BY <1>3, <2>1 DEF TypeOK, CheckIn, Step, Labels
<1>4. CASE ElectBsp(c)
  BY <1>4 DEF TypeOK, ElectBsp, At, Labels, BspLabels
<1>5. CASE Drain(c)
  BY <1>5 DEF TypeOK, Drain, Step, Labels
<1> QED BY <1>1, <1>2, <1>3, <1>4, <1>5

LEMMA BspTyped ==
  ASSUME TypeOK, NEW b \in CPU, BspStep(b)
  PROVE  TypeOK'
<1>1. CASE FlagPresence(b)
  BY <1>1 DEF TypeOK, FlagPresence, Step, Labels, BspLabels
<1>2. CASE ClearTopLevelSmiStatus(b)
  BY <1>2 DEF TypeOK, ClearTopLevelSmiStatus, Step, Labels, BspLabels
<1>3. CASE FirstWait(b)
  BY <1>3 DEF TypeOK, FirstWait, Step, Labels, BspLabels
<1>4. CASE SendSmiIpis(b)
  BY <1>4 DEF TypeOK, SendSmiIpis, Step, Labels, BspLabels
<1>5. CASE SecondWait(b)
  BY <1>5 DEF TypeOK, SecondWait, Step, Labels, BspLabels
<1>6. CASE SyncOn(b)
  BY <1>6 DEF TypeOK, SyncOn, Step, Labels, BspLabels
<1>7. CASE LockdownSemaphore(b)
  BY <1>7 DEF TypeOK, LockdownSemaphore, Step, Labels, BspLabels, Locked
<1>8. CASE AcquireBusy(b)
  BY <1>8 DEF TypeOK, AcquireBusy, Step, Labels, BspLabels
<1>9. CASE StartupDone(b)
  BY <1>9 DEF TypeOK, StartupDone, Step, Labels, BspLabels
<1>10. CASE EndHandlers(b)
  BY <1>10 DEF TypeOK, EndHandlers, Step, Labels, BspLabels
<1>11. CASE AllPresent(b)
  BY <1>11 DEF TypeOK, AllPresent, Step, Labels, BspLabels
<1>12. CASE QuitSmm(b)
  <2>1. Run' \in [CPU -> Nat]
    BY <1>12, ReleaseTyped DEF QuitSmm
  <2> QED BY <1>12, <2>1 DEF TypeOK, QuitSmm, Step, Labels, BspLabels
<1>13. CASE Dismiss(b)
  <2>1. Run' \in [CPU -> Nat]
    BY <1>13, ReleaseTyped DEF Dismiss
  <2> QED BY <1>13, <2>1 DEF TypeOK, Dismiss, Step, Labels, BspLabels
<1>14. CASE ResetCounter(b)
  BY <1>14 DEF TypeOK, ResetCounter, Step, Labels, BspLabels
<1>15. CASE SyncOff(b)
  BY <1>15 DEF TypeOK, SyncOff, Step, Labels, BspLabels
<1>16. ASSUME NEW from, NEW to \in BspLabels, WaitForAllAPs(b, from, to)
      PROVE  TypeOK'
  <2>1. Run' \in [CPU -> Nat]
    BY <1>16, GatherTyped
  <2> QED BY <1>16, <2>1, StepTyped, LabelsKnown DEF TypeOK, WaitForAllAPs
<1>17. ASSUME NEW from, NEW to \in BspLabels, NEW settings \in {"os", "saved", "smm"},
             MtrrRound(b, from, to, settings)
      PROVE  TypeOK'
  <2>1. Run' \in [CPU -> Nat]
    BY <1>17, ReleaseTyped DEF MtrrRound
  <2> QED BY <1>17, <2>1, StepTyped, LabelsKnown DEF TypeOK, MtrrRound
<1> QED BY <1>1, <1>2, <1>3, <1>4, <1>5, <1>6, <1>7, <1>8, <1>9, <1>10, <1>11, <1>12, <1>13, <1>14, <1>15, <1>16, <1>17
       DEF BspStep, BackupMtrrs, ProgramMtrrs, RestoreMtrrs, BspLabels

LEMMA ApTyped ==
  ASSUME TypeOK, NEW c \in CPU, ApStep(c)
  PROVE  TypeOK'
<1>1. CASE BspIsInside(c)
  BY <1>1 DEF TypeOK, BspIsInside, Step, Labels, ApLabels
<1>2. CASE BspTimeout(c)
  BY <1>2 DEF TypeOK, BspTimeout, Step, Labels, ApLabels
<1>3. CASE BspTimeoutAgain(c)
  BY <1>3 DEF TypeOK, BspTimeoutAgain, Step, Labels, ApLabels
<1>4. CASE GiveUp(c)
  BY <1>4 DEF TypeOK, GiveUp, Step, Labels, ApLabels
<1>5. CASE MarkPresence(c)
  BY <1>5 DEF TypeOK, MarkPresence, Step, Labels, ApLabels
<1>6. CASE NotifyArrival(c)
  <2>1. Run' \in [CPU -> Nat]
    BY <1>6, AnswerTyped DEF NotifyArrival
  <2> QED BY <1>6, <2>1 DEF TypeOK, NotifyArrival, Step, Labels, ApLabels
<1>7. CASE WakeUp(c)
  <2>1. Run' \in [CPU -> Nat]
    BY <1>7, TakeTyped DEF WakeUp
  <2> QED BY <1>7, <2>1 DEF TypeOK, WakeUp, Step, Labels, ApLabels
<1>8. CASE RunProcedure(c)
  BY <1>8 DEF TypeOK, RunProcedure, Step, Labels, ApLabels
<1>9. CASE ReleaseBusy(c)
  BY <1>9 DEF TypeOK, ReleaseBusy, Step, Labels, ApLabels
<1>10. CASE NotifyExit(c)
  <2>1. Run' \in [CPU -> Nat]
    BY <1>10, AnswerTyped DEF NotifyExit
  <2> QED BY <1>10, <2>1 DEF TypeOK, NotifyExit, Step, Labels, ApLabels
<1>11. CASE ResetStates(c)
  <2>1. Run' \in [CPU -> Nat]
    BY <1>11, TakeTyped DEF ResetStates
  <2> QED BY <1>11, <2>1 DEF TypeOK, ResetStates, Step, Labels, ApLabels
<1>12. CASE NotifyLeft(c)
  <2>1. Run' \in [CPU -> Nat]
    BY <1>12, AnswerTyped DEF NotifyLeft
  <2> QED BY <1>12, <2>1 DEF TypeOK, NotifyLeft, Step, Labels, ApLabels
<1>13. ASSUME NEW from, NEW to \in ApLabels, NEW settings \in {"os", "saved", "smm"},
             ApMtrrs(c, from, to, settings)
      PROVE  TypeOK'
  <2>1. Run' \in [CPU -> Nat]
    BY <1>13, TakeAndAnswerTyped DEF ApMtrrs
  <2> QED BY <1>13, <2>1, StepTyped, LabelsKnown DEF TypeOK, ApMtrrs
<1> QED BY <1>1, <1>2, <1>3, <1>4, <1>5, <1>6, <1>7, <1>8, <1>9, <1>10, <1>11, <1>12, <1>13 DEF ApStep, ApLabels

LEMMA HandlerTyped ==
  ASSUME TypeOK, NEW b \in CPU, HandlerCall(b)
  PROVE  TypeOK'
<1>1. ASSUME NEW d \in CPU, SmmSwitchBsp(b, d)
      PROVE  TypeOK'
  BY <1>1 DEF TypeOK, SmmSwitchBsp
<1>2. ASSUME NEW d \in CPU, NEW blocking \in BOOLEAN, StartupThisAp(b, d, blocking)
      PROVE  TypeOK'
  <2>1. Run' \in [CPU -> Nat]
    BY <1>2, SignalTyped DEF TypeOK, StartupThisAp
  <2> QED BY <1>2, <2>1 DEF TypeOK, StartupThisAp, Step, Labels, BspLabels
<1> QED BY <1>1, <1>2 DEF HandlerCall

LEMMA HardwareTyped ==
  ASSUME TypeOK,
         RaiseSmi \/ \E c \in CPU : EnterSmm(c) \/ ExitSmm(c) \/ Unblock(c)
  PROVE  TypeOK'
<1>1. CASE RaiseSmi
  BY <1>1 DEF TypeOK, RaiseSmi
<1>2. ASSUME NEW c \in CPU, EnterSmm(c)
      PROVE  TypeOK'
  BY <1>2 DEF TypeOK, EnterSmm, Step, Labels
<1>3. ASSUME NEW c \in CPU, NEW from, Resume(c, from)
      PROVE  TypeOK'
  BY <1>3 DEF TypeOK, Resume, Step, Labels
<1> QED BY <1>1, <1>2, <1>3 DEF ExitSmm, Unblock

(* The variables keep their types.                                         *)
THEOREM TypeCorrect == Spec => []TypeOK
<1>1. Init => TypeOK
  <2> SUFFICES ASSUME Init
               PROVE  TypeOK
    OBVIOUS
  <2>1. pc \in [CPU -> Labels]
    BY LabelsKnown DEF Init
  <2>2. /\ hasStatus \in BOOLEAN /\ relaxed \in BOOLEAN /\ needMtrrs \in BOOLEAN
        /\ smiStatus \in BOOLEAN /\ unhandled \in BOOLEAN
        /\ InsideSmm \in BOOLEAN /\ AllCpusInSync \in BOOLEAN
    BY Zenon DEF Init
  <2>3. /\ fixedBsp \in CPU \cup {None} /\ BspIndex \in CPU \cup {None}
        /\ target \in CPU \cup {None} /\ scheduled \subseteq CPU
        /\ CandidateBsp \subseteq CPU /\ Operation \subseteq CPU
    BY Zenon DEF Init
  <2>4. /\ Counter \in Int /\ Run \in [CPU -> Nat] /\ apCount \in [CPU -> Int]
    BY DEF Init
  <2>5. /\ pending \in [CPU -> BOOLEAN] /\ Present \in [CPU -> BOOLEAN]
        /\ Busy \in [CPU -> BOOLEAN] /\ validSmi \in [CPU -> BOOLEAN]
        /\ bspInProgress \in [CPU -> BOOLEAN]
        /\ bspIndex \in [CPU -> CPU \cup {None}]
        /\ mtrr \in [CPU -> {"os", "saved", "smm"}]
    BY Zenon DEF Init
  <2> QED BY <2>1, <2>2, <2>3, <2>4, <2>5 DEF TypeOK
<1>2. TypeOK /\ [Next]_vars => TypeOK'
  <2> SUFFICES ASSUME TypeOK, [Next]_vars
               PROVE  TypeOK'
    OBVIOUS
  <2>1. CASE Next
    BY <2>1, EntryTyped, BspTyped, ApTyped, HandlerTyped, HardwareTyped DEF Next, SmmStep
  <2>2. CASE UNCHANGED vars
    BY <2>2 DEF TypeOK, vars
  <2> QED BY <2>1, <2>2
<1> QED BY <1>1, <1>2, PTL DEF Spec

-----------------------------------------------------------------------------
(* Whoever runs BSPHandler was elected or fixed, and BspIndex does not     *)
(* change before it resets the counter: OneBsp is inductive.               *)

LEMMA OneBspElected ==
  ASSUME TypeOK, OneBsp, NEW c \in CPU, ElectBsp(c)
  PROVE  OneBsp'
<1> SUFFICES ASSUME NEW b \in CPU, pc'[b] \in BspLabels
             PROVE  BspIndex' = b
  BY DEF OneBsp
<1>1. CASE b = c
  BY <1>1 DEF ElectBsp, At, TypeOK, BspLabels
<1>2. CASE b # c
  <2>1. pc'[b] = pc[b]
    BY <1>2 DEF ElectBsp, TypeOK
  <2> QED BY <2>1, NoneAssumption DEF OneBsp, ElectBsp
<1> QED BY <1>1, <1>2

LEMMA OneBspReset ==
  ASSUME TypeOK, OneBsp, NEW c \in CPU, ResetCounter(c)
  PROVE  OneBsp'
BY DEF OneBsp, ResetCounter, Step, TypeOK, BspLabels

(* Every other step leaves BspIndex alone and goes on in BSPHandler only   *)
(* where it was.                                                           *)
LEMMA OneBspElsewhere ==
  ASSUME TypeOK, OneBsp, NEW c \in CPU, NEW from, NEW to, Step(c, from, to),
         to \in BspLabels => from \in BspLabels, UNCHANGED BspIndex
  PROVE  OneBsp'
BY DEF OneBsp, Step, TypeOK

LEMMA OneBspEntry ==
  ASSUME TypeOK, OneBsp, NEW c \in CPU,
         SampleStatus(c) \/ SampleInside(c) \/ CheckIn(c) \/ Drain(c)
  PROVE  OneBsp'
<1>1. CASE SampleStatus(c)
  BY <1>1, OneBspElsewhere DEF SampleStatus, BspLabels
<1>2. CASE SampleInside(c)
  BY <1>2, OneBspElsewhere DEF SampleInside, BspLabels
<1>3. CASE CheckIn(c)
  BY <1>3, OneBspElsewhere DEF CheckIn, BspLabels
<1>4. CASE Drain(c)
  BY <1>4, OneBspElsewhere DEF Drain, BspLabels
<1> QED BY <1>1, <1>2, <1>3, <1>4

LEMMA OneBspHandler ==
  ASSUME TypeOK, OneBsp, NEW b \in CPU, BspStep(b)
  PROVE  OneBsp'
<1>1. CASE FlagPresence(b)
  BY <1>1, OneBspElsewhere DEF FlagPresence, BspLabels
<1>2. CASE ClearTopLevelSmiStatus(b)
  BY <1>2, OneBspElsewhere DEF ClearTopLevelSmiStatus, BspLabels
<1>3. CASE FirstWait(b)
  BY <1>3, OneBspElsewhere DEF FirstWait, BspLabels
<1>4. CASE SendSmiIpis(b)
  BY <1>4, OneBspElsewhere DEF SendSmiIpis, BspLabels
<1>5. CASE SecondWait(b)
  BY <1>5, OneBspElsewhere DEF SecondWait, BspLabels
<1>6. CASE SyncOn(b)
  BY <1>6, OneBspElsewhere DEF SyncOn, BspLabels
<1>7. CASE LockdownSemaphore(b)
  BY <1>7, OneBspElsewhere DEF LockdownSemaphore, BspLabels
<1>8. CASE AcquireBusy(b)
  BY <1>8, OneBspElsewhere DEF AcquireBusy, BspLabels
<1>9. CASE StartupDone(b)
  BY <1>9, OneBspElsewhere DEF StartupDone, BspLabels
<1>10. CASE EndHandlers(b)
  BY <1>10, OneBspElsewhere DEF EndHandlers, BspLabels
<1>11. CASE AllPresent(b)
  BY <1>11, OneBspElsewhere DEF AllPresent, BspLabels
<1>12. CASE QuitSmm(b)
  BY <1>12, OneBspElsewhere DEF QuitSmm, BspLabels
<1>13. CASE Dismiss(b)
  BY <1>13, OneBspElsewhere DEF Dismiss, BspLabels
<1>14. CASE SyncOff(b)
  BY <1>14, OneBspElsewhere DEF SyncOff, BspLabels
<1>15. ASSUME NEW from \in BspLabels, NEW to, WaitForAllAPs(b, from, to)
      PROVE  OneBsp'
  BY <1>15, OneBspElsewhere DEF WaitForAllAPs
<1>16. ASSUME NEW from \in BspLabels, NEW to, NEW settings, MtrrRound(b, from, to, settings)
      PROVE  OneBsp'
  BY <1>16, OneBspElsewhere DEF MtrrRound
<1> QED BY <1>1, <1>2, <1>3, <1>4, <1>5, <1>6, <1>7, <1>8, <1>9, <1>10, <1>11, <1>12, <1>13, <1>14, <1>15, <1>16, OneBspReset
       DEF BspStep, BackupMtrrs, ProgramMtrrs, RestoreMtrrs, BspLabels

LEMMA OneBspAp ==
  ASSUME TypeOK, OneBsp, NEW c \in CPU, ApStep(c)
  PROVE  OneBsp'
<1>1. CASE BspIsInside(c)
  BY <1>1 DEF BspIsInside, OneBsp, TypeOK, BspLabels
<1>2. CASE BspTimeout(c)
  BY <1>2, OneBspElsewhere DEF BspTimeout, BspLabels
<1>3. CASE BspTimeoutAgain(c)
  BY <1>3, OneBspElsewhere DEF BspTimeoutAgain, BspLabels
<1>4. CASE GiveUp(c)
  BY <1>4, OneBspElsewhere DEF GiveUp, BspLabels
<1>5. CASE MarkPresence(c)
  BY <1>5, OneBspElsewhere DEF MarkPresence, BspLabels
<1>6. CASE NotifyArrival(c)
  BY <1>6, OneBspElsewhere DEF NotifyArrival, BspLabels
<1>7. CASE WakeUp(c)
  BY <1>7, OneBspElsewhere DEF WakeUp, BspLabels
<1>8. CASE RunProcedure(c)
  BY <1>8, OneBspElsewhere DEF RunProcedure, BspLabels
<1>9. CASE ReleaseBusy(c)
  BY <1>9, OneBspElsewhere DEF ReleaseBusy, BspLabels
<1>10. CASE NotifyExit(c)
  BY <1>10, OneBspElsewhere DEF NotifyExit, BspLabels
<1>11. CASE ResetStates(c)
  BY <1>11, OneBspElsewhere DEF ResetStates, BspLabels
<1>12. CASE NotifyLeft(c)
  BY <1>12, OneBspElsewhere DEF NotifyLeft, BspLabels
<1>13. ASSUME NEW from, NEW to \in ApLabels, NEW settings, ApMtrrs(c, from, to, settings)
      PROVE  OneBsp'
  BY <1>13, OneBspElsewhere DEF ApMtrrs, ApLabels, BspLabels
<1> QED BY <1>1, <1>2, <1>3, <1>4, <1>5, <1>6, <1>7, <1>8, <1>9, <1>10, <1>11, <1>12, <1>13 DEF ApStep, ApLabels

LEMMA OneBspNext ==
  ASSUME TypeOK, OneBsp, Next
  PROVE  OneBsp'
<1>1. CASE RaiseSmi
  BY <1>1 DEF RaiseSmi, OneBsp
<1>2. ASSUME NEW c \in CPU, SmmStep(c)
      PROVE  OneBsp'
  <2>1. CASE ExitSmm(c)
    BY <2>1, OneBspElsewhere DEF ExitSmm, Resume, BspLabels
  <2> QED BY <1>2, <2>1, OneBspEntry, OneBspElected, OneBspHandler, OneBspAp DEF SmmStep
<1>3. ASSUME NEW b \in CPU, HandlerCall(b)
      PROVE  OneBsp'
  <2>1. ASSUME NEW d \in CPU, SmmSwitchBsp(b, d)
        PROVE  OneBsp'
    BY <2>1 DEF SmmSwitchBsp, OneBsp
  <2>2. ASSUME NEW d \in CPU, NEW blocking \in BOOLEAN, StartupThisAp(b, d, blocking)
        PROVE  OneBsp'
    BY <2>2, OneBspElsewhere DEF StartupThisAp, BspLabels
  <2> QED BY <1>3, <2>1, <2>2 DEF HandlerCall
<1>4. ASSUME NEW c \in CPU, EnterSmm(c)
      PROVE  OneBsp'
  BY <1>4, OneBspElsewhere DEF EnterSmm, BspLabels
<1>5. ASSUME NEW c \in CPU, Unblock(c)
      PROVE  OneBsp'
  BY <1>5, OneBspElsewhere DEF Unblock, Resume, BspLabels
<1> QED BY <1>1, <1>2, <1>3, <1>4, <1>5 DEF Next

(* BSP election (MpService.c, SmiRendezvous): at most one processor runs   *)
(* BSPHandler, and it is the one in BspIndex, however the elections of     *)
(* successive SMIs, switches of the BSP and late processors interleave.    *)
THEOREM OneBspElectedAtATime == Spec => []OneBsp
<1>1. Init => OneBsp
  BY DEF Init, OneBsp, BspLabels
<1>2. TypeOK /\ OneBsp /\ [Next]_vars => OneBsp'
  BY OneBspNext DEF OneBsp, vars, flags
<1> QED BY <1>1, <1>2, TypeCorrect, PTL DEF Spec
=============================================================================
