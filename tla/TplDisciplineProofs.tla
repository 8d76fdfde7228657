------------------------- MODULE TplDisciplineProofs -------------------------
(* Proofs about EventTpl: the task priority level of every activation.     *)
EXTENDS EventTplProofs

-----------------------------------------------------------------------------
(* The stack is a record of levels.  An activation that resumes finds the  *)
(* level it left: exactly, if it is in the middle of a core service; or    *)
(* one it may be at, if it is a notify function (which raises and restores *)
(* levels as it likes above its own) or CoreRestoreTpl (which is on its    *)
(* way down to its argument).  Nothing runs above a holder of the lock.    *)

Resumes(f, l) ==
  /\ f.pc # "list"
  /\ f.lvl <= l
  /\ f.pc \notin {"run", "restore", "set"} => f.lvl = l

(* g was started by f, or interrupted it. *)
Above(f, g) ==
  /\ Resumes(f, g.lvl)
  /\ g.pc = "disp" => f.pc = "restore" /\ f.lvl < g.lvl
  /\ g.pc \in {"call", "run"} => f.pc = "disp"

(* Notify functions are entered at their level, interrupts below the top.  *)
Entered(f) ==
  /\ f.pc = "irq" => f.lvl < TPL_HIGH_LEVEL
  /\ f.pc \in {"call", "run"} /\ f.ev \in Event => f.lvl = NotifyTpl[f.ev]

Disciplined(s) ==
  /\ \A i \in 1 .. Len(s) : Entered(s[i])
  /\ \A i \in 1 .. Len(s) - 1 : Above(s[i], s[i + 1])
  /\ \A i, j \in 1 .. Len(s) : i <= j => s[i].lvl <= s[j].lvl

Executes(f) ==
  IF f.pc = "list" THEN gEfiCurrentTpl = TPL_HIGH_LEVEL ELSE Resumes(f, gEfiCurrentTpl)

PendingBelowHigh == \A t \in gEventPending : t < TPL_HIGH_LEVEL

TplInv ==
  /\ Disciplined(stack)
  /\ Executes(Top)
  /\ HighLevelMasksInterrupts
  /\ PendingBelowHigh

-----------------------------------------------------------------------------
LEMMA LevelsAreNumbers ==
  /\ Tpl \subseteq Nat /\ \A t \in Tpl : t <= TPL_HIGH_LEVEL
  /\ \A f \in Frames : f.lvl \in Nat /\ f.lvl \in Tpl
<1>1. Tpl \subseteq Nat /\ \A t \in Tpl : t <= TPL_HIGH_LEVEL
  BY TplAssumption DEF TPL_HIGH_LEVEL
<1> QED
  BY <1>1 DEF Frames

LEMMA PushDisciplined ==
  ASSUME NEW s, StackOK(s), Disciplined(s), NEW f \in Frames, Entered(f),
         Above(s[Len(s)], f)
  PROVE  /\ Disciplined(Append(s, f))
         /\ Len(Append(s, f)) = Len(s) + 1
         /\ Append(s, f)[Len(s) + 1] = f
<1> DEFINE a == Append(s, f)
           n == Len(s)
<1>1. s \in Seq(Frames)
  BY DEF StackOK
<1>2. n \in Nat \ {0} /\ \A i \in 1 .. n : s[i] \in Frames
  BY TopOK
<1>3. Len(a) = n + 1 /\ a[n + 1] = f /\ \A i \in 1 .. n : a[i] = s[i]
  BY <1>1, AppendProperties
<1>4. /\ \A i \in 1 .. n : Entered(s[i])
      /\ \A i \in 1 .. n - 1 : Above(s[i], s[i + 1])
      /\ \A i, j \in 1 .. n : i <= j => s[i].lvl <= s[j].lvl
      /\ Above(s[n], f)
  BY DEF Disciplined
<1> HIDE DEF a, n
<1>5. \A i \in 1 .. n + 1 : Entered(a[i])
  BY <1>2, <1>3, <1>4
<1>6. ASSUME NEW i \in 1 .. n
      PROVE  Above(a[i], a[i + 1])
  <2>1. CASE i = n
    BY <2>1, <1>2, <1>3, <1>4
  <2>2. CASE i # n
    <3>1. i \in 1 .. n - 1 /\ i + 1 \in 1 .. n
      BY <2>2, <1>2
    <3> QED
      BY <3>1, <1>3, <1>4
  <2> QED
    BY <2>1, <2>2
<1>7. ASSUME NEW i \in 1 .. n + 1, NEW j \in 1 .. n + 1, i <= j
      PROVE  a[i].lvl <= a[j].lvl
  <2>1. s[n].lvl <= f.lvl
    BY <1>4 DEF Above, Resumes
  <2>2. f.lvl \in Nat /\ \A k \in 1 .. n : s[k].lvl \in Nat
    BY <1>2, LevelsAreNumbers
  <2>3. CASE j # n + 1
    <3>1. i \in 1 .. n /\ j \in 1 .. n
      BY <2>3, <1>2, <1>7
    <3> QED
      BY <3>1, <1>3, <1>4, <1>7
  <2>4. CASE j = n + 1 /\ i # n + 1
    <3>1. i \in 1 .. n /\ n \in 1 .. n /\ i <= n
      BY <2>4, <1>2
    <3>2. s[i].lvl <= s[n].lvl
      BY <3>1, <1>4
    <3>3. s[i].lvl \in Nat /\ s[n].lvl \in Nat
      BY <3>1, <2>2
    <3>4. s[i].lvl <= f.lvl
      BY <3>2, <3>3, <2>1, <2>2
    <3> QED
      BY <2>4, <3>1, <3>4, <1>3
  <2>5. CASE j = n + 1 /\ i = n + 1
    BY <2>5, <2>2, <1>3
  <2> QED
    BY <2>3, <2>4, <2>5
<1>8. Disciplined(a)
  <2>1. \A i \in 1 .. Len(a) : Entered(a[i])
    BY <1>3, <1>5
  <2>2. \A i \in 1 .. Len(a) - 1 : Above(a[i], a[i + 1])
    <3>1. Len(a) - 1 = n
      BY <1>2, <1>3
    <3> QED
      BY <3>1, <1>6
  <2>3. \A i, j \in 1 .. Len(a) : i <= j => a[i].lvl <= a[j].lvl
    BY <1>3, <1>7
  <2> QED
    BY <2>1, <2>2, <2>3 DEF Disciplined
<1> QED
  BY <1>3, <1>8 DEF a, n

LEMMA ReturnDisciplined ==
  ASSUME NEW s, StackOK(s), Disciplined(s), Len(s) > 1
  PROVE  /\ Disciplined(Front(s))
         /\ Len(Front(s)) = Len(s) - 1
         /\ Front(s)[Len(s) - 1] = s[Len(s) - 1]
         /\ s[Len(s) - 1] \in Frames
         /\ Above(s[Len(s) - 1], s[Len(s)])
<1> DEFINE a == Front(s)
           n == Len(s)
<1>1. s \in Seq(Frames) /\ s # <<>>
  BY DEF StackOK
<1>2. n \in Nat \ {0} /\ n > 1 /\ \A i \in 1 .. n : s[i] \in Frames
  BY TopOK
<1>3. Len(a) = n - 1 /\ \A i \in 1 .. n - 1 : a[i] = s[i]
  BY <1>1, FrontProperties
<1>4. /\ \A i \in 1 .. n : Entered(s[i])
      /\ \A i \in 1 .. n - 1 : Above(s[i], s[i + 1])
      /\ \A i, j \in 1 .. n : i <= j => s[i].lvl <= s[j].lvl
  BY DEF Disciplined
<1> HIDE DEF a, n
<1>5. \A i \in 1 .. n - 1 : Entered(a[i])
  BY <1>2, <1>3, <1>4
<1>6. ASSUME NEW i \in 1 .. (n - 1) - 1
      PROVE  Above(a[i], a[i + 1])
  <2>1. i \in 1 .. n - 1 /\ i + 1 \in 1 .. n - 1
    BY <1>2
  <2> QED
    BY <2>1, <1>3, <1>4
<1>7. \A i, j \in 1 .. n - 1 : i <= j => a[i].lvl <= a[j].lvl
  BY <1>2, <1>3, <1>4
<1>8. Disciplined(a)
  BY <1>3, <1>5, <1>6, <1>7 DEF Disciplined
<1>9. n - 1 \in 1 .. n - 1 /\ (n - 1) + 1 = n /\ n - 1 \in 1 .. n
  BY <1>2
<1>10. Above(s[n - 1], s[n])
  <2>1. Above(s[n - 1], s[(n - 1) + 1])
    BY <1>4, <1>9
  <2> QED
    BY <2>1, <1>9
<1> QED
  BY <1>2, <1>3, <1>8, <1>9, <1>10 DEF a, n

(* f takes the place of the activation on top. *)
LEMMA GotoDisciplined ==
  ASSUME NEW s, StackOK(s), Disciplined(s), Len(s) > 1, NEW f \in Frames, Entered(f),
         f.lvl = s[Len(s)].lvl,
         \/ f.pc \notin {"disp", "call", "run"}
         \/ f.pc = "run" /\ s[Len(s)].pc = "call"
  PROVE  /\ Disciplined(Append(Front(s), f))
         /\ Len(Append(Front(s), f)) = Len(s)
         /\ Append(Front(s), f)[Len(s)] = f
<1> DEFINE a == Front(s)
           n == Len(s)
<1>1. n \in Nat \ {0} /\ n > 1
  BY TopOK
<1>2. /\ Disciplined(a) /\ Len(a) = n - 1 /\ a[n - 1] = s[n - 1]
      /\ Above(s[n - 1], s[n])
  BY ReturnDisciplined
<1>3. StackOK(a)
  BY ReturnOK
<1> HIDE DEF a
<1>4. Above(a[Len(a)], f)
  BY <1>2 DEF Above
<1>5. /\ Disciplined(Append(a, f))
      /\ Len(Append(a, f)) = Len(a) + 1
      /\ Append(a, f)[Len(a) + 1] = f
  BY <1>2, <1>3, <1>4, PushDisciplined
<1>6. Len(a) + 1 = n
  BY <1>1, <1>2
<1> QED
  BY <1>5, <1>6 DEF a

-----------------------------------------------------------------------------
(* The four ways a step changes the stack.                                 *)

LEMMA InvFacts ==
  ASSUME TypeInv, TplInv
  PROVE  /\ StackOK(stack) /\ Disciplined(stack) /\ Top = stack[Len(stack)]
         /\ Top \in Frames /\ Entered(Top) /\ Executes(Top)
         /\ Top.lvl \in Nat /\ Top.lvl \in Tpl /\ Top.lvl <= TPL_HIGH_LEVEL
         /\ gEfiCurrentTpl \in Nat /\ gEfiCurrentTpl \in Tpl
         /\ gEfiCurrentTpl <= TPL_HIGH_LEVEL
         /\ interrupts \in BOOLEAN /\ (interrupts <=> gEfiCurrentTpl < TPL_HIGH_LEVEL)
         /\ Top.pc # "run" => Len(stack) > 1
         /\ Top.pc # "list" => Resumes(Top, gEfiCurrentTpl)
<1>1. StackOK(stack) /\ Top \in Frames /\ (Top.pc # "run" => Len(stack) > 1)
  BY RunningOK
<1>2. Disciplined(stack) /\ Executes(Top) /\ HighLevelMasksInterrupts
  BY DEF TplInv
<1>3. Len(stack) \in 1 .. Len(stack)
  BY <1>1, TopOK
<1>4. Entered(Top)
  BY <1>2, <1>3 DEF Disciplined, Top
<1>5. /\ Top.lvl \in Nat /\ Top.lvl \in Tpl /\ Top.lvl <= TPL_HIGH_LEVEL
      /\ gEfiCurrentTpl \in Nat /\ gEfiCurrentTpl \in Tpl
      /\ gEfiCurrentTpl <= TPL_HIGH_LEVEL
  BY <1>1, LevelsAreNumbers DEF TypeInv, CpuOK
<1> QED
  BY <1>1, <1>2, <1>4, <1>5
     DEF TypeInv, CpuOK, HighLevelMasksInterrupts, Executes, Top

LEMMA DisciplinedPush ==
  ASSUME TypeInv, TplInv, NEW f \in Frames, Entered(f), Above(Top, f),
         stack' = Append(stack, f), Resumes(f, gEfiCurrentTpl')
  PROVE  Disciplined(stack)' /\ Executes(Top)'
<1>1. StackOK(stack) /\ Disciplined(stack) /\ Top = stack[Len(stack)]
  BY InvFacts
<1>2. /\ Disciplined(stack') /\ Len(stack') = Len(stack) + 1
      /\ stack'[Len(stack) + 1] = f
  BY <1>1, PushDisciplined
<1>3. Top' = f
  BY <1>2 DEF Top
<1>4. Executes(Top)'
  BY <1>3 DEF Executes, Resumes
<1> QED
  BY <1>2, <1>4 DEF Disciplined

LEMMA DisciplinedGoto ==
  ASSUME TypeInv, TplInv, Len(stack) > 1, NEW f \in Frames, Entered(f),
         f.lvl = Top.lvl,
         \/ f.pc \notin {"disp", "call", "run"}
         \/ f.pc = "run" /\ Top.pc = "call",
         stack' = Append(Front(stack), f),
         \/ f.pc = "list" /\ gEfiCurrentTpl' = TPL_HIGH_LEVEL
         \/ Resumes(f, gEfiCurrentTpl')
  PROVE  Disciplined(stack)' /\ Executes(Top)'
<1>1. StackOK(stack) /\ Disciplined(stack) /\ Top = stack[Len(stack)]
  BY InvFacts
<1>2. Disciplined(stack') /\ Len(stack') = Len(stack) /\ stack'[Len(stack)] = f
  BY <1>1, GotoDisciplined
<1>3. Top' = f
  BY <1>2 DEF Top
<1>4. Executes(Top)'
  BY <1>3 DEF Executes, Resumes
<1> QED
  BY <1>2, <1>4 DEF Disciplined

LEMMA DisciplinedReturn ==
  ASSUME TypeInv, TplInv, Len(stack) > 1, stack' = Front(stack),
         gEfiCurrentTpl' = Top.lvl
  PROVE  Disciplined(stack)' /\ Executes(Top)'
<1>1. StackOK(stack) /\ Disciplined(stack) /\ Top = stack[Len(stack)]
  BY InvFacts
<1>2. /\ Disciplined(stack') /\ Len(stack') = Len(stack) - 1
      /\ stack'[Len(stack) - 1] = stack[Len(stack) - 1]
      /\ Above(stack[Len(stack) - 1], Top)
  BY <1>1, ReturnDisciplined
<1>3. Resumes(Top', gEfiCurrentTpl')
  BY <1>2 DEF Top, Above
<1>4. Executes(Top)'
  BY <1>3 DEF Executes, Resumes
<1> QED
  BY <1>2, <1>4 DEF Disciplined

(* CoreReleaseLock into a caller that resumes at the present level. *)
LEMMA DisciplinedRelease ==
  ASSUME TypeInv, NEW s, StackOK(s), Disciplined(s),
         Resumes(s[Len(s)], gEfiCurrentTpl), CoreReleaseEventLock(s)
  PROVE  Disciplined(stack)' /\ Executes(Top)' /\ HighLevelMasksInterrupts'
<1> DEFINE f == Frame("restore", NoEvent, gEfiCurrentTpl)
<1>1. /\ gEfiCurrentTpl' = TPL_HIGH_LEVEL /\ interrupts' = FALSE
      /\ stack' = Append(s, f)
  BY DEF CoreReleaseEventLock
<1>2. f \in Frames
  BY FrameOK DEF TypeInv, CpuOK, Pc, OnEvent
<1>3. f.pc = "restore" /\ f.lvl = gEfiCurrentTpl
  BY DEF Frame
<1> HIDE DEF f
<1>4. Entered(f) /\ Above(s[Len(s)], f)
  BY <1>3 DEF Entered, Above
<1>5. Disciplined(stack') /\ Len(stack') = Len(s) + 1 /\ stack'[Len(s) + 1] = f
  BY <1>1, <1>2, <1>4, PushDisciplined
<1>6. Top' = f
  BY <1>5 DEF Top
<1>7. gEfiCurrentTpl <= TPL_HIGH_LEVEL
  BY LevelsAreNumbers DEF TypeInv, CpuOK
<1>8. Executes(Top)'
  BY <1>1, <1>3, <1>6, <1>7 DEF Executes, Resumes
<1>9. HighLevelMasksInterrupts'
  BY <1>1 DEF HighLevelMasksInterrupts, TPL_HIGH_LEVEL
<1> QED
  BY <1>5, <1>8, <1>9 DEF Disciplined

(* The same for CoreSignalEvent. *)
LEMMA DisciplinedSignal ==
  ASSUME TypeInv, NEW e \in Event, NEW s, StackOK(s), Disciplined(s),
         Resumes(s[Len(s)], gEfiCurrentTpl), Signal(e, s)
  PROVE  Disciplined(stack)' /\ Executes(Top)' /\ HighLevelMasksInterrupts'
<1> DEFINE f == Frame("group", e, gEfiCurrentTpl)
           a == Append(s, f)
<1>1. CASE CoreReleaseEventLock(s)
  BY <1>1, DisciplinedRelease
<1>2. CASE CoreReleaseEventLock(a)
  <2>1. f \in Frames
    BY FrameOK DEF TypeInv, CpuOK, Pc, OnEvent
  <2>2. f.pc = "group" /\ f.lvl = gEfiCurrentTpl
    BY DEF Frame
  <2>3. gEfiCurrentTpl <= gEfiCurrentTpl
    BY LevelsAreNumbers DEF TypeInv, CpuOK
  <2> HIDE DEF f
  <2>4. Entered(f) /\ Above(s[Len(s)], f) /\ Resumes(f, gEfiCurrentTpl)
    BY <2>2, <2>3 DEF Entered, Above, Resumes
  <2>5. Disciplined(a) /\ Len(a) = Len(s) + 1 /\ a[Len(s) + 1] = f
    BY <2>1, <2>4, PushDisciplined
  <2>6. StackOK(a)
    BY <2>1, PushOK
  <2>7. Resumes(a[Len(a)], gEfiCurrentTpl)
    BY <2>4, <2>5
  <2> HIDE DEF a
  <2> QED
    BY <1>2, <2>5, <2>6, <2>7, DisciplinedRelease
<1> QED
  BY <1>1, <1>2 DEF Signal

LEMMA PendingBelowHighNext ==
  ASSUME TypeInv, PendingBelowHigh, [Next]_vars
  PROVE  PendingBelowHigh'
<1>1. ASSUME NEW e \in NotifySignal \cup NotifyWait, CoreNotifyEvent(e)
      PROVE  PendingBelowHigh'
  BY <1>1, EventAssumption DEF CoreNotifyEvent, PendingBelowHigh
<1>2. CASE \/ UNCHANGED <<gEventQueue, gEventPending>> \/ DispatchNext \/ DispatchDone
           \/ \E e \in Event : CoreCloseEvent(e)
  BY <1>2 DEF DispatchNext, DispatchDone, CoreCloseEvent, PendingBelowHigh
<1> QED
  BY <1>1, <1>2, QueueSteps

-----------------------------------------------------------------------------
(* The steps.                                                              *)

StackAndLevel == Disciplined(stack) /\ Executes(Top) /\ HighLevelMasksInterrupts

LEMMA StackAndLevelTpl ==
  ASSUME TypeInv, TplInv,
         \/ \E t \in Tpl : CoreRaiseTpl(t) \/ CoreRestoreTpl(t)
         \/ RestoreTplDispatch \/ RestoreTplExitLoop \/ RestoreTplSet
  PROVE  StackAndLevel'
<1>1. /\ StackOK(stack) /\ Disciplined(stack) /\ Top \in Frames /\ Entered(Top)
      /\ Top.lvl \in Nat /\ Top.lvl \in Tpl /\ Top.lvl <= TPL_HIGH_LEVEL
      /\ gEfiCurrentTpl \in Nat /\ gEfiCurrentTpl <= TPL_HIGH_LEVEL
      /\ interrupts \in BOOLEAN /\ (interrupts <=> gEfiCurrentTpl < TPL_HIGH_LEVEL)
      /\ Top.pc # "run" => Len(stack) > 1
      /\ Top.pc # "list" => Resumes(Top, gEfiCurrentTpl)
  BY InvFacts
<1>2. ASSUME NEW t \in Tpl, CoreRaiseTpl(t)
      PROVE  StackAndLevel'
  <2>1. /\ Top.pc = "run" /\ gEfiCurrentTpl < t /\ gEfiCurrentTpl' = t
        /\ interrupts' = (interrupts /\ t < TPL_HIGH_LEVEL) /\ stack' = stack
    BY <1>2 DEF CoreRaiseTpl, Running
  <2>2. t \in Nat /\ t <= TPL_HIGH_LEVEL /\ TPL_HIGH_LEVEL \in Nat
    BY LevelsAreNumbers DEF TPL_HIGH_LEVEL
  <2>3. Top' = Top
    BY <2>1 DEF Top
  <2>4. Executes(Top)'
    BY <1>1, <2>1, <2>2, <2>3 DEF Executes, Resumes
  <2>5. HighLevelMasksInterrupts'
    <3>1. t < TPL_HIGH_LEVEL => gEfiCurrentTpl < TPL_HIGH_LEVEL
      BY <1>1, <2>1, <2>2
    <3>2. CASE t < TPL_HIGH_LEVEL
      BY <1>1, <2>1, <3>1, <3>2, Zenon DEF HighLevelMasksInterrupts
    <3>3. CASE ~(t < TPL_HIGH_LEVEL)
      BY <2>1, <3>3, Zenon DEF HighLevelMasksInterrupts
    <3> QED
      BY <3>2, <3>3
  <2> QED
    BY <1>1, <2>1, <2>4, <2>5 DEF StackAndLevel, Disciplined
<1>3. ASSUME NEW t \in Tpl, CoreRestoreTpl(t)
      PROVE  StackAndLevel'
  <2> DEFINE f == Frame("restore", NoEvent, t)
  <2>1. f \in Frames /\ f.pc = "restore" /\ f.lvl = t
    <3>1. f \in Frames
      BY FrameOK DEF Pc, OnEvent
    <3> QED
      BY <3>1 DEF Frame
  <2>2. /\ Top.pc = "run" /\ Top.lvl <= t /\ t <= gEfiCurrentTpl
        /\ stack' = Append(stack, f)
        /\ gEfiCurrentTpl' = gEfiCurrentTpl /\ interrupts' = interrupts
    BY <1>3 DEF CoreRestoreTpl, Running, Push
  <2> HIDE DEF f
  <2>3. Entered(f) /\ Above(Top, f) /\ Resumes(f, gEfiCurrentTpl')
    BY <2>1, <2>2 DEF Entered, Above, Resumes
  <2>4. Disciplined(stack)' /\ Executes(Top)'
    BY <2>1, <2>2, <2>3, DisciplinedPush
  <2> QED
    BY <1>1, <2>2, <2>4 DEF StackAndLevel, HighLevelMasksInterrupts
<1>4. CASE RestoreTplDispatch
  <2> DEFINE p == HighBitSet64(gEventPending)
             f == Frame("disp", NoEvent, p)
  <2>1. PICK t \in gEventPending : t > Top.lvl
    BY <1>4 DEF RestoreTplDispatch
  <2>2. gEventPending \subseteq Tpl /\ gEventPending # {}
    BY <2>1 DEF TypeInv, QueuesOK
  <2>3. p \in gEventPending /\ \A q \in gEventPending : q <= p
    BY <2>2, HighBitProperties
  <2>4. /\ Top.pc = "restore" /\ stack' = Append(stack, f) /\ gEfiCurrentTpl' = p
        /\ interrupts' = (interrupts \/ p < TPL_HIGH_LEVEL)
    BY <1>4 DEF RestoreTplDispatch, Running, Push
  <2> HIDE DEF p
  <2>5. p \in Tpl /\ p \in Nat /\ t \in Nat /\ t <= p /\ p < TPL_HIGH_LEVEL
    BY <2>1, <2>2, <2>3, LevelsAreNumbers DEF TplInv, PendingBelowHigh
  <2>6. f \in Frames /\ f.pc = "disp" /\ f.lvl = p
    <3>1. f \in Frames
      BY <2>5, FrameOK DEF Pc, OnEvent
    <3> QED
      BY <3>1 DEF Frame
  <2> HIDE DEF f
  <2>7. Top.lvl < p /\ p <= p
    BY <1>1, <2>1, <2>5
  <2>8. Entered(f) /\ Above(Top, f) /\ Resumes(f, gEfiCurrentTpl')
    BY <1>1, <2>4, <2>5, <2>6, <2>7 DEF Entered, Above, Resumes
  <2>9. Disciplined(stack)' /\ Executes(Top)'
    BY <2>4, <2>6, <2>8, DisciplinedPush
  <2> QED
    BY <2>4, <2>5, <2>9 DEF StackAndLevel, HighLevelMasksInterrupts
<1>5. CASE RestoreTplExitLoop
  <2> DEFINE f == Frame("set", NoEvent, Top.lvl)
  <2>1. f \in Frames /\ f.pc = "set" /\ f.lvl = Top.lvl
    <3>1. f \in Frames
      BY <1>1, FrameOK DEF Pc, OnEvent
    <3> QED
      BY <3>1 DEF Frame
  <2>2. /\ Top.pc = "restore" /\ stack' = Append(Front(stack), f)
        /\ gEfiCurrentTpl' = gEfiCurrentTpl /\ interrupts' = interrupts
    BY <1>5 DEF RestoreTplExitLoop, Running, Goto
  <2> HIDE DEF f
  <2>3. Entered(f) /\ Resumes(f, gEfiCurrentTpl')
    BY <1>1, <2>1, <2>2 DEF Entered, Resumes
  <2>4. Disciplined(stack)' /\ Executes(Top)'
    BY <1>1, <2>1, <2>2, <2>3, DisciplinedGoto
  <2> QED
    BY <1>1, <2>2, <2>4 DEF StackAndLevel, HighLevelMasksInterrupts
<1>6. CASE RestoreTplSet
  <2>1. /\ Top.pc = "set" /\ stack' = Front(stack) /\ gEfiCurrentTpl' = Top.lvl
        /\ interrupts' = (interrupts \/ Top.lvl < TPL_HIGH_LEVEL)
    BY <1>6 DEF RestoreTplSet, Running, Return
  <2>2. Disciplined(stack)' /\ Executes(Top)'
    BY <1>1, <2>1, DisciplinedReturn
  <2>3. Top.lvl <= gEfiCurrentTpl
    BY <1>1, <2>1 DEF Resumes
  <2>4. TPL_HIGH_LEVEL \in Nat
    BY DEF TPL_HIGH_LEVEL
  <2>5. HighLevelMasksInterrupts'
    <3>1. ~(Top.lvl < TPL_HIGH_LEVEL) => ~(gEfiCurrentTpl < TPL_HIGH_LEVEL)
      BY <1>1, <2>3, <2>4
    <3>2. CASE Top.lvl < TPL_HIGH_LEVEL
      BY <2>1, <3>2, Zenon DEF HighLevelMasksInterrupts
    <3>3. CASE ~(Top.lvl < TPL_HIGH_LEVEL)
      BY <1>1, <2>1, <3>1, <3>3, Zenon DEF HighLevelMasksInterrupts
    <3> QED
      BY <3>2, <3>3
  <2> QED
    BY <2>2, <2>5 DEF StackAndLevel
<1> QED
  BY <1>2, <1>3, <1>4, <1>5, <1>6

LEMMA StackAndLevelDispatch ==
  ASSUME TypeInv, QueueInv, TplInv,
         DispatchNext \/ DispatchCall \/ DispatchDone \/ NotifyReturn
  PROVE  StackAndLevel'
<1>1. /\ StackOK(stack) /\ Disciplined(stack) /\ Top = stack[Len(stack)]
      /\ Top \in Frames /\ Entered(Top)
      /\ Top.lvl \in Nat /\ Top.lvl \in Tpl
      /\ gEfiCurrentTpl \in Nat
      /\ (interrupts <=> gEfiCurrentTpl < TPL_HIGH_LEVEL)
      /\ Top.pc # "run" => Len(stack) > 1
      /\ Top.pc # "list" => Resumes(Top, gEfiCurrentTpl)
  BY InvFacts
<1>2. CASE DispatchNext
  <2> DEFINE e == Head(gEventQueue[Top.lvl])
             f == Frame("call", e, Top.lvl)
             s == Append(stack, f)
  <2>1. Top.pc = "disp" /\ CoreReleaseEventLock(s)
    BY <1>2 DEF DispatchNext, Running, Push
  <2>2. gEventQueue[Top.lvl] \in Seq(Event) /\ gEventQueue[Top.lvl] # <<>>
    BY <1>1, <1>2 DEF DispatchNext, TypeInv, QueuesOK
  <2>3. e \in Event /\ e = gEventQueue[Top.lvl][1] /\ 1 \in 1 .. Len(gEventQueue[Top.lvl])
    <3>1. Len(gEventQueue[Top.lvl]) \in Nat /\ Len(gEventQueue[Top.lvl]) # 0
      BY <2>2, LenProperties, EmptySeq
    <3> QED
      BY <2>2, <3>1
  <2>4. NotifyTpl[e] = Top.lvl
    BY <1>1, <2>3 DEF QueueInv, QueuedOnceAtNotifyTpl
  <2> HIDE DEF e
  <2>5. f \in Frames /\ f.pc = "call" /\ f.lvl = Top.lvl /\ f.ev = e
    <3>1. f \in Frames
      BY <1>1, <2>3, FrameOK DEF Pc, OnEvent
    <3> QED
      BY <3>1 DEF Frame
  <2>6. Top.lvl = gEfiCurrentTpl
    BY <1>1, <2>1 DEF Resumes
  <2>7. Top.lvl <= Top.lvl
    BY <1>1
  <2> HIDE DEF f
  <2>8. Entered(f) /\ Above(Top, f) /\ Resumes(f, gEfiCurrentTpl)
    BY <2>1, <2>4, <2>5, <2>6, <2>7 DEF Entered, Above, Resumes
  <2>9. Disciplined(s) /\ Len(s) = Len(stack) + 1 /\ s[Len(stack) + 1] = f
    BY <1>1, <2>5, <2>8, PushDisciplined
  <2>10. StackOK(s) /\ Resumes(s[Len(s)], gEfiCurrentTpl)
    BY <1>1, <2>5, <2>8, <2>9, PushOK
  <2> HIDE DEF s
  <2> QED
    BY <2>1, <2>9, <2>10, DisciplinedRelease DEF StackAndLevel
<1>3. CASE DispatchCall
  <2> DEFINE f == Frame("run", Top.ev, Top.lvl)
  <2>1. f \in Frames /\ f.pc = "run" /\ f.lvl = Top.lvl /\ f.ev = Top.ev
    <3>0. Top.ev \in Event \cup {NoEvent}
      BY RunningOK
    <3>1. f \in Frames
      BY <1>1, <3>0, FrameOK DEF Pc, OnEvent
    <3> QED
      BY <3>1 DEF Frame
  <2>2. /\ Top.pc = "call" /\ stack' = Append(Front(stack), f)
        /\ gEfiCurrentTpl' = gEfiCurrentTpl /\ interrupts' = interrupts
    BY <1>3 DEF DispatchCall, Running, Goto
  <2> HIDE DEF f
  <2>3. Entered(f) /\ Resumes(f, gEfiCurrentTpl')
    BY <1>1, <2>1, <2>2 DEF Entered, Resumes
  <2>4. Disciplined(stack)' /\ Executes(Top)'
    BY <1>1, <2>1, <2>2, <2>3, DisciplinedGoto
  <2> QED
    BY <1>1, <2>2, <2>4 DEF StackAndLevel, HighLevelMasksInterrupts
<1>4. CASE DispatchDone
  <2>1. Top.pc = "disp" /\ CoreReleaseEventLock(Front(stack))
    BY <1>4 DEF DispatchDone, Running, Return
  <2>2. gEfiCurrentTpl = Top.lvl
    BY <1>1, <2>1 DEF Resumes
  <2> DEFINE s == Front(stack)
  <2>3. /\ Disciplined(s) /\ Len(s) = Len(stack) - 1
        /\ s[Len(stack) - 1] = stack[Len(stack) - 1]
        /\ Above(stack[Len(stack) - 1], stack[Len(stack)])
    BY <1>1, <2>1, ReturnDisciplined
  <2>4. StackOK(s)
    BY <1>1, <2>1, ReturnOK
  <2>5. CoreReleaseEventLock(s)
    BY <2>1
  <2> HIDE DEF s
  <2>6. Resumes(s[Len(s)], gEfiCurrentTpl)
    BY <1>1, <2>2, <2>3 DEF Above
  <2> QED
    BY <2>3, <2>4, <2>5, <2>6, DisciplinedRelease DEF StackAndLevel
<1>5. CASE NotifyReturn
  <2>1. /\ Len(stack) > 1 /\ gEfiCurrentTpl = Top.lvl /\ stack' = Front(stack)
        /\ gEfiCurrentTpl' = gEfiCurrentTpl /\ interrupts' = interrupts
    BY <1>5 DEF NotifyReturn, Return
  <2>2. Disciplined(stack)' /\ Executes(Top)'
    BY <2>1, DisciplinedReturn
  <2> QED
    BY <1>1, <2>1, <2>2 DEF StackAndLevel, HighLevelMasksInterrupts
<1> QED
  BY <1>2, <1>3, <1>4, <1>5

(* Signals and releases from an activation that does not hold the lock. *)
LEMMA StackAndLevelRelease ==
  ASSUME TypeInv, TplInv, Top.pc # "list",
         CoreReleaseEventLock(stack) \/ (\E e \in Event : Signal(e, stack))
  PROVE  StackAndLevel'
<1>1. /\ StackOK(stack) /\ Disciplined(stack) /\ Top = stack[Len(stack)]
      /\ Resumes(Top, gEfiCurrentTpl)
  BY InvFacts
<1> QED
  BY <1>1, DisciplinedRelease, DisciplinedSignal DEF StackAndLevel

(* Goto(f) at the same level, with or without a release on top. *)
LEMMA StackAndLevelGoto ==
  ASSUME TypeInv, TplInv, NEW f \in Frames, f.lvl = Top.lvl,
         f.pc \notin {"disp", "call", "run", "irq", "list"},
         Top.pc \notin {"run", "restore", "set", "list"},
         \/ stack' = Append(Front(stack), f) /\ UNCHANGED <<gEfiCurrentTpl, interrupts>>
         \/ CoreReleaseEventLock(Append(Front(stack), f))
         \/ \E e \in Event : Signal(e, Append(Front(stack), f))
  PROVE  StackAndLevel'
<1>1. /\ StackOK(stack) /\ Disciplined(stack) /\ Top = stack[Len(stack)]
      /\ (interrupts <=> gEfiCurrentTpl < TPL_HIGH_LEVEL)
      /\ Len(stack) > 1 /\ Resumes(Top, gEfiCurrentTpl)
  BY InvFacts
<1>2. Entered(f) /\ Resumes(f, gEfiCurrentTpl)
  BY <1>1 DEF Entered, Resumes
<1> DEFINE s == Append(Front(stack), f)
<1>3. Disciplined(s) /\ Len(s) = Len(stack) /\ s[Len(stack)] = f
  BY <1>1, <1>2, GotoDisciplined
<1>4. StackOK(s)
  BY <1>1, GotoOK
<1>5. CASE stack' = s /\ UNCHANGED <<gEfiCurrentTpl, interrupts>>
  <2>1. Resumes(f, gEfiCurrentTpl')
    BY <1>2, <1>5
  <2>2. Disciplined(stack)' /\ Executes(Top)'
    BY <1>1, <1>2, <1>5, <2>1, DisciplinedGoto
  <2> QED
    BY <1>1, <1>5, <2>2 DEF StackAndLevel, HighLevelMasksInterrupts
<1> HIDE DEF s
<1>6. Resumes(s[Len(s)], gEfiCurrentTpl)
  BY <1>2, <1>3
<1>7. CASE CoreReleaseEventLock(s)
  BY <1>3, <1>4, <1>6, <1>7, DisciplinedRelease DEF StackAndLevel
<1>8. CASE \E e \in Event : Signal(e, s)
  BY <1>3, <1>4, <1>6, <1>8, DisciplinedSignal DEF StackAndLevel
<1> QED
  BY <1>5, <1>7, <1>8 DEF s

(* Push(f) at the present level, with or without a release on top. *)
LEMMA StackAndLevelPush ==
  ASSUME TypeInv, TplInv, NEW f \in Frames, f.lvl = gEfiCurrentTpl,
         f.pc \notin {"disp", "call", "run", "list"}, Entered(f), Top.pc # "list",
         \/ stack' = Append(stack, f) /\ UNCHANGED <<gEfiCurrentTpl, interrupts>>
         \/ CoreReleaseEventLock(Append(stack, f))
  PROVE  StackAndLevel'
<1>1. /\ StackOK(stack) /\ Disciplined(stack) /\ Top = stack[Len(stack)]
      /\ (interrupts <=> gEfiCurrentTpl < TPL_HIGH_LEVEL)
      /\ gEfiCurrentTpl \in Nat /\ Resumes(Top, gEfiCurrentTpl)
  BY InvFacts
<1>2. Above(Top, f) /\ Resumes(f, gEfiCurrentTpl)
  BY <1>1 DEF Above, Resumes
<1> DEFINE s == Append(stack, f)
<1>3. Disciplined(s) /\ Len(s) = Len(stack) + 1 /\ s[Len(stack) + 1] = f
  BY <1>1, <1>2, PushDisciplined
<1>4. StackOK(s)
  BY <1>1, PushOK
<1>5. CASE stack' = s /\ UNCHANGED <<gEfiCurrentTpl, interrupts>>
  <2>1. Resumes(f, gEfiCurrentTpl')
    BY <1>2, <1>5
  <2>2. Disciplined(stack)' /\ Executes(Top)'
    BY <1>2, <1>5, <2>1, DisciplinedPush
  <2> QED
    BY <1>1, <1>5, <2>2 DEF StackAndLevel, HighLevelMasksInterrupts
<1> HIDE DEF s
<1>6. Resumes(s[Len(s)], gEfiCurrentTpl)
  BY <1>2, <1>3
<1>7. CASE CoreReleaseEventLock(s)
  BY <1>3, <1>4, <1>6, <1>7, DisciplinedRelease DEF StackAndLevel
<1> QED
  BY <1>5, <1>7 DEF s

(* Return, with or without a release on top. *)
LEMMA StackAndLevelReturn ==
  ASSUME TypeInv, TplInv, Top.pc \notin {"run", "restore", "set", "list"},
         \/ stack' = Front(stack) /\ UNCHANGED <<gEfiCurrentTpl, interrupts>>
         \/ /\ Top.pc = "irq" /\ stack' = Front(stack)
            /\ gEfiCurrentTpl' = gEfiCurrentTpl /\ interrupts' = TRUE
         \/ CoreReleaseEventLock(Front(stack))
  PROVE  StackAndLevel'
<1>1. /\ StackOK(stack) /\ Disciplined(stack) /\ Top = stack[Len(stack)]
      /\ (interrupts <=> gEfiCurrentTpl < TPL_HIGH_LEVEL)
      /\ Entered(Top) /\ Len(stack) > 1 /\ Resumes(Top, gEfiCurrentTpl)
  BY InvFacts
<1>2. Top.lvl = gEfiCurrentTpl
  BY <1>1 DEF Resumes
<1> DEFINE s == Front(stack)
<1>3. /\ Disciplined(s) /\ Len(s) = Len(stack) - 1
      /\ s[Len(stack) - 1] = stack[Len(stack) - 1]
      /\ Above(stack[Len(stack) - 1], stack[Len(stack)])
  BY <1>1, ReturnDisciplined
<1>4. StackOK(s)
  BY <1>1, ReturnOK
<1>5. CASE stack' = s /\ UNCHANGED <<gEfiCurrentTpl, interrupts>>
  <2>1. Disciplined(stack)' /\ Executes(Top)'
    BY <1>1, <1>2, <1>5, DisciplinedReturn
  <2> QED
    BY <1>1, <1>5, <2>1 DEF StackAndLevel, HighLevelMasksInterrupts
<1>8. CASE /\ Top.pc = "irq" /\ stack' = s
           /\ gEfiCurrentTpl' = gEfiCurrentTpl /\ interrupts' = TRUE
  <2>1. Disciplined(stack)' /\ Executes(Top)'
    BY <1>1, <1>2, <1>8, DisciplinedReturn
  <2>2. gEfiCurrentTpl' < TPL_HIGH_LEVEL
    BY <1>1, <1>2, <1>8 DEF Entered
  <2> QED
    BY <1>8, <2>1, <2>2 DEF StackAndLevel, HighLevelMasksInterrupts
<1> HIDE DEF s
<1>6. Resumes(s[Len(s)], gEfiCurrentTpl)
  BY <1>1, <1>2, <1>3 DEF Above
<1>7. CASE CoreReleaseEventLock(s)
  BY <1>3, <1>4, <1>6, <1>7, DisciplinedRelease DEF StackAndLevel
<1> QED
  BY <1>5, <1>7, <1>8 DEF s

LEMMA StackAndLevelSignal ==
  ASSUME TypeInv, TplInv,
         \/ \E e \in Event : CoreSignalEvent(e) \/ CoreNotifyProtocolEntry(e)
         \/ NotifySignalListLock \/ NotifySignalListStep \/ NotifySignalListUnlock
         \/ SignalRelock
  PROVE  StackAndLevel'
<1>1. /\ StackOK(stack) /\ Disciplined(stack) /\ Top = stack[Len(stack)]
      /\ Top.lvl \in Nat /\ Top.lvl \in Tpl /\ Top.lvl <= TPL_HIGH_LEVEL
      /\ gEfiCurrentTpl \in Nat /\ gEfiCurrentTpl \in Tpl
      /\ (interrupts <=> gEfiCurrentTpl < TPL_HIGH_LEVEL)
      /\ Top.pc # "run" => Len(stack) > 1
      /\ Executes(Top)
  BY InvFacts
<1>2. /\ Top.pc \in OnEvent => Top.ev \in Event
      /\ Top.ev \in Event \cup {NoEvent}
  BY RunningOK
<1>3. CASE \E e \in Event : CoreSignalEvent(e) \/ CoreNotifyProtocolEntry(e)
  BY <1>3, StackAndLevelRelease DEF CoreSignalEvent, CoreNotifyProtocolEntry, Running
<1>4. CASE NotifySignalListLock
  <2> DEFINE f == Frame("list", Top.ev, gEfiCurrentTpl)
  <2>1. /\ Top.pc = "group" /\ stack' = Append(Front(stack), f)
        /\ gEfiCurrentTpl' = TPL_HIGH_LEVEL /\ interrupts' = FALSE
    BY <1>4 DEF NotifySignalListLock, Running, Goto
  <2>2. Top.ev \in Event
    BY <1>2, <2>1 DEF OnEvent
  <2>3. f \in Frames /\ f.pc = "list" /\ f.lvl = gEfiCurrentTpl
    <3>1. f \in Frames
      BY <1>1, <2>2, FrameOK DEF Pc, OnEvent
    <3> QED
      BY <3>1 DEF Frame
  <2> HIDE DEF f
  <2>4. f.lvl = Top.lvl
    BY <1>1, <2>1, <2>3 DEF Executes, Resumes
  <2>5. Entered(f)
    BY <2>3 DEF Entered
  <2>6. Disciplined(stack)' /\ Executes(Top)'
    BY <1>1, <2>1, <2>3, <2>4, <2>5, DisciplinedGoto
  <2>7. HighLevelMasksInterrupts'
    BY <2>1 DEF HighLevelMasksInterrupts, TPL_HIGH_LEVEL
  <2> QED
    BY <2>6, <2>7 DEF StackAndLevel
<1>5. CASE NotifySignalListStep
  <2>1. UNCHANGED <<stack, gEfiCurrentTpl, interrupts>>
    BY <1>5 DEF NotifySignalListStep
  <2>2. Top' = Top
    BY <2>1 DEF Top
  <2>3. Executes(Top)'
    BY <1>1, <2>1, <2>2 DEF Executes, Resumes
  <2> QED
    BY <1>1, <2>1, <2>3 DEF StackAndLevel, Disciplined, HighLevelMasksInterrupts
<1>6. CASE NotifySignalListUnlock
  <2> DEFINE f == Frame("relock", Top.ev, Top.lvl)
             g == Frame("restore", NoEvent, Top.lvl)
             s == Append(Front(stack), f)
  <2>1. /\ Top.pc = "list" /\ stack' = Append(s, g)
        /\ gEfiCurrentTpl' = gEfiCurrentTpl /\ interrupts' = interrupts
    BY <1>6 DEF NotifySignalListUnlock, Running, Goto
  <2>2. Top.ev \in Event
    BY <1>2, <2>1 DEF OnEvent
  <2>3. /\ f \in Frames /\ f.pc = "relock" /\ f.lvl = Top.lvl
        /\ g \in Frames /\ g.pc = "restore" /\ g.lvl = Top.lvl
    <3>1. f \in Frames /\ g \in Frames
      BY <1>1, <2>2, FrameOK DEF Pc, OnEvent
    <3> QED
      BY <3>1 DEF Frame
  <2> HIDE DEF f, g
  <2>4. gEfiCurrentTpl = TPL_HIGH_LEVEL
    BY <1>1, <2>1 DEF Executes
  <2>5. Top.lvl <= Top.lvl
    BY <1>1
  <2>6. Entered(f) /\ Entered(g) /\ Above(f, g) /\ Resumes(g, gEfiCurrentTpl')
    BY <1>1, <2>1, <2>3, <2>4, <2>5 DEF Entered, Above, Resumes
  <2>7. Disciplined(s) /\ Len(s) = Len(stack) /\ s[Len(stack)] = f
    BY <1>1, <2>1, <2>3, <2>6, GotoDisciplined
  <2>8. StackOK(s)
    BY <1>1, <2>1, <2>3, GotoOK
  <2> HIDE DEF s
  <2>9. Above(s[Len(s)], g)
    BY <2>6, <2>7
  <2>10. /\ Disciplined(stack') /\ Len(stack') = Len(s) + 1 /\ stack'[Len(s) + 1] = g
    BY <2>1, <2>3, <2>6, <2>7, <2>8, <2>9, PushDisciplined
  <2>11. Top' = g
    BY <2>10 DEF Top
  <2>12. Executes(Top)'
    BY <2>3, <2>6, <2>11 DEF Executes
  <2> QED
    BY <1>1, <2>1, <2>10, <2>12 DEF StackAndLevel, HighLevelMasksInterrupts, Disciplined
<1>7. CASE SignalRelock
  <2>1. Top.pc = "relock" /\ CoreReleaseEventLock(Front(stack))
    BY <1>7 DEF SignalRelock, Running, Return
  <2> QED
    BY <2>1, StackAndLevelReturn
<1> QED
  BY <1>3, <1>4, <1>5, <1>6, <1>7

LEMMA StackAndLevelCheck ==
  ASSUME TypeInv, TplInv,
         (\E e \in Event : CoreCheckEvent(e)) \/ CheckQueue \/ CheckAgain \/ CheckClear
  PROVE  StackAndLevel'
<1>1. /\ StackOK(stack) /\ Disciplined(stack) /\ Top = stack[Len(stack)]
      /\ Top.lvl \in Tpl /\ gEfiCurrentTpl \in Tpl
      /\ Top.pc # "run" => Len(stack) > 1
      /\ Top.pc # "list" => Resumes(Top, gEfiCurrentTpl)
  BY InvFacts
<1>2. /\ Top.pc \in OnEvent => Top.ev \in Event
      /\ Top.pc = "queue" => Top.ev \in NotifyWait
  BY RunningOK
<1>3. ASSUME NEW e \in Event, CoreCheckEvent(e)
      PROVE  StackAndLevel'
  <2> DEFINE first == IF SignalCount[e] = 0 /\ e \in NotifyWait THEN "queue" ELSE "check"
             f == Frame(first, e, gEfiCurrentTpl)
  <2>1. Top.pc = "run" /\ stack' = Append(stack, f) /\ UNCHANGED <<gEfiCurrentTpl, interrupts>>
    BY <1>3 DEF CoreCheckEvent, Check, Running
  <2>2. first \in {"queue", "check"} /\ (first = "queue" => e \in NotifyWait)
    OBVIOUS
  <2> HIDE DEF first
  <2>3. f \in Frames /\ f.pc = first /\ f.lvl = gEfiCurrentTpl
    <3>1. f \in Frames
      BY <1>1, <2>2, FrameOK DEF Pc, OnEvent
    <3> QED
      BY <3>1 DEF Frame
  <2> HIDE DEF f
  <2>4. Entered(f)
    BY <2>2, <2>3 DEF Entered
  <2> QED
    BY <2>1, <2>2, <2>3, <2>4, StackAndLevelPush
<1>4. CASE CheckQueue
  <2> DEFINE f == Frame("check", Top.ev, Top.lvl)
  <2>1. Top.pc = "queue" /\ CoreReleaseEventLock(Append(Front(stack), f))
    BY <1>4 DEF CheckQueue, Running, Goto
  <2>2. f \in Frames /\ f.pc = "check" /\ f.lvl = Top.lvl
    <3>1. Top.ev \in Event
      BY <1>2, <2>1 DEF OnEvent
    <3>2. f \in Frames
      BY <1>1, <3>1, FrameOK DEF Pc, OnEvent
    <3> QED
      BY <3>2 DEF Frame
  <2> HIDE DEF f
  <2> QED
    BY <2>1, <2>2, StackAndLevelGoto
<1>5. CASE CheckAgain
  <2> DEFINE f == Frame("clear", Top.ev, Top.lvl)
  <2>1. /\ Top.pc = "check"
        /\ UNCHANGED <<gEfiCurrentTpl, interrupts>>
        /\ stack' = Append(Front(stack), f) \/ stack' = Front(stack)
    BY <1>5 DEF CheckAgain, Running, Goto, Return
  <2>2. f \in Frames /\ f.pc = "clear" /\ f.lvl = Top.lvl
    <3>1. Top.ev \in Event
      BY <1>2, <2>1 DEF OnEvent
    <3>2. f \in Frames
      BY <1>1, <3>1, FrameOK DEF Pc, OnEvent
    <3> QED
      BY <3>2 DEF Frame
  <2> HIDE DEF f
  <2>3. CASE stack' = Append(Front(stack), f)
    BY <2>1, <2>2, <2>3, StackAndLevelGoto
  <2>4. CASE stack' = Front(stack)
    BY <2>1, <2>4, StackAndLevelReturn
  <2> QED
    BY <2>1, <2>3, <2>4
<1>6. CASE CheckClear
  <2> DEFINE s == Front(stack)
             b == Last(s)
             f == Frame("waitok", NoEvent, b.lvl)
             a == Append(Front(s), f)
  <2>1. Top.pc = "clear"
    BY <1>6 DEF CheckClear, Running
  <2>2. CoreReleaseEventLock(s) \/ (b.pc = "waited" /\ CoreReleaseEventLock(a))
    <3>1. CoreReleaseEventLock(IF b.pc = "waited" /\ SignalCount[Top.ev] # 0
                                 THEN a ELSE s)
      BY <1>6 DEF CheckClear, Return
    <3> HIDE DEF a, s, b
    <3> QED
      BY <3>1
  <2>3. CASE CoreReleaseEventLock(s)
    BY <2>1, <2>3, StackAndLevelReturn
  <2>4. CASE b.pc = "waited" /\ CoreReleaseEventLock(a)
    <3>1. /\ Disciplined(s) /\ Len(s) = Len(stack) - 1
          /\ s[Len(stack) - 1] = stack[Len(stack) - 1]
          /\ Above(stack[Len(stack) - 1], stack[Len(stack)])
      BY <1>1, <2>1, ReturnDisciplined
    <3>2. StackOK(s)
      BY <1>1, <2>1, ReturnOK
    <3>3. b = s[Len(s)]
      BY DEF Last
    <3> HIDE DEF s
    <3>4. b \in Frames /\ Len(s) > 1
      BY <2>4, <3>2, <3>3, TopOK
    <3>5. b.lvl = gEfiCurrentTpl
      <4>1. Resumes(b, Top.lvl)
        BY <1>1, <3>1, <3>3 DEF Above
      <4> QED
        BY <1>1, <2>1, <2>4, <4>1 DEF Resumes
    <3> HIDE DEF b
    <3>6. f \in Frames /\ f.pc = "waitok" /\ f.lvl = b.lvl
      <4>1. f \in Frames
        BY <1>1, <3>5, FrameOK DEF Pc, OnEvent
      <4> QED
        BY <4>1 DEF Frame
    <3> HIDE DEF f
    <3>7. Entered(f) /\ Resumes(f, gEfiCurrentTpl)
      <4>1. gEfiCurrentTpl <= gEfiCurrentTpl
        BY <1>1, LevelsAreNumbers
      <4> QED
        BY <3>5, <3>6, <4>1 DEF Entered, Resumes
    <3>8. Disciplined(a) /\ Len(a) = Len(s) /\ a[Len(s)] = f
      BY <3>1, <3>2, <3>3, <3>4, <3>6, <3>7, GotoDisciplined
    <3>9. StackOK(a)
      BY <3>2, <3>4, <3>6, GotoOK
    <3>10. Resumes(a[Len(a)], gEfiCurrentTpl)
      BY <3>7, <3>8
    <3> HIDE DEF a
    <3> QED
      BY <2>4, <3>8, <3>9, <3>10, DisciplinedRelease DEF StackAndLevel
  <2> QED
    BY <2>2, <2>3, <2>4
<1> QED
  BY <1>3, <1>4, <1>5, <1>6

LEMMA StackAndLevelWait ==
  ASSUME TypeInv, TplInv,
         CoreWaitForEvent \/ WaitCheck \/ WaitNotReady \/ WaitIdle \/ WaitReturn
  PROVE  StackAndLevel'
<1>1. /\ StackOK(stack) /\ Disciplined(stack) /\ Top = stack[Len(stack)]
      /\ Top.lvl \in Tpl /\ gEfiCurrentTpl \in Tpl
      /\ (interrupts <=> gEfiCurrentTpl < TPL_HIGH_LEVEL)
      /\ Top.pc # "run" => Len(stack) > 1
      /\ Top.pc # "list" => Resumes(Top, gEfiCurrentTpl)
  BY InvFacts
<1>2. ASSUME NEW pc \in {"wait", "waited", "waitok"}, NEW l \in Tpl
      PROVE  /\ Frame(pc, NoEvent, l) \in Frames
             /\ Frame(pc, NoEvent, l).pc = pc /\ Frame(pc, NoEvent, l).lvl = l
  <2>1. Frame(pc, NoEvent, l) \in Frames
    BY FrameOK DEF Pc, OnEvent
  <2> QED
    BY <2>1 DEF Frame
<1>3. CASE CoreWaitForEvent
  <2> DEFINE f == Frame("wait", NoEvent, TPL_APPLICATION)
  <2>1. /\ Top.pc = "run" /\ stack' = Append(stack, f)
        /\ TPL_APPLICATION = gEfiCurrentTpl
        /\ UNCHANGED <<gEfiCurrentTpl, interrupts>>
    BY <1>3 DEF CoreWaitForEvent, Running, Push
  <2>2. f \in Frames /\ f.pc = "wait" /\ f.lvl = gEfiCurrentTpl
    BY <1>1, <1>2, <2>1
  <2> HIDE DEF f
  <2>3. Entered(f)
    BY <2>2 DEF Entered
  <2> QED
    BY <2>1, <2>2, <2>3, StackAndLevelPush
<1>4. CASE WaitCheck
  <2> DEFINE e == WaitArray[Index]
             first == IF SignalCount[e] = 0 /\ e \in NotifyWait THEN "queue" ELSE "check"
             f == Frame("waited", NoEvent, Top.lvl)
             g == Frame(first, e, gEfiCurrentTpl)
             s == Append(Front(stack), f)
  <2>1. /\ Top.pc = "wait" /\ stack' = Append(s, g)
        /\ UNCHANGED <<gEfiCurrentTpl, interrupts>>
    BY <1>4 DEF WaitCheck, Check, Running, Goto
  <2>2. first \in {"queue", "check"} /\ (first = "queue" => e \in NotifyWait)
    OBVIOUS
  <2>3. e \in Event
    <3>1. WaitArray \in Seq(Event) /\ Index \in 1 .. Len(WaitArray)
      BY CoreEventAssumption DEF TypeInv, CursorsOK
    <3> QED
      BY <3>1, ElementOfSeq
  <2> HIDE DEF first, e
  <2>4. f \in Frames /\ f.pc = "waited" /\ f.lvl = Top.lvl
    BY <1>1, <1>2
  <2>5. g \in Frames /\ g.pc = first /\ g.lvl = gEfiCurrentTpl
    <3>1. g \in Frames
      BY <1>1, <2>2, <2>3, FrameOK DEF Pc, OnEvent
    <3> QED
      BY <3>1 DEF Frame
  <2> HIDE DEF f, g
  <2>6. gEfiCurrentTpl = Top.lvl
    BY <1>1, <2>1 DEF Resumes
  <2>7. gEfiCurrentTpl <= gEfiCurrentTpl
    BY <1>1, LevelsAreNumbers
  <2>8. /\ Entered(f) /\ Entered(g) /\ Above(f, g) /\ Resumes(g, gEfiCurrentTpl')
    BY <2>1, <2>2, <2>4, <2>5, <2>6, <2>7 DEF Entered, Above, Resumes
  <2>9. Disciplined(s) /\ Len(s) = Len(stack) /\ s[Len(stack)] = f
    BY <1>1, <2>1, <2>4, <2>8, GotoDisciplined
  <2>10. StackOK(s)
    BY <1>1, <2>1, <2>4, GotoOK
  <2> HIDE DEF s
  <2>11. Above(s[Len(s)], g)
    BY <2>8, <2>9
  <2>12. /\ Disciplined(stack') /\ Len(stack') = Len(s) + 1 /\ stack'[Len(s) + 1] = g
    BY <2>1, <2>5, <2>8, <2>9, <2>10, <2>11, PushDisciplined
  <2>13. Top' = g
    BY <2>12 DEF Top
  <2>14. Executes(Top)'
    BY <2>2, <2>5, <2>8, <2>13 DEF Executes
  <2> QED
    BY <1>1, <2>1, <2>12, <2>14 DEF StackAndLevel, HighLevelMasksInterrupts, Disciplined
<1>5. CASE WaitNotReady
  <2> DEFINE f == Frame("wait", NoEvent, Top.lvl)
  <2>1. /\ Top.pc = "waited" /\ stack' = Append(Front(stack), f)
        /\ UNCHANGED <<gEfiCurrentTpl, interrupts>>
    BY <1>5 DEF WaitNotReady, Running, Goto
  <2>2. f \in Frames /\ f.pc = "wait" /\ f.lvl = Top.lvl
    BY <1>1, <1>2
  <2> HIDE DEF f
  <2> QED
    BY <2>1, <2>2, StackAndLevelGoto
<1>6. CASE WaitIdle
  <2> DEFINE f == Frame("wait", NoEvent, Top.lvl)
  <2>1. Top.pc = "waited" /\ Signal(gIdleLoopEvent, Append(Front(stack), f))
    BY <1>6 DEF WaitIdle, Running, Goto
  <2>2. f \in Frames /\ f.pc = "wait" /\ f.lvl = Top.lvl
    BY <1>1, <1>2
  <2>3. gIdleLoopEvent \in Event
    BY EventAssumption, CoreEventAssumption
  <2> HIDE DEF f
  <2> QED
    BY <2>1, <2>2, <2>3, StackAndLevelGoto
<1>7. CASE WaitReturn
  <2>1. /\ Top.pc \in {"wait", "waitok"} /\ stack' = Front(stack)
        /\ UNCHANGED <<gEfiCurrentTpl, interrupts>>
    BY <1>7 DEF WaitReturn, Running, Return
  <2> QED
    BY <2>1, StackAndLevelReturn
<1> QED
  BY <1>3, <1>4, <1>5, <1>6, <1>7

LEMMA StackAndLevelLifetime ==
  ASSUME TypeInv, TplInv,
         \/ \E e \in Event : CoreCreateEvent(e) \/ CoreCloseEvent(e)
         \/ FreeEvent
         \/ \E e \in Registrable : CoreRegisterProtocolNotify(e)
  PROVE  StackAndLevel'
<1>1. /\ Disciplined(stack) /\ gEfiCurrentTpl \in Tpl /\ Executes(Top)
      /\ (interrupts <=> gEfiCurrentTpl < TPL_HIGH_LEVEL)
  BY InvFacts
<1>2. ASSUME NEW e \in Event, CoreCreateEvent(e)
      PROVE  StackAndLevel'
  <2>1. Top.pc = "run" /\ CoreReleaseEventLock(stack)
    BY <1>2 DEF CoreCreateEvent, Running
  <2> QED
    BY <2>1, StackAndLevelRelease
<1>3. ASSUME NEW e \in Event, CoreCloseEvent(e)
      PROVE  StackAndLevel'
  <2> DEFINE f == Frame("closing", e, gEfiCurrentTpl)
  <2>1. Top.pc = "run" /\ CoreReleaseEventLock(Append(stack, f))
    BY <1>3 DEF CoreCloseEvent, OwnerMayClose, Running, Push
  <2>2. f \in Frames /\ f.pc = "closing" /\ f.lvl = gEfiCurrentTpl
    <3>1. f \in Frames
      BY <1>1, FrameOK DEF Pc, OnEvent
    <3> QED
      BY <3>1 DEF Frame
  <2> HIDE DEF f
  <2>3. Entered(f)
    BY <2>2 DEF Entered
  <2> QED
    BY <2>1, <2>2, <2>3, StackAndLevelPush
<1>4. CASE FreeEvent
  <2>1. /\ Top.pc = "closing" /\ stack' = Front(stack)
        /\ UNCHANGED <<gEfiCurrentTpl, interrupts>>
    BY <1>4 DEF FreeEvent, Running, Return
  <2> QED
    BY <2>1, StackAndLevelReturn
<1>5. ASSUME NEW e \in Registrable, CoreRegisterProtocolNotify(e)
      PROVE  StackAndLevel'
  <2>1. UNCHANGED <<stack, gEfiCurrentTpl, interrupts>>
    BY <1>5 DEF CoreRegisterProtocolNotify
  <2>2. Top' = Top
    BY <2>1 DEF Top
  <2>3. Executes(Top)'
    BY <1>1, <2>1, <2>2 DEF Executes, Resumes
  <2> QED
    BY <1>1, <2>1, <2>3 DEF StackAndLevel, Disciplined, HighLevelMasksInterrupts
<1> QED
  BY <1>2, <1>3, <1>4, <1>5

LEMMA StackAndLevelInterrupt ==
  ASSUME TypeInv, TplInv, (\E tick \in BOOLEAN : Interrupt(tick)) \/ InterruptReturn
  PROVE  StackAndLevel'
<1>1. /\ gEfiCurrentTpl \in Tpl /\ Executes(Top)
      /\ (interrupts <=> gEfiCurrentTpl < TPL_HIGH_LEVEL)
  BY InvFacts
<1>2. ASSUME NEW tick \in BOOLEAN, Interrupt(tick)
      PROVE  StackAndLevel'
  <2> DEFINE f == Frame("irq", NoEvent, gEfiCurrentTpl)
  <2>1. interrupts /\ CoreReleaseEventLock(Append(stack, f))
    BY <1>2 DEF Interrupt, Push
  <2>2. f \in Frames /\ f.pc = "irq" /\ f.lvl = gEfiCurrentTpl
    <3>1. f \in Frames
      BY <1>1, FrameOK DEF Pc, OnEvent
    <3> QED
      BY <3>1 DEF Frame
  <2> HIDE DEF f
  <2>3. gEfiCurrentTpl < TPL_HIGH_LEVEL
    BY <1>1, <2>1, Zenon
  <2>4. Top.pc # "list"
    BY <1>1, <2>3 DEF Executes, TPL_HIGH_LEVEL
  <2>5. Entered(f)
    BY <2>2, <2>3 DEF Entered
  <2> QED
    BY <2>1, <2>2, <2>4, <2>5, StackAndLevelPush
<1>3. CASE InterruptReturn
  <2>1. /\ Top.pc = "irq" /\ stack' = Front(stack)
        /\ gEfiCurrentTpl' = gEfiCurrentTpl /\ interrupts' = TRUE
    BY <1>3 DEF InterruptReturn, Running, Return
  <2> QED
    BY <2>1, StackAndLevelReturn
<1> QED
  BY <1>2, <1>3

-----------------------------------------------------------------------------
LEMMA TplInvInit == Init => TplInv
<1> SUFFICES ASSUME Init PROVE TplInv
  OBVIOUS
<1> DEFINE f == Frame("run", NoEvent, TPL_APPLICATION)
<1>1. f.pc = "run" /\ f.ev = NoEvent /\ f.lvl = TPL_APPLICATION
  BY DEF Frame
<1>2. /\ stack = <<f>> /\ gEfiCurrentTpl = TPL_APPLICATION /\ interrupts = TRUE
      /\ gEventPending = {}
  BY DEF Init
<1> HIDE DEF f
<1>3. Len(stack) = 1 /\ stack[1] = f /\ Top = f
  BY <1>2 DEF Top
<1>4. Entered(f) /\ f.lvl <= f.lvl
  BY <1>1, EventAssumption DEF Entered, TPL_APPLICATION
<1>5. Disciplined(stack)
  BY <1>3, <1>4 DEF Disciplined
<1>6. Executes(Top)
  BY <1>1, <1>2, <1>3, <1>4 DEF Executes, Resumes
<1> QED
  BY <1>2, <1>5, <1>6
     DEF TplInv, HighLevelMasksInterrupts, PendingBelowHigh, TPL_APPLICATION, TPL_HIGH_LEVEL

LEMMA TplInvNext ==
  ASSUME TypeInv, QueueInv, TplInv, [Next]_vars
  PROVE  TplInv'
<1>1. PendingBelowHigh'
  BY PendingBelowHighNext DEF TplInv
<1>2. StackAndLevel'
  <2>1. CASE CoreStep
    BY <2>1, StackAndLevelTpl, StackAndLevelDispatch, StackAndLevelSignal,
       StackAndLevelCheck, StackAndLevelWait, StackAndLevelLifetime,
       StackAndLevelInterrupt DEF CoreStep
  <2>2. CASE Service
    BY <2>2, StackAndLevelTpl, StackAndLevelSignal, StackAndLevelCheck,
       StackAndLevelWait, StackAndLevelLifetime DEF Service
  <2>3. CASE NotifyReturn
    BY <2>3, StackAndLevelDispatch
  <2>4. CASE \E tick \in BOOLEAN : Interrupt(tick)
    BY <2>4, StackAndLevelInterrupt
  <2>5. CASE UNCHANGED vars
    <3>1. UNCHANGED <<stack, gEfiCurrentTpl, interrupts>>
      BY <2>5 DEF vars
    <3>2. Top' = Top
      BY <3>1 DEF Top
    <3> QED
      BY <3>1, <3>2
         DEF TplInv, StackAndLevel, Disciplined, Executes, Resumes,
             HighLevelMasksInterrupts
  <2> QED
    BY <2>1, <2>2, <2>3, <2>4, <2>5 DEF Next
<1> QED
  BY <1>1, <1>2 DEF TplInv, StackAndLevel

LEMMA TplInvariant == Spec => [](TypeInv /\ QueueInv /\ TplInv)
<1>1. Init => TplInv
  BY TplInvInit
<1>2. TypeInv /\ QueueInv /\ TplInv /\ [Next]_vars => TplInv'
  BY TplInvNext
<1> QED
  BY <1>1, <1>2, QueueInvariant, PTL DEF Spec

(* Interrupts are off exactly at TPL_HIGH_LEVEL, through every nesting of  *)
(* handlers, dispatches and restores.                                      *)
THEOREM InterruptsMasked == Spec => []HighLevelMasksInterrupts
<1>1. TplInv => HighLevelMasksInterrupts
  BY DEF TplInv
<1> QED
  BY <1>1, TplInvariant, PTL

(* The dispatcher takes the lock at the level it dispatches, and no        *)
(* CoreRestoreTpl is asked to raise the level: the two ASSERTs hold.       *)
THEOREM AssertionsHold == Spec => []TplAssertions
<1>1. TypeInv /\ TplInv => TplAssertions
  BY InvFacts DEF TplAssertions, Running, Resumes
<1> QED
  BY <1>1, TplInvariant, PTL

(* A notify function runs at its own level, above every activation it      *)
(* interrupted: levels strictly ascend from one notify function to the     *)
(* next.                                                                   *)
THEOREM NotifyFunctionsNest == Spec => []NotifyNesting
<1>1. ASSUME TypeInv, TplInv
      PROVE  NotifyNesting
  <2> DEFINE n == Len(stack)
  <2>1. n \in Nat \ {0} /\ \A i \in 1 .. n : stack[i] \in Frames
    BY <1>1, TopOK DEF TypeInv
  <2>2. /\ \A i \in 1 .. n : Entered(stack[i])
        /\ \A i \in 1 .. n - 1 : Above(stack[i], stack[i + 1])
        /\ \A i, j \in 1 .. n : i <= j => stack[i].lvl <= stack[j].lvl
    BY <1>1 DEF TplInv, Disciplined
  <2>3. \A i \in 1 .. n : stack[i].lvl \in Nat
    BY <2>1, LevelsAreNumbers
  <2> HIDE DEF n
  <2>4. ASSUME NEW i \in 1 .. n, stack[i].pc = "run", stack[i].ev \in Event
        PROVE  stack[i].lvl = NotifyTpl[stack[i].ev]
    BY <2>2, <2>4 DEF Entered
  <2>5. ASSUME NEW i \in 1 .. n, NEW j \in 1 .. n, i < j,
               stack[i].pc = "run", stack[j].pc = "run"
        PROVE  stack[i].lvl < stack[j].lvl
    <3>1. j - 1 \in 1 .. n - 1 /\ (j - 1) + 1 = j
      BY <2>1, <2>5
    <3>2. Above(stack[j - 1], stack[j])
      <4>1. Above(stack[j - 1], stack[(j - 1) + 1])
        BY <2>2, <3>1
      <4> QED
        BY <3>1, <4>1
    <3>3. stack[j - 1].pc = "disp" /\ stack[j - 1].lvl = stack[j].lvl
      BY <2>5, <3>2 DEF Above, Resumes
    <3>4. i # j - 1
      BY <2>5, <3>3
    <3>5. /\ j - 2 \in 1 .. n - 1 /\ (j - 2) + 1 = j - 1
          /\ j - 2 \in 1 .. n /\ i <= j - 2
      BY <2>1, <2>5, <3>1, <3>4
    <3>6. Above(stack[j - 2], stack[j - 1])
      <4>1. Above(stack[j - 2], stack[(j - 2) + 1])
        BY <2>2, <3>5
      <4> QED
        BY <3>5, <4>1
    <3>7. stack[j - 2].lvl < stack[j - 1].lvl
      BY <3>3, <3>6 DEF Above
    <3>8. stack[i].lvl <= stack[j - 2].lvl
      BY <2>2, <3>5
    <3>9. stack[i].lvl \in Nat /\ stack[j - 2].lvl \in Nat /\ stack[j].lvl \in Nat
      BY <2>3, <3>5
    <3> QED
      BY <3>3, <3>7, <3>8, <3>9
  <2> QED
    BY <2>4, <2>5 DEF NotifyNesting, n
<1> QED
  BY <1>1, TplInvariant, PTL

-----------------------------------------------------------------------------
(* What a step does to the stack: the m first activations stay, as do      *)
(* others, and what it adds is in G.                                       *)

Grown(s, t, m, G) ==
  /\ t \in Seq(Frames) /\ m <= Len(t)
  /\ \A i \in 1 .. m : t[i] = s[i]
  /\ \A i \in 1 .. Len(t) : t[i] \in G \/ (i <= Len(s) /\ t[i] = s[i])

LEMMA GrownSelf ==
  ASSUME NEW s, StackOK(s), NEW m \in Nat, m <= Len(s), NEW G
  PROVE  Grown(s, s, m, G)
<1> s \in Seq(Frames) /\ Len(s) \in Nat
  BY LenProperties DEF StackOK
<1> QED BY DEF Grown

LEMMA GrownPush ==
  ASSUME NEW s, NEW t, NEW m \in Nat, NEW G, Grown(s, t, m, G), NEW f \in Frames, f \in G
  PROVE  Grown(s, Append(t, f), m, G)
<1> DEFINE a == Append(t, f)
<1>1. t \in Seq(Frames) /\ Len(t) \in Nat /\ m <= Len(t)
  BY LenProperties DEF Grown
<1>2. /\ a \in Seq(Frames) /\ Len(a) = Len(t) + 1 /\ a[Len(t) + 1] = f
      /\ \A i \in 1 .. Len(t) : a[i] = t[i]
  BY <1>1, AppendProperties
<1> HIDE DEF a
<1>3. m <= Len(a)
  BY <1>1, <1>2
<1>4. \A i \in 1 .. m : a[i] = s[i]
  BY <1>1, <1>2 DEF Grown
<1>5. \A i \in 1 .. Len(a) : a[i] \in G \/ (i <= Len(s) /\ a[i] = s[i])
  BY <1>1, <1>2 DEF Grown
<1>6. Grown(s, a, m, G)
  BY <1>2, <1>3, <1>4, <1>5 DEF Grown
<1> QED BY <1>6 DEF a

LEMMA GrownReturn ==
  ASSUME NEW s, NEW t, NEW m \in Nat, NEW G, Grown(s, t, m, G), m < Len(t)
  PROVE  /\ Grown(s, Front(t), m, G)
         /\ Len(Front(t)) = Len(t) - 1
         /\ \A i \in 1 .. Len(t) - 1 : Front(t)[i] = t[i]
<1> DEFINE a == Front(t)
<1>1. t \in Seq(Frames) /\ Len(t) \in Nat
  BY LenProperties DEF Grown
<1>2. t # <<>>
  BY <1>1, EmptySeq
<1>3. /\ a \in Seq(Frames) /\ Len(a) = Len(t) - 1
      /\ \A i \in 1 .. Len(t) - 1 : a[i] = t[i]
  BY <1>1, <1>2, FrontProperties
<1> HIDE DEF a
<1>4. m <= Len(a)
  BY <1>1, <1>3
<1>5. \A i \in 1 .. m : a[i] = s[i]
  BY <1>1, <1>3, <1>4 DEF Grown
<1>6. \A i \in 1 .. Len(a) : a[i] \in G \/ (i <= Len(s) /\ a[i] = s[i])
  BY <1>1, <1>3 DEF Grown
<1>7. Grown(s, a, m, G)
  BY <1>3, <1>4, <1>5, <1>6 DEF Grown
<1> QED BY <1>3, <1>7 DEF a

(* The activations a step makes at level l, other than those that work on  *)
(* an event that has to be valid; every core step makes them at the        *)
(* present level or at the level of the running activation.                *)
OnValid == {"run", "call", "disp", "closing", "queue", "wait", "waited"}

MakesAt(l, G) == \A f \in Frames : f.pc \notin OnValid /\ f.lvl = l => f \in G

Makes(G) == MakesAt(gEfiCurrentTpl, G) /\ MakesAt(Top.lvl, G)

Begins(f) ==
  \/ RestoreTplDispatch /\ f = Frame("disp", NoEvent, HighBitSet64(gEventPending))
  \/ DispatchNext /\ f = Frame("call", Head(gEventQueue[Top.lvl]), Top.lvl)
  \/ DispatchCall /\ f = Frame("run", Top.ev, Top.lvl)
  \/ WaitCheck /\ f = Frame("waited", NoEvent, Top.lvl)
  \/ WaitCheck /\ f = Frame("queue", WaitArray[Index], gEfiCurrentTpl)
  \/ WaitNotReady /\ f = Frame("wait", NoEvent, Top.lvl)
  \/ WaitIdle /\ f = Frame("wait", NoEvent, Top.lvl)
  \/ CoreWaitForEvent /\ f = Frame("wait", NoEvent, gEfiCurrentTpl)
  \/ \E e \in Event : CoreCheckEvent(e) /\ f = Frame("queue", e, gEfiCurrentTpl)
  \/ \E e \in Event : CoreCloseEvent(e) /\ f = Frame("closing", e, gEfiCurrentTpl)
  \/ \E t \in Tpl : CoreRestoreTpl(t) /\ f = Frame("restore", NoEvent, t)

LEMMA FrameParts ==
  ASSUME NEW pc, NEW e, NEW l
  PROVE  Frame(pc, e, l).pc = pc /\ Frame(pc, e, l).ev = e /\ Frame(pc, e, l).lvl = l
BY DEF Frame

LEMMA MakesFrameAt ==
  ASSUME NEW l \in Tpl, NEW G, MakesAt(l, G),
         NEW pc \in Pc \ OnValid,
         NEW e \in Event \cup {NoEvent}, pc \in OnEvent => e \in Event,
         pc = "queue" => e \in NotifyWait
  PROVE  Frame(pc, e, l) \in Frames \cap G
<1>1. Frame(pc, e, l) \in Frames
  BY FrameOK
<1>2. Frame(pc, e, l).pc = pc /\ Frame(pc, e, l).lvl = l
  BY DEF Frame
<1> QED BY <1>1, <1>2 DEF MakesAt

LEMMA MakesFrame ==
  ASSUME TypeInv, NEW G, Makes(G), NEW pc \in Pc \ OnValid,
         NEW e \in Event \cup {NoEvent}, pc \in OnEvent => e \in Event,
         pc = "queue" => e \in NotifyWait
  PROVE  /\ Frame(pc, e, gEfiCurrentTpl) \in Frames \cap G
         /\ Frame(pc, e, Top.lvl) \in Frames \cap G
<1>1. gEfiCurrentTpl \in Tpl /\ Top.lvl \in Tpl
  BY RunningOK DEF TypeInv, CpuOK
<1> QED BY <1>1, MakesFrameAt DEF Makes

LEMMA GrownRelease ==
  ASSUME TypeInv, NEW s, NEW a, NEW m \in Nat, NEW G, MakesAt(gEfiCurrentTpl, G), Grown(s, a, m, G),
         CoreReleaseEventLock(a)
  PROVE  Grown(s, stack', m, G)
<1>1. Frame("restore", NoEvent, gEfiCurrentTpl) \in Frames \cap G
  BY MakesFrameAt DEF Pc, OnEvent, OnValid, TypeInv, CpuOK
<1> QED BY <1>1, GrownPush DEF CoreReleaseEventLock

LEMMA GrownSignal ==
  ASSUME TypeInv, NEW s, NEW a, NEW m \in Nat, NEW G, MakesAt(gEfiCurrentTpl, G), Grown(s, a, m, G),
         NEW e \in Event, Signal(e, a)
  PROVE  Grown(s, stack', m, G)
<1>1. Frame("group", e, gEfiCurrentTpl) \in Frames \cap G
  BY MakesFrameAt DEF Pc, OnEvent, OnValid, TypeInv, CpuOK
<1>2. Grown(s, Append(a, Frame("group", e, gEfiCurrentTpl)), m, G)
  BY <1>1, GrownPush
<1> QED BY <1>2, GrownRelease DEF Signal

LEMMA GrownCheck ==
  ASSUME TypeInv, NEW s, NEW a, NEW m \in Nat, NEW G, MakesAt(gEfiCurrentTpl, G), Grown(s, a, m, G),
         NEW e \in Event, Check(e, a),
         \A f \in Frames : f = Frame("queue", e, gEfiCurrentTpl) => f \in G
  PROVE  Grown(s, stack', m, G)
<1>1. PICK pc \in {"queue", "check"} :
        (pc = "queue" => e \in NotifyWait) /\ stack' = Append(a, Frame(pc, e, gEfiCurrentTpl))
  BY DEF Check
<1>2. Frame(pc, e, gEfiCurrentTpl) \in Frames
  BY <1>1, FrameOK DEF Pc, OnEvent, TypeInv, CpuOK
<1>3. pc = "check" => Frame(pc, e, gEfiCurrentTpl) \in G
  BY <1>2, FrameParts DEF MakesAt, OnValid
<1> QED BY <1>1, <1>2, <1>3, GrownPush

(* A step of the running activation, over the m activations below it.      *)
LEMMA CoreStepGrows ==
  ASSUME TypeInv, TplInv, CoreStep, NEW m \in Nat, m < Len(stack),
         m > 0 => stack[m].pc # "waited",
         NEW G, Makes(G), \A f \in Frames : Begins(f) => f \in G
  PROVE  Grown(stack, stack', m, G)
<1>0. /\ StackOK(stack) /\ Top = stack[Len(stack)]
      /\ Top.lvl \in Tpl /\ Top.ev \in Event \cup {NoEvent}
      /\ Top.pc \in OnEvent => Top.ev \in Event
      /\ gEfiCurrentTpl \in Tpl /\ Len(stack) \in Nat /\ MakesAt(gEfiCurrentTpl, G)
  BY RunningOK, TopOK DEF TypeInv, CpuOK, Top, Makes
<1>1. Grown(stack, stack, m, G)
  BY <1>0, GrownSelf
<1>2. Grown(stack, Return, m, G) /\ Len(Return) = Len(stack) - 1
  BY <1>1, GrownReturn DEF Return
<1>3. ASSUME NEW f \in Frames \cap G
      PROVE  Grown(stack, Goto(f), m, G) /\ Grown(stack, Push(f), m, G)
  BY <1>1, <1>2, <1>3, GrownPush DEF Goto, Push, Return
<1>4. CASE RestoreTplDispatch
  <2>1. HighBitSet64(gEventPending) \in Tpl
    <3>1. gEventPending # {} /\ gEventPending \subseteq Tpl
      BY <1>4 DEF RestoreTplDispatch, TypeInv, QueuesOK
    <3> QED BY <3>1, HighBitProperties
  <2>2. Frame("disp", NoEvent, HighBitSet64(gEventPending)) \in Frames
    BY <2>1, FrameOK DEF Pc, OnEvent
  <2>3. Frame("disp", NoEvent, HighBitSet64(gEventPending)) \in G
    BY <1>4, <2>2 DEF Begins
  <2> QED BY <1>3, <1>4, <2>2, <2>3 DEF RestoreTplDispatch
<1>5. CASE RestoreTplExitLoop
  <2>1. Frame("set", NoEvent, Top.lvl) \in Frames \cap G
    BY MakesFrame DEF Pc, OnEvent, OnValid
  <2> QED BY <1>3, <1>5, <2>1 DEF RestoreTplExitLoop
<1>6. CASE \/ RestoreTplSet \/ FreeEvent \/ InterruptReturn \/ WaitReturn
  BY <1>2, <1>6 DEF RestoreTplSet, FreeEvent, InterruptReturn, WaitReturn
<1>7. CASE DispatchNext
  <2> DEFINE f == Frame("call", Head(gEventQueue[Top.lvl]), Top.lvl)
  <2>1. gEventQueue[Top.lvl] \in Seq(Event) /\ gEventQueue[Top.lvl] # <<>>
    BY <1>0, <1>7 DEF DispatchNext, TypeInv, QueuesOK
  <2>2. f \in Frames
    BY <1>0, <2>1, FrameOK DEF Pc, OnEvent
  <2>3. f \in G
    BY <1>7, <2>2 DEF Begins
  <2> HIDE DEF f
  <2>4. Grown(stack, Push(f), m, G)
    BY <1>3, <2>2, <2>3
  <2>5. CoreReleaseEventLock(Push(f))
    BY <1>7 DEF DispatchNext, f
  <2> QED BY <1>0, <2>5, <2>4, GrownRelease
<1>8. CASE DispatchCall
  <2>1. Frame("run", Top.ev, Top.lvl) \in Frames
    BY <1>0, FrameOK DEF Pc, OnEvent
  <2>2. Frame("run", Top.ev, Top.lvl) \in G
    BY <1>8, <2>1 DEF Begins
  <2> QED BY <1>3, <1>8, <2>1, <2>2 DEF DispatchCall
<1>9. CASE DispatchDone \/ SignalRelock
  BY <1>0, <1>2, <1>9, GrownRelease DEF DispatchDone, SignalRelock
<1>10. CASE NotifySignalListLock
  <2>1. Top.ev \in Event
    BY <1>0, <1>10 DEF NotifySignalListLock, Running, OnEvent
  <2>2. Frame("list", Top.ev, gEfiCurrentTpl) \in Frames \cap G
    BY <2>1, MakesFrame DEF Pc, OnEvent, OnValid
  <2> QED BY <1>3, <1>10, <2>2 DEF NotifySignalListLock
<1>11. CASE NotifySignalListStep
  BY <1>1, <1>11 DEF NotifySignalListStep
<1>12. CASE NotifySignalListUnlock
  <2>1. Top.ev \in Event
    BY <1>0, <1>12 DEF NotifySignalListUnlock, Running, OnEvent
  <2>2. /\ Frame("relock", Top.ev, Top.lvl) \in Frames \cap G
        /\ Frame("restore", NoEvent, Top.lvl) \in Frames \cap G
    BY <2>1, MakesFrame DEF Pc, OnEvent, OnValid
  <2> QED BY <1>3, <1>12, <2>2, GrownPush DEF NotifySignalListUnlock
<1>13. CASE CheckQueue
  <2>1. Top.ev \in Event
    BY <1>0, <1>13 DEF CheckQueue, Running, OnEvent
  <2>2. Frame("check", Top.ev, Top.lvl) \in Frames \cap G
    BY <2>1, MakesFrame DEF Pc, OnEvent, OnValid
  <2> QED BY <1>0, <1>3, <1>13, <2>2, GrownRelease DEF CheckQueue
<1>14. CASE CheckAgain
  <2>1. Top.ev \in Event
    BY <1>0, <1>14 DEF CheckAgain, Running, OnEvent
  <2>2. Frame("clear", Top.ev, Top.lvl) \in Frames \cap G
    BY <2>1, MakesFrame DEF Pc, OnEvent, OnValid
  <2> QED BY <1>2, <1>3, <1>14, <2>2 DEF CheckAgain
<1>15. CASE CheckClear
  <2> DEFINE n == Len(stack)
             caller == Last(Return)
  <2>1. CASE CoreReleaseEventLock(Return)
    BY <1>0, <1>2, <2>1, GrownRelease
  <2>2. CASE /\ caller.pc = "waited"
             /\ CoreReleaseEventLock(Append(Front(Return), Frame("waitok", NoEvent, caller.lvl)))
    <3>1. Top.pc = "clear" /\ n > 1 /\ Disciplined(stack)
      BY <1>0, <1>15, TopOK DEF CheckClear, Running, TplInv
    <3>2. /\ Return[n - 1] = stack[n - 1] /\ Above(stack[n - 1], Top)
          /\ Len(Return) = n - 1
      BY <1>0, <3>1, ReturnDisciplined DEF Return
    <3>3. caller = stack[n - 1]
      BY <3>2 DEF Last
    <3>4. caller.lvl = Top.lvl
      BY <2>2, <3>2, <3>3 DEF Above, Resumes
    <3>5. m # n - 1
      BY <1>0, <2>2, <3>1, <3>3
    <3>6. m < Len(Return)
      BY <1>0, <1>2, <3>1, <3>5
    <3>7. Grown(stack, Front(Return), m, G)
      BY <1>2, <3>6, GrownReturn
    <3>8. Frame("waitok", NoEvent, caller.lvl) \in Frames \cap G
      BY <3>4, MakesFrame DEF Pc, OnEvent, OnValid
    <3> HIDE DEF caller
    <3>9. Grown(stack, Append(Front(Return), Frame("waitok", NoEvent, caller.lvl)), m, G)
      BY <3>7, <3>8, GrownPush
    <3> QED BY <1>0, <2>2, <3>9, GrownRelease DEF caller
  <2> QED BY <1>15, <2>1, <2>2 DEF CheckClear
<1>16. CASE WaitCheck
  <2>1. WaitArray[Index] \in Event
    BY CoreEventAssumption, ElementOfSeq DEF TypeInv, CursorsOK
  <2>2. /\ Frame("waited", NoEvent, Top.lvl) \in Frames
        /\ Frame("waited", NoEvent, Top.lvl) \in Frames => Frame("waited", NoEvent, Top.lvl) \in G
        /\ \A f \in Frames : f = Frame("queue", WaitArray[Index], gEfiCurrentTpl) => f \in G
    BY <1>0, <1>16, FrameOK DEF Pc, OnEvent, Begins
  <2> QED BY <1>0, <1>3, <1>16, <2>1, <2>2, GrownCheck DEF WaitCheck
<1>17. CASE WaitNotReady \/ WaitIdle
  <2>1. /\ Frame("wait", NoEvent, Top.lvl) \in Frames
        /\ Frame("wait", NoEvent, Top.lvl) \in Frames => Frame("wait", NoEvent, Top.lvl) \in G
    BY <1>0, <1>17, FrameOK DEF Pc, OnEvent, Begins
  <2>2. gIdleLoopEvent \in Event
    BY CoreEventAssumption, EventAssumption
  <2> QED BY <1>0, <1>3, <1>17, <2>1, <2>2, GrownSignal DEF WaitNotReady, WaitIdle
<1> QED BY <1>4, <1>5, <1>6, <1>7, <1>8, <1>9, <1>10, <1>11, <1>12, <1>13, <1>14, <1>15,
           <1>16, <1>17, CoreStep DEF CoreStep

(* A service called by the running activation, over it and those below.    *)
LEMMA ServiceGrows ==
  ASSUME TypeInv, NEW m \in Nat, m <= Len(stack),
         NEW G, MakesAt(gEfiCurrentTpl, G), \A f \in Frames : Begins(f) => f \in G,
         Service \/ \E tick \in BOOLEAN : Interrupt(tick)
  PROVE  Grown(stack, stack', m, G)
<1>1. StackOK(stack) /\ gEfiCurrentTpl \in Tpl
  BY DEF TypeInv, CpuOK
<1>2. Grown(stack, stack, m, G)
  BY <1>1, GrownSelf
<1>3. ASSUME NEW f \in Frames \cap G
      PROVE  Grown(stack, Push(f), m, G)
  BY <1>2, <1>3, GrownPush DEF Push
<1>4. ASSUME NEW t \in Tpl, CoreRaiseTpl(t)
      PROVE  Grown(stack, stack', m, G)
  BY <1>2, <1>4 DEF CoreRaiseTpl
<1>5. ASSUME NEW t \in Tpl, CoreRestoreTpl(t)
      PROVE  Grown(stack, stack', m, G)
  <2>1. /\ Frame("restore", NoEvent, t) \in Frames
        /\ Frame("restore", NoEvent, t) \in Frames => Frame("restore", NoEvent, t) \in G
    BY <1>5, FrameOK DEF Pc, OnEvent, Begins
  <2> QED BY <1>3, <1>5, <2>1 DEF CoreRestoreTpl
<1>6. ASSUME NEW e \in Event, CoreSignalEvent(e) \/ CoreNotifyProtocolEntry(e)
      PROVE  Grown(stack, stack', m, G)
  BY <1>2, <1>6, GrownSignal DEF CoreSignalEvent, CoreNotifyProtocolEntry
<1>7. ASSUME NEW e \in Event, CoreCheckEvent(e)
      PROVE  Grown(stack, stack', m, G)
  <2>1. \A f \in Frames : f = Frame("queue", e, gEfiCurrentTpl) => f \in G
    BY <1>7 DEF Begins
  <2> QED BY <1>2, <1>7, <2>1, GrownCheck DEF CoreCheckEvent
<1>8. ASSUME NEW e \in Event, CoreCreateEvent(e)
      PROVE  Grown(stack, stack', m, G)
  BY <1>2, <1>8, GrownRelease DEF CoreCreateEvent
<1>9. ASSUME NEW e \in Event, CoreCloseEvent(e)
      PROVE  Grown(stack, stack', m, G)
  <2>1. /\ Frame("closing", e, gEfiCurrentTpl) \in Frames
        /\ Frame("closing", e, gEfiCurrentTpl) \in Frames => Frame("closing", e, gEfiCurrentTpl) \in G
    BY <1>1, <1>9, FrameOK DEF Pc, OnEvent, Begins
  <2> QED BY <1>3, <1>9, <2>1, GrownRelease DEF CoreCloseEvent
<1>10. ASSUME NEW e \in Registrable, CoreRegisterProtocolNotify(e)
       PROVE  Grown(stack, stack', m, G)
  BY <1>2, <1>10 DEF CoreRegisterProtocolNotify
<1>11. CASE CoreWaitForEvent
  <2>1. gEfiCurrentTpl = TPL_APPLICATION
    BY <1>11 DEF CoreWaitForEvent
  <2>2. /\ Frame("wait", NoEvent, TPL_APPLICATION) \in Frames
        /\ Frame("wait", NoEvent, TPL_APPLICATION) \in Frames => Frame("wait", NoEvent, TPL_APPLICATION) \in G
    BY <1>1, <1>11, <2>1, FrameOK DEF Pc, OnEvent, Begins
  <2> QED BY <1>3, <1>11, <2>2 DEF CoreWaitForEvent
<1>12. ASSUME NEW tick \in BOOLEAN, Interrupt(tick)
       PROVE  Grown(stack, stack', m, G)
  <2>1. Frame("irq", NoEvent, gEfiCurrentTpl) \in Frames \cap G
    BY <1>1, MakesFrameAt DEF Pc, OnEvent, OnValid
  <2> QED BY <1>3, <1>12, <2>1, GrownRelease DEF Interrupt
<1> QED BY <1>4, <1>5, <1>6, <1>7, <1>8, <1>9, <1>10, <1>11, <1>12 DEF Service

(* Every step, over m activations that wait for others to return.          *)
LEMMA StepGrows ==
  ASSUME TypeInv, TplInv, [Next]_vars, NEW m \in Nat, m < Len(stack),
         m > 0 => stack[m].pc # "waited",
         NEW G, Makes(G), \A f \in Frames : Begins(f) => f \in G
  PROVE  Grown(stack, stack', m, G)
<1>1. Grown(stack, stack, m, G)
  BY GrownSelf DEF TypeInv
<1>2. CASE CoreStep
  BY <1>2, CoreStepGrows
<1>3. CASE Service \/ \E tick \in BOOLEAN : Interrupt(tick)
  BY <1>3, ServiceGrows, TopOK DEF Makes, TypeInv
<1>4. CASE NotifyReturn
  BY <1>1, <1>4, GrownReturn DEF NotifyReturn, Return
<1>5. CASE UNCHANGED vars
  BY <1>1, <1>5 DEF vars
<1> QED BY <1>2, <1>3, <1>4, <1>5 DEF Next

(* The steps that begin to close no event.                                 *)
OpenStep ==
  \/ CoreStep
  \/ NotifyReturn
  \/ \E tick \in BOOLEAN : Interrupt(tick)
  \/ \E t \in Tpl : CoreRaiseTpl(t) \/ CoreRestoreTpl(t)
  \/ \E e \in Event : \/ CoreSignalEvent(e) \/ CoreCheckEvent(e)
                      \/ CoreCreateEvent(e) \/ CoreNotifyProtocolEntry(e)
  \/ \E e \in Registrable : CoreRegisterProtocolNotify(e)
  \/ CoreWaitForEvent
  \/ UNCHANGED vars

LEMMA OpenSteps == [Next]_vars <=> OpenStep \/ \E e \in Event : CoreCloseEvent(e)
BY DEF OpenStep, Next, Service

LEMMA CloseIsSeen ==
  ASSUME TypeInv, NEW e \in Event, CoreCloseEvent(e)
  PROVE  /\ ~OpenStep
         /\ stack'[Len(stack) + 1] = Frame("closing", e, gEfiCurrentTpl)
<1> DEFINE n == Len(stack)
           Two(a, b) == stack' = Append(Append(stack, a), b)
<1>1. /\ StackOK(stack) /\ stack \in Seq(Frames) /\ n \in Nat \ {0}
      /\ gEfiCurrentTpl \in Tpl /\ Top.pc = "run"
  BY TopOK DEF TypeInv, CpuOK, StackOK, CoreCloseEvent, OwnerMayClose, Running
<1>2. ASSUME NEW a \in Frames, NEW b \in Frames, Two(a, b)
      PROVE  Len(stack') = n + 2 /\ stack'[n + 1] = a
  <2>1. /\ Append(stack, a) \in Seq(Frames) /\ Len(Append(stack, a)) = n + 1
        /\ Append(stack, a)[n + 1] = a
    BY <1>1, AppendProperties
  <2> QED BY <1>1, <1>2, <2>1, AppendProperties
<1>3. /\ Frame("closing", e, gEfiCurrentTpl) \in Frames
      /\ Frame("irq", NoEvent, gEfiCurrentTpl) \in Frames
      /\ Frame("restore", NoEvent, gEfiCurrentTpl) \in Frames
      /\ \A x \in Event : Frame("group", x, gEfiCurrentTpl) \in Frames
      /\ \A t \in Tpl : Frame("restore", NoEvent, t) \in Frames
  BY <1>1, FrameOK DEF Pc, OnEvent
<1>4. Two(Frame("closing", e, gEfiCurrentTpl), Frame("restore", NoEvent, gEfiCurrentTpl))
  BY DEF CoreCloseEvent, CoreReleaseEventLock, Push
<1> HIDE DEF Two, n
<1>5. Len(stack') = n + 2 /\ stack'[n + 1].pc = "closing"
  BY <1>2, <1>3, <1>4, FrameParts
<1>6. ASSUME NEW f \in Frames
      PROVE  stack' # Append(stack, f)
  BY <1>1, <1>5, AppendProperties DEF n
<1>7. ASSUME NEW x \in Event, Signal(x, stack)
      PROVE  FALSE
  <2>1. ~Two(Frame("group", x, gEfiCurrentTpl), Frame("restore", NoEvent, gEfiCurrentTpl))
    BY <1>2, <1>3, <1>5, FrameParts
  <2> QED BY <1>3, <1>6, <1>7, <2>1 DEF Signal, CoreReleaseEventLock, Two
<1>8. ASSUME NEW tick \in BOOLEAN, Interrupt(tick)
      PROVE  FALSE
  <2>1. ~Two(Frame("irq", NoEvent, gEfiCurrentTpl), Frame("restore", NoEvent, gEfiCurrentTpl))
    BY <1>2, <1>3, <1>5, FrameParts
  <2> QED BY <1>8, <2>1 DEF Interrupt, CoreReleaseEventLock, Push, Two
<1>9. stack' # stack /\ stack' # Return
  BY <1>1, <1>5, ReturnOK, FrontProperties, TopOK DEF n, Return
<1>10. ~CoreStep
  BY <1>1 DEF CoreStep, RestoreTplDispatch, RestoreTplExitLoop, RestoreTplSet, DispatchNext,
              DispatchCall, DispatchDone, NotifySignalListLock, NotifySignalListStep,
              NotifySignalListUnlock, SignalRelock, CheckQueue, CheckAgain, CheckClear,
              WaitCheck, WaitNotReady, WaitIdle, WaitReturn, FreeEvent, InterruptReturn, Running
<1>11. ASSUME NEW x \in Event, CoreCheckEvent(x)
       PROVE  FALSE
  <2>1. PICK pc \in {"queue", "check"} :
          (pc = "queue" => x \in NotifyWait) /\ stack' = Append(stack, Frame(pc, x, gEfiCurrentTpl))
    BY <1>11 DEF CoreCheckEvent, Check
  <2>2. Frame(pc, x, gEfiCurrentTpl) \in Frames
    BY <1>1, <2>1, FrameOK DEF Pc, OnEvent
  <2> QED BY <1>6, <2>1, <2>2
<1>12. ~CoreWaitForEvent
  <2>1. CoreWaitForEvent => Frame("wait", NoEvent, TPL_APPLICATION) \in Frames
    BY <1>1, FrameOK DEF CoreWaitForEvent, Pc, OnEvent
  <2> QED BY <1>6, <2>1 DEF CoreWaitForEvent, Push
<1>13. \A t \in Tpl : ~CoreRaiseTpl(t) /\ ~CoreRestoreTpl(t)
  BY <1>3, <1>6, <1>9 DEF CoreRaiseTpl, CoreRestoreTpl, Push
<1>14. \A x \in Event : /\ ~CoreSignalEvent(x) /\ ~CoreNotifyProtocolEntry(x)
                        /\ ~CoreCreateEvent(x) /\ ~CoreRegisterProtocolNotify(x)
  BY <1>3, <1>6, <1>7, <1>9
     DEF CoreSignalEvent, CoreNotifyProtocolEntry, CoreCreateEvent, CoreRegisterProtocolNotify,
         CoreReleaseEventLock
<1>15. Registrable \subseteq Event
  BY EventAssumption, CoreEventAssumption
<1>16. ~OpenStep
  BY <1>8, <1>9, <1>10, <1>11, <1>12, <1>13, <1>14, <1>15 DEF OpenStep, NotifyReturn, vars
<1> QED BY <1>2, <1>3, <1>4, <1>16 DEF n

(* What a step may add: nothing but CoreCloseEvent begins to close an      *)
(* event, and only the dispatcher takes one off its queue.                 *)
Fresh(C, D) ==
  {f \in Frames :
     /\ f.pc = "closing" => f.ev \in C
     /\ f.pc = "call" => f.ev \in D
     /\ f.pc = "queue" => \/ f.ev \in live \ Closing
                          \/ Top.pc = "wait" /\ f.ev \in ToSet(WaitArray)
     /\ f.pc \in {"wait", "waited"} => \/ Top.pc \in {"wait", "waited"}
                                      \/ ToSet(WaitArray) \subseteq live \ Closing}

LEMMA FreshSteps ==
  ASSUME TypeInv, TplInv
  PROVE  /\ OpenStep /\ ~DispatchNext => Grown(stack, stack', 0, Fresh({}, {}))
         /\ DispatchNext => Grown(stack, stack', 0, Fresh({}, {Head(gEventQueue[Top.lvl])}))
         /\ \A e \in Event : CoreCloseEvent(e) => Grown(stack, stack', 0, Fresh({e}, {}))
<1>0. StackOK(stack) /\ Len(stack) \in Nat /\ Len(stack) > 0
  BY TopOK DEF TypeInv
<1>1. WaitArray[Index] \in ToSet(WaitArray)
  BY CoreEventAssumption DEF TypeInv, CursorsOK, ToSet
<1>2. ASSUME [Next]_vars, NEW C, NEW D,
             \A e \in Event : CoreCloseEvent(e) => e \in C,
             DispatchNext => Head(gEventQueue[Top.lvl]) \in D
      PROVE  Grown(stack, stack', 0, Fresh(C, D))
  <2>1. PICK G : G = Fresh(C, D)
    OBVIOUS
  <2>2. Makes(G)
    BY <2>1 DEF Makes, MakesAt, OnValid, Fresh
  <2>3. ASSUME NEW f \in Frames, Begins(f)
        PROVE  f \in G
    <3>1. CASE WaitCheck \/ WaitNotReady \/ WaitIdle
      <4>1. Top.pc \in {"wait", "waited"} /\ (WaitCheck => Top.pc = "wait")
        BY <3>1 DEF WaitCheck, WaitNotReady, WaitIdle, Running
      <4>2. /\ \A e \in Event : ~CoreCheckEvent(e) /\ ~CoreCloseEvent(e)
            /\ ~DispatchNext
        BY <4>1 DEF CoreCheckEvent, CoreCloseEvent, OwnerMayClose, DispatchNext, Running
      <4>3. f.pc \notin {"closing", "call"}
        BY <2>3, <4>2, FrameParts DEF Begins
      <4>4. f.pc = "queue" => WaitCheck /\ f.ev = WaitArray[Index]
        BY <2>3, <4>2, FrameParts DEF Begins
      <4> QED BY <1>1, <2>1, <4>1, <4>3, <4>4 DEF Fresh
    <3>2. CASE ~WaitCheck /\ ~WaitNotReady /\ ~WaitIdle
      <4>1. f.pc = "closing" => \E e \in Event : CoreCloseEvent(e) /\ f.ev = e
        BY <2>3, <3>2, FrameParts DEF Begins
      <4>2. f.pc = "call" => DispatchNext /\ f.ev = Head(gEventQueue[Top.lvl])
        BY <2>3, <3>2, FrameParts DEF Begins
      <4>3. f.pc = "queue" => \E e \in Event : CoreCheckEvent(e) /\ f.ev = e
        BY <2>3, <3>2, FrameParts DEF Begins
      <4>4. f.pc \in {"wait", "waited"} => CoreWaitForEvent
        BY <2>3, <3>2, FrameParts DEF Begins
      <4>5. f.pc = "queue" => f.ev \in live \ Closing
        BY <4>3 DEF CoreCheckEvent
      <4>6. f.pc \in {"wait", "waited"} => ToSet(WaitArray) \subseteq live \ Closing
        BY <4>4 DEF CoreWaitForEvent
      <4> QED BY <1>2, <2>1, <4>1, <4>2, <4>5, <4>6 DEF Fresh
    <3> QED BY <3>1, <3>2
  <2>4. Grown(stack, stack', 0, G)
    BY <1>0, <1>2, <2>2, <2>3, StepGrows
  <2> QED BY <2>1, <2>4
<1>3. OpenStep => \A e \in Event : ~CoreCloseEvent(e)
  BY CloseIsSeen
<1>4. DispatchNext => OpenStep
  BY DEF OpenStep, CoreStep
<1>5. CASE OpenStep /\ ~DispatchNext
  <2>1. Grown(stack, stack', 0, Fresh({}, {}))
    BY <1>2, <1>3, <1>5, OpenSteps
  <2> QED BY <1>3, <1>5, <2>1
<1>6. CASE DispatchNext
  <2>1. Grown(stack, stack', 0, Fresh({}, {Head(gEventQueue[Top.lvl])}))
    BY <1>2, <1>3, <1>4, <1>6, OpenSteps
  <2> QED BY <1>3, <1>4, <1>6, <2>1
<1>7. ASSUME NEW e \in Event, CoreCloseEvent(e)
      PROVE  Grown(stack, stack', 0, Fresh({e}, {}))
  <2>1. ~DispatchNext /\ \A x \in Event : CoreCloseEvent(x) => x = e
    BY <1>3, <1>4, <1>7, CloseIsSeen, FrameParts
  <2> QED BY <1>2, <1>7, <2>1, OpenSteps
<1> QED BY <1>5, <1>6, <1>7

LEMMA ClosingSteps ==
  ASSUME TypeInv, TplInv
  PROVE  /\ OpenStep => Closing' \subseteq Closing
         /\ \A e \in Event : CoreCloseEvent(e) => Closing' \subseteq Closing \cup {e}
<1>1. ASSUME NEW C, NEW D, Grown(stack, stack', 0, Fresh(C, D))
      PROVE  Closing' \subseteq Closing \cup C
  <2>1. \A i \in 1 .. Len(stack') : \/ stack'[i] \in Fresh(C, D)
                                    \/ i <= Len(stack) /\ stack'[i] = stack[i]
    BY <1>1 DEF Grown
  <2>2. Len(stack) \in Nat
    BY TopOK DEF TypeInv
  <2> QED BY <2>1, <2>2 DEF Closing, Fresh
<1>2. OpenStep => Closing' \subseteq Closing
  BY <1>1, FreshSteps
<1>3. ASSUME NEW e \in Event, CoreCloseEvent(e)
      PROVE  Closing' \subseteq Closing \cup {e}
  <2>1. Grown(stack, stack', 0, Fresh({e}, {}))
    BY <1>3, FreshSteps
  <2> QED BY <1>1, <2>1
<1> QED BY <1>2, <1>3

(* Who changes the lives of events.                                        *)
LEMMA LiveSteps ==
  ASSUME [Next]_vars
  PROVE  \/ UNCHANGED lifetimes
         \/ FreeEvent
         \/ \E e \in Event : CoreCreateEvent(e) \/ CoreCloseEvent(e)
         \/ \E e \in Registrable : CoreRegisterProtocolNotify(e)
<1>1. CASE CoreStep
  BY <1>1 DEF CoreStep, RestoreTplDispatch, RestoreTplExitLoop, RestoreTplSet, DispatchNext,
              DispatchCall, DispatchDone, NotifySignalListLock, NotifySignalListStep,
              NotifySignalListUnlock, SignalRelock, CheckQueue, CheckAgain, CheckClear,
              WaitCheck, WaitNotReady, WaitIdle, WaitReturn, InterruptReturn
<1>2. CASE Service
  BY <1>2 DEF Service, CoreRaiseTpl, CoreRestoreTpl, CoreSignalEvent, CoreCheckEvent,
              CoreNotifyProtocolEntry, CoreWaitForEvent
<1>3. CASE NotifyReturn
  BY <1>3 DEF NotifyReturn
<1>4. CASE \E tick \in BOOLEAN : Interrupt(tick)
  BY <1>4 DEF Interrupt
<1>5. CASE UNCHANGED vars
  BY <1>5 DEF vars, lifetimes
<1> QED BY <1>1, <1>2, <1>3, <1>4, <1>5 DEF Next

(* An event that nobody closes stays valid.                                *)
LEMMA StaysValid ==
  ASSUME TypeInv, TplInv, NEW x \in live \ Closing,
         OpenStep \/ \E e \in Event \ {x} : CoreCloseEvent(e)
  PROVE  x \in live' \ Closing'
<1>1. x \notin Closing'
  BY ClosingSteps
<1>2. x \in live'
  <2>1. CASE UNCHANGED live
    BY <2>1
  <2>2. CASE FreeEvent
    <3>1. Top.pc = "closing" /\ live' = live \ {Top.ev}
      BY <2>2 DEF FreeEvent, Running
    <3>2. Top.ev \in Event /\ Len(stack) \in 1 .. Len(stack)
      BY <3>1, RunningOK, TopOK DEF OnEvent
    <3>3. Top.ev \in Closing
      BY <3>1, <3>2 DEF Closing, Top
    <3> QED BY <3>1, <3>3
  <2>3. ASSUME NEW e \in Event, CoreCreateEvent(e)
        PROVE  x \in live'
    BY <2>3 DEF CoreCreateEvent
  <2>4. [Next]_vars
    BY OpenSteps
  <2>5. UNCHANGED live \/ FreeEvent \/ \E e \in Event : CoreCreateEvent(e)
    BY <2>4, LiveSteps DEF lifetimes, CoreCloseEvent, CoreRegisterProtocolNotify
  <2> QED BY <2>1, <2>2, <2>3, <2>5
<1> QED BY <1>1, <1>2

(* A notify function runs above the level of every activation below its    *)
(* dispatcher, whose caller is a CoreRestoreTpl to a lower level.          *)
LEMMA RunIsDispatched ==
  ASSUME TypeInv, TplInv, Top.pc = "run",
         NEW i \in 1 .. Len(stack) - 1, stack[i].pc # "disp"
  PROVE  LET r == Len(stack) - 2
         IN  /\ i <= r
             /\ stack[r].pc = "restore"
             /\ stack[r].lvl < Top.lvl
             /\ stack[i].lvl < Top.lvl
<1> DEFINE n == Len(stack)
<1>1. n \in Nat \ {0} /\ \A j \in 1 .. n : stack[j] \in Frames
  BY TopOK DEF TypeInv
<1>2. /\ \A j \in 1 .. n - 1 : Above(stack[j], stack[j + 1])
      /\ \A j, k \in 1 .. n : j <= k => stack[j].lvl <= stack[k].lvl
  BY DEF TplInv, Disciplined
<1>3. \A j \in 1 .. n : stack[j].lvl \in Nat
  BY <1>1, LevelsAreNumbers
<1> HIDE DEF n
<1>4. n - 1 \in 1 .. n - 1 /\ (n - 1) + 1 = n
  BY <1>1 DEF n
<1>5. Above(stack[n - 1], stack[n]) /\ Top = stack[n]
  BY <1>2, <1>4 DEF n, Top
<1>6. stack[n - 1].pc = "disp" /\ stack[n - 1].lvl = Top.lvl
  BY <1>5 DEF Above, Resumes
<1>7. i # n - 1
  BY <1>6
<1>8. /\ n - 2 \in 1 .. n - 1 /\ (n - 2) + 1 = n - 1
      /\ n - 2 \in 1 .. n /\ i <= n - 2 /\ i \in 1 .. n
  BY <1>1, <1>4, <1>7 DEF n
<1>9. Above(stack[n - 2], stack[n - 1])
  <2>1. Above(stack[n - 2], stack[(n - 2) + 1])
    BY <1>2, <1>8
  <2> QED BY <1>8, <2>1
<1>10. stack[n - 2].pc = "restore" /\ stack[n - 2].lvl < stack[n - 1].lvl
  BY <1>6, <1>9 DEF Above
<1>11. stack[i].lvl <= stack[n - 2].lvl
  BY <1>2, <1>8
<1>12. stack[i].lvl \in Nat /\ stack[n - 2].lvl \in Nat /\ Top.lvl \in Nat
  BY <1>3, <1>4, <1>5, <1>8
<1> QED BY <1>6, <1>8, <1>10, <1>11, <1>12 DEF n

(* Activations that wait for others to return stay as they are.            *)
LEMMA BelowStays ==
  ASSUME TypeInv, TplInv, [Next]_vars, NEW m \in 1 .. Len(stack) - 1, stack[m].pc # "waited"
  PROVE  /\ m \in 1 .. Len(stack')
         /\ \A i \in 1 .. m : stack'[i] = stack[i]
<1>1. m \in Nat /\ m < Len(stack) /\ Len(stack) \in Nat
  BY TopOK DEF TypeInv
<1>2. Makes(Frames)
  BY DEF Makes, MakesAt
<1>3. Grown(stack, stack', m, Frames)
  BY <1>1, <1>2, StepGrows
<1> QED BY <1>3, LenProperties DEF Grown

(* A running activation stays when it calls or is interrupted.             *)
LEMMA CallerStays ==
  ASSUME TypeInv, Service \/ \E tick \in BOOLEAN : Interrupt(tick)
  PROVE  /\ Len(stack) \in 1 .. Len(stack')
         /\ \A i \in 1 .. Len(stack) : stack'[i] = stack[i]
<1>1. Len(stack) \in Nat \ {0}
  BY TopOK DEF TypeInv
<1>2. MakesAt(gEfiCurrentTpl, Frames)
  BY DEF MakesAt
<1>3. Grown(stack, stack', Len(stack), Frames)
  BY <1>1, <1>2, ServiceGrows
<1> QED BY <1>1, <1>3, LenProperties DEF Grown

(* What the running activation may do, by its place in the code.           *)
LEMMA TopSteps ==
  ASSUME [Next]_vars, Top.pc # "run"
  PROVE  \/ UNCHANGED vars
         \/ \E tick \in BOOLEAN : Interrupt(tick)
         \/ Top.pc = "restore" /\ (RestoreTplDispatch \/ RestoreTplExitLoop)
         \/ Top.pc = "closing" /\ FreeEvent
         \/ Top.pc = "group" /\ NotifySignalListLock
         \/ Top.pc = "list" /\ (NotifySignalListStep \/ NotifySignalListUnlock)
         \/ Top.pc = "call" /\ DispatchCall
         \/ Top.pc \notin {"restore", "closing", "group", "list", "call"}
<1>1. ~Service /\ ~NotifyReturn
  BY DEF Service, CoreRaiseTpl, CoreRestoreTpl, CoreSignalEvent, CoreCheckEvent,
         CoreCreateEvent, CoreCloseEvent, OwnerMayClose, CoreNotifyProtocolEntry,
         CoreRegisterProtocolNotify, CoreWaitForEvent, NotifyReturn, Running
<1>2. CASE CoreStep
  BY <1>2 DEF CoreStep, RestoreTplDispatch, RestoreTplExitLoop, RestoreTplSet, DispatchNext,
              DispatchCall, DispatchDone, NotifySignalListLock, NotifySignalListStep,
              NotifySignalListUnlock, SignalRelock, CheckQueue, CheckAgain, CheckClear,
              WaitCheck, WaitNotReady, WaitIdle, WaitReturn, FreeEvent, InterruptReturn, Running
<1> QED BY <1>1, <1>2 DEF Next

(* Only FreeEvent ends the closing of an event.                            *)
LEMMA ClosingStays ==
  ASSUME TypeInv, TplInv, [Next]_vars, NEW i \in 1 .. Len(stack), stack[i].pc = "closing"
  PROVE  \/ i = Len(stack) /\ FreeEvent
         \/ i \in 1 .. Len(stack') /\ stack'[i] = stack[i]
<1>1. Len(stack) \in Nat \ {0}
  BY TopOK DEF TypeInv
<1>2. CASE i < Len(stack)
  BY <1>1, <1>2, BelowStays
<1>3. CASE i = Len(stack)
  <2>1. \/ FreeEvent \/ UNCHANGED vars \/ \E tick \in BOOLEAN : Interrupt(tick)
    BY <1>3, TopSteps DEF Top
  <2> QED BY <1>1, <1>3, <2>1, CallerStays DEF vars
<1> QED BY <1>1, <1>2, <1>3

-----------------------------------------------------------------------------
(* The lives of events.  gEventSignalQueue lists the EVT_NOTIFY_SIGNAL     *)
(* events nobody is closing, once each; what the core or a service is at   *)
(* work on is valid; an event is closed once.                              *)

Valid      == live \ Closing
Notifiable == NotifySignal \cup NotifyWait

SignalQueueLists ==
  /\ \A i, j \in 1 .. Len(gEventSignalQueue) :
       gEventSignalQueue[i] = gEventSignalQueue[j] => i = j
  /\ \A e : e \in Valid \cap NotifySignal <=>
              \E i \in 1 .. Len(gEventSignalQueue) : gEventSignalQueue[i] = e

OwnersKeep == Core \subseteq Valid /\ registered \subseteq live \cap Registrable

UsedAreValid ==
  \A i \in 1 .. Len(stack) :
    /\ stack[i].pc = "queue" => stack[i].ev \in Valid
    /\ stack[i].pc \in {"wait", "waited"} => ToSet(WaitArray) \subseteq Valid

ClosedOnce ==
  \A i \in 1 .. Len(stack) : stack[i].pc = "closing" =>
    /\ stack[i].ev \in live \ Core
    /\ \A j \in 1 .. Len(stack) : stack[j].pc = "closing" /\ stack[j].ev = stack[i].ev => i = j

LifeInv == SignalQueueLists /\ OwnersKeep /\ UsedAreValid /\ ClosedOnce

(* What each kind of step does to the sets of events.                      *)
LEMMA CloseStack ==
  ASSUME TypeInv, NEW e \in Event, CoreCloseEvent(e)
  PROVE  /\ Len(stack) + 1 \in 1 .. Len(stack')
         /\ stack'[Len(stack) + 1] = Frame("closing", e, gEfiCurrentTpl)
         /\ \A i \in 1 .. Len(stack') : \/ i \in 1 .. Len(stack) /\ stack'[i] = stack[i]
                                        \/ i = Len(stack) + 1
                                        \/ stack'[i].pc = "restore"
<1> DEFINE c == Frame("closing", e, gEfiCurrentTpl)
           r == Frame("restore", NoEvent, gEfiCurrentTpl)
<1>1. c \in Frames /\ r \in Frames /\ r.pc = "restore"
  BY FrameOK, FrameParts DEF Pc, OnEvent, TypeInv, CpuOK
<1>2. stack' = Append(Append(stack, c), r)
  BY DEF CoreCloseEvent, CoreReleaseEventLock, Push
<1> HIDE DEF c, r
<1>3. stack \in Seq(Frames) /\ Len(stack) \in Nat
  BY TopOK DEF TypeInv, StackOK
<1>4. /\ Append(stack, c) \in Seq(Frames) /\ Len(Append(stack, c)) = Len(stack) + 1
      /\ Append(stack, c)[Len(stack) + 1] = c
      /\ \A i \in 1 .. Len(stack) : Append(stack, c)[i] = stack[i]
  BY <1>1, <1>3, AppendProperties
<1>5. /\ Len(stack') = Len(stack) + 2 /\ stack'[Len(stack) + 2] = r
      /\ \A i \in 1 .. Len(stack) + 1 : stack'[i] = Append(stack, c)[i]
  BY <1>1, <1>2, <1>3, <1>4, AppendProperties
<1> QED BY <1>1, <1>3, <1>4, <1>5 DEF c

LEMMA ClosingAfterClose ==
  ASSUME TypeInv, TplInv, NEW e \in Event, CoreCloseEvent(e)
  PROVE  Closing' = Closing \cup {e}
<1>1. Closing' \subseteq Closing \cup {e}
  BY ClosingSteps
<1>2. Service /\ [Next]_vars /\ ~FreeEvent
  <2>1. Service
    BY DEF Service
  <2>2. Top.pc = "run"
    BY DEF CoreCloseEvent, OwnerMayClose, Running
  <2> QED BY <2>1, <2>2 DEF Next, FreeEvent, Running
<1>3. Closing \subseteq Closing'
  BY <1>2, ClosingStays DEF Closing
<1>4. e \in Closing'
  BY CloseStack, FrameParts DEF Closing
<1> QED BY <1>1, <1>3, <1>4

LEMMA ClosingAfterFree ==
  ASSUME TypeInv, TplInv, ClosedOnce, FreeEvent
  PROVE  Top.ev \in Closing /\ Closing' = Closing \ {Top.ev}
<1>1. /\ OpenStep /\ [Next]_vars /\ Top.pc = "closing" /\ Len(stack) \in 1 .. Len(stack)
      /\ Top = stack[Len(stack)] /\ Top.ev \in Event /\ Len(stack) \in Nat
  BY RunningOK, TopOK DEF OpenStep, CoreStep, Next, FreeEvent, Running, Top, OnEvent
<1>2. Top.ev \in Closing
  BY <1>1 DEF Closing
<1>3. Closing' \subseteq Closing
  BY <1>1, ClosingSteps
<1>4. Closing \ {Top.ev} \subseteq Closing'
  BY <1>1, ClosingStays DEF Closing
<1>5. Top.ev \notin Closing'
  <2>1. stack' = Front(stack) /\ Len(stack) > 1
    BY <1>1, RunningOK DEF FreeEvent, Return
  <2>2. Len(stack') = Len(stack) - 1 /\ \A i \in 1 .. Len(stack) - 1 : stack'[i] = stack[i]
    BY <2>1, FrontProperties DEF TypeInv, StackOK
  <2>3. ASSUME NEW i \in 1 .. Len(stack'), stack'[i].pc = "closing", stack'[i].ev = Top.ev
        PROVE  FALSE
    <3>1. stack[i].pc = "closing" /\ stack[i].ev = Top.ev /\ i \in 1 .. Len(stack) /\ i # Len(stack)
      BY <1>1, <2>2, <2>3
    <3> QED BY <1>1, <3>1 DEF ClosedOnce
  <2> QED BY <2>3 DEF Closing
<1> QED BY <1>2, <1>3, <1>4, <1>5

LEMMA ClosingElsewhere ==
  ASSUME TypeInv, TplInv, OpenStep, ~FreeEvent
  PROVE  Closing' = Closing
<1>1. Closing' \subseteq Closing
  BY ClosingSteps
<1>2. Closing \subseteq Closing'
  BY OpenSteps, ClosingStays DEF Closing
<1> QED BY <1>1, <1>2

LEMMA ValidSteps ==
  ASSUME TypeInv, TplInv, ClosedOnce, [Next]_vars
  PROVE  \/ Valid' = Valid /\ gEventSignalQueue' = gEventSignalQueue
         \/ \E e \in Event : CoreCreateEvent(e) /\ e \notin live /\ Valid' = Valid \cup {e}
         \/ \E e \in Event : CoreCloseEvent(e) /\ Valid' = Valid \ {e}
<1>1. CASE \E e \in Event : CoreCloseEvent(e)
  BY <1>1, ClosingAfterClose DEF Valid, CoreCloseEvent
<1>2. CASE FreeEvent
  BY <1>2, ClosingAfterFree DEF Valid, FreeEvent
<1>3. CASE OpenStep /\ ~FreeEvent
  <2>1. Closing' = Closing
    BY <1>3, ClosingElsewhere
  <2>2. ASSUME NEW e \in Event, CoreCreateEvent(e)
        PROVE  e \notin live /\ Valid' = Valid \cup {e}
    <3>1. e \notin Closing
      BY <2>2 DEF CoreCreateEvent, Mentions, Closing
    <3> QED BY <2>1, <2>2, <3>1 DEF CoreCreateEvent, Valid
  <2>3. CASE UNCHANGED <<gEventSignalQueue, live>>
    BY <2>1, <2>3 DEF Valid
  <2>4. CASE \E e \in Event : CoreCreateEvent(e)
    BY <2>2, <2>4
  <2>5. CASE \E e \in Event : CoreCloseEvent(e)
    BY <1>1, <2>5
  <2> QED BY <1>3, <2>3, <2>4, <2>5, LiveSteps DEF lifetimes, CoreRegisterProtocolNotify
<1> QED BY <1>1, <1>2, <1>3, OpenSteps

LEMMA SignalQueueListsNext ==
  ASSUME TypeInv, TplInv, LifeInv, [Next]_vars
  PROVE  SignalQueueLists'
<1> DEFINE s == gEventSignalQueue
           n == Len(s)
<1>1. /\ s \in Seq(NotifySignal) /\ n \in Nat
      /\ \A i, j \in 1 .. n : s[i] = s[j] => i = j
      /\ \A e : e \in Valid \cap NotifySignal <=> \E i \in 1 .. n : s[i] = e
  BY LenProperties DEF TypeInv, LifetimesOK, LifeInv, SignalQueueLists
<1>2. CASE Valid' = Valid /\ gEventSignalQueue' = s
  BY <1>1, <1>2 DEF SignalQueueLists
<1>3. ASSUME NEW e \in Event, CoreCreateEvent(e), e \notin live, Valid' = Valid \cup {e}
      PROVE  SignalQueueLists'
  <2>1. CASE e \notin NotifySignal
    BY <1>1, <1>3, <2>1 DEF SignalQueueLists, CoreCreateEvent
  <2>2. CASE e \in NotifySignal
    <3> DEFINE a == <<e>> \o s
    <3>1. gEventSignalQueue' = a
      BY <1>3, <2>2 DEF CoreCreateEvent
    <3>2. <<e>> \in Seq(NotifySignal) /\ Len(<<e>>) = 1 /\ <<e>>[1] = e
      BY <2>2
    <3> HIDE DEF n, s
    <3>3. Len(a) = n + 1 /\ a[1] = e /\ \A i \in 2 .. n + 1 : a[i] = s[i - 1]
      BY <1>1, <3>2, ConcatProperties DEF n
    <3> HIDE DEF a
    <3>4. \A i \in 1 .. n : s[i] # e
      BY <1>1, <1>3 DEF Valid
    <3>5. \A i \in 1 .. n + 1 : i # 1 => i \in 2 .. n + 1 /\ i - 1 \in 1 .. n
      BY <1>1
    <3>6. \A i, j \in 1 .. n + 1 : a[i] = a[j] => i = j
      <4>1. ASSUME NEW i \in 1 .. n + 1, NEW j \in 1 .. n + 1, a[i] = a[j]
            PROVE  i = j
        <5>1. CASE i # 1 /\ j # 1
          <6>1. s[i - 1] = s[j - 1] /\ i - 1 \in 1 .. n /\ j - 1 \in 1 .. n
            BY <3>3, <3>5, <4>1, <5>1
          <6>2. i - 1 = j - 1
            BY <1>1, <6>1
          <6> QED BY <1>1, <6>2
        <5>2. CASE i = 1 \/ j = 1
          BY <3>3, <3>4, <3>5, <4>1, <5>2
        <5> QED BY <5>1, <5>2
      <4> QED BY <4>1
    <3>7. \A x : (\E i \in 1 .. n + 1 : a[i] = x) <=> x = e \/ \E i \in 1 .. n : s[i] = x
      <4>1. ASSUME NEW i \in 1 .. n
            PROVE  i + 1 \in 1 .. n + 1 /\ a[i + 1] = s[i]
        <5>1. i + 1 \in 2 .. n + 1 /\ (i + 1) - 1 = i
          BY <1>1
        <5>2. a[i + 1] = s[(i + 1) - 1]
          BY <3>3, <5>1
        <5> QED BY <1>1, <5>1, <5>2
      <4>2. 1 \in 1 .. n + 1
        BY <1>1
      <4> QED BY <3>3, <3>5, <4>1, <4>2
    <3>8. \A x : x \in Valid' \cap NotifySignal <=> \E i \in 1 .. n + 1 : a[i] = x
      BY <1>1, <1>3, <2>2, <3>7
    <3> QED BY <3>1, <3>3, <3>6, <3>8 DEF SignalQueueLists
  <2> QED BY <2>1, <2>2
<1>4. ASSUME NEW e \in Event, CoreCloseEvent(e), Valid' = Valid \ {e}
      PROVE  SignalQueueLists'
  <2> DEFINE r == RemoveEntryList(s, e)
  <2>1. gEventSignalQueue' = r
    BY <1>4 DEF CoreCloseEvent
  <2> HIDE DEF n, s
  <2>2. /\ \A i \in 1 .. Len(r) : r[i] # e /\ \E j \in 1 .. n : r[i] = s[j]
        /\ \A i \in 1 .. n : s[i] # e => \E j \in 1 .. Len(r) : r[j] = s[i]
        /\ \A i, j \in 1 .. Len(r) : r[i] = r[j] => i = j
    BY <1>1, RemoveEntryListProperties DEF n
  <2> HIDE DEF r
  <2>3. \A x : x \in Valid' \cap NotifySignal <=> \E i \in 1 .. Len(r) : r[i] = x
    BY <1>1, <1>4, <2>2
  <2> QED BY <2>1, <2>2, <2>3 DEF SignalQueueLists
<1> QED BY <1>2, <1>3, <1>4, ValidSteps DEF LifeInv

LEMMA OwnersKeepNext ==
  ASSUME TypeInv, TplInv, LifeInv, [Next]_vars
  PROVE  OwnersKeep'
<1>1. Core \subseteq Valid'
  BY ValidSteps DEF LifeInv, OwnersKeep, CoreCloseEvent, OwnerMayClose
<1>2. registered' \subseteq live' \cap Registrable
  <2>1. registered \subseteq live \cap Registrable
    BY DEF LifeInv, OwnersKeep
  <2>2. CASE UNCHANGED lifetimes
    BY <2>1, <2>2 DEF lifetimes
  <2>3. CASE FreeEvent
    BY <2>1, <2>3 DEF FreeEvent
  <2>4. CASE \E e \in Event : CoreCreateEvent(e) \/ CoreCloseEvent(e)
    BY <2>1, <2>4 DEF CoreCreateEvent, CoreCloseEvent
  <2>5. CASE \E e \in Registrable : CoreRegisterProtocolNotify(e)
    BY <2>1, <2>5 DEF CoreRegisterProtocolNotify
  <2> QED BY <2>2, <2>3, <2>4, <2>5, LiveSteps
<1> QED BY <1>1, <1>2 DEF OwnersKeep, Core

LEMMA UsedAreValidNext ==
  ASSUME TypeInv, TplInv, LifeInv, [Next]_vars
  PROVE  UsedAreValid'
<1>1. Len(stack) \in 1 .. Len(stack) /\ Len(stack) \in Nat /\ Top = stack[Len(stack)]
  BY TopOK DEF TypeInv, Top
<1>2. CASE OpenStep
  <2>1. Valid \subseteq Valid'
    BY <1>2, CloseIsSeen, ValidSteps DEF LifeInv
  <2>2. Top.pc \in {"wait", "waited"} => ToSet(WaitArray) \subseteq Valid
    BY <1>1 DEF LifeInv, UsedAreValid
  <2>3. PICK D : Grown(stack, stack', 0, Fresh({}, D))
    BY <1>2, FreshSteps
  <2>4. ASSUME NEW i \in 1 .. Len(stack')
        PROVE  /\ stack'[i].pc = "queue" => stack'[i].ev \in Valid
               /\ stack'[i].pc \in {"wait", "waited"} => ToSet(WaitArray) \subseteq Valid
    <3>1. CASE stack'[i] \in Fresh({}, D)
      BY <2>2, <3>1 DEF Fresh, Valid
    <3>2. CASE i <= Len(stack) /\ stack'[i] = stack[i]
      BY <1>1, <3>2 DEF LifeInv, UsedAreValid
    <3> QED BY <2>3, <3>1, <3>2 DEF Grown
  <2> QED BY <2>1, <2>4 DEF UsedAreValid
<1>3. ASSUME NEW e \in Event, CoreCloseEvent(e)
      PROVE  UsedAreValid'
  <2>1. Valid' = Valid \ {e}
    BY <1>3, ClosingAfterClose DEF Valid, CoreCloseEvent
  <2>2. ASSUME NEW i \in 1 .. Len(stack'), stack'[i].pc \in {"queue", "wait", "waited"}
        PROVE  /\ stack'[i].pc = "queue" => stack'[i].ev \in Valid \ {e}
               /\ stack'[i].pc \in {"wait", "waited"} => ToSet(WaitArray) \subseteq Valid \ {e}
    <3>1. i \in 1 .. Len(stack) /\ stack'[i] = stack[i]
      BY <1>3, <2>2, CloseStack, FrameParts
    <3>2. stack[i].pc = "queue" => stack[i].ev # e
      BY <1>3, <3>1 DEF CoreCloseEvent, OwnerMayClose
    <3>3. stack[i].pc \in {"wait", "waited"} => e \notin ToSet(WaitArray)
      BY <1>3, <3>1 DEF CoreCloseEvent, OwnerMayClose
    <3> QED BY <3>1, <3>2, <3>3 DEF LifeInv, UsedAreValid
  <2> QED BY <2>1, <2>2 DEF UsedAreValid
<1> QED BY <1>2, <1>3, OpenSteps

LEMMA ClosedOnceNext ==
  ASSUME TypeInv, TplInv, LifeInv, [Next]_vars
  PROVE  ClosedOnce'
<1>1. Len(stack) \in 1 .. Len(stack) /\ Len(stack) \in Nat /\ Top = stack[Len(stack)]
  BY TopOK DEF TypeInv, Top
<1>2. CASE OpenStep
  <2>1. PICK D : Grown(stack, stack', 0, Fresh({}, D))
    BY <1>2, FreshSteps
  <2>2. \A i \in 1 .. Len(stack') : stack'[i].pc = "closing" =>
          i \in 1 .. Len(stack) /\ stack'[i] = stack[i]
    BY <1>1, <2>1 DEF Grown, Fresh
  <2>3. ASSUME NEW i \in 1 .. Len(stack'), stack'[i].pc = "closing"
        PROVE  stack'[i].ev \in live' \ Core
    <3>1. stack'[i].ev \in live \ Core
      BY <2>2, <2>3 DEF LifeInv, ClosedOnce
    <3>2. CASE FreeEvent
      <4>1. stack'[i].ev \in Closing'
        BY <2>3, <2>2, <3>1 DEF Closing, TypeInv, LifetimesOK
      <4>2. stack'[i].ev # Top.ev
        BY <3>2, <4>1, ClosingAfterFree DEF LifeInv
      <4> QED BY <3>1, <3>2, <4>2 DEF FreeEvent
    <3>3. CASE ~FreeEvent
      BY <1>2, <3>1, <3>3, OpenSteps, LiveSteps
         DEF lifetimes, CoreCreateEvent, CoreCloseEvent, CoreRegisterProtocolNotify
    <3> QED BY <3>2, <3>3
  <2> QED BY <2>2, <2>3 DEF LifeInv, ClosedOnce, Core
<1>3. ASSUME NEW e \in Event, CoreCloseEvent(e)
      PROVE  ClosedOnce'
  <2>1. e \in live \ Core /\ live' = live
    BY <1>3 DEF CoreCloseEvent, OwnerMayClose
  <2>2. \A i \in 1 .. Len(stack) : stack[i].pc = "closing" => stack[i].ev # e
    BY <1>3 DEF CoreCloseEvent, OwnerMayClose
  <2>3. \A i \in 1 .. Len(stack') : stack'[i].pc = "closing" =>
          \/ i \in 1 .. Len(stack) /\ stack'[i] = stack[i]
          \/ i = Len(stack) + 1 /\ stack'[i].ev = e
    BY <1>3, CloseStack, FrameParts
  <2> QED BY <1>1, <2>1, <2>2, <2>3 DEF LifeInv, ClosedOnce, Core
<1> QED BY <1>2, <1>3, OpenSteps

LEMMA LifeInvInit == Init => LifeInv
<1> SUFFICES ASSUME Init PROVE LifeInv
  OBVIOUS
<1>1. stack = <<Frame("run", NoEvent, TPL_APPLICATION)>>
  BY DEF Init
<1>2. Len(stack) = 1 /\ stack[1].pc = "run"
  BY <1>1, FrameParts
<1>3. Closing = {}
  BY <1>2 DEF Closing
<1>4. Valid = Core
  BY <1>3 DEF Init, Valid, Core
<1>5. gIdleLoopEvent \in NotifySignal /\ mEfiCheckTimerEvent \in NotifySignal \ {gIdleLoopEvent}
  BY CoreEventAssumption
<1>6. SignalQueueLists
  <2>1. gEventSignalQueue = <<gIdleLoopEvent, mEfiCheckTimerEvent>>
    BY DEF Init
  <2>2. /\ Len(gEventSignalQueue) = 2 /\ gEventSignalQueue[1] = gIdleLoopEvent
        /\ gEventSignalQueue[2] = mEfiCheckTimerEvent
    BY <2>1
  <2> QED BY <1>4, <1>5, <2>2 DEF SignalQueueLists, Core
<1>7. OwnersKeep
  BY <1>4 DEF Init, OwnersKeep
<1> QED BY <1>2, <1>6, <1>7 DEF LifeInv, UsedAreValid, ClosedOnce

LEMMA LifeInvariant == Spec => [](TypeInv /\ QueueInv /\ TplInv /\ LifeInv)
<1>1. TypeInv /\ TplInv /\ LifeInv /\ [Next]_vars => LifeInv'
  BY SignalQueueListsNext, OwnersKeepNext, UsedAreValidNext, ClosedOnceNext DEF LifeInv
<1> QED BY <1>1, LifeInvInit, TplInvariant, PTL DEF Spec

-----------------------------------------------------------------------------
(* Who is on a notify queue.                                               *)

LEMMA QueuedAfterNotify ==
  ASSUME TypeInv, QueueInv, NEW x \in Notifiable, CoreNotifyEvent(x), NEW e
  PROVE  Queued(e)' <=> Queued(e) \/ e = x
<1> DEFINE l == NotifyTpl[x]
           q == gEventQueue[l]
           r == RemoveEntryList(q, x)
           a == Append(r, x)
<1>1. x \in Event /\ l \in Tpl /\ gEventQueue \in [Tpl -> Seq(Event)]
  BY EventAssumption, TplAssumption DEF TPL_APPLICATION, Notifiable, TypeInv, QueuesOK
<1>2. gEventQueue' = [gEventQueue EXCEPT ![l] = a]
  BY DEF CoreNotifyEvent
<1>3. q \in Seq(Event) /\ \A i, j \in 1 .. Len(q) : q[i] = q[j] => i = j
  BY <1>1 DEF QueueInv, QueuedOnceAtNotifyTpl
<1> HIDE DEF q
<1>4. /\ r \in Seq(Event)
      /\ \A i \in 1 .. Len(r) : r[i] # x /\ \E j \in 1 .. Len(q) : r[i] = q[j]
      /\ \A i \in 1 .. Len(q) : q[i] # x => \E j \in 1 .. Len(r) : r[j] = q[i]
  BY <1>3, RemoveEntryListProperties
<1> HIDE DEF r
<1>5. /\ Len(a) = Len(r) + 1 /\ Len(r) \in Nat
      /\ \A i \in 1 .. Len(r) : a[i] = r[i]
      /\ a[Len(r) + 1] = x
  BY <1>1, <1>4, AppendProperties, LenProperties
<1> HIDE DEF a
<1>6. (\E i \in 1 .. Len(a) : a[i] = e) <=> (\E i \in 1 .. Len(q) : q[i] = e) \/ e = x
  <2>1. \A i \in 1 .. Len(a) : i \in 1 .. Len(r) \/ i = Len(r) + 1
    BY <1>5
  <2>2. Len(r) + 1 \in 1 .. Len(a) /\ 1 .. Len(r) \subseteq 1 .. Len(a)
    BY <1>5
  <2>3. (\E i \in 1 .. Len(a) : a[i] = e) <=> (\E i \in 1 .. Len(r) : r[i] = e) \/ e = x
    BY <1>5, <2>1, <2>2
  <2>4. (\E i \in 1 .. Len(r) : r[i] = e) => \E i \in 1 .. Len(q) : q[i] = e
    BY <1>4
  <2>5. (\E i \in 1 .. Len(q) : q[i] = e) => (\E i \in 1 .. Len(r) : r[i] = e) \/ e = x
    BY <1>4
  <2> QED BY <2>3, <2>4, <2>5
<1> HIDE DEF l
<1>7. gEventQueue'[l] = a /\ \A t \in Tpl : t # l => gEventQueue'[t] = gEventQueue[t]
  BY <1>1, <1>2
<1> QED BY <1>1, <1>6, <1>7 DEF Queued, q

LEMMA QueuedAfterDispatch ==
  ASSUME TypeInv, QueueInv, DispatchNext, NEW e
  PROVE  /\ Queued(e)' => Queued(e)
         /\ Queued(e) => Queued(e)' \/ e = Head(gEventQueue[Top.lvl])
         /\ Queued(Head(gEventQueue[Top.lvl]))
<1> DEFINE l == Top.lvl
           q == gEventQueue[l]
           r == Tail(q)
<1>1. l \in Tpl /\ gEventQueue \in [Tpl -> Seq(Event)]
  BY RunningOK DEF TypeInv, QueuesOK
<1>2. gEventQueue' = [gEventQueue EXCEPT ![l] = r] /\ q # <<>>
  BY DEF DispatchNext
<1>3. q \in Seq(Event)
  BY <1>1
<1> HIDE DEF q
<1>4. /\ Len(r) = Len(q) - 1 /\ Len(q) \in Nat /\ Len(q) > 0 /\ q[1] = Head(q)
      /\ \A i \in 1 .. Len(r) : r[i] = q[i + 1]
  BY <1>2, <1>3, HeadTailProperties, LenProperties, EmptySeq
<1> HIDE DEF r
<1>5. (\E i \in 1 .. Len(r) : r[i] = e) => \E i \in 1 .. Len(q) : q[i] = e
  BY <1>4
<1>6. (\E i \in 1 .. Len(q) : q[i] = e) => (\E i \in 1 .. Len(r) : r[i] = e) \/ e = Head(q)
  <2>1. ASSUME NEW i \in 1 .. Len(q), i # 1
        PROVE  i - 1 \in 1 .. Len(r) /\ r[i - 1] = q[i]
    <3>1. i - 1 \in 1 .. Len(r) /\ (i - 1) + 1 = i
      BY <1>4, <2>1
    <3>2. r[i - 1] = q[(i - 1) + 1]
      BY <1>4, <3>1
    <3> QED BY <3>1, <3>2
  <2> QED BY <1>4, <2>1
<1>7. 1 \in 1 .. Len(q)
  BY <1>4
<1> HIDE DEF l
<1>8. gEventQueue'[l] = r /\ \A t \in Tpl : t # l => gEventQueue'[t] = gEventQueue[t]
  BY <1>1, <1>2
<1>9. Queued(Head(q))
  BY <1>1, <1>4, <1>7 DEF Queued, q
<1> QED BY <1>1, <1>5, <1>6, <1>8, <1>9 DEF Queued, q, l

LEMMA QueuedAfterClose ==
  ASSUME TypeInv, QueueInv, NEW x \in Event, CoreCloseEvent(x), NEW e
  PROVE  Queued(e)' <=> Queued(e) /\ e # x
<1> DEFINE l == NotifyTpl[x]
           q == gEventQueue[l]
           r == RemoveEntryList(q, x)
<1>1. gEventQueue \in [Tpl -> Seq(Event)]
  BY DEF TypeInv, QueuesOK
<1>2. gEventQueue' = [gEventQueue EXCEPT ![l] = r]
  BY DEF CoreCloseEvent
<1>3. \A t \in Tpl : \A i \in 1 .. Len(gEventQueue[t]) : gEventQueue[t][i] = x => t = l
  BY DEF QueueInv, QueuedOnceAtNotifyTpl
<1>4. CASE l \in Tpl
  <2>1. q \in Seq(Event) /\ \A i, j \in 1 .. Len(q) : q[i] = q[j] => i = j
    BY <1>1, <1>4 DEF QueueInv, QueuedOnceAtNotifyTpl
  <2> HIDE DEF q
  <2>2. /\ \A i \in 1 .. Len(r) : r[i] # x /\ \E j \in 1 .. Len(q) : r[i] = q[j]
        /\ \A i \in 1 .. Len(q) : q[i] # x => \E j \in 1 .. Len(r) : r[j] = q[i]
    BY <2>1, RemoveEntryListProperties
  <2> HIDE DEF r
  <2>3. (\E i \in 1 .. Len(r) : r[i] = e) <=> (\E i \in 1 .. Len(q) : q[i] = e) /\ e # x
    BY <2>2
  <2> HIDE DEF l
  <2>4. gEventQueue'[l] = r /\ \A t \in Tpl : t # l => gEventQueue'[t] = gEventQueue[t]
    BY <1>1, <1>2, <1>4
  <2> QED BY <1>3, <1>4, <2>3, <2>4 DEF Queued, q
<1>5. CASE l \notin Tpl
  <2> HIDE DEF l, r
  <2>1. gEventQueue' = gEventQueue
    BY <1>1, <1>2, <1>5
  <2>2. ~Queued(x)
    BY <1>3, <1>5 DEF Queued
  <2>3. Queued(e)' <=> Queued(e)
    BY <2>1 DEF Queued
  <2> QED BY <2>2, <2>3
<1> QED BY <1>4, <1>5

(* Every event is valid when it is put on its queue, but one that a        *)
(* protocol notification signals while it is closed.                       *)
LEMMA NotifiedIsValid ==
  ASSUME TypeInv, LifeInv, [Next]_vars
  PROVE  \/ UNCHANGED gEventQueue
         \/ \E e \in Valid \cap Notifiable : CoreNotifyEvent(e)
         \/ \E e \in Event : /\ CoreNotifyProtocolEntry(e) /\ ~Grouped(e)
                             /\ e \in NotifySignal /\ CoreNotifyEvent(e)
         \/ DispatchNext
         \/ \E e \in Event : CoreCloseEvent(e)
<1> DEFINE Ok == \/ UNCHANGED gEventQueue
                 \/ \E e \in Valid \cap Notifiable : CoreNotifyEvent(e)
<1>0. Core \subseteq Valid \cap NotifySignal /\ NotifySignal \subseteq Notifiable /\ Core \subseteq Event
  BY CoreEventAssumption, EventAssumption DEF LifeInv, OwnersKeep, Core, Notifiable
<1>1. ASSUME NEW e \in Valid, NEW s, Signal(e, s)
      PROVE  Ok
  BY <1>0, <1>1 DEF Signal, queues
<1>2. CASE CoreStep
  <2>1. CASE NotifySignalListStep
    <3>1. Link \in 1 .. Len(gEventSignalQueue)
      BY <2>1, LenProperties DEF NotifySignalListStep, TypeInv, CursorsOK, LifetimesOK
    <3>2. gEventSignalQueue[Link] \in Valid \cap NotifySignal
      BY <3>1 DEF LifeInv, SignalQueueLists
    <3> QED BY <1>0, <2>1, <3>2 DEF NotifySignalListStep
  <2>2. CASE CheckQueue
    <3>1. Top.pc = "queue" /\ Top.ev \in NotifyWait
      BY <2>2, RunningOK DEF CheckQueue, Running
    <3>2. Len(stack) \in 1 .. Len(stack)
      BY TopOK DEF TypeInv
    <3>3. Top.ev \in Valid
      BY <3>1, <3>2 DEF LifeInv, UsedAreValid, Top
    <3> QED BY <2>2, <3>1, <3>3 DEF CheckQueue, Notifiable
  <2>3. CASE WaitIdle
    BY <1>0, <1>1, <2>3 DEF WaitIdle, Core
  <2>4. CASE \/ RestoreTplDispatch \/ RestoreTplExitLoop \/ RestoreTplSet
             \/ DispatchCall \/ NotifySignalListLock \/ NotifySignalListUnlock
             \/ SignalRelock \/ CheckAgain \/ CheckClear \/ DispatchDone
    BY <2>4
       DEF RestoreTplDispatch, RestoreTplExitLoop, RestoreTplSet, DispatchCall,
           NotifySignalListLock, NotifySignalListUnlock, SignalRelock, CheckAgain,
           CheckClear, DispatchDone, queues
  <2>5. CASE WaitCheck \/ WaitNotReady \/ WaitReturn \/ FreeEvent \/ InterruptReturn
    BY <2>5 DEF WaitCheck, WaitNotReady, WaitReturn, FreeEvent, InterruptReturn, queues
  <2> QED
    BY <1>2, <2>1, <2>2, <2>3, <2>4, <2>5 DEF CoreStep
<1>3. CASE Service
  <2>1. ASSUME NEW e \in Event, CoreSignalEvent(e)
        PROVE  Ok
    BY <2>1, <1>1 DEF CoreSignalEvent, Valid
  <2>2. ASSUME NEW e \in Event, CoreNotifyProtocolEntry(e)
        PROVE  UNCHANGED gEventQueue \/ (~Grouped(e) /\ e \in NotifySignal /\ CoreNotifyEvent(e))
    BY <2>2 DEF CoreNotifyProtocolEntry, Signal, queues
  <2>3. ASSUME NEW e \in Event,
               CoreCheckEvent(e) \/ CoreCreateEvent(e) \/ CoreRegisterProtocolNotify(e)
        PROVE  UNCHANGED gEventQueue
    BY <2>3 DEF CoreCheckEvent, CoreCreateEvent, CoreRegisterProtocolNotify, queues
  <2>4. ASSUME NEW t \in Tpl, CoreRaiseTpl(t) \/ CoreRestoreTpl(t)
        PROVE  UNCHANGED gEventQueue
    BY <2>4 DEF CoreRaiseTpl, CoreRestoreTpl, queues
  <2>5. CASE CoreWaitForEvent
    BY <2>5 DEF CoreWaitForEvent, queues
  <2>6. Registrable \subseteq Event
    BY EventAssumption, CoreEventAssumption
  <2> QED
    BY <1>3, <2>1, <2>2, <2>3, <2>4, <2>5, <2>6 DEF Service
<1>4. CASE NotifyReturn
  BY <1>4 DEF NotifyReturn, queues
<1>5. CASE \E tick \in BOOLEAN : Interrupt(tick)
  BY <1>0, <1>5 DEF Interrupt, queues, Core
<1>6. CASE UNCHANGED vars
  BY <1>6 DEF vars
<1> QED
  BY <1>2, <1>3, <1>4, <1>5, <1>6 DEF Next

-----------------------------------------------------------------------------
(* SignalNotLost.  A signal stays with its event until the dispatcher has  *)
(* taken it: as a place on the queue, or as a walk that is still to come   *)
(* to it, because gEventSignalQueue lists it and only changes where nobody *)
(* holds the lock.                                                         *)

LEMMA QueuedSteps ==
  ASSUME TypeInv, QueueInv, LifeInv, [Next]_vars, NEW e, Queued(e)
  PROVE  \/ Queued(e)'
         \/ DispatchNext /\ e = Head(gEventQueue[Top.lvl])
         \/ e \in Event /\ CoreCloseEvent(e)
<1>1. CASE UNCHANGED gEventQueue
  BY <1>1 DEF Queued
<1>2. CASE \E x \in Notifiable : CoreNotifyEvent(x)
  BY <1>2, QueuedAfterNotify
<1>3. CASE DispatchNext
  BY <1>3, QueuedAfterDispatch
<1>4. CASE \E x \in Event : CoreCloseEvent(x)
  BY <1>4, QueuedAfterClose
<1> QED BY <1>1, <1>2, <1>3, <1>4, NotifiedIsValid DEF Notifiable

(* How SignalCount becomes 1.                                              *)
LEMMA SignalRaises ==
  ASSUME TypeInv, QueueInv, NEW x \in Event, NEW s, StackOK(s), Signal(x, s),
         NEW e \in NotifySignal, SignalCount[e] # 1, SignalCount'[e] = 1
  PROVE  Queued(e)' \/ WalkPending(e)'
<1>1. e \in Event /\ SignalCount \in [Event -> {0, 1}] /\ gEfiCurrentTpl \in Tpl
  BY EventAssumption DEF TypeInv, QueuesOK, CpuOK
<1>2. SignalCount' = [SignalCount EXCEPT ![x] = 1]
  BY <1>1 DEF Signal, queues
<1>3. x = e
  BY <1>1, <1>2
<1>4. CASE ~Grouped(e)
  <2>1. CoreNotifyEvent(e)
    BY <1>1, <1>2, <1>3, <1>4 DEF Signal, queues
  <2> QED BY <2>1, QueuedAfterNotify DEF Notifiable
<1>5. CASE Grouped(e)
  <2> DEFINE f == Frame("group", e, gEfiCurrentTpl)
  <2>1. CoreReleaseEventLock(Append(s, f))
    BY <1>1, <1>2, <1>3, <1>5 DEF Signal, queues
  <2>2. f \in Frames /\ Frame("restore", NoEvent, gEfiCurrentTpl) \in Frames
    BY <1>1, FrameOK DEF Pc, OnEvent
  <2>3. f.pc = "group" /\ f.ev = e
    BY FrameParts
  <2> HIDE DEF f
  <2>4. /\ Append(s, f) \in Seq(Frames) /\ Append(s, f)[Len(s) + 1] = f
        /\ Len(Append(s, f)) = Len(s) + 1 /\ Len(s) \in Nat
    BY <2>2, AppendProperties, LenProperties DEF StackOK
  <2>5. stack'[Len(s) + 1] = f /\ Len(s) + 1 \in 1 .. Len(stack')
    BY <2>1, <2>2, <2>4, AppendProperties DEF CoreReleaseEventLock
  <2> QED BY <1>1, <1>5, <2>3, <2>5 DEF WalkPending, Grouped
<1> QED BY <1>4, <1>5

LEMMA CountSteps ==
  ASSUME TypeInv, QueueInv, [Next]_vars,
         NEW e \in NotifySignal, SignalCount[e] # 1, SignalCount'[e] = 1
  PROVE  Queued(e)' \/ WalkPending(e)'
<1>0. e \in Event /\ SignalCount \in [Event -> {0, 1}] /\ StackOK(stack)
  BY EventAssumption DEF TypeInv, QueuesOK
<1>1. ~UNCHANGED SignalCount
  BY <1>0
<1>2. CASE WaitIdle
  <2>1. StackOK(Goto(Frame("wait", NoEvent, Top.lvl)))
    BY <1>2, RunningOK, FrameOK, GotoOK DEF WaitIdle, Running, Goto, Pc, OnEvent
  <2>2. gIdleLoopEvent \in Event
    BY CoreEventAssumption, EventAssumption
  <2> QED BY <1>2, <2>1, <2>2, SignalRaises DEF WaitIdle
<1>3. CASE \E x \in Event : CoreSignalEvent(x) \/ CoreNotifyProtocolEntry(x)
  BY <1>0, <1>3, SignalRaises DEF CoreSignalEvent, CoreNotifyProtocolEntry
<1>4. CASE \E tick \in BOOLEAN : Interrupt(tick)
  <2>1. mEfiCheckTimerEvent \in NotifySignal /\ mEfiCheckTimerEvent \in Event
    BY CoreEventAssumption, EventAssumption
  <2>2. /\ SignalCount' = [SignalCount EXCEPT ![mEfiCheckTimerEvent] = 1]
        /\ CoreNotifyEvent(mEfiCheckTimerEvent)
    BY <1>1, <1>4 DEF Interrupt, queues
  <2>3. e = mEfiCheckTimerEvent
    BY <1>0, <2>1, <2>2
  <2> QED BY <2>1, <2>2, <2>3, QueuedAfterNotify DEF Notifiable
<1>5. CASE DispatchNext \/ CheckClear \/ FreeEvent \/ \E x \in Event : CoreCreateEvent(x)
  <2>1. PICK x : SignalCount' = [SignalCount EXCEPT ![x] = 0]
    BY <1>1, <1>5 DEF DispatchNext, CheckClear, FreeEvent, CoreCreateEvent
  <2> QED BY <1>0, <2>1
<1>6. CASE CoreStep
  <2>1. WaitIdle \/ DispatchNext \/ CheckClear \/ FreeEvent
    BY <1>1, <1>6
       DEF CoreStep, RestoreTplDispatch, RestoreTplExitLoop, RestoreTplSet, DispatchCall,
           DispatchDone, NotifySignalListLock, NotifySignalListStep, NotifySignalListUnlock,
           SignalRelock, CheckQueue, CheckAgain, WaitCheck, WaitNotReady, WaitReturn,
           InterruptReturn, queues
  <2> QED BY <1>2, <1>5, <2>1
<1>7. CASE Service
  <2>1. \E x \in Event : CoreSignalEvent(x) \/ CoreNotifyProtocolEntry(x) \/ CoreCreateEvent(x)
    BY <1>1, <1>7 DEF Service, CoreRaiseTpl, CoreRestoreTpl, CoreCheckEvent, CoreCloseEvent,
                      CoreRegisterProtocolNotify, CoreWaitForEvent, queues
  <2> QED BY <1>3, <1>5, <2>1
<1>8. CASE NotifyReturn \/ UNCHANGED vars
  BY <1>1, <1>8 DEF NotifyReturn, vars, queues
<1> QED BY <1>4, <1>6, <1>7, <1>8 DEF Next

LEMMA WalkStays ==
  ASSUME TypeInv, QueueInv, TplInv, LifeInv, [Next]_vars,
         NEW e \in Valid \cap NotifySignal, WalkPending(e)
  PROVE  Queued(e)' \/ WalkPending(e)'
<1> DEFINE n == Len(stack)
<1>1. n \in Nat \ {0} /\ StackOK(stack) /\ Top = stack[n] /\ Top.lvl \in Tpl /\ gEfiCurrentTpl \in Tpl
  BY TopOK, RunningOK DEF TypeInv, CpuOK, Top
<1>2. PICK i \in 1 .. n :
        /\ Grouped(e) /\ stack[i].ev \in Event /\ EventGroup[stack[i].ev] = EventGroup[e]
        /\ \/ stack[i].pc = "group"
           \/ /\ stack[i].pc = "list"
              /\ \E k \in Link .. Len(gEventSignalQueue) : gEventSignalQueue[k] = e
  BY DEF WalkPending
<1>3. ASSUME stack[i].pc = "group", i \in 1 .. Len(stack'), stack'[i] = stack[i]
      PROVE  WalkPending(e)'
  BY <1>2, <1>3 DEF WalkPending, Grouped
<1>4. CASE i < n
  <2>1. Above(stack[i], stack[i + 1])
    BY <1>1, <1>4 DEF TplInv, Disciplined
  <2>2. stack[i].pc = "group"
    BY <1>2, <2>1 DEF Above, Resumes
  <2> QED BY <1>1, <1>3, <1>4, <2>2, BelowStays
<1>5. CASE i = n /\ Top.pc = "group"
  <2>1. CASE UNCHANGED vars
    BY <1>1, <1>3, <1>5, <2>1 DEF vars
  <2>2. CASE \E tick \in BOOLEAN : Interrupt(tick)
    BY <1>1, <1>3, <1>5, <2>2, CallerStays
  <2>3. CASE NotifySignalListLock
    <3> DEFINE f == Frame("list", Top.ev, gEfiCurrentTpl)
    <3>1. f \in Frames /\ f.pc = "list" /\ f.ev = Top.ev
      BY <1>1, <1>2, <1>5, FrameOK, FrameParts DEF Pc, OnEvent
    <3>2. stack' = Append(Front(stack), f) /\ Link' = 1 /\ gEventSignalQueue' = gEventSignalQueue
      BY <2>3 DEF NotifySignalListLock, Goto, lifetimes
    <3> HIDE DEF f
    <3>3. n > 1
      BY <1>1, <1>5, RunningOK
    <3>4. Front(stack) \in Seq(Frames) /\ Len(Front(stack)) = n - 1
      BY <1>1, <3>3, FrontProperties DEF StackOK
    <3>5. Len(stack') = n /\ stack'[n] = f
      BY <1>1, <3>1, <3>2, <3>4, AppendProperties
    <3>6. \E k \in 1 .. Len(gEventSignalQueue) : gEventSignalQueue[k] = e
      BY DEF LifeInv, SignalQueueLists
    <3>7. \E k \in Link' .. Len(gEventSignalQueue') : gEventSignalQueue'[k] = e
      BY <3>2, <3>6
    <3> QED BY <1>1, <1>2, <1>5, <3>1, <3>5, <3>7 DEF WalkPending, Grouped
  <2> QED BY <1>5, <2>1, <2>2, <2>3, TopSteps
<1>6. CASE i = n /\ Top.pc = "list"
  <2>1. PICK k \in Link .. Len(gEventSignalQueue) : gEventSignalQueue[k] = e
    BY <1>1, <1>2, <1>6
  <2>2. Link \in Nat /\ Len(gEventSignalQueue) \in Nat /\ Link <= Len(gEventSignalQueue)
    BY <2>1, LenProperties DEF TypeInv, CursorsOK, LifetimesOK
  <2>3. ~NotifySignalListUnlock
    BY <2>2 DEF NotifySignalListUnlock
  <2>4. \A tick \in BOOLEAN : ~Interrupt(tick)
    BY <1>6 DEF TplInv, Executes, HighLevelMasksInterrupts, Interrupt, TPL_HIGH_LEVEL
  <2>5. CASE NotifySignalListStep /\ k = Link
    <3>1. CoreNotifyEvent(e)
      BY <1>1, <1>2, <1>6, <2>1, <2>5 DEF NotifySignalListStep
    <3> QED BY <3>1, QueuedAfterNotify DEF Notifiable
  <2>6. CASE NotifySignalListStep /\ k # Link
    <3>1. Link' = Link + 1 /\ UNCHANGED <<stack, gEventSignalQueue>>
      BY <2>6 DEF NotifySignalListStep, lifetimes
    <3>2. k \in Link' .. Len(gEventSignalQueue') /\ gEventSignalQueue'[k] = e
      BY <2>1, <2>2, <2>6, <3>1
    <3> QED BY <1>1, <1>2, <1>6, <3>1, <3>2 DEF WalkPending, Grouped
  <2>7. CASE UNCHANGED vars
    <3>1. UNCHANGED <<stack, gEventSignalQueue, Link>>
      BY <2>7 DEF vars
    <3> QED BY <3>1 DEF WalkPending
  <2> QED BY <1>6, <2>3, <2>4, <2>5, <2>6, <2>7, TopSteps
<1> QED BY <1>1, <1>2, <1>4, <1>5, <1>6

LEMMA SignalNotLostNext ==
  ASSUME TypeInv, QueueInv, TplInv, LifeInv, SignalNotLost, [Next]_vars
  PROVE  SignalNotLost'
<1>0. SignalCount \in [Event -> {0, 1}] /\ NotifySignal \subseteq Event
  BY EventAssumption DEF TypeInv, QueuesOK
<1>1. ASSUME NEW e \in Valid' \cap NotifySignal, SignalCount'[e] = 1
      PROVE  Queued(e)' \/ WalkPending(e)'
  <2>1. e \in Valid
    <3>1. ~CoreCreateEvent(e)
      BY <1>0, <1>1 DEF CoreCreateEvent
    <3> QED BY <1>1, <3>1, ValidSteps DEF LifeInv
  <2>2. ~CoreCloseEvent(e)
    <3>1. CoreCloseEvent(e) => e \in Closing'
      BY <1>0, <1>1, ClosingAfterClose
    <3> QED BY <1>1, <3>1 DEF Valid
  <2>3. CASE SignalCount[e] # 1
    BY <1>1, <2>3, CountSteps
  <2>4. CASE Queued(e)
    <3>1. DispatchNext => e # Head(gEventQueue[Top.lvl])
      BY <1>0, <1>1 DEF DispatchNext
    <3> QED BY <2>2, <2>4, <3>1, QueuedSteps
  <2>5. CASE WalkPending(e)
    BY <1>1, <2>1, <2>5, WalkStays
  <2> QED BY <1>1, <2>1, <2>3, <2>4, <2>5 DEF SignalNotLost, Valid
<1> QED BY <1>1 DEF SignalNotLost, Valid

(* A signalled event is never forgotten: while SignalCount keeps later     *)
(* signals from queueing it, it is on its queue, or a walk of its group    *)
(* will still come to it.                                                  *)
THEOREM SignalsAreKept == Spec => []SignalNotLost
<1>1. Init => SignalNotLost
  <2> SUFFICES ASSUME Init PROVE SignalNotLost
    OBVIOUS
  <2>1. \A e \in NotifySignal : SignalCount[e] # 1
    BY EventAssumption DEF Init
  <2> QED BY <2>1 DEF SignalNotLost
<1>2. TypeInv /\ QueueInv /\ TplInv /\ LifeInv /\ SignalNotLost /\ [Next]_vars => SignalNotLost'
  BY SignalNotLostNext
<1> QED BY <1>1, <1>2, LifeInvariant, PTL DEF Spec

-----------------------------------------------------------------------------
(* QueuedIsLive.  A protocol notification may queue an event while it is   *)
(* closed, up to the moment CoreUnregisterProtocolNotify returns.  It does *)
(* so above the CoreRestoreTpl of CoreCloseEvent or of an interrupt after  *)
(* it, which is not done before it has dispatched the event: as long as    *)
(* the event's level is no lower than those protocols are installed at.    *)

NotifiedInTime == \A e \in Registrable : Grouped(e) \/ NotifyTpl[e] >= TPL_NOTIFY

CallsAreLive ==
  \A i \in 1 .. Len(stack) : stack[i].pc = "call" =>
    /\ stack[i].ev \in live \cap Notifiable
    /\ \A j \in 1 .. Len(stack) : stack[j].pc = "closing" /\ stack[j].ev = stack[i].ev => j < i

Due(i, e) ==
  \E j \in 1 .. Len(stack) : i < j /\ stack[j].pc = "restore" /\ stack[j].lvl < NotifyTpl[e]

QueuedAreDue ==
  \A e : Queued(e) =>
    /\ e \in live \cap Notifiable
    /\ \A i \in 1 .. Len(stack) : stack[i].pc = "closing" /\ stack[i].ev = e => Due(i, e)

DueInv == CallsAreLive /\ QueuedAreDue

LEMMA LiveStays ==
  ASSUME [Next]_vars, NEW e \in live, FreeEvent => e # Top.ev
  PROVE  e \in live'
<1>1. CASE FreeEvent
  BY <1>1 DEF FreeEvent
<1>2. CASE ~FreeEvent
  BY <1>2, LiveSteps DEF lifetimes, CoreCreateEvent, CoreCloseEvent, CoreRegisterProtocolNotify
<1> QED BY <1>1, <1>2

LEMMA OpenClosings ==
  ASSUME TypeInv, TplInv, OpenStep, NEW i \in 1 .. Len(stack'), stack'[i].pc = "closing"
  PROVE  i \in 1 .. Len(stack) /\ stack'[i] = stack[i]
<1>1. PICK D : Grown(stack, stack', 0, Fresh({}, D))
  BY FreshSteps
<1>2. Len(stack) \in Nat
  BY TopOK DEF TypeInv
<1> QED BY <1>1, <1>2 DEF Grown, Fresh

LEMMA CallsAreLiveNext ==
  ASSUME TypeInv, QueueInv, TplInv, LifeInv, DueInv, [Next]_vars
  PROVE  CallsAreLive'
<1>1. /\ Len(stack) \in 1 .. Len(stack) /\ Len(stack) \in Nat /\ Top = stack[Len(stack)]
      /\ Top.lvl \in Nat /\ gEfiCurrentTpl \in Nat
      /\ Top.pc = "run" => Top.lvl <= gEfiCurrentTpl
  BY TopOK, InvFacts DEF TypeInv, Top, Resumes
<1>2. ASSUME NEW i \in 1 .. Len(stack), stack[i].pc = "call"
      PROVE  stack[i].ev \in live' \cap Notifiable
  <2>1. stack[i].ev \in live \cap Notifiable
    BY <1>2 DEF DueInv, CallsAreLive
  <2>2. FreeEvent => stack[i].ev # Top.ev
    <3>1. CASE FreeEvent /\ stack[i].ev = Top.ev
      <4>1. Len(stack) < i
        BY <1>1, <1>2, <3>1 DEF DueInv, CallsAreLive, FreeEvent, Running
      <4> QED BY <1>1, <4>1
    <3> QED BY <3>1
  <2> QED BY <2>1, <2>2, LiveStays
<1>3. ASSUME NEW e \in Event, CoreCloseEvent(e), NEW i \in 1 .. Len(stack), stack[i].pc = "call"
      PROVE  stack[i].ev # e
  <2>1. (Top.pc = "run" /\ gEfiCurrentTpl <= NotifyTpl[e]) \/ e \notin Notifiable
    BY <1>3 DEF CoreCloseEvent, OwnerMayClose, Running, Notifiable
  <2>2. Top.pc = "run"
    BY <1>3 DEF CoreCloseEvent, OwnerMayClose, Running
  <2>3. i \in 1 .. Len(stack) - 1
    BY <1>1, <1>3, <2>2
  <2>4. stack[i].lvl < Top.lvl
    BY <1>3, <2>2, <2>3, RunIsDispatched
  <2>5. stack[i].ev \in Notifiable /\ stack[i].ev \in Event
    BY <1>3, EventAssumption DEF DueInv, CallsAreLive, Notifiable
  <2>6. stack[i].lvl = NotifyTpl[stack[i].ev]
    BY <1>3, <2>5 DEF TplInv, Disciplined, Entered
  <2>7. stack[i].lvl \in Nat
    BY TopOK, LevelsAreNumbers DEF TypeInv
  <2> QED BY <1>1, <2>1, <2>2, <2>4, <2>5, <2>6, <2>7
<1>4. CASE \E e \in Event : CoreCloseEvent(e)
  <2>1. PICK e \in Event : CoreCloseEvent(e)
    BY <1>4
  <2>2. ASSUME NEW i \in 1 .. Len(stack'), stack'[i].pc = "call"
        PROVE  /\ stack'[i].ev \in live' \cap Notifiable
               /\ \A j \in 1 .. Len(stack') :
                    stack'[j].pc = "closing" /\ stack'[j].ev = stack'[i].ev => j < i
    <3>1. i \in 1 .. Len(stack) /\ stack'[i] = stack[i]
      BY <2>1, <2>2, CloseStack, FrameParts
    <3>2. ASSUME NEW j \in 1 .. Len(stack'), stack'[j].pc = "closing", stack'[j].ev = stack'[i].ev
          PROVE  j < i
      <4>1. stack'[j].ev # e
        BY <1>3, <2>1, <2>2, <3>1, <3>2
      <4>2. j \in 1 .. Len(stack) /\ stack'[j] = stack[j]
        BY <2>1, <3>2, <4>1, CloseStack, FrameParts
      <4> QED BY <2>2, <3>1, <3>2, <4>2 DEF DueInv, CallsAreLive
    <3> QED BY <1>2, <2>2, <3>1, <3>2
  <2> QED BY <2>2 DEF CallsAreLive
<1>5. CASE OpenStep
  <2>1. ASSUME NEW i \in 1 .. Len(stack'), stack'[i].pc = "call"
        PROVE  /\ stack'[i].ev \in live' \cap Notifiable
               /\ \A j \in 1 .. Len(stack') :
                    stack'[j].pc = "closing" /\ stack'[j].ev = stack'[i].ev => j < i
    <3>1. CASE i \in 1 .. Len(stack) /\ stack'[i] = stack[i]
      BY <1>2, <1>5, <2>1, <3>1, OpenClosings DEF DueInv, CallsAreLive
    <3>2. CASE ~(i \in 1 .. Len(stack) /\ stack'[i] = stack[i])
      <4>1. DispatchNext /\ stack'[i].ev = Head(gEventQueue[Top.lvl])
        <5>1. ASSUME NEW D, Grown(stack, stack', 0, Fresh({}, D))
              PROVE  stack'[i].ev \in D
          <6>1. stack'[i] \in Fresh({}, D)
            BY <1>1, <2>1, <3>2, <5>1 DEF Grown
          <6> QED BY <2>1, <6>1 DEF Fresh
        <5>2. DispatchNext
          BY <1>5, <5>1, FreshSteps
        <5> QED BY <5>1, <5>2, FreshSteps
      <4>2. stack'[i].ev \in live \cap Notifiable
        BY <4>1, QueuedAfterDispatch DEF DueInv, QueuedAreDue
      <4>3. stack'[i].ev \in live'
        BY <4>1, <4>2 DEF DispatchNext, lifetimes
      <4>4. ASSUME NEW j \in 1 .. Len(stack'), stack'[j].pc = "closing"
            PROVE  j < i
        <5>1. j \in 1 .. Len(stack) /\ stack[j].pc = "closing"
          BY <1>5, <4>4, OpenClosings
        <5>2. j # Len(stack)
          BY <1>1, <4>1, <5>1 DEF DispatchNext, Running
        <5>3. j \in 1 .. Len(stack) - 1
          BY <1>1, <5>1, <5>2
        <5>4. \A k \in 1 .. j : stack'[k] = stack[k]
          BY <5>1, <5>3, BelowStays
        <5>5. ~(i \in 1 .. j)
          BY <1>1, <3>2, <5>3, <5>4
        <5> QED BY <5>3, <5>5
      <4> QED BY <4>2, <4>3, <4>4
    <3> QED BY <3>1, <3>2
  <2> QED BY <2>1 DEF CallsAreLive
<1> QED BY <1>4, <1>5, OpenSteps

(* The CoreRestoreTpl that has to dispatch the event goes on.              *)
LEMMA DueStays ==
  ASSUME TypeInv, QueueInv, TplInv, [Next]_vars, NEW e, Queued(e), NEW i \in Nat, Due(i, e)
  PROVE  Due(i, e)'
<1>1. Len(stack) \in Nat /\ Top = stack[Len(stack)] /\ StackOK(stack)
  BY TopOK DEF TypeInv, Top
<1>2. PICK j \in 1 .. Len(stack) : i < j /\ stack[j].pc = "restore" /\ stack[j].lvl < NotifyTpl[e]
  BY DEF Due
<1>3. ASSUME j \in 1 .. Len(stack'), stack'[j] = stack[j]
      PROVE  Due(i, e)'
  BY <1>2, <1>3 DEF Due
<1>4. CASE j < Len(stack)
  BY <1>1, <1>2, <1>3, <1>4, BelowStays
<1>5. CASE j = Len(stack)
  <2>1. NotifyTpl[e] \in gEventPending
    BY DEF Queued, QueueInv, QueuedOnceAtNotifyTpl, QueuedIsPending, TypeInv, QueuesOK
  <2>2. NotifyTpl[e] \in Nat /\ Top.lvl \in Nat
    BY <2>1, InvFacts, LevelsAreNumbers DEF TypeInv, QueuesOK
  <2>3. ~RestoreTplExitLoop
    BY <1>1, <1>2, <1>5, <2>1, <2>2 DEF RestoreTplExitLoop
  <2>4. CASE RestoreTplDispatch
    <3>1. PICK f : stack' = Append(stack, f)
      BY <2>4 DEF RestoreTplDispatch, Push
    <3>2. f \in Frames
      <4>1. StackOK(stack')
        BY TypeInvNext DEF TypeInv
      <4>2. Len(stack') = Len(stack) + 1 /\ stack'[Len(stack) + 1] = f
        BY <1>1, <3>1
      <4> QED BY <1>1, <4>1, <4>2, TopOK
    <3>3. Len(stack') = Len(stack) + 1 /\ \A k \in 1 .. Len(stack) : stack'[k] = stack[k]
      BY <1>1, <3>1, <3>2, AppendProperties DEF StackOK
    <3> QED BY <1>1, <1>3, <3>3
  <2>5. CASE \E tick \in BOOLEAN : Interrupt(tick)
    BY <1>3, <1>5, <2>5, CallerStays
  <2>6. CASE UNCHANGED vars
    BY <1>3, <2>6 DEF vars
  <2> QED BY <1>1, <1>2, <1>5, <2>3, <2>4, <2>5, <2>6, TopSteps
<1> QED BY <1>1, <1>4, <1>5

LEMMA NotifyLevelsAreNumbers ==
  ASSUME NEW e \in Event
  PROVE  NotifyTpl[e] \in Nat
<1>1. NotifyTpl[e] \in Tpl \cup {0}
  BY EventAssumption
<1>2. CASE NotifyTpl[e] \in Tpl
  BY <1>2, LevelsAreNumbers
<1>3. CASE NotifyTpl[e] \notin Tpl
  <2>1. NotifyTpl[e] = 0
    BY <1>1, <1>3
  <2>2. 0 \in Nat
    OBVIOUS
  <2> QED BY <2>1, <2>2, Zenon
<1> QED BY <1>2, <1>3

LEMMA QueuedAreDueNext ==
  ASSUME NotifiedInTime, TypeInv, QueueInv, TplInv, LifeInv, DueInv, [Next]_vars
  PROVE  QueuedAreDue'
<1>1. /\ Len(stack) \in 1 .. Len(stack) /\ Len(stack) \in Nat /\ Top = stack[Len(stack)]
      /\ Top.lvl \in Nat /\ gEfiCurrentTpl \in Nat
      /\ Top.pc = "run" => Top.lvl <= gEfiCurrentTpl
  BY TopOK, InvFacts DEF TypeInv, Top, Resumes
<1>2. ASSUME NEW e, Queued(e), Queued(e)'
      PROVE  /\ e \in live' \cap Notifiable
             /\ \A i \in 1 .. Len(stack') :
                  stack'[i].pc = "closing" /\ stack'[i].ev = e => Due(i, e)'
  <2>1. e \in live \cap Notifiable
    BY <1>2 DEF DueInv, QueuedAreDue
  <2>2. CASE FreeEvent /\ e = Top.ev
    <3>1. Due(Len(stack), e)
      BY <1>1, <1>2, <2>2 DEF DueInv, QueuedAreDue, FreeEvent, Running
    <3> QED BY <1>1, <3>1 DEF Due
  <2>3. CASE ~(FreeEvent /\ e = Top.ev)
    <3>1. e \in live'
      BY <2>1, <2>3, LiveStays
    <3>2. ASSUME NEW i \in 1 .. Len(stack'), stack'[i].pc = "closing", stack'[i].ev = e
          PROVE  Due(i, e)'
      <4>1. i \in 1 .. Len(stack) /\ stack'[i] = stack[i]
        <5>1. ASSUME NEW x \in Event, CoreCloseEvent(x)
              PROVE  i \in 1 .. Len(stack) /\ stack'[i] = stack[i]
          <6>1. x # e
            BY <1>2, <5>1, QueuedAfterClose
          <6> QED BY <3>2, <5>1, <6>1, CloseStack, FrameParts
        <5> QED BY <3>2, <5>1, OpenSteps, OpenClosings
      <4>2. Due(i, e)
        BY <1>2, <3>2, <4>1 DEF DueInv, QueuedAreDue
      <4> QED BY <1>2, <4>1, <4>2, DueStays
    <3> QED BY <2>1, <3>1, <3>2
  <2> QED BY <2>2, <2>3
<1>3. ASSUME NEW e, ~Queued(e), Queued(e)'
      PROVE  \/ e \in Valid \cap Notifiable
             \/ e \in Event /\ CoreNotifyProtocolEntry(e) /\ ~Grouped(e) /\ e \in NotifySignal
  <2>1. ~UNCHANGED gEventQueue
    BY <1>3 DEF Queued
  <2>2. ~DispatchNext /\ \A x \in Event : ~CoreCloseEvent(x)
    BY <1>3, QueuedAfterDispatch, QueuedAfterClose
  <2>3. \A x \in Notifiable : CoreNotifyEvent(x) => e = x
    BY <1>3, QueuedAfterNotify
  <2> QED BY <2>1, <2>2, <2>3, NotifiedIsValid DEF Notifiable
<1>4. ASSUME NEW e, ~Queued(e), Queued(e)'
      PROVE  /\ OpenStep /\ ~FreeEvent
  <2>1. \A x \in Event : ~CoreCloseEvent(x)
    BY <1>4, QueuedAfterClose
  <2>2. ~FreeEvent
    BY <1>4 DEF FreeEvent, Queued
  <2> QED BY <2>1, <2>2, OpenSteps
<1>5. ASSUME NEW e, ~Queued(e), Queued(e)'
      PROVE  /\ e \in live' \cap Notifiable
             /\ \A i \in 1 .. Len(stack') :
                  stack'[i].pc = "closing" /\ stack'[i].ev = e => Due(i, e)'
  <2>1. CASE e \in Valid \cap Notifiable
    <3>1. e \in live'
      BY <1>4, <1>5, <2>1, LiveStays DEF Valid
    <3>2. e \in Event /\ e \notin Closing'
      BY <1>4, <1>5, <2>1, ClosingSteps DEF Valid, TypeInv, LifetimesOK
    <3> QED BY <2>1, <3>1, <3>2 DEF Closing
  <2>2. CASE e \in Event /\ CoreNotifyProtocolEntry(e) /\ ~Grouped(e) /\ e \in NotifySignal
    <3>1. e \in registered /\ Top.pc = "run" /\ gEfiCurrentTpl <= TPL_NOTIFY
      BY <2>2 DEF CoreNotifyProtocolEntry, Running
    <3>2. e \in live \cap Registrable /\ NotifyTpl[e] >= TPL_NOTIFY
      BY <2>2, <3>1 DEF LifeInv, OwnersKeep, NotifiedInTime
    <3>3. e \in live' \cap Notifiable
      BY <1>4, <1>5, <2>2, <3>2, LiveStays DEF Notifiable
    <3>4. ASSUME NEW i \in 1 .. Len(stack'), stack'[i].pc = "closing", stack'[i].ev = e
          PROVE  Due(i, e)'
      <4> DEFINE r == Len(stack) - 2
      <4>1. i \in 1 .. Len(stack) /\ stack[i].pc = "closing"
        BY <1>4, <1>5, <3>4, OpenClosings
      <4>2. i \in 1 .. Len(stack) - 1
        BY <1>1, <3>1, <4>1
      <4>3. i <= r /\ stack[r].pc = "restore" /\ stack[r].lvl < Top.lvl
        BY <3>1, <4>1, <4>2, RunIsDispatched
      <4>4. i < r /\ r \in 1 .. Len(stack) - 1
        <5>1. i # r
          BY <4>1, <4>3
        <5> QED BY <1>1, <4>2, <4>3, <5>1
      <4>5. r \in 1 .. Len(stack') /\ stack'[r] = stack[r]
        BY <4>3, <4>4, BelowStays
      <4>6. stack[r].lvl \in Nat /\ NotifyTpl[e] \in Nat
        <5>1. r \in 1 .. Len(stack)
          BY <1>1, <4>4
        <5> HIDE DEF r
        <5>2. stack[r] \in Frames
          BY <5>1, TopOK DEF TypeInv
        <5>4. stack[r].lvl \in Nat
          BY <5>2, LevelsAreNumbers
        <5>5. NotifyTpl[e] \in Nat
          BY <2>2, NotifyLevelsAreNumbers
        <5> QED BY <5>4, <5>5
      <4>7. stack[r].lvl < NotifyTpl[e]
        BY <1>1, <3>1, <3>2, <4>3, <4>6 DEF TPL_NOTIFY
      <4> HIDE DEF r
      <4> QED BY <4>3, <4>4, <4>5, <4>7 DEF Due
    <3> QED BY <3>3, <3>4
  <2> QED BY <1>3, <1>5, <2>1, <2>2
<1> QED BY <1>2, <1>5 DEF QueuedAreDue

(* No event is freed on its queue, or between the moment the dispatcher    *)
(* takes it off and the call of its notify function.                       *)
THEOREM QueuedStaysLive ==
  ASSUME NotifiedInTime
  PROVE  Spec => []QueuedIsLive
<1>1. Init => DueInv
  <2> SUFFICES ASSUME Init PROVE DueInv
    OBVIOUS
  <2>1. Len(stack) = 1 /\ stack[1].pc = "run"
    BY FrameParts DEF Init
  <2>2. \A e : ~Queued(e)
    BY DEF Init, Queued
  <2> QED BY <2>1, <2>2 DEF DueInv, CallsAreLive, QueuedAreDue
<1>2. TypeInv /\ QueueInv /\ TplInv /\ LifeInv /\ DueInv /\ [Next]_vars => DueInv'
  BY CallsAreLiveNext, QueuedAreDueNext DEF DueInv
<1>3. DueInv => QueuedIsLive
  <2> SUFFICES ASSUME DueInv PROVE QueuedIsLive
    OBVIOUS
  <2>1. \A t \in Tpl : \A i \in 1 .. Len(gEventQueue[t]) : Queued(gEventQueue[t][i])
    BY DEF Queued
  <2> QED BY <2>1 DEF DueInv, QueuedAreDue, CallsAreLive, QueuedIsLive
<1> QED BY <1>1, <1>2, <1>3, LifeInvariant, PTL DEF Spec
=============================================================================
