---------------------------- MODULE EventTplProofs ----------------------------
(* Proofs about EventTpl, for every set of events, levels and groups.      *)
EXTENDS EventTpl, SequenceTheorems, WellFoundedInduction, TLAPS

-----------------------------------------------------------------------------
(* Sequences.                                                              *)

LEMMA FrontProperties ==
  ASSUME NEW S, NEW s \in Seq(S), s # <<>>
  PROVE  /\ Front(s) \in Seq(S)
         /\ Len(Front(s)) = Len(s) - 1
         /\ \A i \in 1 .. Len(s) - 1 : Front(s)[i] = s[i]
<1> DEFINE n == Len(s) - 1
<1>1. n \in Nat /\ \A i \in 1 .. n : s[i] \in S
  BY EmptySeq, LenProperties
<1>2. SubSeq(s, 1, Len(s) - 1) \in Seq(S)
  OBVIOUS
<1>0. Front(s) = SubSeq(s, 1, n)
  BY DEF Front
<1> HIDE DEF n
<1>4. /\ Len(SubSeq(s, 1, n)) = (IF 1 <= n THEN n - 1 + 1 ELSE 0)
      /\ \A i \in 1 .. n - 1 + 1 : SubSeq(s, 1, n)[i] = s[1 + i - 1]
  BY <1>1, SubSeqProperties
<1>3. Len(SubSeq(s, 1, n)) = n
  BY <1>1, <1>4
<1>5. \A i \in 1 .. n : Front(s)[i] = s[i]
  BY <1>1, <1>0, <1>4
<1> QED
  BY <1>2, <1>3, <1>0, <1>5 DEF n

LEMMA RemoveAtProperties ==
  ASSUME NEW S, NEW s \in Seq(S), NEW k \in 1 .. Len(s)
  PROVE  /\ RemoveAt(s, k) \in Seq(S)
         /\ Len(RemoveAt(s, k)) = Len(s) - 1
         /\ \A i \in 1 .. Len(s) - 1 :
              RemoveAt(s, k)[i] = IF i < k THEN s[i] ELSE s[i + 1]
<1> DEFINE n == Len(s)
           a == SubSeq(s, 1, k - 1)
           b == SubSeq(s, k + 1, n)
<1>1. n \in Nat /\ k \in 1 .. n /\ \A i \in 1 .. n : s[i] \in S
  BY LenProperties, ElementOfSeq
<1>2. RemoveAt(s, k) = a \o b
  BY DEF RemoveAt
<1>3. a \in Seq(S) /\ Len(a) = k - 1 /\ b \in Seq(S) /\ Len(b) = n - k
  OBVIOUS
<1> HIDE DEF n
<1>4. \A i \in 1 .. (k - 1) - 1 + 1 : a[i] = s[1 + i - 1]
  BY <1>1, SubSeqProperties
<1>5. \A i \in 1 .. n - (k + 1) + 1 : b[i] = s[(k + 1) + i - 1]
  BY <1>1, SubSeqProperties
<1> HIDE DEF a, b
<1>6. /\ a \o b \in Seq(S)
      /\ Len(a \o b) = Len(a) + Len(b)
      /\ \A i \in 1 .. Len(a) + Len(b) :
           (a \o b)[i] = IF i <= Len(a) THEN a[i] ELSE b[i - Len(a)]
  BY <1>3, ConcatProperties
<1>7. /\ Len(a \o b) = n - 1
      /\ \A i \in 1 .. n - 1 :
           (a \o b)[i] = IF i <= k - 1 THEN a[i] ELSE b[i - (k - 1)]
  BY <1>1, <1>3, <1>6
<1>8. ASSUME NEW i \in 1 .. n - 1
      PROVE  (a \o b)[i] = IF i < k THEN s[i] ELSE s[i + 1]
  <2>1. CASE i < k
    BY <2>1, <1>1, <1>4, <1>7
  <2>2. CASE ~(i < k)
    <3>1. i - (k - 1) \in 1 .. n - (k + 1) + 1 /\ ~(i <= k - 1)
      BY <2>2, <1>1
    <3>2. b[i - (k - 1)] = s[(k + 1) + (i - (k - 1)) - 1]
      BY <3>1, <1>5
    <3>3. (k + 1) + (i - (k - 1)) - 1 = i + 1
      BY <1>1
    <3>4. (a \o b)[i] = b[i - (k - 1)]
      BY <3>1, <1>7
    <3> QED
      BY <2>2, <3>2, <3>3, <3>4
  <2> QED
    BY <2>1, <2>2
<1> QED
  BY <1>2, <1>6, <1>7, <1>8 DEF n

(* RemoveEntryList on a list that holds e at most once. *)
LEMMA RemoveEntryListProperties ==
  ASSUME NEW S, NEW s \in Seq(S), NEW e,
         \A i, j \in 1 .. Len(s) : s[i] = s[j] => i = j
  PROVE  LET r == RemoveEntryList(s, e)
         IN  /\ r \in Seq(S)
             /\ \A i \in 1 .. Len(r) : r[i] # e /\ \E j \in 1 .. Len(s) : r[i] = s[j]
             /\ \A i \in 1 .. Len(s) : s[i] # e => \E j \in 1 .. Len(r) : r[j] = s[i]
             /\ \A i, j \in 1 .. Len(r) : r[i] = r[j] => i = j
<1> DEFINE r == RemoveEntryList(s, e)
           n == Len(s)
           k == Position(s, e)
<1>1. n \in Nat
  BY LenProperties
<1>2. CASE \E i \in 1 .. n : s[i] = e
  <2>1. k \in 1 .. n /\ s[k] = e
    BY <1>2 DEF Position
  <2>2. r = RemoveAt(s, k)
    BY <1>2 DEF RemoveEntryList
  <2>3. /\ r \in Seq(S) /\ Len(r) = n - 1
        /\ \A i \in 1 .. n - 1 : r[i] = IF i < k THEN s[i] ELSE s[i + 1]
    <3> HIDE DEF r, k
    <3>1. /\ RemoveAt(s, k) \in Seq(S)
          /\ Len(RemoveAt(s, k)) = Len(s) - 1
          /\ \A i \in 1 .. Len(s) - 1 :
               RemoveAt(s, k)[i] = IF i < k THEN s[i] ELSE s[i + 1]
      BY <2>1, RemoveAtProperties
    <3> QED
      BY <3>1, <2>2
  <2>4. \A i, j \in 1 .. n : s[i] = s[j] => i = j
    OBVIOUS
  <2> HIDE DEF r, n, k
  <2>5. ASSUME NEW i \in 1 .. Len(r)
        PROVE  r[i] # e /\ \E j \in 1 .. n : r[i] = s[j]
    BY <1>1, <2>1, <2>3, <2>4
  <2>6. ASSUME NEW i \in 1 .. n, s[i] # e
        PROVE  \E j \in 1 .. Len(r) : r[j] = s[i]
    <3>1. CASE i < k
      BY <3>1, <1>1, <2>1, <2>3
    <3>2. CASE i > k
      <4>1. i - 1 \in 1 .. n - 1 /\ ~(i - 1 < k)
        BY <3>2, <1>1, <2>1
      <4>2. r[i - 1] = s[i - 1 + 1]
        BY <4>1, <2>3
      <4>3. r[i - 1] = s[i]
        BY <4>2, <1>1
      <4> QED
        BY <4>1, <4>3, <2>3
    <3> QED
      BY <3>1, <3>2, <2>1, <2>6, <1>1
  <2>7. ASSUME NEW i \in 1 .. Len(r), NEW j \in 1 .. Len(r), r[i] = r[j]
        PROVE  i = j
    BY <1>1, <2>1, <2>3, <2>4, <2>7
  <2> QED
    BY <2>3, <2>5, <2>6, <2>7 DEF n, r
<1>3. CASE ~\E i \in 1 .. n : s[i] = e
  BY <1>3 DEF RemoveEntryList
<1> QED
  BY <1>2, <1>3

(* RemoveEntryList on any list. *)
LEMMA RemoveEntryListType ==
  ASSUME NEW S, NEW s \in Seq(S), NEW e
  PROVE  RemoveEntryList(s, e) \in Seq(S)
<1>1. CASE \E i \in 1 .. Len(s) : s[i] = e
  <2>1. Position(s, e) \in 1 .. Len(s)
    BY <1>1 DEF Position
  <2> QED
    BY <1>1, <2>1, RemoveAtProperties DEF RemoveEntryList
<1>2. CASE ~\E i \in 1 .. Len(s) : s[i] = e
  BY <1>2 DEF RemoveEntryList
<1> QED
  BY <1>1, <1>2

-----------------------------------------------------------------------------
(* Type correctness.  The types alone are not inductive: a step that       *)
(* returns leaves an activation behind because the first one never         *)
(* returns, and a step that works on an event finds one in its activation. *)

OnEvent == {"call", "group", "list", "relock", "queue", "check", "clear", "closing"}

Frames == {f \in [pc : Pc, ev : Event \cup {NoEvent}, lvl : Tpl] :
             /\ f.pc \in OnEvent => f.ev \in Event
             /\ f.pc = "queue" => f.ev \in NotifyWait}

CpuOK == gEfiCurrentTpl \in Tpl /\ interrupts \in BOOLEAN

QueuesOK ==
  /\ gEventQueue \in [Tpl -> Seq(Event)]
  /\ gEventPending \subseteq Tpl
  /\ SignalCount \in [Event -> {0, 1}]

LifetimesOK ==
  /\ gEventSignalQueue \in Seq(NotifySignal)
  /\ live \subseteq Event
  /\ registered \subseteq Event

CursorsOK == Link \in Nat \ {0} /\ Index \in 1 .. Len(WaitArray)

StackOK(s) == s \in Seq(Frames) /\ s # <<>> /\ s[1].pc = "run"

TypeInv == CpuOK /\ QueuesOK /\ LifetimesOK /\ CursorsOK /\ StackOK(stack)

LEMMA TypeInvImpliesTypeOK == TypeInv => TypeOK
<1> SUFFICES ASSUME TypeInv PROVE TypeOK
  OBVIOUS
<1> DEFINE T == [pc : Pc, ev : Event \cup {NoEvent}, lvl : Tpl]
<1>1. Frames \subseteq T
  BY DEF Frames
<1>2. stack \in Seq(Frames) /\ stack # <<>>
  BY DEF TypeInv, StackOK
<1> HIDE DEF T
<1>3. stack \in Seq(T)
  <2>1. Len(stack) \in Nat /\ DOMAIN stack = 1 .. Len(stack)
    BY <1>2, LenProperties
  <2>2. \A i \in 1 .. Len(stack) : stack[i] \in T
    BY <1>1, <1>2, ElementOfSeq
  <2> QED
    BY <1>1, <1>2, <2>1, <2>2
<1> QED
  BY <1>2, <1>3 DEF TypeInv, TypeOK, CpuOK, QueuesOK, LifetimesOK, CursorsOK, T

LEMMA TopOK ==
  ASSUME NEW s, StackOK(s)
  PROVE  /\ Len(s) \in Nat \ {0}
         /\ \A i \in 1 .. Len(s) : s[i] \in Frames
         /\ s[Len(s)] \in Frames
         /\ s[Len(s)].pc # "run" => Len(s) > 1
<1>1. s \in Seq(Frames) /\ s # <<>> /\ s[1].pc = "run"
  BY DEF StackOK
<1>2. Len(s) \in Nat /\ Len(s) # 0
  BY <1>1, LenProperties, EmptySeq
<1>3. \A i \in 1 .. Len(s) : s[i] \in Frames
  BY <1>1, ElementOfSeq
<1> QED
  BY <1>1, <1>2, <1>3

LEMMA PushOK ==
  ASSUME NEW s, StackOK(s), NEW f \in Frames
  PROVE  StackOK(Append(s, f))
<1>1. s \in Seq(Frames) /\ s # <<>> /\ s[1].pc = "run"
  BY DEF StackOK
<1>2. Len(s) \in Nat \ {0}
  BY TopOK
<1>3. /\ Append(s, f) \in Seq(Frames)
      /\ Len(Append(s, f)) = Len(s) + 1
      /\ \A i \in 1 .. Len(s) : Append(s, f)[i] = s[i]
  BY <1>1, AppendProperties
<1>4. Append(s, f) # <<>> /\ Append(s, f)[1] = s[1]
  BY <1>1, <1>2, <1>3
<1> QED
  BY <1>1, <1>3, <1>4 DEF StackOK

LEMMA ReturnOK ==
  ASSUME NEW s, StackOK(s), Len(s) > 1
  PROVE  StackOK(Front(s))
<1>1. s \in Seq(Frames) /\ s # <<>> /\ s[1].pc = "run"
  BY DEF StackOK
<1>2. Len(s) \in Nat \ {0}
  BY TopOK
<1>3. /\ Front(s) \in Seq(Frames)
      /\ Len(Front(s)) = Len(s) - 1
      /\ \A i \in 1 .. Len(s) - 1 : Front(s)[i] = s[i]
  BY <1>1, FrontProperties
<1>4. Front(s) # <<>> /\ Front(s)[1] = s[1]
  BY <1>2, <1>3
<1> QED
  BY <1>1, <1>3, <1>4 DEF StackOK

LEMMA GotoOK ==
  ASSUME NEW s, StackOK(s), Len(s) > 1, NEW f \in Frames
  PROVE  StackOK(Append(Front(s), f))
  BY ReturnOK, PushOK

LEMMA FrameOK ==
  ASSUME NEW pc \in Pc, NEW e \in Event \cup {NoEvent}, NEW l \in Tpl,
         pc \in OnEvent => e \in Event,
         pc = "queue" => e \in NotifyWait
  PROVE  Frame(pc, e, l) \in Frames
  BY DEF Frame, Frames

(* The highest pending level exists: levels are bounded. *)
LEMMA HighBitProperties ==
  ASSUME NEW S, S \subseteq Tpl, S # {}
  PROVE  HighBitSet64(S) \in S /\ \A q \in S : q <= HighBitSet64(S)
<1>0. S \subseteq 0 .. 31
  BY TplAssumption DEF TPL_HIGH_LEVEL
<1> DEFINE T == {n \in Nat : 31 - n \in S}
           R == {pair \in Nat \X Nat : pair[1] < pair[2]}
<1>1. T \subseteq Nat
  OBVIOUS
<1>2. T # {}
  <2>1. PICK p \in S : TRUE
    OBVIOUS
  <2>2. 31 - p \in Nat /\ 31 - (31 - p) = p
    BY <1>0, <2>1
  <2>3. 31 - p \in T
    BY <2>2
  <2> QED
    BY <2>3
<1>3. IsWellFoundedOn(R, Nat)
  BY NatLessThanWellFounded DEF OpToRel
<1> HIDE DEF R, T
<1>4. PICK m \in T : \A n \in T : <<n, m>> \notin R
  BY <1>1, <1>2, <1>3, WFMin
<1>5. m \in Nat /\ 31 - m \in S
  BY <1>4 DEF T
<1>6. ASSUME NEW q \in S
      PROVE  q <= 31 - m
  <2>1. q \in Nat /\ 31 - q \in Nat /\ 31 - (31 - q) = q
    BY <1>0
  <2>2. 31 - q \in T
    BY <2>1 DEF T
  <2>3. <<31 - q, m>> \notin R
    BY <2>2, <1>4
  <2>4. ~(31 - q < m)
    BY <2>1, <2>3, <1>5 DEF R
  <2> QED
    BY <2>1, <2>4, <1>5
<1> QED
  BY <1>5, <1>6 DEF HighBitSet64

(* The release of gEventQueueLock into a well-formed caller. *)
LEMMA ReleaseOK ==
  ASSUME CpuOK, NEW s, StackOK(s), CoreReleaseEventLock(s)
  PROVE  CpuOK' /\ StackOK(stack)'
<1>1. Frame("restore", NoEvent, gEfiCurrentTpl) \in Frames
  BY FrameOK DEF CpuOK, Pc, OnEvent
<1>2. StackOK(stack')
  BY <1>1, PushOK DEF CoreReleaseEventLock
<1>3. CpuOK'
  BY TplAssumption DEF CoreReleaseEventLock, CpuOK
<1> QED
  BY <1>2, <1>3 DEF StackOK

LEMMA NotifyOK ==
  ASSUME QueuesOK, NEW e \in NotifySignal \cup NotifyWait, CoreNotifyEvent(e)
  PROVE  gEventQueue' \in [Tpl -> Seq(Event)] /\ gEventPending' \subseteq Tpl
<1>1. e \in Event /\ NotifyTpl[e] \in Tpl
  BY EventAssumption, TplAssumption DEF TPL_APPLICATION
<1>2. RemoveEntryList(gEventQueue[NotifyTpl[e]], e) \in Seq(Event)
  BY <1>1, RemoveEntryListType DEF QueuesOK
<1>3. Append(RemoveEntryList(gEventQueue[NotifyTpl[e]], e), e) \in Seq(Event)
  BY <1>1, <1>2
<1> QED
  BY <1>1, <1>3 DEF CoreNotifyEvent, QueuesOK

(* What an action knows about the activation it runs in. *)
LEMMA RunningOK ==
  ASSUME TypeInv
  PROVE  /\ StackOK(stack)
         /\ Top \in Frames /\ Top.pc \in Pc /\ Top.lvl \in Tpl
         /\ Top.ev \in Event \cup {NoEvent}
         /\ Top.pc \in OnEvent => Top.ev \in Event
         /\ Top.pc = "queue" => Top.ev \in NotifyWait
         /\ Top.pc # "run" => Len(stack) > 1
<1>1. StackOK(stack)
  BY DEF TypeInv
<1>2. Top \in Frames /\ (Top.pc # "run" => Len(stack) > 1)
  BY <1>1, TopOK DEF Top
<1> QED
  BY <1>1, <1>2 DEF Frames

LEMMA TypeInvTpl ==
  ASSUME TypeInv,
         \/ \E t \in Tpl : CoreRaiseTpl(t) \/ CoreRestoreTpl(t)
         \/ RestoreTplDispatch \/ RestoreTplExitLoop \/ RestoreTplSet
  PROVE  TypeInv'
<1>1. /\ StackOK(stack) /\ Top.lvl \in Tpl
      /\ Top.pc # "run" => Len(stack) > 1
  BY RunningOK
<1>2. ASSUME NEW t \in Tpl, CoreRaiseTpl(t)
      PROVE  TypeInv'
  BY <1>1, <1>2
     DEF CoreRaiseTpl, TypeInv, CpuOK, QueuesOK, LifetimesOK, CursorsOK, StackOK,
         queues, lifetimes, cursors
<1>3. ASSUME NEW t \in Tpl, CoreRestoreTpl(t)
      PROVE  TypeInv'
  <2>1. Frame("restore", NoEvent, t) \in Frames
    BY FrameOK DEF Pc, OnEvent
  <2>2. StackOK(stack')
    BY <1>1, <1>3, <2>1, PushOK DEF CoreRestoreTpl, Push
  <2> QED
    BY <1>3, <2>2
       DEF CoreRestoreTpl, TypeInv, CpuOK, QueuesOK, LifetimesOK, CursorsOK, StackOK,
           queues, lifetimes, cursors
<1>4. CASE RestoreTplDispatch
  <2> DEFINE p == HighBitSet64(gEventPending)
  <2>1. p \in Tpl
    BY <1>4, HighBitProperties
       DEF RestoreTplDispatch, TypeInv, QueuesOK
  <2> HIDE DEF p
  <2>2. Frame("disp", NoEvent, p) \in Frames
    BY <2>1, FrameOK DEF Pc, OnEvent
  <2>3. StackOK(stack')
    BY <1>1, <1>4, <2>2, PushOK DEF RestoreTplDispatch, Push, p
  <2> QED
    BY <1>4, <2>1, <2>3
       DEF RestoreTplDispatch, TypeInv, CpuOK, QueuesOK, LifetimesOK, CursorsOK,
           StackOK, queues, lifetimes, cursors, p
<1>5. CASE RestoreTplExitLoop
  <2>1. Frame("set", NoEvent, Top.lvl) \in Frames
    BY <1>1, FrameOK DEF Pc, OnEvent
  <2>2. StackOK(stack')
    BY <1>1, <1>5, <2>1, GotoOK DEF RestoreTplExitLoop, Goto, Running
  <2> QED
    BY <1>5, <2>2
       DEF RestoreTplExitLoop, TypeInv, CpuOK, QueuesOK, LifetimesOK, CursorsOK,
           StackOK, queues, lifetimes, cursors
<1>6. CASE RestoreTplSet
  <2>1. StackOK(stack')
    BY <1>1, <1>6, ReturnOK DEF RestoreTplSet, Return, Running
  <2> QED
    BY <1>1, <1>6, <2>1
       DEF RestoreTplSet, TypeInv, CpuOK, QueuesOK, LifetimesOK, CursorsOK,
           StackOK, queues, lifetimes, cursors
<1> QED
  BY <1>2, <1>3, <1>4, <1>5, <1>6

LEMMA TypeInvDispatch ==
  ASSUME TypeInv, DispatchNext \/ DispatchCall \/ DispatchDone \/ NotifyReturn
  PROVE  TypeInv'
<1>1. /\ StackOK(stack) /\ Top.lvl \in Tpl
      /\ Top.pc # "run" => Len(stack) > 1
      /\ Top.pc \in OnEvent => Top.ev \in Event
  BY RunningOK
<1>2. CASE DispatchNext
  <2> DEFINE q == gEventQueue[Top.lvl]
             e == Head(q)
  <2>1. q \in Seq(Event) /\ q # <<>>
    BY <1>1, <1>2 DEF DispatchNext, TypeInv, QueuesOK
  <2>2. e \in Event /\ Tail(q) \in Seq(Event)
    BY <2>1
  <2> HIDE DEF e
  <2>3. Frame("call", e, Top.lvl) \in Frames
    BY <1>1, <2>2, FrameOK DEF Pc, OnEvent
  <2>4. StackOK(Push(Frame("call", e, Top.lvl)))
    BY <1>1, <2>3, PushOK DEF Push
  <2>5. CoreReleaseEventLock(Push(Frame("call", e, Top.lvl)))
    BY <1>2 DEF DispatchNext, e
  <2>6. CpuOK' /\ StackOK(stack)'
    BY <2>4, <2>5, ReleaseOK DEF TypeInv
  <2>7. QueuesOK'
    BY <1>1, <1>2, <2>2 DEF DispatchNext, TypeInv, QueuesOK
  <2> QED
    BY <1>2, <2>6, <2>7
       DEF DispatchNext, TypeInv, LifetimesOK, CursorsOK, lifetimes, cursors
<1>3. CASE DispatchCall
  <2>1. Frame("run", Top.ev, Top.lvl) \in Frames
    BY <1>1, RunningOK, FrameOK DEF Pc, OnEvent
  <2>2. StackOK(stack')
    BY <1>1, <1>3, <2>1, GotoOK DEF DispatchCall, Goto, Running
  <2> QED
    BY <1>3, <2>2
       DEF DispatchCall, TypeInv, CpuOK, QueuesOK, LifetimesOK, CursorsOK,
           StackOK, queues, lifetimes, cursors
<1>4. CASE DispatchDone
  <2>1. StackOK(Return)
    BY <1>1, <1>4, ReturnOK DEF DispatchDone, Return, Running
  <2>2. CpuOK' /\ StackOK(stack)'
    BY <1>4, <2>1, ReleaseOK DEF DispatchDone, TypeInv
  <2> QED
    BY <1>4, <2>2
       DEF DispatchDone, TypeInv, QueuesOK, LifetimesOK, CursorsOK, lifetimes, cursors
<1>5. CASE NotifyReturn
  <2>1. StackOK(stack')
    BY <1>1, <1>5, ReturnOK DEF NotifyReturn, Return
  <2> QED
    BY <1>5, <2>1
       DEF NotifyReturn, TypeInv, CpuOK, QueuesOK, LifetimesOK, CursorsOK,
           StackOK, queues, lifetimes, cursors
<1> QED
  BY <1>2, <1>3, <1>4, <1>5

(* Signal(e, s), the whole of CoreSignalEvent, into a well-formed caller. *)
LEMMA SignalOK ==
  ASSUME TypeInv, NEW e \in Event, NEW s, StackOK(s), Signal(e, s)
  PROVE  CpuOK' /\ QueuesOK' /\ StackOK(stack)'
<1>1. CASE CoreReleaseEventLock(s) /\ UNCHANGED queues
  BY <1>1, ReleaseOK DEF TypeInv, QueuesOK, queues
<1>2. CASE /\ SignalCount' = [SignalCount EXCEPT ![e] = 1]
           /\ IF e \in NotifySignal /\ ~Grouped(e)
                THEN CoreNotifyEvent(e)
                ELSE UNCHANGED <<gEventQueue, gEventPending>>
           /\ CoreReleaseEventLock(IF Grouped(e)
                                     THEN Append(s, Frame("group", e, gEfiCurrentTpl))
                                     ELSE s)
  <2>1. Frame("group", e, gEfiCurrentTpl) \in Frames
    BY FrameOK DEF Pc, OnEvent, TypeInv, CpuOK
  <2>2. StackOK(IF Grouped(e) THEN Append(s, Frame("group", e, gEfiCurrentTpl)) ELSE s)
    BY <2>1, PushOK
  <2>3. CpuOK' /\ StackOK(stack)'
    BY <1>2, <2>2, ReleaseOK DEF TypeInv
  <2>4. QueuesOK'
    BY <1>2, NotifyOK DEF TypeInv, QueuesOK
  <2> QED
    BY <2>3, <2>4
<1> QED
  BY <1>1, <1>2 DEF Signal

LEMMA TypeInvSignal ==
  ASSUME TypeInv,
         \/ \E e \in Event : CoreSignalEvent(e) \/ CoreNotifyProtocolEntry(e)
         \/ NotifySignalListLock \/ NotifySignalListStep \/ NotifySignalListUnlock
         \/ SignalRelock
  PROVE  TypeInv'
<1>1. /\ StackOK(stack) /\ Top.lvl \in Tpl
      /\ Top.pc # "run" => Len(stack) > 1
      /\ Top.pc \in OnEvent => Top.ev \in Event
  BY RunningOK
<1>2. ASSUME NEW e \in Event, CoreSignalEvent(e) \/ CoreNotifyProtocolEntry(e)
      PROVE  TypeInv'
  <2>1. Signal(e, stack) /\ UNCHANGED <<lifetimes, cursors>>
    BY <1>2 DEF CoreSignalEvent, CoreNotifyProtocolEntry
  <2>2. CpuOK' /\ QueuesOK' /\ StackOK(stack)'
    BY <1>1, <2>1, SignalOK
  <2> QED
    BY <2>1, <2>2 DEF TypeInv, LifetimesOK, CursorsOK, lifetimes, cursors
<1>3. CASE NotifySignalListLock
  <2>1. Top.ev \in Event /\ Len(stack) > 1
    BY <1>1, <1>3 DEF NotifySignalListLock, Running, OnEvent
  <2>2. Frame("list", Top.ev, gEfiCurrentTpl) \in Frames
    BY <2>1, FrameOK DEF Pc, OnEvent, TypeInv, CpuOK
  <2>3. StackOK(stack')
    BY <1>1, <1>3, <2>1, <2>2, GotoOK DEF NotifySignalListLock, Goto
  <2>4. CpuOK'
    BY <1>3, TplAssumption DEF NotifySignalListLock, CpuOK
  <2> QED
    BY <1>3, <2>3, <2>4
       DEF NotifySignalListLock, TypeInv, QueuesOK, LifetimesOK, CursorsOK,
           StackOK, queues, lifetimes
<1>4. CASE NotifySignalListStep
  <2> DEFINE e == gEventSignalQueue[Link]
  <2>1. gEventSignalQueue \in Seq(NotifySignal) /\ Link \in Nat \ {0}
    BY DEF TypeInv, LifetimesOK, CursorsOK
  <2>2. Link <= Len(gEventSignalQueue)
    BY <1>4 DEF NotifySignalListStep
  <2>3. Link \in 1 .. Len(gEventSignalQueue)
    BY <2>1, <2>2, LenProperties
  <2>4. e \in NotifySignal
    BY <2>1, <2>3, ElementOfSeq
  <2>5. CoreNotifyEvent(e) \/ UNCHANGED <<gEventQueue, gEventPending>>
    BY <1>4 DEF NotifySignalListStep
  <2> HIDE DEF e
  <2>6. QueuesOK'
    BY <1>4, <2>4, <2>5, NotifyOK DEF NotifySignalListStep, TypeInv, QueuesOK
  <2> QED
    BY <1>4, <2>1, <2>6
       DEF NotifySignalListStep, TypeInv, CpuOK, LifetimesOK, CursorsOK, StackOK,
           lifetimes
<1>5. CASE NotifySignalListUnlock
  <2>1. Top.ev \in Event /\ Len(stack) > 1
    BY <1>1, <1>5 DEF NotifySignalListUnlock, Running, OnEvent
  <2>2. /\ Frame("relock", Top.ev, Top.lvl) \in Frames
        /\ Frame("restore", NoEvent, Top.lvl) \in Frames
    BY <1>1, <2>1, FrameOK DEF Pc, OnEvent
  <2>3. StackOK(stack')
    BY <1>1, <1>5, <2>1, <2>2, GotoOK, PushOK DEF NotifySignalListUnlock, Goto
  <2> QED
    BY <1>5, <2>3
       DEF NotifySignalListUnlock, TypeInv, CpuOK, QueuesOK, LifetimesOK, CursorsOK,
           StackOK, queues, lifetimes
<1>6. CASE SignalRelock
  <2>1. StackOK(Return)
    BY <1>1, <1>6, ReturnOK DEF SignalRelock, Return, Running
  <2>2. CpuOK' /\ StackOK(stack)'
    BY <1>6, <2>1, ReleaseOK DEF SignalRelock, TypeInv
  <2> QED
    BY <1>6, <2>2
       DEF SignalRelock, TypeInv, QueuesOK, LifetimesOK, CursorsOK, queues,
           lifetimes, cursors
<1> QED
  BY <1>2, <1>3, <1>4, <1>5, <1>6

LEMMA CheckOK ==
  ASSUME TypeInv, NEW e \in Event, NEW s, StackOK(s), Check(e, s)
  PROVE  CpuOK' /\ StackOK(stack)'
<1> DEFINE first == IF SignalCount[e] = 0 /\ e \in NotifyWait THEN "queue" ELSE "check"
<1>1. first \in Pc /\ (first = "queue" => e \in NotifyWait)
  BY DEF Pc
<1>2. stack' = Append(s, Frame(first, e, gEfiCurrentTpl))
  BY DEF Check
<1> HIDE DEF first
<1>3. Frame(first, e, gEfiCurrentTpl) \in Frames
  BY <1>1, FrameOK DEF TypeInv, CpuOK
<1>4. StackOK(stack')
  BY <1>2, <1>3, PushOK
<1> QED
  BY <1>4 DEF Check, TypeInv, CpuOK, StackOK

LEMMA TypeInvCheck ==
  ASSUME TypeInv,
         (\E e \in Event : CoreCheckEvent(e)) \/ CheckQueue \/ CheckAgain \/ CheckClear
  PROVE  TypeInv'
<1>1. /\ StackOK(stack) /\ Top.lvl \in Tpl
      /\ Top.pc # "run" => Len(stack) > 1
      /\ Top.pc \in OnEvent => Top.ev \in Event
      /\ Top.pc = "queue" => Top.ev \in NotifyWait
  BY RunningOK
<1>2. ASSUME NEW e \in Event, CoreCheckEvent(e)
      PROVE  TypeInv'
  <2>1. CpuOK' /\ StackOK(stack)'
    BY <1>1, <1>2, CheckOK DEF CoreCheckEvent
  <2> QED
    BY <1>2, <2>1
       DEF CoreCheckEvent, TypeInv, QueuesOK, LifetimesOK, CursorsOK, queues,
           lifetimes, cursors
<1>3. CASE CheckQueue
  <2>1. Top.ev \in NotifyWait /\ Top.ev \in Event /\ Len(stack) > 1
    BY <1>1, <1>3 DEF CheckQueue, Running, OnEvent
  <2>2. Frame("check", Top.ev, Top.lvl) \in Frames
    BY <1>1, <2>1, FrameOK DEF Pc, OnEvent
  <2>3. StackOK(Goto(Frame("check", Top.ev, Top.lvl)))
    BY <1>1, <2>1, <2>2, GotoOK DEF Goto
  <2>4. CpuOK' /\ StackOK(stack)'
    BY <1>3, <2>3, ReleaseOK DEF CheckQueue, TypeInv
  <2>5. CoreNotifyEvent(Top.ev) \/ UNCHANGED <<gEventQueue, gEventPending>>
    BY <1>3 DEF CheckQueue
  <2>6. QueuesOK'
    BY <1>3, <2>1, <2>5, NotifyOK DEF CheckQueue, TypeInv, QueuesOK
  <2> QED
    BY <1>3, <2>4, <2>6
       DEF CheckQueue, TypeInv, LifetimesOK, CursorsOK, lifetimes, cursors
<1>4. CASE CheckAgain
  <2>1. Top.ev \in Event /\ Len(stack) > 1
    BY <1>1, <1>4 DEF CheckAgain, Running, OnEvent
  <2>2. Frame("clear", Top.ev, Top.lvl) \in Frames
    BY <1>1, <2>1, FrameOK DEF Pc, OnEvent
  <2>3. StackOK(stack')
    BY <1>1, <1>4, <2>1, <2>2, GotoOK, ReturnOK DEF CheckAgain, Goto, Return
  <2> QED
    BY <1>4, <2>3
       DEF CheckAgain, TypeInv, CpuOK, QueuesOK, LifetimesOK, CursorsOK, StackOK,
           queues, lifetimes, cursors
<1>5. CASE CheckClear
  <2> DEFINE caller   == Last(Return)
             answered == IF caller.pc = "waited" /\ SignalCount[Top.ev] # 0
                           THEN Append(Front(Return), Frame("waitok", NoEvent, caller.lvl))
                           ELSE Return
  <2>1. Len(stack) > 1 /\ Top.ev \in Event
    BY <1>1, <1>5 DEF CheckClear, Running, OnEvent
  <2>2. StackOK(Return)
    BY <1>1, <2>1, ReturnOK DEF Return
  <2>3. caller \in Frames /\ (caller.pc # "run" => Len(Return) > 1)
    BY <2>2, TopOK DEF Last
  <2>4. Frame("waitok", NoEvent, caller.lvl) \in Frames
    <3>1. caller.lvl \in Tpl
      BY <2>3 DEF Frames
    <3> QED
      BY <3>1, FrameOK DEF Pc, OnEvent
  <2>5. StackOK(answered)
    <3> HIDE DEF caller
    <3>1. CASE caller.pc = "waited" /\ SignalCount[Top.ev] # 0
      BY <3>1, <2>2, <2>3, <2>4, GotoOK
    <3>2. CASE ~(caller.pc = "waited" /\ SignalCount[Top.ev] # 0)
      BY <3>2, <2>2
    <3> QED
      BY <3>1, <3>2
  <2>6. CoreReleaseEventLock(answered)
    BY <1>5 DEF CheckClear
  <2> HIDE DEF answered
  <2>7. CpuOK' /\ StackOK(stack)'
    BY <2>5, <2>6, ReleaseOK DEF TypeInv
  <2> QED
    BY <1>5, <2>7
       DEF CheckClear, TypeInv, QueuesOK, LifetimesOK, CursorsOK, lifetimes, cursors
<1> QED
  BY <1>2, <1>3, <1>4, <1>5

LEMMA TypeInvWait ==
  ASSUME TypeInv,
         CoreWaitForEvent \/ WaitCheck \/ WaitNotReady \/ WaitIdle \/ WaitReturn
  PROVE  TypeInv'
<1>1. /\ StackOK(stack) /\ Top.lvl \in Tpl
      /\ Top.pc # "run" => Len(stack) > 1
  BY RunningOK
<1>2. WaitArray \in Seq(Event) /\ Len(WaitArray) \in Nat \ {0}
  BY CoreEventAssumption, LenProperties, EmptySeq
<1>3. ASSUME NEW pc \in {"wait", "waited", "waitok"}, NEW l \in Tpl
      PROVE  Frame(pc, NoEvent, l) \in Frames
  BY FrameOK DEF Pc, OnEvent
<1>4. CASE CoreWaitForEvent
  <2>1. Frame("wait", NoEvent, TPL_APPLICATION) \in Frames
    BY <1>3, TplAssumption
  <2>2. StackOK(stack')
    BY <1>1, <1>4, <2>1, PushOK DEF CoreWaitForEvent, Push
  <2> QED
    BY <1>2, <1>4, <2>2
       DEF CoreWaitForEvent, TypeInv, CpuOK, QueuesOK, LifetimesOK, CursorsOK,
           StackOK, queues, lifetimes
<1>5. CASE WaitCheck
  <2>1. WaitArray[Index] \in Event
    BY <1>2, ElementOfSeq DEF TypeInv, CursorsOK
  <2>2. StackOK(Goto(Frame("waited", NoEvent, Top.lvl)))
    BY <1>1, <1>3, <1>5, GotoOK DEF WaitCheck, Running, Goto
  <2>3. CpuOK' /\ StackOK(stack)'
    BY <1>5, <2>1, <2>2, CheckOK DEF WaitCheck
  <2> QED
    BY <1>5, <2>3
       DEF WaitCheck, TypeInv, QueuesOK, LifetimesOK, CursorsOK, queues,
           lifetimes, cursors
<1>6. CASE WaitNotReady
  <2>1. StackOK(stack')
    BY <1>1, <1>3, <1>6, GotoOK DEF WaitNotReady, Running, Goto
  <2>2. Index' \in 1 .. Len(WaitArray)
    BY <1>2, <1>6 DEF WaitNotReady, TypeInv, CursorsOK
  <2> QED
    BY <1>6, <2>1, <2>2
       DEF WaitNotReady, TypeInv, CpuOK, QueuesOK, LifetimesOK, CursorsOK,
           StackOK, queues, lifetimes
<1>7. CASE WaitIdle
  <2>1. StackOK(Goto(Frame("wait", NoEvent, Top.lvl)))
    BY <1>1, <1>3, <1>7, GotoOK DEF WaitIdle, Running, Goto
  <2>2. gIdleLoopEvent \in Event
    BY EventAssumption, CoreEventAssumption
  <2>3. CpuOK' /\ QueuesOK' /\ StackOK(stack)'
    BY <1>7, <2>1, <2>2, SignalOK DEF WaitIdle
  <2>4. Index' \in 1 .. Len(WaitArray)
    BY <1>2, <1>7 DEF WaitIdle
  <2> QED
    BY <1>7, <2>3, <2>4 DEF WaitIdle, TypeInv, LifetimesOK, CursorsOK, lifetimes
<1>8. CASE WaitReturn
  <2>1. StackOK(stack')
    BY <1>1, <1>8, ReturnOK DEF WaitReturn, Running, Return
  <2> QED
    BY <1>8, <2>1
       DEF WaitReturn, TypeInv, CpuOK, QueuesOK, LifetimesOK, CursorsOK, StackOK,
           queues, lifetimes, cursors
<1> QED
  BY <1>4, <1>5, <1>6, <1>7, <1>8

LEMMA TypeInvLifetime ==
  ASSUME TypeInv,
         \/ \E e \in Event : CoreCreateEvent(e) \/ CoreCloseEvent(e)
         \/ FreeEvent
         \/ \E e \in Registrable : CoreRegisterProtocolNotify(e)
  PROVE  TypeInv'
<1>1. StackOK(stack) /\ (Top.pc # "run" => Len(stack) > 1)
  BY RunningOK
<1>2. ASSUME NEW e \in Event, CoreCreateEvent(e)
      PROVE  TypeInv'
  <2>1. CpuOK' /\ StackOK(stack)'
    BY <1>1, <1>2, ReleaseOK DEF CoreCreateEvent, TypeInv
  <2>2. gEventSignalQueue' \in Seq(NotifySignal)
    <3>1. CASE e \in NotifySignal
      <4>1. gEventSignalQueue \in Seq(NotifySignal) /\ <<e>> \in Seq(NotifySignal)
        BY <3>1 DEF TypeInv, LifetimesOK
      <4>2. <<e>> \o gEventSignalQueue \in Seq(NotifySignal)
        BY <4>1, ConcatProperties
      <4> QED
        BY <1>2, <3>1, <4>2 DEF CoreCreateEvent
    <3>2. CASE e \notin NotifySignal
      BY <1>2, <3>2 DEF CoreCreateEvent, TypeInv, LifetimesOK
    <3> QED
      BY <3>1, <3>2
  <2>3. QueuesOK' /\ CursorsOK'
    BY <1>2 DEF CoreCreateEvent, TypeInv, QueuesOK, CursorsOK, cursors
  <2>4. live' \subseteq Event /\ registered' \subseteq Event
    BY <1>2 DEF CoreCreateEvent, TypeInv, LifetimesOK
  <2> QED
    BY <2>1, <2>2, <2>3, <2>4 DEF TypeInv, LifetimesOK
<1>3. ASSUME NEW e \in Event, CoreCloseEvent(e)
      PROVE  TypeInv'
  <2>1. Frame("closing", e, gEfiCurrentTpl) \in Frames
    BY FrameOK DEF TypeInv, CpuOK, Pc, OnEvent
  <2>2. StackOK(Push(Frame("closing", e, gEfiCurrentTpl)))
    BY <1>1, <2>1, PushOK DEF Push
  <2>3. CpuOK' /\ StackOK(stack)'
    BY <1>3, <2>2, ReleaseOK DEF CoreCloseEvent, TypeInv
  <2>4. gEventQueue' \in [Tpl -> Seq(Event)]
    <3> DEFINE t == NotifyTpl[e]
    <3>1. gEventQueue' = [gEventQueue EXCEPT ![t] = RemoveEntryList(@, e)]
      BY <1>3 DEF CoreCloseEvent
    <3>2. gEventQueue \in [Tpl -> Seq(Event)]
      BY DEF TypeInv, QueuesOK
    <3> HIDE DEF t
    <3>3. t \in Tpl => RemoveEntryList(gEventQueue[t], e) \in Seq(Event)
      BY <3>2, RemoveEntryListType
    <3> QED
      BY <3>1, <3>2, <3>3
  <2>5. gEventSignalQueue' \in Seq(NotifySignal)
    BY <1>3, RemoveEntryListType DEF CoreCloseEvent, TypeInv, LifetimesOK
  <2> QED
    BY <1>3, <2>3, <2>4, <2>5
       DEF CoreCloseEvent, TypeInv, QueuesOK, LifetimesOK, CursorsOK, cursors
<1>4. CASE FreeEvent
  <2>1. StackOK(stack')
    BY <1>1, <1>4, ReturnOK DEF FreeEvent, Running, Return
  <2> QED
    BY <1>4, <2>1
       DEF FreeEvent, TypeInv, CpuOK, QueuesOK, LifetimesOK, CursorsOK, StackOK,
           queues, cursors
<1>5. ASSUME NEW e \in Registrable, CoreRegisterProtocolNotify(e)
      PROVE  TypeInv'
  <2>1. e \in Event
    BY EventAssumption, CoreEventAssumption
  <2> QED
    BY <1>1, <1>5, <2>1
       DEF CoreRegisterProtocolNotify, TypeInv, CpuOK, QueuesOK, LifetimesOK,
           CursorsOK, StackOK, queues, cursors
<1> QED
  BY <1>2, <1>3, <1>4, <1>5

LEMMA TypeInvInterrupt ==
  ASSUME TypeInv, (\E tick \in BOOLEAN : Interrupt(tick)) \/ InterruptReturn
  PROVE  TypeInv'
<1>1. StackOK(stack) /\ (Top.pc # "run" => Len(stack) > 1)
  BY RunningOK
<1>2. ASSUME NEW tick \in BOOLEAN, Interrupt(tick)
      PROVE  TypeInv'
  <2>1. Frame("irq", NoEvent, gEfiCurrentTpl) \in Frames
    BY FrameOK DEF TypeInv, CpuOK, Pc, OnEvent
  <2>2. StackOK(Push(Frame("irq", NoEvent, gEfiCurrentTpl)))
    BY <1>1, <2>1, PushOK DEF Push
  <2>3. CpuOK' /\ StackOK(stack)'
    BY <1>2, <2>2, ReleaseOK DEF Interrupt, TypeInv
  <2>4. mEfiCheckTimerEvent \in NotifySignal /\ mEfiCheckTimerEvent \in Event
    BY EventAssumption, CoreEventAssumption
  <2>5. QueuesOK'
    <3>1. CASE tick /\ SignalCount[mEfiCheckTimerEvent] = 0
      BY <1>2, <3>1, <2>4, NotifyOK DEF Interrupt, TypeInv, QueuesOK
    <3>2. CASE ~(tick /\ SignalCount[mEfiCheckTimerEvent] = 0)
      BY <1>2, <3>2 DEF Interrupt, TypeInv, QueuesOK, queues
    <3> QED
      BY <3>1, <3>2
  <2> QED
    BY <1>2, <2>3, <2>5
       DEF Interrupt, TypeInv, LifetimesOK, CursorsOK, lifetimes, cursors
<1>3. CASE InterruptReturn
  <2>1. StackOK(stack')
    BY <1>1, <1>3, ReturnOK DEF InterruptReturn, Running, Return
  <2> QED
    BY <1>3, <2>1
       DEF InterruptReturn, TypeInv, CpuOK, QueuesOK, LifetimesOK, CursorsOK,
           StackOK, queues, lifetimes, cursors
<1> QED
  BY <1>2, <1>3

LEMMA TypeInvInit == Init => TypeInv
<1> SUFFICES ASSUME Init PROVE TypeInv
  OBVIOUS
<1>1. /\ gIdleLoopEvent \in NotifySignal /\ mEfiCheckTimerEvent \in NotifySignal
      /\ NotifySignal \subseteq Event
  BY EventAssumption, CoreEventAssumption
<1>2. Frame("run", NoEvent, TPL_APPLICATION) \in Frames
  BY FrameOK, TplAssumption DEF Pc, OnEvent
<1>3. StackOK(stack)
  <2>1. Frame("run", NoEvent, TPL_APPLICATION).pc = "run"
    BY DEF Frame
  <2> QED
    BY <1>2, <2>1 DEF Init, StackOK
<1>4. CpuOK
  BY TplAssumption DEF Init, CpuOK
<1>5. QueuesOK
  BY DEF Init, QueuesOK
<1>6. LifetimesOK
  BY <1>1 DEF Init, LifetimesOK
<1>7. CursorsOK
  <2>1. Len(WaitArray) \in Nat \ {0}
    BY CoreEventAssumption, LenProperties, EmptySeq
  <2> QED
    BY <2>1 DEF Init, CursorsOK
<1> QED
  BY <1>3, <1>4, <1>5, <1>6, <1>7 DEF TypeInv

LEMMA TypeInvNext ==
  ASSUME TypeInv, [Next]_vars
  PROVE  TypeInv'
<1>1. CASE CoreStep
  BY <1>1, TypeInvTpl, TypeInvDispatch, TypeInvSignal, TypeInvCheck, TypeInvWait,
     TypeInvLifetime, TypeInvInterrupt DEF CoreStep
<1>2. CASE Service
  BY <1>2, TypeInvTpl, TypeInvSignal, TypeInvCheck, TypeInvWait, TypeInvLifetime
     DEF Service
<1>3. CASE NotifyReturn
  BY <1>3, TypeInvDispatch
<1>4. CASE \E tick \in BOOLEAN : Interrupt(tick)
  BY <1>4, TypeInvInterrupt
<1>5. CASE UNCHANGED vars
  BY <1>5 DEF vars, TypeInv, CpuOK, QueuesOK, LifetimesOK, CursorsOK, StackOK
<1> QED
  BY <1>1, <1>2, <1>3, <1>4, <1>5 DEF Next

(* The variables keep their types, for any events, levels and wait array:  *)
(* in particular no list operation leaves the queues of the levels in use, *)
(* and no activation returns into an empty stack.                          *)
THEOREM TypeCorrect == Spec => []TypeOK
<1>1. Init => TypeInv
  BY TypeInvInit
<1>2. TypeInv /\ [Next]_vars => TypeInv'
  BY TypeInvNext
<1>3. TypeInv => TypeOK
  BY TypeInvImpliesTypeOK
<1> QED
  BY <1>1, <1>2, <1>3, PTL DEF Spec

-----------------------------------------------------------------------------
(* The notify queues.  A step leaves them alone, queues one event, takes   *)
(* one off, clears the bit of an empty one or unlinks a closed event.      *)

QueueInv == QueuedOnceAtNotifyTpl /\ QueuedIsPending

LEMMA QueueSteps ==
  ASSUME TypeInv, [Next]_vars
  PROVE  \/ UNCHANGED <<gEventQueue, gEventPending>>
         \/ \E e \in NotifySignal \cup NotifyWait : CoreNotifyEvent(e)
         \/ DispatchNext
         \/ DispatchDone
         \/ \E e \in Event : CoreCloseEvent(e)
<1> DEFINE Same == UNCHANGED <<gEventQueue, gEventPending>>
           Notifies == \E e \in NotifySignal \cup NotifyWait : CoreNotifyEvent(e)
<1>1. ASSUME NEW e \in Event, NEW s, Signal(e, s)
      PROVE  Same \/ Notifies
  BY <1>1 DEF Signal, queues
<1>2. CASE CoreStep
  <2>1. CASE NotifySignalListStep
    <3>1. Link \in Nat \ {0} /\ Link <= Len(gEventSignalQueue)
          /\ gEventSignalQueue \in Seq(NotifySignal)
      BY <2>1 DEF NotifySignalListStep, TypeInv, CursorsOK, LifetimesOK
    <3>2. Link \in 1 .. Len(gEventSignalQueue)
      BY <3>1, LenProperties
    <3>3. gEventSignalQueue[Link] \in NotifySignal
      BY <3>1, <3>2, ElementOfSeq
    <3> QED
      BY <2>1, <3>3 DEF NotifySignalListStep
  <2>2. CASE CheckQueue
    <3>1. Top.ev \in NotifyWait
      BY <2>2, RunningOK DEF CheckQueue, Running
    <3> QED
      BY <2>2, <3>1 DEF CheckQueue
  <2>3. CASE WaitIdle
    <3>1. gIdleLoopEvent \in Event
      BY EventAssumption, CoreEventAssumption
    <3> QED
      BY <2>3, <3>1, <1>1 DEF WaitIdle
  <2>4. CASE \/ RestoreTplDispatch \/ RestoreTplExitLoop \/ RestoreTplSet
             \/ DispatchCall \/ NotifySignalListLock \/ NotifySignalListUnlock
             \/ SignalRelock \/ CheckAgain \/ CheckClear
    BY <2>4
       DEF RestoreTplDispatch, RestoreTplExitLoop, RestoreTplSet, DispatchCall,
           NotifySignalListLock, NotifySignalListUnlock, SignalRelock, CheckAgain,
           CheckClear, queues
  <2>5. CASE WaitCheck \/ WaitNotReady \/ WaitReturn \/ FreeEvent \/ InterruptReturn
    BY <2>5 DEF WaitCheck, WaitNotReady, WaitReturn, FreeEvent, InterruptReturn, queues
  <2> QED
    BY <1>2, <2>1, <2>2, <2>3, <2>4, <2>5 DEF CoreStep
<1>3. CASE Service
  <2>1. ASSUME NEW e \in Event, CoreSignalEvent(e) \/ CoreNotifyProtocolEntry(e)
        PROVE  Same \/ Notifies
    BY <2>1, <1>1 DEF CoreSignalEvent, CoreNotifyProtocolEntry
  <2>2. ASSUME NEW e \in Event,
               CoreCheckEvent(e) \/ CoreCreateEvent(e) \/ CoreRegisterProtocolNotify(e)
        PROVE  Same
    BY <2>2 DEF CoreCheckEvent, CoreCreateEvent, CoreRegisterProtocolNotify, queues
  <2>3. ASSUME NEW t \in Tpl, CoreRaiseTpl(t) \/ CoreRestoreTpl(t)
        PROVE  Same
    BY <2>3 DEF CoreRaiseTpl, CoreRestoreTpl, queues
  <2>4. CASE CoreWaitForEvent
    BY <2>4 DEF CoreWaitForEvent, queues
  <2>5. Registrable \subseteq Event
    BY EventAssumption, CoreEventAssumption
  <2> QED
    BY <1>3, <2>1, <2>2, <2>3, <2>4, <2>5 DEF Service
<1>4. CASE NotifyReturn
  BY <1>4 DEF NotifyReturn, queues
<1>5. CASE \E tick \in BOOLEAN : Interrupt(tick)
  <2>1. mEfiCheckTimerEvent \in NotifySignal
    BY CoreEventAssumption
  <2> QED
    BY <1>5, <2>1 DEF Interrupt, queues
<1>6. CASE UNCHANGED vars
  BY <1>6 DEF vars
<1> QED
  BY <1>2, <1>3, <1>4, <1>5, <1>6 DEF Next

LEMMA QueueInvNotify ==
  ASSUME TypeInv, QueueInv, NEW e \in NotifySignal \cup NotifyWait, CoreNotifyEvent(e)
  PROVE  QueueInv'
<1> DEFINE l == NotifyTpl[e]
           q == gEventQueue[l]
           r == RemoveEntryList(q, e)
           a == Append(r, e)
<1>1. e \in Event /\ l \in Tpl
  BY EventAssumption, TplAssumption DEF TPL_APPLICATION
<1>2. gEventQueue \in [Tpl -> Seq(Event)]
  BY DEF TypeInv, QueuesOK
<1>3. gEventQueue' = [gEventQueue EXCEPT ![l] = a] /\ gEventPending' = gEventPending \cup {l}
  BY DEF CoreNotifyEvent
<1>4. /\ q \in Seq(Event)
      /\ \A i \in 1 .. Len(q) : NotifyTpl[q[i]] = l
      /\ \A i, j \in 1 .. Len(q) : q[i] = q[j] => i = j
  BY <1>1, <1>2 DEF QueueInv, QueuedOnceAtNotifyTpl
<1> HIDE DEF q
<1>5. /\ r \in Seq(Event)
      /\ \A i \in 1 .. Len(r) : r[i] # e /\ \E j \in 1 .. Len(q) : r[i] = q[j]
      /\ \A i, j \in 1 .. Len(r) : r[i] = r[j] => i = j
  BY <1>4, RemoveEntryListProperties
<1> HIDE DEF r
<1>6. /\ a \in Seq(Event) /\ Len(a) = Len(r) + 1
      /\ \A i \in 1 .. Len(r) : a[i] = r[i]
      /\ a[Len(r) + 1] = e
  BY <1>1, <1>5, AppendProperties
<1>7. Len(r) \in Nat
  BY <1>5, LenProperties
<1> HIDE DEF a
<1>8. \A i \in 1 .. Len(a) : NotifyTpl[a[i]] = l
  BY <1>4, <1>5, <1>6, <1>7 DEF l
<1>9. \A i, j \in 1 .. Len(a) : a[i] = a[j] => i = j
  BY <1>5, <1>6, <1>7
<1> HIDE DEF l
<1>10. QueuedOnceAtNotifyTpl'
  BY <1>1, <1>2, <1>3, <1>8, <1>9 DEF QueueInv, QueuedOnceAtNotifyTpl
<1>11. QueuedIsPending'
  BY <1>1, <1>2, <1>3 DEF QueueInv, QueuedIsPending
<1> QED
  BY <1>10, <1>11 DEF QueueInv

LEMMA QueueInvDispatchNext ==
  ASSUME TypeInv, QueueInv, DispatchNext
  PROVE  QueueInv'
<1> DEFINE l == Top.lvl
           q == gEventQueue[l]
           r == Tail(q)
<1>1. l \in Tpl
  BY RunningOK
<1>2. gEventQueue \in [Tpl -> Seq(Event)]
  BY DEF TypeInv, QueuesOK
<1>3. gEventQueue' = [gEventQueue EXCEPT ![l] = r] /\ gEventPending' = gEventPending
  BY DEF DispatchNext
<1>4. /\ q \in Seq(Event) /\ q # <<>>
      /\ \A i \in 1 .. Len(q) : NotifyTpl[q[i]] = l
      /\ \A i, j \in 1 .. Len(q) : q[i] = q[j] => i = j
  BY <1>1, <1>2 DEF QueueInv, QueuedOnceAtNotifyTpl, DispatchNext
<1>5. l \in gEventPending
  BY <1>1 DEF QueueInv, QueuedIsPending, DispatchNext
<1> HIDE DEF q
<1>6. /\ Len(r) = Len(q) - 1
      /\ \A i \in 1 .. Len(r) : r[i] = q[i + 1]
  BY <1>4, HeadTailProperties
<1>7. Len(q) \in Nat
  BY <1>4, LenProperties
<1> HIDE DEF r
<1>8. \A i \in 1 .. Len(r) : NotifyTpl[r[i]] = l
  BY <1>4, <1>6, <1>7
<1>9. ASSUME NEW i \in 1 .. Len(r), NEW j \in 1 .. Len(r), r[i] = r[j]
      PROVE  i = j
  <2>1. i + 1 \in 1 .. Len(q) /\ j + 1 \in 1 .. Len(q) /\ q[i + 1] = q[j + 1]
    BY <1>6, <1>7, <1>9
  <2> QED
    BY <2>1, <1>4
<1> HIDE DEF l
<1>10. QueuedOnceAtNotifyTpl'
  BY <1>1, <1>2, <1>3, <1>8, <1>9 DEF QueueInv, QueuedOnceAtNotifyTpl
<1>11. QueuedIsPending'
  BY <1>1, <1>2, <1>3, <1>5 DEF QueueInv, QueuedIsPending
<1> QED
  BY <1>10, <1>11 DEF QueueInv

LEMMA QueueInvClose ==
  ASSUME TypeInv, QueueInv, NEW e \in Event, CoreCloseEvent(e)
  PROVE  QueueInv'
<1> DEFINE l == NotifyTpl[e]
           q == gEventQueue[l]
           r == RemoveEntryList(q, e)
<1>1. gEventQueue \in [Tpl -> Seq(Event)]
  BY DEF TypeInv, QueuesOK
<1>2. gEventQueue' = [gEventQueue EXCEPT ![l] = r] /\ gEventPending' = gEventPending
  BY DEF CoreCloseEvent
<1>3. CASE l \in Tpl
  <2>1. /\ q \in Seq(Event)
        /\ \A i \in 1 .. Len(q) : NotifyTpl[q[i]] = l
        /\ \A i, j \in 1 .. Len(q) : q[i] = q[j] => i = j
        /\ q # <<>> => l \in gEventPending
    BY <1>1, <1>3 DEF QueueInv, QueuedOnceAtNotifyTpl, QueuedIsPending
  <2> HIDE DEF q
  <2>2. /\ r \in Seq(Event)
        /\ \A i \in 1 .. Len(r) : r[i] # e /\ \E j \in 1 .. Len(q) : r[i] = q[j]
        /\ \A i, j \in 1 .. Len(r) : r[i] = r[j] => i = j
    BY <2>1, RemoveEntryListProperties
  <2> HIDE DEF r
  <2>3. \A i \in 1 .. Len(r) : NotifyTpl[r[i]] = l
    BY <2>1, <2>2
  <2>4. r # <<>> => q # <<>>
    <3>1. Len(r) \in Nat /\ Len(q) \in Nat
      BY <2>1, <2>2, LenProperties
    <3>2. (r = <<>> <=> Len(r) = 0) /\ (q = <<>> <=> Len(q) = 0)
      BY <2>1, <2>2, EmptySeq
    <3> QED
      BY <2>2, <3>1, <3>2
  <2> HIDE DEF l
  <2>5. QueuedOnceAtNotifyTpl'
    BY <1>1, <1>2, <1>3, <2>2, <2>3 DEF QueueInv, QueuedOnceAtNotifyTpl
  <2>6. QueuedIsPending'
    BY <1>1, <1>2, <1>3, <2>1, <2>4 DEF QueueInv, QueuedIsPending
  <2> QED
    BY <2>5, <2>6 DEF QueueInv
<1>4. CASE l \notin Tpl
  <2> HIDE DEF l, r
  <2>1. gEventQueue' = gEventQueue
    BY <1>1, <1>2, <1>4
  <2> QED
    BY <1>2, <2>1 DEF QueueInv, QueuedOnceAtNotifyTpl, QueuedIsPending
<1> QED
  BY <1>3, <1>4

LEMMA QueueInvNext ==
  ASSUME TypeInv, QueueInv, [Next]_vars
  PROVE  QueueInv'
<1>1. CASE UNCHANGED <<gEventQueue, gEventPending>>
  BY <1>1 DEF QueueInv, QueuedOnceAtNotifyTpl, QueuedIsPending
<1>2. CASE DispatchDone
  <2>1. Top.lvl \in Tpl /\ gEventQueue[Top.lvl] = <<>>
    BY <1>2, RunningOK DEF DispatchDone
  <2>2. gEventQueue' = gEventQueue /\ gEventPending' = gEventPending \ {Top.lvl}
    BY <1>2 DEF DispatchDone
  <2> QED
    BY <2>1, <2>2 DEF QueueInv, QueuedOnceAtNotifyTpl, QueuedIsPending
<1> QED
  BY <1>1, <1>2, QueueSteps, QueueInvNotify, QueueInvDispatchNext, QueueInvClose

LEMMA QueueInvariant == Spec => [](TypeInv /\ QueueInv)
<1>1. Init => TypeInv /\ QueueInv
  <2>1. Init => QueueInv
    BY DEF Init, QueueInv, QueuedOnceAtNotifyTpl, QueuedIsPending
  <2> QED
    BY <2>1, TypeInvInit
<1>2. TypeInv /\ QueueInv /\ [Next]_vars => (TypeInv /\ QueueInv)'
  BY TypeInvNext, QueueInvNext
<1> QED
  BY <1>1, <1>2, PTL DEF Spec

(* However signals, checks, group walks and dispatches interleave, an      *)
(* event is queued at its own level only, and never twice.                 *)
THEOREM QueuedOnce == Spec => []QueuedOnceAtNotifyTpl
<1>1. QueueInv => QueuedOnceAtNotifyTpl
  BY DEF QueueInv
<1> QED
  BY <1>1, QueueInvariant, PTL

(* No queued event is overlooked by the test of gEventPending in           *)
(* CoreRestoreTpl.                                                         *)
THEOREM PendingComplete == Spec => []QueuedIsPending
<1>1. QueueInv => QueuedIsPending
  BY DEF QueueInv
<1> QED
  BY <1>1, QueueInvariant, PTL
=============================================================================
