---------------------------- MODULE EventTimerProofs ----------------------------
(***************************************************************************)
(* Proofs about EventTimer: its types, and that it implements EventTpl, so *)
(* that what is proved of the event core holds with timers too.            *)
(***************************************************************************)
EXTENDS EventTimer, TplDisciplineProofs

-----------------------------------------------------------------------------
(* Lists kept in the order of a field.                                     *)

Ascending(s, T) ==
  \A j, k \in 1 .. Len(s) : j < k => T[s[j]] <= T[s[k]] /\ s[j] # s[k]

OnList(s, e) == \E k \in 1 .. Len(s) : s[k] = e

LEMMA InsertAtProperties ==
  ASSUME NEW S, NEW s \in Seq(S), NEW k \in 1 .. Len(s) + 1, NEW e \in S
  PROVE  /\ InsertAt(s, k, e) \in Seq(S)
         /\ Len(InsertAt(s, k, e)) = Len(s) + 1
         /\ \A i \in 1 .. Len(s) + 1 :
              InsertAt(s, k, e)[i] =
                IF i < k THEN s[i] ELSE IF i = k THEN e ELSE s[i - 1]
<1> DEFINE n == Len(s)
           a == SubSeq(s, 1, k - 1)
           b == Append(a, e)
           c == SubSeq(s, k, n)
<1>1. n \in Nat /\ k \in 1 .. n + 1 /\ \A i \in 1 .. n : s[i] \in S
  BY LenProperties, ElementOfSeq
<1>2. InsertAt(s, k, e) = a \o <<e>> \o c
  BY DEF InsertAt
<1>3. a \in Seq(S) /\ Len(a) = k - 1 /\ c \in Seq(S) /\ Len(c) = n - k + 1
  OBVIOUS
<1> HIDE DEF n
<1>4. \A i \in 1 .. (k - 1) - 1 + 1 : a[i] = s[1 + i - 1]
  BY <1>1, SubSeqProperties
<1>5. \A i \in 1 .. n - k + 1 : c[i] = s[k + i - 1]
  BY <1>1, SubSeqProperties
<1> HIDE DEF a, c
<1>6. b = a \o <<e>>
  BY <1>3
<1>7. /\ b \in Seq(S) /\ Len(b) = k /\ b[k] = e
      /\ \A i \in 1 .. k - 1 : b[i] = a[i]
  BY <1>1, <1>3, AppendProperties
<1> HIDE DEF b
<1>8. /\ b \o c \in Seq(S)
      /\ Len(b \o c) = Len(b) + Len(c)
      /\ \A i \in 1 .. Len(b) + Len(c) :
           (b \o c)[i] = IF i <= Len(b) THEN b[i] ELSE c[i - Len(b)]
  BY <1>3, <1>7, ConcatProperties
<1>9. /\ Len(b \o c) = n + 1
      /\ \A i \in 1 .. n + 1 : (b \o c)[i] = IF i <= k THEN b[i] ELSE c[i - k]
  <2>1. Len(b) = k /\ Len(b) + Len(c) = n + 1
    BY <1>1, <1>3, <1>7
  <2> QED BY <2>1, <1>8
<1>10. ASSUME NEW i \in 1 .. n + 1
       PROVE  (b \o c)[i] = IF i < k THEN s[i] ELSE IF i = k THEN e ELSE s[i - 1]
  <2>1. CASE i < k
    <3>1. i \in 1 .. k - 1 /\ i \in 1 .. (k - 1) - 1 + 1 /\ 1 + i - 1 = i /\ i <= k
      BY <2>1, <1>1
    <3> QED BY <2>1, <3>1, <1>4, <1>7, <1>9
  <2>2. CASE i = k
    BY <2>2, <1>1, <1>7, <1>9
  <2>3. CASE i > k
    <3>1. i - k \in 1 .. n - k + 1 /\ k + (i - k) - 1 = i - 1 /\ ~(i <= k)
      BY <2>3, <1>1
    <3>2. c[i - k] = s[k + (i - k) - 1]
      BY <3>1, <1>5
    <3> QED BY <2>3, <3>1, <3>2, <1>1, <1>9
  <2>4. i < k \/ i = k \/ i > k
    BY <1>1
  <2> QED BY <2>1, <2>2, <2>3, <2>4
<1> QED
  BY <1>2, <1>6, <1>8, <1>9, <1>10 DEF n

LEMMA FirstProperties ==
  ASSUME NEW S, S \subseteq Nat, S # {}
  PROVE  LET m == CHOOSE k \in S : \A j \in S : k <= j
         IN  m \in S /\ \A j \in S : m <= j
<1> DEFINE R == {pair \in Nat \X Nat : pair[1] < pair[2]}
<1>1. IsWellFoundedOn(R, Nat)
  BY NatLessThanWellFounded DEF OpToRel
<1> HIDE DEF R
<1>2. PICK m \in S : \A j \in S : <<j, m>> \notin R
  BY <1>1, WFMin
<1>3. ASSUME NEW j \in S
      PROVE  m <= j
  <2>1. <<j, m>> \notin R /\ j \in Nat /\ m \in Nat
    BY <1>2
  <2> QED BY <2>1 DEF R
<1> QED BY <1>3

(* RemoveEntryList keeps the order, and takes the event off the list.      *)
LEMMA RemoveAscends ==
  ASSUME NEW S, NEW s \in Seq(S), NEW T, Ascending(s, T), NEW e
  PROVE  /\ Ascending(RemoveEntryList(s, e), T)
         /\ ~OnList(RemoveEntryList(s, e), e)
         /\ \A x : OnList(RemoveEntryList(s, e), x) => OnList(s, x)
<1> DEFINE r == RemoveEntryList(s, e)
           k == Position(s, e)
           n == Len(s)
<1>0. n \in Nat
  BY LenProperties
<1>1. CASE OnList(s, e)
  <2>1. k \in 1 .. n /\ s[k] = e
    BY <1>1 DEF Position, OnList
  <2>2. r = RemoveAt(s, k)
    BY <1>1 DEF RemoveEntryList, OnList
  <2> HIDE DEF k
  <2>3. /\ Len(r) = n - 1
        /\ \A i \in 1 .. n - 1 : r[i] = IF i < k THEN s[i] ELSE s[i + 1]
    BY <2>1, <2>2, RemoveAtProperties
  <2> DEFINE old(i) == IF i < k THEN i ELSE i + 1
  <2>4. \A i \in 1 .. n - 1 : old(i) \in 1 .. n /\ old(i) # k /\ r[i] = s[old(i)]
    BY <1>0, <2>1, <2>3
  <2>5. \A i, j \in 1 .. n - 1 : i < j => old(i) < old(j)
    BY <1>0, <2>1
  <2> HIDE DEF r, old, n
  <2>6. Ascending(r, T)
    BY <2>3, <2>4, <2>5 DEF Ascending, n
  <2>7. \A i \in 1 .. n - 1 : r[i] # e
    <3> TAKE i \in 1 .. n - 1
    <3>1. old(i) \in 1 .. n /\ old(i) # k /\ r[i] = s[old(i)]
      BY <2>4
    <3>2. old(i) < k \/ k < old(i)
      BY <3>1, <2>1, <1>0
    <3> QED BY <3>1, <3>2, <2>1 DEF Ascending, n
  <2>8. \A x : OnList(r, x) => OnList(s, x)
    BY <2>3, <2>4 DEF OnList, n
  <2> QED BY <2>3, <2>6, <2>7, <2>8 DEF OnList, r
<1>2. CASE ~OnList(s, e)
  <2>1. r = s
    BY <1>2 DEF RemoveEntryList, OnList
  <2> QED BY <1>2, <2>1
<1> QED BY <1>1, <1>2

(* A field of an event that is not on the list does not matter to it.      *)
LEMMA AscendingOthers ==
  ASSUME NEW S, NEW s \in Seq(S), NEW T, NEW t, Ascending(s, T), NEW e, ~OnList(s, e),
         \A x \in S \ {e} : t[x] = T[x]
  PROVE  Ascending(s, t)
<1>1. \A k \in 1 .. Len(s) : s[k] \in S \ {e}
  BY ElementOfSeq DEF OnList
<1> QED BY <1>1 DEF Ascending

LEMMA InsertEventTimerPlace ==
  ASSUME mEfiTimerList \in Seq(Timers), TriggerTime \in [Event -> Nat],
         Ascending(mEfiTimerList, TriggerTime), NEW e, NEW trigger \in Nat
  PROVE  \E at \in 1 .. Len(mEfiTimerList) + 1 :
           /\ InsertEventTimer(e, trigger) = InsertAt(mEfiTimerList, at, e)
           /\ \A j \in 1 .. Len(mEfiTimerList) :
                IF j < at THEN TriggerTime[mEfiTimerList[j]] <= trigger
                          ELSE trigger <= TriggerTime[mEfiTimerList[j]]
<1> DEFINE list  == mEfiTimerList
           later == {k \in 1 .. Len(list) : TriggerTime[list[k]] > trigger}
           first == CHOOSE k \in later : \A j \in later : k <= j
           at    == IF later = {} THEN Len(list) + 1 ELSE first
<1>0. InsertEventTimer(e, trigger) = InsertAt(list, at, e)
  BY DEF InsertEventTimer
<1>1. Len(list) \in Nat /\ \A j \in 1 .. Len(list) : TriggerTime[list[j]] \in Nat
  <2>1. Timers \subseteq Event
    BY TimerAssumption
  <2> QED BY <2>1, LenProperties, ElementOfSeq
<1>2. later # {} => first \in later /\ \A j \in later : first <= j
  <2> later \subseteq Nat
    OBVIOUS
  <2> HIDE DEF later
  <2> QED BY FirstProperties
<1> HIDE DEF first
<1>3. at \in 1 .. Len(list) + 1
  BY <1>1, <1>2
<1>4. ASSUME NEW j \in 1 .. Len(list)
      PROVE  IF j < at THEN TriggerTime[list[j]] <= trigger
                       ELSE trigger <= TriggerTime[list[j]]
  <2>1. CASE later = {}
    BY <2>1, <1>1
  <2>2. CASE later # {} /\ j < at
    BY <2>2, <1>1, <1>2
  <2>3. CASE later # {} /\ ~(j < at)
    <3>1. at \in later /\ at <= j
      BY <2>3, <1>1, <1>2
    <3>2. TriggerTime[list[at]] > trigger /\ at \in 1 .. Len(list)
      BY <3>1
    <3>3. TriggerTime[list[at]] <= TriggerTime[list[j]]
      <4>1. CASE at = j
        BY <4>1, <1>1
      <4>2. CASE at # j
        <5>1. at < j
          BY <4>2, <3>1, <3>2
        <5> HIDE DEF at
        <5> QED BY <5>1, <3>2 DEF Ascending
      <4> QED BY <4>1, <4>2
    <3>4. TriggerTime[list[at]] \in Nat /\ TriggerTime[list[j]] \in Nat
      BY <3>2, <1>1
    <3> HIDE DEF at
    <3> QED BY <2>3, <3>2, <3>3, <3>4
  <2> QED BY <2>1, <2>2, <2>3
<1> HIDE DEF at
<1> QED BY <1>0, <1>3, <1>4

(* CoreInsertEventTimer puts an event where it keeps the list in order.    *)
LEMMA InsertAscends ==
  ASSUME mEfiTimerList \in Seq(Timers), TriggerTime \in [Event -> Nat],
         Ascending(mEfiTimerList, TriggerTime), NEW e \in Timers,
         ~OnList(mEfiTimerList, e), NEW trigger \in Nat,
         NEW t, t[e] = trigger, \A x \in Timers \ {e} : t[x] = TriggerTime[x]
  PROVE  /\ InsertEventTimer(e, trigger) \in Seq(Timers)
         /\ Ascending(InsertEventTimer(e, trigger), t)
         /\ \A x : OnList(InsertEventTimer(e, trigger), x) => x = e \/ OnList(mEfiTimerList, x)
<1> DEFINE list == mEfiTimerList
           r == InsertEventTimer(e, trigger)
           n == Len(list)
<1>1. PICK at \in 1 .. n + 1 :
        /\ r = InsertAt(list, at, e)
        /\ \A j \in 1 .. n : IF j < at THEN TriggerTime[list[j]] <= trigger
                                       ELSE trigger <= TriggerTime[list[j]]
  BY InsertEventTimerPlace
<1>2. n \in Nat
  BY LenProperties
<1>3. /\ r \in Seq(Timers) /\ Len(r) = n + 1
      /\ \A i \in 1 .. n + 1 :
           r[i] = IF i < at THEN list[i] ELSE IF i = at THEN e ELSE list[i - 1]
  BY <1>1, InsertAtProperties
<1>4. \A j \in 1 .. n : list[j] \in Timers \ {e} /\ t[list[j]] = TriggerTime[list[j]]
  BY ElementOfSeq DEF OnList
<1> DEFINE old(i) == IF i < at THEN i ELSE i - 1
<1>5. \A i \in 1 .. n + 1 : i # at => old(i) \in 1 .. n /\ r[i] = list[old(i)]
  BY <1>2, <1>3
<1>6. r[at] = e
  BY <1>2, <1>3
<1>7. \A i, j \in 1 .. n + 1 : i < j /\ i # at /\ j # at => old(i) < old(j)
  BY <1>2
<1>8. \A i \in 1 .. n + 1 : /\ i < at => old(i) < at
                            /\ i > at => ~(old(i) < at)
  BY <1>2
<1> HIDE DEF r, old, n, list
<1>9. ASSUME NEW i \in 1 .. n + 1, NEW j \in 1 .. n + 1, i < j
      PROVE  t[r[i]] <= t[r[j]] /\ r[i] # r[j]
  <2>1. CASE i # at /\ j # at
    <3>1. /\ old(i) \in 1 .. n /\ r[i] = list[old(i)]
          /\ old(j) \in 1 .. n /\ r[j] = list[old(j)] /\ old(i) < old(j)
      BY <2>1, <1>5, <1>7, <1>9
    <3>2. TriggerTime[list[old(i)]] <= TriggerTime[list[old(j)]] /\ list[old(i)] # list[old(j)]
      BY <3>1 DEF Ascending, n, list
    <3>3. t[list[old(i)]] = TriggerTime[list[old(i)]] /\ t[list[old(j)]] = TriggerTime[list[old(j)]]
      BY <3>1, <1>4
    <3> QED BY <3>1, <3>2, <3>3
  <2>2. CASE i = at
    <3>1. j # at /\ j > at
      BY <2>2, <1>9, <1>2
    <3>2. old(j) \in 1 .. n /\ r[j] = list[old(j)] /\ ~(old(j) < at)
      BY <3>1, <1>5, <1>8
    <3>3. trigger <= TriggerTime[list[old(j)]]
      BY <3>2, <1>1
    <3>4. list[old(j)] # e /\ t[list[old(j)]] = TriggerTime[list[old(j)]]
      BY <3>2, <1>4
    <3> QED BY <2>2, <1>6, <3>2, <3>3, <3>4
  <2>3. CASE j = at
    <3>1. i # at /\ i < at
      BY <2>3, <1>9, <1>2
    <3>2. old(i) \in 1 .. n /\ r[i] = list[old(i)] /\ old(i) < at
      BY <3>1, <1>5, <1>8
    <3>3. TriggerTime[list[old(i)]] <= trigger
      BY <3>2, <1>1
    <3>4. list[old(i)] # e /\ t[list[old(i)]] = TriggerTime[list[old(i)]]
      BY <3>2, <1>4
    <3> QED BY <2>3, <1>6, <3>2, <3>3, <3>4
  <2> QED BY <2>1, <2>2, <2>3
<1>10. Ascending(r, t)
  BY <1>3, <1>9 DEF Ascending
<1>11. \A x : OnList(r, x) => x = e \/ OnList(list, x)
  BY <1>3, <1>5, <1>6 DEF OnList, n
<1> QED BY <1>3, <1>10, <1>11 DEF r, list

-----------------------------------------------------------------------------
(* Types.                                                                  *)

(* The timer function that owns the lock and works on an event has one.    *)
OnTimer == {"remove", "lockTime", "readTime", "insert", "signal", "advance", "again", "rearm"}

TimerInv == TimerTypeOK /\ (op.pc \in OnTimer => op.ev \in Timers)

LEMMA InsertEventTimerType ==
  ASSUME TimerTypeOK, NEW e \in Timers, NEW trigger
  PROVE  InsertEventTimer(e, trigger) \in Seq(Timers)
<1> DEFINE list  == mEfiTimerList
           later == {k \in 1 .. Len(list) : TriggerTime[list[k]] > trigger}
           first == CHOOSE k \in later : \A j \in later : k <= j
           at    == IF later = {} THEN Len(list) + 1 ELSE first
<1>1. list \in Seq(Timers) /\ Len(list) \in Nat
  BY DEF TimerTypeOK
<1>2. later # {} => first \in later
  <2> later \subseteq Nat
    OBVIOUS
  <2> HIDE DEF later
  <2> QED BY FirstProperties
<1>3. at \in 1 .. Len(list) + 1
  BY <1>1, <1>2
<1> HIDE DEF at
<1>4. InsertAt(list, at, e) \in Seq(Timers)
  BY <1>1, <1>3, InsertAtProperties
<1> QED BY <1>4 DEF InsertEventTimer, at

(* The steps of the timer code.                                            *)
USE DEF timerVars, At, Then

LEMMA TimerInvSet ==
  ASSUME TypeInv, TimerInv,
         \/ \E e \in Event : \/ CoreSetTimer(e)
                             \/ AcquireTimerLock("close", e, 0, 0)
         \/ SetTimerRemove \/ SetTimerInsert \/ ReleaseTimerLock
  PROVE  TimerInv'
<1>0. gEfiCurrentTpl \in Tpl
  BY DEF TypeInv, CpuOK
<1>1. ASSUME NEW e, NEW d \in Nat, NEW p \in Nat,
             NEW kind \in {"cancel", "close", "relative", "periodic"},
             AcquireTimerLock(kind, e, d, p)
      PROVE  TimerInv'
  BY <1>0, <1>1, TimerAssumption DEF AcquireTimerLock, TimerInv, TimerTypeOK, OpPc, OnTimer
<1>2. ASSUME NEW e \in Event, CoreSetTimer(e)
      PROVE  TimerInv'
  <2>1. Delays \subseteq Nat /\ TickPeriod \in Nat
    BY TimerAssumption
  <2> QED BY <1>1, <1>2, <2>1 DEF CoreSetTimer
<1>3. CASE SetTimerRemove
  <2>1. mEfiTimerList' \in Seq(Timers)
    BY <1>3, RemoveEntryListType DEF SetTimerRemove, TimerInv, TimerTypeOK
  <2> QED BY <1>3, <2>1 DEF SetTimerRemove, TimerInv, TimerTypeOK, OpPc, OnTimer
<1>4. CASE SetTimerInsert
  <2>1. op.ev \in Timers
    BY <1>4 DEF SetTimerInsert, TimerInv, OnTimer
  <2>2. mEfiTimerList' \in Seq(Timers)
    BY <1>4, <2>1, InsertEventTimerType DEF SetTimerInsert, TimerInv
  <2>3. op.now + op.delay \in Nat
    BY DEF TimerInv, TimerTypeOK
  <2> QED BY <1>4, <2>2, <2>3 DEF SetTimerInsert, TimerInv, TimerTypeOK, OpPc, OnTimer
<1>5. CASE ReleaseTimerLock
  <2>1. Len(stack) \in Nat
    BY TopOK DEF TypeInv
  <2>2. Idle.pc = "none" /\ op' = Idle
    BY <1>5 DEF ReleaseTimerLock, Idle
  <2>3. TimerTypeOK'
    BY <1>5, <2>1, TimerAssumption DEF ReleaseTimerLock, TimerInv, TimerTypeOK, OpPc, Idle
  <2> QED BY <2>2, <2>3 DEF TimerInv, OnTimer
<1> QED BY <1>1, <1>2, <1>3, <1>4, <1>5

LEMMA TimerInvTime ==
  ASSUME TypeInv, TimerInv, LockSystemTime \/ ReadSystemTime \/ SignalCheckTimers
  PROVE  TimerInv'
<1>1. CASE LockSystemTime
  BY <1>1 DEF LockSystemTime, TimerInv, TimerTypeOK, OpPc, OnTimer
<1>2. CASE ReadSystemTime
  <2>1. mEfiSystemTime \in Nat
    BY TimerAssumption DEF TimerInv, TimerTypeOK
  <2> QED BY <1>2, <2>1 DEF ReadSystemTime, TimerInv, TimerTypeOK, OpPc, OnTimer
<1>3. CASE SignalCheckTimers
  BY <1>3 DEF SignalCheckTimers, TimerInv, TimerTypeOK, OpPc, OnTimer
<1> QED BY <1>1, <1>2, <1>3

LEMMA TimerInvCheck ==
  ASSUME TypeInv, TimerInv,
         \/ StartCheckTimers \/ CheckTimersRemove \/ CheckTimersSignal
         \/ CheckTimersAdvance \/ CheckTimersRearm \/ CheckTimersDone
  PROVE  TimerInv'
<1>1. CASE StartCheckTimers
  <2>1. op' = [pc |-> "lockNow", kind |-> "check", ev |-> NoEvent, now |-> 0,
               owner |-> TPL_TIMER, delay |-> 0, period |-> 0]
    BY <1>1 DEF StartCheckTimers, Idle
  <2>2. op'.pc \notin OnTimer
    BY <2>1 DEF OnTimer
  <2>3. UNCHANGED <<timerVars, canceller>>
    BY <1>1 DEF StartCheckTimers
  <2>4. TPL_TIMER \in Tpl /\ "lockNow" \in OpPc
    BY TimerAssumption DEF OpPc
  <2> HIDE DEF OpPc
  <2>5. TimerTypeOK'
    BY <2>1, <2>3, <2>4 DEF TimerInv, TimerTypeOK
  <2> QED BY <2>2, <2>5 DEF TimerInv
<1>2. CASE CheckTimersRemove
  <2>1. mEfiTimerList \in Seq(Timers) /\ mEfiTimerList # <<>>
    BY <1>2 DEF CheckTimersRemove, Expired, TimerInv, TimerTypeOK
  <2>2. Head(mEfiTimerList) \in Timers /\ Tail(mEfiTimerList) \in Seq(Timers)
    BY <2>1
  <2> QED BY <1>2, <2>2, TimerAssumption
          DEF CheckTimersRemove, TimerInv, TimerTypeOK, OpPc, OnTimer
<1>3. CASE CheckTimersSignal
  BY <1>3 DEF CheckTimersSignal, TimerInv, TimerTypeOK, OpPc, OnTimer
<1>4. CASE CheckTimersAdvance
  <2> DEFINE next == TriggerTime[op.ev] + Period[op.ev]
  <2>1. op.ev \in Timers /\ op.ev \in Event /\ op.now \in Nat
    BY <1>4, TimerAssumption DEF CheckTimersAdvance, TimerInv, TimerTypeOK, OnTimer
  <2>2. next \in Nat
    BY <2>1 DEF TimerInv, TimerTypeOK
  <2>3. TriggerTime' \in [Event -> Nat]
    BY <1>4, <2>1, <2>2 DEF CheckTimersAdvance, TimerInv, TimerTypeOK
  <2>4. PICK l \in {"again", "rearm"} : op' = [op EXCEPT !.pc = l]
    BY <1>4 DEF CheckTimersAdvance
  <2> QED BY <1>4, <2>1, <2>3, <2>4
          DEF CheckTimersAdvance, TimerInv, TimerTypeOK, OpPc, OnTimer
<1>5. CASE CheckTimersRearm
  <2>1. op.ev \in Timers
    BY <1>5 DEF CheckTimersRearm, TimerInv, OnTimer
  <2>2. mEfiTimerList' \in Seq(Timers)
    BY <1>5, <2>1, InsertEventTimerType DEF CheckTimersRearm, TimerInv
  <2> QED BY <1>5, <2>2 DEF CheckTimersRearm, TimerInv, TimerTypeOK, OpPc, OnTimer
<1>6. CASE CheckTimersDone
  BY <1>6, TimerAssumption DEF CheckTimersDone, TimerInv, TimerTypeOK, OpPc, OnTimer, Idle
<1> QED BY <1>1, <1>2, <1>3, <1>4, <1>5, <1>6

LEMMA TimerInvRest ==
  ASSUME TypeInv, TimerInv,
         \/ CheckTimersReturn \/ OtherCoreStep \/ DriverStep
         \/ \E e \in Event : CloseCancelled(e)
         \/ \E d \in Durations : CoreTimerTick(d)
  PROVE  TimerInv'
<1>1. CASE UNCHANGED <<timerVars, op, canceller>>
  BY <1>1 DEF TimerInv, TimerTypeOK
<1>2. ASSUME NEW e \in Event, CloseCancelled(e)
      PROVE  TimerInv'
  BY <1>2 DEF CloseCancelled, TimerInv, TimerTypeOK
<1>3. ASSUME NEW d \in Durations, CoreTimerTick(d)
      PROVE  TimerInv'
  <2>1. mEfiSystemTime' \in 0 .. MaxTime
    BY <1>3, TimerAssumption DEF CoreTimerTick, TimerInv, TimerTypeOK
  <2> QED BY <1>3, <2>1 DEF CoreTimerTick, TimerInv, TimerTypeOK
<1> QED BY <1>1, <1>2, <1>3 DEF CheckTimersReturn, OtherCoreStep, DriverStep

LEMMA TimerInvNext ==
  ASSUME TypeInv, TimerInv, [TimerNext]_allVars
  PROVE  TimerInv'
<1>1. CASE UNCHANGED allVars
  BY <1>1 DEF allVars, TimerInv, TimerTypeOK
<1>2. CASE TimerNext
  BY <1>2, TimerInvSet, TimerInvTime, TimerInvCheck, TimerInvRest DEF TimerNext, TimerStep
<1> QED BY <1>1, <1>2

(* Every step of the timer code is one of the services of the event core,  *)
(* a step of its own, an interrupt, or leaves the core's variables alone.  *)
LEMMA CoreSteps ==
  ASSUME CoreStep \/ NotifyReturn \/ \E tick \in BOOLEAN : Interrupt(tick)
  PROVE  OpenStep
BY DEF OpenStep

LEMMA ServiceSteps ==
  ASSUME \/ \E t \in Tpl : CoreRaiseTpl(t) \/ CoreRestoreTpl(t)
         \/ \E e \in Event : \/ CoreSignalEvent(e) \/ CoreCheckEvent(e)
                             \/ CoreCreateEvent(e)
         \/ CoreWaitForEvent
         \/ UNCHANGED vars
  PROVE  OpenStep
BY DEF OpenStep

LEMMA TimerStepsAreSteps ==
  ASSUME TimerInv, TimerStep
  PROVE  OpenStep
<1>1. /\ TPL_TIMER \in Tpl /\ TPL_HIGH_LEVEL \in Tpl /\ op.owner \in Tpl
      /\ mEfiCheckTimerEvent \in Event /\ Timers \subseteq Event
  BY TimerAssumption, TplAssumption, CoreEventAssumption, EventAssumption
  DEF TimerInv, TimerTypeOK
<1>2. CASE \/ SetTimerRemove \/ SetTimerInsert
           \/ CheckTimersRemove \/ CheckTimersAdvance \/ CheckTimersRearm
  BY <1>2, ServiceSteps DEF SetTimerRemove, SetTimerInsert, CheckTimersRemove, CheckTimersAdvance,
              CheckTimersRearm
<1>3. CASE LockSystemTime \/ ReadSystemTime \/ ReleaseTimerLock \/ CheckTimersDone
  BY <1>1, <1>3, ServiceSteps
  DEF LockSystemTime, ReadSystemTime, ReleaseTimerLock, CheckTimersDone
<1>4. CASE SignalCheckTimers
  BY <1>1, <1>4, ServiceSteps DEF SignalCheckTimers
<1>5. CASE CheckTimersSignal
  <2>1. op.ev \in Event
    BY <1>1, <1>5 DEF CheckTimersSignal, TimerInv, OnTimer
  <2> QED BY <1>5, <2>1, ServiceSteps DEF CheckTimersSignal
<1>6. CASE StartCheckTimers
  BY <1>6, CoreSteps DEF StartCheckTimers, CoreStep
<1>7. CASE CheckTimersReturn
  BY <1>7, CoreSteps DEF CheckTimersReturn
<1> QED BY <1>2, <1>3, <1>4, <1>5, <1>6, <1>7, TimerStep DEF TimerStep

LEMMA TimerNextSteps ==
  ASSUME TimerInv
  PROVE  /\ TimerStep => OpenStep
         /\ OtherCoreStep => OpenStep
         /\ (\E d \in Durations : CoreTimerTick(d)) => OpenStep
         /\ \A kind, e, delay, period : AcquireTimerLock(kind, e, delay, period) => OpenStep
         /\ DriverStep => OpenStep \/ \E e \in Event \ Timers : CoreCloseEvent(e)
<1>1. TimerStep => OpenStep
  BY TimerStepsAreSteps
<1>2. OtherCoreStep => OpenStep
  BY CoreSteps DEF OtherCoreStep
<1>3. ASSUME NEW d \in Durations, CoreTimerTick(d)
      PROVE  OpenStep
  <2>1. PICK due \in BOOLEAN : Interrupt(due)
    BY <1>3 DEF CoreTimerTick
  <2> QED BY <2>1, CoreSteps
<1>4. ASSUME NEW kind, NEW e, NEW delay, NEW period, AcquireTimerLock(kind, e, delay, period)
      PROVE  OpenStep
  BY <1>4, ServiceSteps, TimerAssumption DEF AcquireTimerLock
<1>5. DriverStep => OpenStep \/ \E e \in Event \ Timers : CoreCloseEvent(e)
  BY CoreSteps, ServiceSteps DEF DriverStep
<1> QED BY <1>1, <1>2, <1>3, <1>4, <1>5

LEMMA TimerNextIsNext ==
  ASSUME TimerInv, [TimerNext]_allVars
  PROVE  [Next]_vars
<1>1. CASE UNCHANGED allVars
  BY <1>1 DEF allVars
<1>2. CASE OpenStep \/ \E e \in Event : CoreCloseEvent(e)
  BY <1>2, OpenSteps
<1>3. ASSUME NEW e \in Event, CoreSetTimer(e)
      PROVE  OpenStep
  BY <1>3, TimerNextSteps DEF CoreSetTimer
<1>4. ASSUME NEW e \in Event, CloseCancelled(e)
      PROVE  CoreCloseEvent(e)
  BY <1>4 DEF CloseCancelled
<1> QED BY <1>1, <1>2, <1>3, <1>4, TimerNextSteps DEF TimerNext

LEMMA TimerInvariant == TimerSpec => [](TypeInv /\ TimerInv)
<1>1. TimerInit => TypeInv
  BY TypeInvInit DEF TimerInit
<1>2. TimerInit => TimerInv
  <2> SUFFICES ASSUME TimerInit
               PROVE  TimerInv
    OBVIOUS
  <2>1. op = [pc |-> "none", kind |-> "check", ev |-> NoEvent, now |-> 0,
              owner |-> TPL_TIMER, delay |-> 0, period |-> 0]
    BY DEF TimerInit, Idle
  <2> QED BY <2>1, TimerAssumption DEF TimerInit, TimerInv, TimerTypeOK, OpPc, OnTimer
<1>3. TypeInv /\ TimerInv /\ [TimerNext]_allVars => (TypeInv /\ TimerInv)'
  BY TimerInvNext, TimerNextIsNext, TypeInvNext
<1> QED BY <1>1, <1>2, <1>3, PTL DEF TimerSpec

(* The timer list, the trigger times and the owner of mEfiTimerLock keep   *)
(* their types: only timer events get on the list, and the function that   *)
(* edits it works on one.                                                  *)
THEOREM TimerTypeCorrect == TimerSpec => []TimerTypeOK
<1>1. TimerInv => TimerTypeOK
  BY DEF TimerInv
<1> QED BY <1>1, TimerInvariant, PTL

(* The timer code only uses the event core as any driver may: whatever it  *)
(* does between two ticks, in the middle of an edit of the list too, is    *)
(* behaviour EventTpl allows, whose theorems therefore hold with timers.   *)
THEOREM TimersImplementEvents == TimerSpec => Spec
<1>1. TimerInit => Init
  BY DEF TimerInit
<1>2. TimerInv /\ [TimerNext]_allVars => [Next]_vars
  BY TimerNextIsNext
<1> QED BY <1>1, <1>2, TimerInvariant, PTL DEF TimerSpec, Spec

-----------------------------------------------------------------------------
(* The timer list.  It is in order and holds valid events only, because    *)
(* the event worked on is off the list until it is put back with its new   *)
(* time, is still valid then, and one that is being closed has been taken  *)
(* off before.                                                             *)

Held(e) == e \in live \ (Closing \cup Cancelling)

OffList == \/ op.pc \in {"lockTime", "readTime", "insert", "signal", "advance", "again", "rearm"}
           \/ op.pc = "unlock" /\ op.kind = "close"

ListInv ==
  /\ Ascending(mEfiTimerList, TriggerTime)
  /\ \A e : OnList(mEfiTimerList, e) => Held(e)
  /\ OffList => ~OnList(mEfiTimerList, op.ev)
  /\ OffList \/ op.pc = "remove" => Held(op.ev)
  /\ op.pc \in {"lockTime", "readTime", "insert", "fire"} => op.kind # "close"

(* The operation and the list, when the event core makes a step.           *)
LEMMA ListInvOutside ==
  ASSUME ListInv, UNCHANGED <<mEfiTimerList, TriggerTime>>,
         \/ op' = op
         \/ /\ op'.ev = op.ev /\ op'.kind = op.kind /\ OffList
            /\ op'.pc \in {"readTime", "insert"} => op.pc \in {"lockTime", "readTime"}
            /\ op'.pc \notin {"remove", "lockTime", "fire"}
         \/ ~OffList' /\ op'.pc \notin {"remove", "fire"},
         \A e : /\ Held(e)
                /\ \/ OnList(mEfiTimerList, e)
                   \/ e = op'.ev /\ (OffList' \/ op'.pc = "remove")
                => Held(e)'
  PROVE  ListInv'
<1>1. Ascending(mEfiTimerList, TriggerTime)'
  BY DEF ListInv, Ascending
<1>2. (\A e : OnList(mEfiTimerList, e) => Held(e))'
  BY DEF ListInv, OnList
<1>3. CASE op' = op
  BY <1>1, <1>2, <1>3 DEF ListInv, OnList, OffList
<1>4. CASE /\ op'.ev = op.ev /\ op'.kind = op.kind /\ OffList
           /\ op'.pc \in {"readTime", "insert"} => op.pc \in {"lockTime", "readTime"}
           /\ op'.pc \notin {"remove", "lockTime", "fire"}
  <2>1. ~OnList(mEfiTimerList, op.ev) /\ Held(op.ev)
    BY <1>4 DEF ListInv
  <2>2. (op.pc \in {"lockTime", "readTime", "insert", "fire"} => op.kind # "close")'
    BY <1>4 DEF ListInv
  <2>3. (OffList => ~OnList(mEfiTimerList, op.ev))'
    BY <1>4, <2>1 DEF OnList
  <2>4. (OffList \/ op.pc = "remove" => Held(op.ev))'
    BY <1>4, <2>1
  <2> QED BY <1>1, <1>2, <2>2, <2>3, <2>4 DEF ListInv
<1>5. CASE ~OffList' /\ op'.pc \notin {"remove", "fire"}
  BY <1>1, <1>2, <1>5 DEF ListInv, OffList
<1> QED BY <1>3, <1>4, <1>5

LEMMA TailAscends ==
  ASSUME NEW S, NEW s \in Seq(S), s # <<>>, NEW T, Ascending(s, T)
  PROVE  /\ Ascending(Tail(s), T) /\ OnList(s, Head(s)) /\ ~OnList(Tail(s), Head(s))
         /\ \A x : OnList(Tail(s), x) => OnList(s, x)
<1>1. Len(s) \in Nat /\ Len(s) >= 1
  BY LenProperties, EmptySeq
<1>2. /\ Len(Tail(s)) = Len(s) - 1 /\ Head(s) = s[1]
      /\ \A i \in 1 .. Len(Tail(s)) : Tail(s)[i] = s[i + 1]
  BY HeadTailProperties
<1> QED BY <1>1, <1>2 DEF Ascending, OnList

(* Held events stay held while their owners do not close them.             *)
LEMMA HeldStays ==
  ASSUME TypeInv, TplInv, NEW e, Held(e),
         OpenStep \/ \E x \in Event \ {e} : CoreCloseEvent(x),
         canceller'[e] = canceller[e]
  PROVE  Held(e)'
<1>1. e \in live' \ Closing'
  BY StaysValid DEF Held
<1>2. e \in Event /\ canceller[e] = 0
  BY DEF Held, Cancelling, TypeInv, LifetimesOK
<1> QED BY <1>1, <1>2 DEF Held, Cancelling

(* The edits, which the event core has no part in.                         *)
LEMMA ListInvEdits ==
  ASSUME TypeInv, TimerInv, ListInv,
         \/ SetTimerRemove \/ SetTimerInsert
         \/ CheckTimersRemove \/ CheckTimersAdvance \/ CheckTimersRearm
  PROVE  ListInv'
<1> DEFINE list == mEfiTimerList
<1>0. /\ list \in Seq(Timers) /\ TriggerTime \in [Event -> Nat] /\ Timers \subseteq Event
      /\ op.now \in Nat /\ op.delay \in Nat
  BY TimerAssumption DEF TimerInv, TimerTypeOK
<1>1. UNCHANGED <<live, stack, canceller>>
  BY DEF SetTimerRemove, SetTimerInsert, CheckTimersRemove, CheckTimersAdvance,
         CheckTimersRearm, vars, lifetimes
<1>2. \A e : Held(e)' <=> Held(e)
  BY <1>1 DEF Held, Closing, Cancelling
<1>3. CASE SetTimerRemove
  <2>1. /\ op.pc = "remove" /\ op.ev \in Timers
        /\ list' = RemoveEntryList(list, op.ev)
        /\ TriggerTime' = [TriggerTime EXCEPT ![op.ev] = 0]
        /\ op'.ev = op.ev
    BY <1>3 DEF SetTimerRemove, TimerInv, TimerTypeOK, OnTimer
  <2>2. /\ Ascending(list', TriggerTime) /\ ~OnList(list', op.ev)
        /\ \A x : OnList(list', x) => OnList(list, x)
    BY <1>0, <2>1, RemoveAscends DEF ListInv
  <2>3. list' \in Seq(Timers)
    BY <1>0, <2>1, RemoveEntryListType
  <2>4. \A x \in Timers \ {op.ev} : TriggerTime'[x] = TriggerTime[x]
    BY <1>0, <2>1
  <2>5. Ascending(list', TriggerTime')
    BY <2>2, <2>3, <2>4, AscendingOthers
  <2>6. Held(op.ev)
    BY <2>1 DEF ListInv
  <2>7. /\ op'.kind = op.kind
        /\ op'.pc = IF op.kind \in {"cancel", "close"} THEN "unlock" ELSE "lockTime"
    BY <1>3 DEF SetTimerRemove, TimerInv, TimerTypeOK
  <2> QED BY <1>2, <2>1, <2>2, <2>5, <2>6, <2>7 DEF ListInv, Ascending, OnList
<1>4. CASE SetTimerInsert
  <2> DEFINE time == op.now + op.delay
  <2>1. /\ op.pc = "insert" /\ op.ev \in Timers
        /\ list' = InsertEventTimer(op.ev, time)
        /\ TriggerTime' = [TriggerTime EXCEPT ![op.ev] = time]
    BY <1>4 DEF SetTimerInsert, TimerInv, OnTimer
  <2>2. time \in Nat /\ ~OnList(list, op.ev) /\ Ascending(list, TriggerTime) /\ Held(op.ev)
    BY <1>0, <2>1 DEF ListInv, OffList
  <2> HIDE DEF time
  <2>3. TriggerTime'[op.ev] = time /\ \A x \in Timers \ {op.ev} : TriggerTime'[x] = TriggerTime[x]
    BY <1>0, <2>1
  <2>4. /\ Ascending(list', TriggerTime')
        /\ \A x : OnList(list', x) => x = op.ev \/ OnList(list, x)
    BY <1>0, <2>1, <2>2, <2>3, InsertAscends
  <2>5. op'.pc \in {"fire", "unlock"} /\ op'.kind = op.kind /\ op.kind # "close"
    BY <1>4, <2>1 DEF SetTimerInsert, TimerInv, TimerTypeOK, ListInv
  <2>6. ~OffList' /\ op'.pc # "remove"
    BY <2>5 DEF OffList
  <2>7. \A x : OnList(list', x) => Held(x)'
    BY <1>2, <2>2, <2>4 DEF ListInv
  <2> QED BY <2>4, <2>5, <2>6, <2>7 DEF ListInv, Ascending, OnList
<1>5. CASE CheckTimersRemove
  <2>1. /\ op.pc = "loop" /\ list # <<>> /\ list' = Tail(list) /\ TriggerTime' = TriggerTime
        /\ op'.ev = Head(list) /\ op'.pc = "signal"
    BY <1>5 DEF CheckTimersRemove, Expired, TimerInv, TimerTypeOK
  <2>2. /\ Ascending(list', TriggerTime) /\ OnList(list, Head(list))
        /\ ~OnList(list', Head(list)) /\ \A x : OnList(list', x) => OnList(list, x)
    BY <1>0, <2>1, TailAscends DEF ListInv
  <2> QED BY <1>2, <2>1, <2>2 DEF ListInv, Ascending, OnList
<1>6. CASE CheckTimersAdvance
  <2>1. /\ op.pc = "advance" /\ op.ev \in Timers /\ list' = list
        /\ \A x \in Timers \ {op.ev} : TriggerTime'[x] = TriggerTime[x]
        /\ op'.ev = op.ev /\ op'.pc \in {"again", "rearm"}
    BY <1>0, <1>6 DEF CheckTimersAdvance, TimerInv, TimerTypeOK, OnTimer
  <2>2. ~OnList(list, op.ev) /\ Ascending(list, TriggerTime) /\ Held(op.ev)
    BY <2>1 DEF ListInv, OffList
  <2>3. Ascending(list, TriggerTime')
    BY <1>0, <2>1, <2>2, AscendingOthers
  <2> QED BY <1>2, <2>1, <2>2, <2>3 DEF ListInv, Ascending, OnList
<1>7. CASE CheckTimersRearm
  <2> DEFINE time == TriggerTime[op.ev]
  <2>1. /\ op.pc = "rearm" /\ op.ev \in Timers
        /\ list' = InsertEventTimer(op.ev, time) /\ TriggerTime' = TriggerTime
        /\ op'.pc = "loop"
    BY <1>7 DEF CheckTimersRearm, TimerInv, TimerTypeOK, OnTimer
  <2>2. time \in Nat /\ ~OnList(list, op.ev) /\ Ascending(list, TriggerTime) /\ Held(op.ev)
    BY <1>0, <2>1 DEF ListInv, OffList
  <2>3. TriggerTime[op.ev] = time
    OBVIOUS
  <2> HIDE DEF time
  <2>4. /\ Ascending(list', TriggerTime)
        /\ \A x : OnList(list', x) => x = op.ev \/ OnList(list, x)
    BY <1>0, <2>1, <2>2, <2>3, InsertAscends
  <2>5. \A x : OnList(list', x) => Held(x)'
    BY <1>2, <2>2, <2>4 DEF ListInv
  <2>6. ~OffList' /\ op'.pc # "remove"
    BY <2>1 DEF OffList
  <2> QED BY <2>1, <2>4, <2>5, <2>6 DEF ListInv, Ascending, OnList
<1> QED BY <1>3, <1>4, <1>5, <1>6, <1>7

(* The lock, and the services the timer code calls in between.             *)
LEMMA ListInvServices ==
  ASSUME TypeInv, TplInv, TimerInv, ListInv, OpenStep,
         \/ LockSystemTime \/ ReadSystemTime \/ SignalCheckTimers \/ ReleaseTimerLock
         \/ StartCheckTimers \/ CheckTimersSignal \/ CheckTimersDone
  PROVE  ListInv'
<1>0. UNCHANGED <<mEfiTimerList, TriggerTime>>
  BY DEF LockSystemTime, ReadSystemTime, SignalCheckTimers, ReleaseTimerLock,
         StartCheckTimers, CheckTimersSignal, CheckTimersDone
<1>1. \A e : Held(e) => e \in Event
  BY DEF Held, TypeInv, LifetimesOK
<1>2. ASSUME UNCHANGED canceller
      PROVE  \A e : Held(e) => Held(e)'
  BY <1>1, <1>2, HeldStays
<1>3. CASE LockSystemTime \/ ReadSystemTime
  <2>1. UNCHANGED canceller /\ op'.ev = op.ev /\ op'.kind = op.kind
    BY <1>3 DEF LockSystemTime, ReadSystemTime, TimerInv, TimerTypeOK
  <2>2. \/ op.pc \in {"lockTime", "readTime"} /\ op'.pc \in {"readTime", "insert"}
        \/ op'.pc \in {"readNow", "loop"}
    BY <1>3 DEF LockSystemTime, ReadSystemTime, TimerInv, TimerTypeOK
  <2>3. \/ OffList /\ op.pc \in {"lockTime", "readTime"} /\ op'.pc \in {"readTime", "insert"}
        \/ ~OffList' /\ op'.pc \in {"readNow", "loop"}
    BY <2>2 DEF OffList
  <2> QED BY <1>0, <1>2, <2>1, <2>3, ListInvOutside
<1>4. CASE SignalCheckTimers
  <2>1. UNCHANGED canceller /\ op'.ev = op.ev /\ op'.kind = op.kind
    BY <1>4 DEF SignalCheckTimers, TimerInv, TimerTypeOK
  <2>2. \/ op.pc = "again" /\ op'.pc = "rearm"
        \/ op.pc = "fire" /\ op'.pc = "unlock"
    BY <1>4 DEF SignalCheckTimers, TimerInv, TimerTypeOK
  <2>3. \/ OffList /\ op'.pc = "rearm"
        \/ ~OffList' /\ op'.pc = "unlock"
    BY <2>1, <2>2 DEF OffList, ListInv
  <2> QED BY <1>0, <1>2, <2>1, <2>3, ListInvOutside
<1>6. CASE CheckTimersSignal
  <2>1. UNCHANGED canceller /\ op'.ev = op.ev /\ op'.kind = op.kind
    BY <1>6 DEF CheckTimersSignal, TimerInv, TimerTypeOK
  <2>2. op.pc = "signal" /\ op'.pc \in {"advance", "loop"}
    BY <1>6 DEF CheckTimersSignal, TimerInv, TimerTypeOK
  <2>3. OffList /\ op'.pc \in {"advance", "loop"}
    BY <2>2 DEF OffList
  <2> QED BY <1>0, <1>2, <2>1, <2>3, ListInvOutside
<1>7. CASE StartCheckTimers \/ CheckTimersDone
  <2>1. UNCHANGED canceller /\ op'.pc \in {"lockNow", "none"}
    BY <1>7 DEF StartCheckTimers, CheckTimersDone, Idle
  <2>2. ~OffList' /\ op'.pc \notin {"remove", "fire"}
    BY <2>1 DEF OffList
  <2> QED BY <1>0, <1>2, <2>1, <2>2, ListInvOutside
<1>5. CASE ReleaseTimerLock
  <2>1. op'.pc = "none" /\ op.pc = "unlock"
    BY <1>5 DEF ReleaseTimerLock, Idle
  <2>2. ~OffList' /\ op'.pc \notin {"remove", "fire"}
    BY <2>1 DEF OffList
  <2>3. ASSUME NEW e, Held(e), OnList(mEfiTimerList, e)
        PROVE  Held(e)'
    <3>1. op.kind = "close" => e # op.ev
      BY <2>1, <2>3 DEF ListInv, OffList
    <3>2. canceller'[e] = canceller[e]
      BY <1>1, <1>5, <2>3, <3>1 DEF ReleaseTimerLock, TimerInv, TimerTypeOK
    <3> QED BY <1>1, <2>3, <3>2, HeldStays
  <2> QED BY <1>0, <2>2, <2>3, ListInvOutside
<1> QED BY <1>3, <1>4, <1>5, <1>6, <1>7

(* The rest: nothing on the list is closed while it is.                    *)
LEMMA ListInvRest ==
  ASSUME TypeInv, TplInv, TimerInv, ListInv,
         \/ CheckTimersReturn \/ OtherCoreStep \/ DriverStep
         \/ \E d \in Durations : CoreTimerTick(d)
         \/ \E e \in Event : \/ CoreSetTimer(e) \/ AcquireTimerLock("close", e, 0, 0)
                             \/ CloseCancelled(e)
         \/ UNCHANGED allVars
  PROVE  ListInv'
<1>0. UNCHANGED <<mEfiTimerList, TriggerTime>>
  BY DEF CheckTimersReturn, OtherCoreStep, DriverStep, CoreTimerTick, CoreSetTimer,
         AcquireTimerLock, CloseCancelled, allVars
<1>1. \A e : Held(e) => e \in Event
  BY DEF Held, TypeInv, LifetimesOK
<1>2. \A e : OnList(mEfiTimerList, e) => e \in Timers
  BY ElementOfSeq DEF OnList, TimerInv, TimerTypeOK
<1>3. CASE \/ CheckTimersReturn \/ OtherCoreStep \/ \E d \in Durations : CoreTimerTick(d)
           \/ UNCHANGED allVars
  <2>1. op' = op /\ canceller' = canceller
    BY <1>3 DEF CheckTimersReturn, OtherCoreStep, CoreTimerTick, allVars
  <2>2. CheckTimersReturn => OpenStep
    BY CoreSteps DEF CheckTimersReturn
  <2>3. UNCHANGED allVars => OpenStep
    BY ServiceSteps DEF allVars
  <2>4. OpenStep
    BY <1>3, <2>2, <2>3, TimerNextSteps
  <2>5. \A e : Held(e) => Held(e)'
    BY <2>1, <2>4, HeldStays
  <2> QED BY <1>0, <2>1, <2>5, ListInvOutside
<1>4. CASE DriverStep
  <2>1. op' = op /\ canceller' = canceller /\ op.pc = "none"
    BY <1>4 DEF DriverStep, Free
  <2>2. ~OffList' /\ op'.pc # "remove"
    BY <2>1 DEF OffList
  <2>3. OpenStep \/ \E e \in Event \ Timers : CoreCloseEvent(e)
    BY <1>4, TimerNextSteps
  <2>4. \A e \in Timers : Held(e) => Held(e)'
    BY <2>1, <2>3, HeldStays
  <2> QED BY <1>0, <1>2, <2>1, <2>2, <2>4, ListInvOutside
<1>5. ASSUME NEW e \in Event, CloseCancelled(e)
      PROVE  ListInv'
  <2>1. /\ op' = op /\ op.pc = "none" /\ CoreCloseEvent(e)
        /\ canceller[e] = Len(stack) /\ canceller' = [canceller EXCEPT ![e] = 0]
    BY <1>5 DEF CloseCancelled
  <2>2. ~OffList' /\ op'.pc # "remove"
    BY <2>1 DEF OffList
  <2>3. canceller[e] # 0 /\ e \in Cancelling
    BY <2>1, TopOK DEF TypeInv, Cancelling
  <2>4. ASSUME NEW x, Held(x), OnList(mEfiTimerList, x)
        PROVE  Held(x)'
    <3>1. x # e /\ x \in Event
      BY <1>1, <2>3, <2>4 DEF Held
    <3>2. canceller'[x] = canceller[x]
      BY <2>1, <3>1 DEF TimerInv, TimerTypeOK
    <3> QED BY <2>1, <2>4, <3>1, <3>2, HeldStays
  <2> QED BY <1>0, <2>1, <2>2, <2>4, ListInvOutside
<1>6. ASSUME NEW kind, NEW e, NEW delay, NEW period, AcquireTimerLock(kind, e, delay, period)
      PROVE  ListInv'
  <2>1. /\ op'.pc = "remove" /\ op'.ev = e /\ canceller' = canceller
        /\ Held(e) /\ UNCHANGED <<live, stack>>
    BY <1>6 DEF AcquireTimerLock, Held, CoreRaiseTpl, vars, lifetimes
  <2>2. \A x : Held(x)' <=> Held(x)
    BY <2>1 DEF Held, Closing, Cancelling
  <2>3. Ascending(mEfiTimerList, TriggerTime)'
    BY <1>0 DEF ListInv, Ascending
  <2>4. (\A x : OnList(mEfiTimerList, x) => Held(x))'
    BY <1>0, <2>2 DEF ListInv, OnList
  <2> QED BY <2>1, <2>2, <2>3, <2>4 DEF ListInv, OffList
<1>7. ASSUME NEW e \in Event, CoreSetTimer(e)
      PROVE  ListInv'
  BY <1>6, <1>7 DEF CoreSetTimer
<1> QED BY <1>3, <1>4, <1>5, <1>6, <1>7

LEMMA ListInvNext ==
  ASSUME TypeInv, TplInv, TimerInv, ListInv, [TimerNext]_allVars
  PROVE  ListInv'
<1>1. CASE TimerStep
  <2>1. OpenStep
    BY <1>1, TimerNextSteps
  <2> QED BY <1>1, <2>1, ListInvEdits, ListInvServices, ListInvRest DEF TimerStep
<1>2. CASE ~TimerStep
  BY <1>2, ListInvRest DEF TimerNext
<1> QED BY <1>1, <1>2

LEMMA ListInvariant == TimerSpec => [](TypeInv /\ TplInv /\ TimerInv /\ ListInv)
<1>1. TimerInit => ListInv
  <2> SUFFICES ASSUME TimerInit
               PROVE  ListInv
    OBVIOUS
  <2>1. op.pc = "none" /\ Len(mEfiTimerList) = 0
    BY DEF TimerInit, Idle
  <2> QED BY <2>1 DEF ListInv, Ascending, OnList, OffList
<1>2. TypeInv /\ TplInv /\ TimerInv /\ ListInv /\ [TimerNext]_allVars => ListInv'
  BY ListInvNext
<1> QED BY <1>1, <1>2, TimerInvariant, TimersImplementEvents, TplInvariant, PTL DEF TimerSpec

(* At every moment the interrupt may look at it, also in the middle of an  *)
(* edit, the timer list is in the order of its trigger times, holds no     *)
(* event twice, and only events that nobody has closed.                    *)
THEOREM ListAscends == TimerSpec => []TimerListAscends
<1>1. ASSUME TimerInv, ListInv
      PROVE  TimerListAscends
  <2>1. \A j \in 1 .. Len(mEfiTimerList) : mEfiTimerList[j] \in live
    BY <1>1 DEF ListInv, OnList, Held
  <2> QED BY <1>1, <2>1 DEF ListInv, Ascending, TimerListAscends
<1> QED BY <1>1, ListInvariant, PTL

-----------------------------------------------------------------------------
(* mEfiTimerLock.  From its acquisition to its release the level is at     *)
(* least TPL_TIMER, and above the activation that holds it there are only  *)
(* services and interrupts: a dispatcher would need a pending level above  *)
(* TPL_TIMER, and there is none.                                           *)

Services == {f \in Frames : f.pc \notin {"run", "call", "disp"} /\ f.lvl >= TPL_TIMER}

HeldAt(s, m) ==
  /\ m \in 1 .. Len(s) /\ s[m].pc = "run"
  /\ \A i \in 1 .. Len(s) : i > m => s[i] \in Services

LockInv ==
  op.pc # "none" => gEfiCurrentTpl >= TPL_TIMER /\ \E m \in 1 .. Len(stack) : HeldAt(stack, m)

LEMMA HeldAtGrows ==
  ASSUME NEW s, StackOK(s), NEW t, NEW m \in Nat, HeldAt(s, m), Grown(s, t, m, Services)
  PROVE  m \in 1 .. Len(t) /\ HeldAt(t, m)
<1>1. Len(s) \in Nat /\ Len(t) \in Nat /\ m <= Len(t) /\ m \in 1 .. m
  BY LenProperties, TopOK DEF Grown, HeldAt
<1> QED BY <1>1 DEF Grown, HeldAt

(* What the running activation does while the lock is held.                *)
LEMMA LockInvStep ==
  ASSUME TypeInv, TplInv, LockInv, op.pc # "none",
         \/ CoreStep
         \/ CoreRaiseTpl(TPL_HIGH_LEVEL) \/ CoreRestoreTpl(TPL_TIMER)
         \/ \E e \in Event : CoreSignalEvent(e)
         \/ \E tick \in BOOLEAN : Interrupt(tick)
  PROVE  /\ gEfiCurrentTpl' >= TPL_TIMER
         /\ \E m \in 1 .. Len(stack') : HeldAt(stack', m)
<1>0. /\ StackOK(stack) /\ Len(stack) \in Nat /\ Top = stack[Len(stack)]
      /\ Top.lvl \in Nat /\ gEfiCurrentTpl \in Nat /\ gEfiCurrentTpl \in Tpl
      /\ TPL_TIMER \in Tpl /\ TPL_TIMER = 30 /\ TPL_HIGH_LEVEL \in Tpl
      /\ gEfiCurrentTpl >= TPL_TIMER
  BY InvFacts, TopOK, TimerAssumption, TplAssumption
     DEF Top, LockInv, TPL_TIMER, TPL_HIGH_LEVEL
<1>1. PICK m \in 1 .. Len(stack) : HeldAt(stack, m)
  BY DEF LockInv
<1>2. m \in Nat /\ m <= Len(stack) /\ \A i \in 1 .. Len(stack) : i > m => stack[i] \in Services
  BY <1>1 DEF HeldAt
<1>3. Len(stack) > m => Top \in Services
  BY <1>0, <1>2
<1>4. CASE CoreStep
  <2>1. Top.pc # "run"
    BY <1>4 DEF CoreStep, RestoreTplDispatch, RestoreTplExitLoop, RestoreTplSet, DispatchNext,
                DispatchCall, DispatchDone, NotifySignalListLock, NotifySignalListStep,
                NotifySignalListUnlock, SignalRelock, CheckQueue, CheckAgain, CheckClear,
                WaitCheck, WaitNotReady, WaitIdle, WaitReturn, FreeEvent, InterruptReturn, Running
  <2>2. m < Len(stack) /\ Top \in Services
    BY <1>0, <1>1, <1>3, <2>1 DEF HeldAt
  <2>3. Top.lvl >= TPL_TIMER /\ Top.pc \notin {"run", "call", "disp"}
    BY <2>2 DEF Services
  <2>4. ~RestoreTplDispatch
    <3>1. \A t \in gEventPending : t < TPL_HIGH_LEVEL /\ t \in Nat
      BY LevelsAreNumbers DEF TplInv, PendingBelowHigh, TypeInv, QueuesOK
    <3>2. \A t \in gEventPending : t <= Top.lvl
      BY <1>0, <2>3, <3>1 DEF TPL_HIGH_LEVEL
    <3> QED BY <1>0, <3>1, <3>2 DEF RestoreTplDispatch
  <2>5. ~DispatchNext /\ ~DispatchCall /\ ~DispatchDone
    BY <2>3 DEF DispatchNext, DispatchCall, DispatchDone, Running
  <2>6. Makes(Services)
    BY <1>0, <2>3 DEF Makes, MakesAt, OnValid, Services
  <2>7. m > 0 => stack[m].pc # "waited"
    BY <1>1 DEF HeldAt
  <2>8. ASSUME NEW f \in Frames, Begins(f)
        PROVE  f \in Services
    <3>1. ~Service
      BY <2>1 DEF Service, CoreRaiseTpl, CoreRestoreTpl, CoreSignalEvent, CoreCheckEvent,
                  CoreCreateEvent, CoreCloseEvent, OwnerMayClose, CoreNotifyProtocolEntry,
                  CoreRegisterProtocolNotify, CoreWaitForEvent, Running
    <3>2. WaitCheck \/ WaitNotReady \/ WaitIdle
      BY <2>4, <2>5, <2>8, <3>1 DEF Begins, Service
    <3>3. f.pc \in {"waited", "queue", "wait"} /\ f.lvl \in {Top.lvl, gEfiCurrentTpl}
      BY <2>4, <2>5, <2>8, <3>1, FrameParts DEF Begins, Service
    <3> QED BY <1>0, <2>3, <3>3 DEF Services
  <2>9. Grown(stack, stack', m, Services)
    BY <1>2, <1>4, <2>2, <2>6, <2>7, <2>8, CoreStepGrows
  <2>10. gEfiCurrentTpl' \in {gEfiCurrentTpl, TPL_HIGH_LEVEL, Top.lvl}
    BY <1>4, <2>4, <2>5
       DEF CoreStep, RestoreTplExitLoop, RestoreTplSet, NotifySignalListLock,
           NotifySignalListStep, NotifySignalListUnlock, SignalRelock, CheckQueue,
           CheckAgain, CheckClear, WaitCheck, WaitNotReady, WaitIdle, WaitReturn, FreeEvent,
           InterruptReturn, CoreReleaseEventLock, Check, Signal
  <2>11. gEfiCurrentTpl' >= TPL_TIMER
    BY <1>0, <2>3, <2>10 DEF TPL_HIGH_LEVEL
  <2> QED BY <1>0, <1>1, <1>2, <2>11, <2>9, HeldAtGrows
<1>5. CASE \/ CoreRaiseTpl(TPL_HIGH_LEVEL) \/ CoreRestoreTpl(TPL_TIMER)
           \/ \E e \in Event : CoreSignalEvent(e)
           \/ \E tick \in BOOLEAN : Interrupt(tick)
  <2>1. MakesAt(gEfiCurrentTpl, Services)
    BY <1>0 DEF MakesAt, OnValid, Services
  <2>2. /\ Frame("restore", NoEvent, TPL_TIMER) \in Frames \cap Services
        /\ Frame("irq", NoEvent, gEfiCurrentTpl) \in Frames \cap Services
    <3>1. /\ Frame("restore", NoEvent, TPL_TIMER) \in Frames
          /\ Frame("irq", NoEvent, gEfiCurrentTpl) \in Frames
      BY <1>0, FrameOK DEF Pc, OnEvent
    <3> QED BY <1>0, <3>1, FrameParts DEF Services
  <2> HIDE DEF TPL_TIMER, TPL_HIGH_LEVEL
  <2>3. Grown(stack, stack, m, Services)
    BY <1>0, <1>2, GrownSelf
  <2>4. \A f \in Frames \cap Services : Grown(stack, Push(f), m, Services)
    BY <2>3, GrownPush DEF Push
  <2>5. Grown(stack, stack', m, Services)
    <3>1. CASE CoreRaiseTpl(TPL_HIGH_LEVEL) \/ CoreRestoreTpl(TPL_TIMER)
      BY <2>2, <2>3, <2>4, <3>1 DEF CoreRaiseTpl, CoreRestoreTpl
    <3>2. CASE \E e \in Event : CoreSignalEvent(e)
      BY <2>1, <2>3, <3>2, GrownSignal DEF CoreSignalEvent
    <3>3. CASE \E tick \in BOOLEAN : Interrupt(tick)
      BY <2>1, <2>2, <2>4, <3>3, GrownRelease DEF Interrupt
    <3> QED BY <1>5, <3>1, <3>2, <3>3
  <2>6. gEfiCurrentTpl' \in {gEfiCurrentTpl, TPL_HIGH_LEVEL}
    BY <1>5 DEF CoreRaiseTpl, CoreRestoreTpl, CoreSignalEvent, Interrupt, Signal,
                CoreReleaseEventLock
  <2>7. gEfiCurrentTpl' >= TPL_TIMER
    BY <1>0, <2>6 DEF TPL_HIGH_LEVEL
  <2> QED BY <1>0, <1>1, <1>2, <2>5, <2>7, HeldAtGrows
<1> QED BY <1>4, <1>5

(* The lock is taken by the running activation, at TPL_TIMER.              *)
LEMMA LockInvAcquire ==
  ASSUME TypeInv, TplInv,
         \/ StartCheckTimers
         \/ \E kind, e, delay, period : AcquireTimerLock(kind, e, delay, period)
  PROVE  /\ gEfiCurrentTpl' >= TPL_TIMER
         /\ \E m \in 1 .. Len(stack') : HeldAt(stack', m)
<1>0. /\ StackOK(stack) /\ Len(stack) \in Nat \ {0} /\ Top = stack[Len(stack)]
      /\ Top.lvl \in Tpl /\ Top.ev \in Event \cup {NoEvent}
      /\ Entered(Top) /\ (Top.pc # "list" => Resumes(Top, gEfiCurrentTpl))
      /\ TPL_TIMER \in Tpl /\ TPL_TIMER = 30 /\ gEfiCurrentTpl \in Nat
      /\ Disciplined(stack)
  BY InvFacts, TopOK, RunningOK, TimerAssumption DEF Top, TPL_TIMER, TPL_HIGH_LEVEL
<1>1. CASE StartCheckTimers
  <2> DEFINE f == Frame("run", Top.ev, Top.lvl)
  <2>1. /\ Top.pc = "call" /\ Top.ev = mEfiCheckTimerEvent
        /\ stack' = Append(Front(stack), f) /\ gEfiCurrentTpl' = gEfiCurrentTpl
    BY <1>1 DEF StartCheckTimers, DispatchCall, Running, Goto
  <2>2. f \in Frames /\ f.pc = "run"
    <3>1. f \in Frames
      BY <1>0, FrameOK DEF Pc, OnEvent
    <3> QED BY <3>1 DEF Frame
  <2>3. gEfiCurrentTpl = TPL_TIMER
    <3>1. Top.lvl = NotifyTpl[mEfiCheckTimerEvent]
      BY <1>0, <2>1, CoreEventAssumption, EventAssumption DEF Entered
    <3> QED BY <1>0, <2>1, <3>1, TimerAssumption DEF Resumes
  <2>4. Len(stack) > 1
    BY <1>0, <2>1, TopOK
  <2> HIDE DEF f
  <2>5. StackOK(Front(stack)) /\ Len(Front(stack)) = Len(stack) - 1
    BY <1>0, <2>4, ReturnOK, ReturnDisciplined
  <2>6. Len(stack') = Len(stack) /\ stack'[Len(stack)] = f
    BY <1>0, <2>1, <2>2, <2>5, AppendProperties DEF StackOK
  <2>7. HeldAt(stack', Len(stack))
    BY <1>0, <2>2, <2>6 DEF HeldAt
  <2> QED BY <1>0, <2>1, <2>3, <2>6, <2>7
<1>2. ASSUME NEW kind, NEW e, NEW delay, NEW period, AcquireTimerLock(kind, e, delay, period)
      PROVE  /\ gEfiCurrentTpl' >= TPL_TIMER
             /\ \E m \in 1 .. Len(stack') : HeldAt(stack', m)
  <2>1. Top.pc = "run" /\ stack' = stack
    BY <1>2 DEF AcquireTimerLock, Running, CoreRaiseTpl, vars
  <2>2. gEfiCurrentTpl' = TPL_TIMER
    BY <1>2 DEF AcquireTimerLock, CoreRaiseTpl, vars
  <2>3. HeldAt(stack', Len(stack'))
    BY <1>0, <2>1 DEF HeldAt
  <2> QED BY <1>0, <2>1, <2>2, <2>3
<1> QED BY <1>1, <1>2

LEMMA LockInvNext ==
  ASSUME TypeInv, TplInv, TimerInv, LockInv, [TimerNext]_allVars
  PROVE  LockInv'
<1>0. Timers \subseteq Event /\ mEfiCheckTimerEvent \in Event
  BY TimerAssumption, CoreEventAssumption, EventAssumption
<1>1. CASE op'.pc = "none"
  BY <1>1 DEF LockInv
<1>2. CASE op' # op /\ op.pc = "none"
  <2>1. \/ StartCheckTimers
        \/ \E kind, e, delay, period : AcquireTimerLock(kind, e, delay, period)
    BY <1>2 DEF TimerNext, TimerStep, SetTimerRemove, LockSystemTime, ReadSystemTime,
                SetTimerInsert, SignalCheckTimers, ReleaseTimerLock, CheckTimersRemove,
                CheckTimersSignal, CheckTimersAdvance, CheckTimersRearm, CheckTimersDone,
                CheckTimersReturn, OtherCoreStep, DriverStep, CoreSetTimer, CloseCancelled,
                CoreTimerTick, allVars
  <2> QED BY <2>1, LockInvAcquire DEF LockInv
<1>3. CASE StartCheckTimers
  BY <1>3, LockInvAcquire DEF LockInv
<1>4. CASE op.pc # "none" /\ op'.pc # "none" /\ ~StartCheckTimers
  <2>1. CASE UNCHANGED <<gEfiCurrentTpl, stack>>
    BY <1>4, <2>1 DEF LockInv, HeldAt
  <2>2. CASE SetTimerRemove \/ SetTimerInsert \/ CheckTimersRemove \/ CheckTimersAdvance
             \/ CheckTimersRearm \/ UNCHANGED allVars
    BY <2>1, <2>2 DEF SetTimerRemove, SetTimerInsert, CheckTimersRemove, CheckTimersAdvance,
                      CheckTimersRearm, allVars, vars
  <2>3. CASE \/ LockSystemTime \/ ReadSystemTime \/ SignalCheckTimers \/ CheckTimersSignal
             \/ OtherCoreStep \/ \E d \in Durations : CoreTimerTick(d)
    <3>1. CheckTimersSignal => op.ev \in Event
      BY <1>0 DEF CheckTimersSignal, TimerInv, OnTimer
    <3>2. ASSUME NEW d \in Durations, CoreTimerTick(d)
          PROVE  \E tick \in BOOLEAN : Interrupt(tick)
      BY <3>2 DEF CoreTimerTick
    <3>3. \/ CoreStep
          \/ CoreRaiseTpl(TPL_HIGH_LEVEL) \/ CoreRestoreTpl(TPL_TIMER)
          \/ \E e \in Event : CoreSignalEvent(e)
          \/ \E tick \in BOOLEAN : Interrupt(tick)
      BY <1>0, <2>3, <3>1, <3>2
         DEF LockSystemTime, ReadSystemTime, SignalCheckTimers, CheckTimersSignal, OtherCoreStep
    <3> QED BY <1>4, <3>3, LockInvStep DEF LockInv
  <2>4. CASE ReleaseTimerLock \/ CheckTimersDone
    BY <1>4, <2>4 DEF ReleaseTimerLock, CheckTimersDone, Idle
  <2>5. CASE \/ CheckTimersReturn \/ DriverStep
             \/ \E e \in Event : \/ CoreSetTimer(e) \/ AcquireTimerLock("close", e, 0, 0)
                                 \/ CloseCancelled(e)
    BY <1>4, <2>5
       DEF CheckTimersReturn, DriverStep, CoreSetTimer, AcquireTimerLock, CloseCancelled, Free
  <2> QED BY <1>4, <2>2, <2>3, <2>4, <2>5 DEF TimerNext, TimerStep
<1>5. CASE op' = op /\ op.pc = "none"
  BY <1>5 DEF LockInv
<1> QED BY <1>1, <1>2, <1>3, <1>4, <1>5

(* CoreCheckTimers finds mEfiTimerLock released: its call would have been  *)
(* dispatched above the activation that holds the lock.                    *)
THEOREM LockIsReleased == TimerSpec => []TimerLockReleased
<1>1. ASSUME TypeInv, LockInv
      PROVE  TimerLockReleased
  <2>1. StackOK(stack) /\ Len(stack) \in Nat \ {0} /\ Top = stack[Len(stack)]
    BY <1>1, TopOK DEF TypeInv, Top
  <2>2. ASSUME Top.pc = "call", op.pc # "none"
        PROVE  FALSE
    <3>1. PICK m \in 1 .. Len(stack) : HeldAt(stack, m)
      BY <1>1, <2>2 DEF LockInv
    <3>2. m # Len(stack)
      BY <2>1, <2>2, <3>1 DEF HeldAt
    <3>3. Top \in Services
      BY <2>1, <3>1, <3>2 DEF HeldAt
    <3> QED BY <2>2, <3>3 DEF Services
  <2> QED BY <2>2 DEF TimerLockReleased, Running
<1>2. TimerInit => LockInv
  BY DEF TimerInit, LockInv, Idle
<1>3. TypeInv /\ TplInv /\ TimerInv /\ LockInv /\ [TimerNext]_allVars => LockInv'
  BY LockInvNext
<1> QED BY <1>1, <1>2, <1>3, ListInvariant, PTL DEF TimerSpec
=============================================================================
