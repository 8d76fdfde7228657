------------------------- MODULE VariableStoreProofs -------------------------
(***************************************************************************)
(* Proofs about VariableStore, for any names, data and sizes of the store: *)
(* SetVariable is atomic, the log in memory is the log in flash when a     *)
(* record is written, and only live variables make the store refuse one.   *)
(*                                                                         *)
(* The invariant says what the log holds of each variable: at most one     *)
(* record in transition and at most one behind it that is added, except    *)
(* that of the update in progress, of which it says which records are its  *)
(* own.  What FindVariable finds follows from that alone, and each write   *)
(* is then shown to change one of these sets of records.                   *)
(***************************************************************************)
EXTENDS VariableStore, FiniteSetTheorems, NaturalsInduction, WellFoundedInduction, TLAPS

(* No update that finds two records of its variable is cut short.          *)
Tame == "twice" \notin Excess

-----------------------------------------------------------------------------
(* The invariant.                                                          *)

Record ==
  [name : Name \cup {None}, value : Value \cup {None},
   state : {"header", "headerValid", "added", "inDeleted", "deleted"}]

(* The records of a variable from which its data may be read.              *)
Live(log, n) ==
  {i \in DOMAIN log : log[i].name = n /\ log[i].state \in {"added", "inDeleted"}}

(* Records that are live are complete.                                     *)
Log ==
  {log \in Seq(Record) : \A i \in DOMAIN log :
     log[i].state \in {"added", "inDeleted"} => log[i].name \in Name /\ log[i].value \in Value}

(* At most one record is in transition, and at most one, behind it, added. *)
Settled(log, n) ==
  \A i, j \in Live(log, n) : i < j => log[i].state = "inDeleted" /\ log[j].state = "added"

Storing == {"valid", "data", "added"}
Updating == {"mark", "space", "header", "deleteInDeleted", "delete"} \cup Storing

Typed ==
  /\ flash \in Log /\ cache \in Log
  /\ debris \in BOOLEAN /\ atRuntime \in BOOLEAN /\ Reclaimed \in BOOLEAN
  /\ pc \in {"start", "init", "idle"} \cup Updating
  /\ op # None <=> pc \in Updating
  /\ op # None => op \in [target : Name, value : Value \cup {Absent}]
  /\ op = None => CurrPtr = 0 /\ InDeletedTransitionPtr = 0

(* The record that is written behind those in memory.                      *)
Half ==
  [name |-> op.target,
   value |-> IF pc = "added" THEN op.value ELSE None,
   state |-> IF pc = "valid" THEN "header" ELSE "headerValid"]

(* What flash and memory have in common.                                   *)
Copied ==
  /\ pc \notin {"start"} \cup Storing => cache = flash
  /\ pc \in Storing => flash = Append(cache, Half)
  /\ pc \notin {"start", "init"} => ~debris

(* What a boot and GetVariable read.                                       *)
Contents == IF pc = "start" THEN flash ELSE cache

(* Two records of the variable are in transition.                          *)
Twice ==
  /\ op # None /\ InDeletedTransitionPtr # 0
  /\ op.value # Absent /\ pc \notin {"mark", "delete"}

Unsettled == {n \in Name : Twice /\ n = op.target}

AllSettled == \A n \in Name \ Unsettled : Settled(Contents, n)

(* The records of the variable that the update replaces, and the one that  *)
(* takes their place.                                                      *)
Old == IF pc = "delete" THEN {CurrPtr} ELSE {CurrPtr, InDeletedTransitionPtr} \ {0}
New == IF op.value # Absent /\ pc \in {"deleteInDeleted", "delete"} THEN {Len(cache)} ELSE {}

(* The target of an update.                                                *)
Replaced ==
  op # None =>
    /\ Live(cache, op.target) = Old \cup New
    /\ op.value = Absent => pc \in {"deleteInDeleted", "delete"}
    /\ pc \in {"mark", "deleteInDeleted", "delete"} \/ InDeletedTransitionPtr # 0 => CurrPtr # 0
    /\ InDeletedTransitionPtr # 0 => InDeletedTransitionPtr < CurrPtr
    /\ pc = "deleteInDeleted" => InDeletedTransitionPtr # 0
    /\ \A i \in Old : cache[i].state = "inDeleted" \/ pc = "mark" \/ op.value = Absent
    /\ \A i \in New : cache[i].state = "added" /\ CurrPtr < i
    /\ pc \in {"mark", "space"} /\ InDeletedTransitionPtr # 0 =>
         Room \/ (~atRuntime /\ Total(Buffer) + 2 <= Space)

StoreInv == Typed /\ Copied /\ AllSettled /\ Replaced
-----------------------------------------------------------------------------
(* Logs.                                                                   *)

IsLive(r) == r.state \in {"added", "inDeleted"}

Complete(r) == r \in Record /\ (IsLive(r) => r.name \in Name /\ r.value \in Value)

LEMMA InLog ==
  ASSUME NEW log \in Log
  PROVE  /\ log \in Seq(Record) /\ Len(log) \in Nat /\ DOMAIN log = 1 .. Len(log)
         /\ \A i \in DOMAIN log : Complete(log[i]) /\ i \in Nat /\ i >= 1
BY DEF Log, Complete, IsLive

LEMMA LiveIn ==
  ASSUME NEW log \in Log, NEW n
  PROVE  /\ Live(log, n) \subseteq DOMAIN log /\ Live(log, n) \subseteq Nat \ {0}
         /\ \A i \in Live(log, n) : log[i].value \in Value /\ log[i].name = n
         /\ \A i \in Live(log, n) : i <= Len(log)
BY InLog DEF Live, Complete, IsLive

LEMMA EmptyLog ==
  /\ <<>> \in Log
  /\ \A n : Live(<<>>, n) = {}
BY DEF Log, Live

LEMMA AppendToLog ==
  ASSUME NEW log \in Log, NEW r, Complete(r)
  PROVE  /\ Append(log, r) \in Log /\ Len(Append(log, r)) = Len(log) + 1
         /\ Append(log, r)[Len(log) + 1] = r
         /\ DOMAIN Append(log, r) = 1 .. Len(log) + 1
         /\ \A i \in DOMAIN log : Append(log, r)[i] = log[i]
         /\ \A n : Live(Append(log, r), n) =
                     IF IsLive(r) /\ r.name = n THEN Live(log, n) \cup {Len(log) + 1} ELSE Live(log, n)
<1> DEFINE new == Append(log, r)
<1>1. r \in Record
  BY DEF Complete
<1>2. /\ new \in Seq(Record) /\ Len(new) = Len(log) + 1 /\ new[Len(log) + 1] = r
      /\ DOMAIN new = 1 .. Len(log) + 1
      /\ \A i \in DOMAIN log : new[i] = log[i]
  BY InLog, <1>1
<1>3. \A i \in DOMAIN new : i = Len(log) + 1 \/ i \in DOMAIN log
  BY <1>2, InLog
<1>4. DOMAIN log \subseteq DOMAIN new /\ Len(log) + 1 \in DOMAIN new /\ Len(log) + 1 \notin DOMAIN log
  BY <1>2, InLog
<1> HIDE DEF new
<1>5. new \in Log
  BY <1>2, <1>3, InLog DEF Log, Complete, IsLive
<1>6. ASSUME NEW n
      PROVE  Live(new, n) = IF IsLive(r) /\ r.name = n THEN Live(log, n) \cup {Len(log) + 1} ELSE Live(log, n)
  BY <1>2, <1>3, <1>4 DEF Live, IsLive
<1> QED BY <1>2, <1>5, <1>6 DEF new

(* new is log with r at p.                                                 *)
Differs(new, log, p, r) ==
  /\ new \in Log /\ Len(new) = Len(log) /\ DOMAIN new = DOMAIN log
  /\ new[p] = r
  /\ \A i \in DOMAIN log : i # p => new[i] = log[i]
  /\ \A n : Live(new, n) = (Live(log, n) \ {p}) \cup IF IsLive(r) /\ r.name = n THEN {p} ELSE {}

LEMMA ChangeInLog ==
  ASSUME NEW log \in Log, NEW p \in DOMAIN log, NEW r, Complete(r), NEW new, new = [log EXCEPT ![p] = r]
  PROVE  Differs(new, log, p, r)
<1>1. r \in Record
  BY DEF Complete
<1>2. /\ new \in Seq(Record) /\ Len(new) = Len(log) /\ DOMAIN new = DOMAIN log
      /\ new[p] = r /\ \A i \in DOMAIN log : i # p => new[i] = log[i]
  BY InLog, <1>1
<1>3. new \in Log
  <2>1. ASSUME NEW i \in DOMAIN new, new[i].state \in {"added", "inDeleted"}
        PROVE  new[i].name \in Name /\ new[i].value \in Value
    BY <1>2, <2>1, InLog DEF Complete, IsLive
  <2> QED BY <1>2, <2>1 DEF Log
<1>4. ASSUME NEW n
      PROVE  Live(new, n) = (Live(log, n) \ {p}) \cup IF IsLive(r) /\ r.name = n THEN {p} ELSE {}
  BY <1>2 DEF Live, IsLive
<1> QED BY <1>2, <1>3, <1>4 DEF Differs

-----------------------------------------------------------------------------
(* FindVariable.                                                           *)

LEMMA LargestIs ==
  ASSUME NEW S \in SUBSET Nat, NEW m \in S, \A i \in S : i <= m
  PROVE  Max(S) = m
<1>1. \A i \in S : m >= i
  OBVIOUS
<1>2. ASSUME NEW x \in S, \A y \in S : x >= y
      PROVE  x = m
  BY <1>1, <1>2
<1> QED BY <1>1, <1>2 DEF Max

LEMMA SmallestIs ==
  ASSUME NEW S \in SUBSET Nat, NEW m \in S, \A i \in S : m <= i
  PROVE  Min(S) = m
<1>2. ASSUME NEW x \in S, \A y \in S : x =< y
      PROVE  x = m
  BY <1>2
<1> QED BY <1>2 DEF Min

LEMMA LiveAt ==
  ASSUME NEW log, NEW n, NEW s \in {"added", "inDeleted"}
  PROVE  At(log, n, s) = {i \in Live(log, n) : log[i].state = s}
BY DEF At, Live

(* The record of n that is read.                                           *)
Current(log, n, i) ==
  /\ i \in Live(log, n)
  /\ \/ log[i].state = "added" /\ \A j \in Live(log, n) : log[j].state = "added" => j = i
     \/ \A j \in Live(log, n) : j <= i /\ log[j].state = "inDeleted"

LEMMA CurrentIsFound ==
  ASSUME NEW log \in Log, NEW n, NEW i, Current(log, n, i)
  PROVE  Found(log, n) = i /\ Lookup(log, n) = log[i].value /\ Lookup(log, n) # Absent
<1>1. /\ i \in Live(log, n) /\ i \in Nat /\ i # 0 /\ log[i].value \in Value
      /\ Live(log, n) \subseteq Nat
  BY LiveIn DEF Current
<1>2. Found(log, n) = i
  <2>1. CASE log[i].state = "added" /\ \A j \in Live(log, n) : log[j].state = "added" => j = i
    <3>1. At(log, n, "added") = {i}
      BY <1>1, <2>1, LiveAt
    <3> QED BY <1>1, <3>1, SmallestIs DEF Found
  <2>2. CASE \A j \in Live(log, n) : j <= i /\ log[j].state = "inDeleted"
    <3>1. At(log, n, "added") = {} /\ At(log, n, "inDeleted") = Live(log, n)
      BY <2>2, LiveAt
    <3>2. Max({0} \cup Live(log, n)) = i
      <4> DEFINE S == {0} \cup Live(log, n)
      <4>1. S \in SUBSET Nat /\ i \in S /\ \A j \in S : j <= i
        BY <1>1, <2>2
      <4> QED BY <4>1, LargestIs
    <3> QED BY <3>1, <3>2 DEF Found
  <2> QED BY <2>1, <2>2 DEF Current
<1> QED BY <1>1, <1>2, SpaceAssumption DEF Lookup

LEMMA NothingIsFound ==
  ASSUME NEW log \in Log, NEW n, Live(log, n) = {}
  PROVE  Found(log, n) = 0 /\ Lookup(log, n) = Absent
<1>1. At(log, n, "added") = {} /\ At(log, n, "inDeleted") = {}
  BY LiveAt
<1>2. Max({0} \cup {}) = 0
  <2>1. {0} \cup {} \in SUBSET Nat
    OBVIOUS
  <2> QED BY <2>1, LargestIs
<1> QED BY <1>1, <1>2 DEF Found, Lookup

(* What is read of settled records, and what UpdateVariable replaces.      *)
LEMMA SettledIsFound ==
  ASSUME NEW log \in Log, NEW n, Settled(log, n), Live(log, n) # {}
  PROVE  /\ Current(log, n, Found(log, n)) /\ Found(log, n) # 0
         /\ Live(log, n) = {Found(log, n), FoundInDeleted(log, n)} \ {0}
         /\ FoundInDeleted(log, n) # 0 => FoundInDeleted(log, n) < Found(log, n)
         /\ FoundInDeleted(log, n) \in Nat
<1> DEFINE L == Live(log, n)
<1>1. L \subseteq Nat \ {0} /\ \A i \in L : log[i].state \in {"added", "inDeleted"}
  BY LiveIn DEF Live
<1>2. CASE \E i \in L : log[i].state = "added"
  <2>1. PICK i \in L : log[i].state = "added"
    BY <1>2
  <2>2. \A j \in L : j # i => j < i /\ log[j].state = "inDeleted"
    BY <1>1, <2>1 DEF Settled
  <2>3. Current(log, n, i)
    BY <2>1, <2>2 DEF Current
  <2>4. Found(log, n) = i
    BY <2>3, CurrentIsFound
  <2>5. At(log, n, "added") = {i} /\ At(log, n, "inDeleted") = L \ {i}
    <3>1. \A j \in L : j # i => log[j].state # "added"
      BY <2>2
    <3>2. At(log, n, "added") = {j \in L : log[j].state = "added"} /\ At(log, n, "inDeleted") = {j \in L : log[j].state = "inDeleted"}
      BY LiveAt
    <3> HIDE DEF L
    <3> QED BY <2>1, <2>2, <3>1, <3>2
  <2>6. {j \in At(log, n, "inDeleted") : j < Found(log, n)} = L \ {i}
    BY <2>2, <2>4, <2>5
  <2>7. FoundInDeleted(log, n) = Max({0} \cup (L \ {i}))
    BY <2>1, <2>5, <2>6 DEF FoundInDeleted
  <2>8. CASE L = {i}
    <3>1. {0} \cup (L \ {i}) = {0} /\ {0} \in SUBSET Nat
      BY <2>8
    <3>2. FoundInDeleted(log, n) = 0
      BY <2>7, <3>1, LargestIs
    <3> QED BY <1>1, <2>3, <2>4, <2>8, <3>2
  <2>9. CASE L # {i}
    <3>1. PICK d \in L : d # i
      BY <2>1, <2>9
    <3>2. L \ {i} = {d}
      <4>1. ASSUME NEW e \in L, e # i, e # d
            PROVE  FALSE
        <5>1. e < d \/ d < e
          BY <1>1, <4>1, <3>1
        <5>2. log[e].state = "added" \/ log[d].state = "added"
          BY <5>1, <4>1, <3>1 DEF Settled
        <5> QED BY <2>2, <3>1, <4>1, <5>2
      <4> QED BY <3>1, <4>1
    <3>3. {0, d} \in SUBSET Nat /\ d \in {0, d} /\ \A e \in {0, d} : e <= d
      BY <1>1, <3>1
    <3>4. FoundInDeleted(log, n) = d
      BY <2>7, <3>2, <3>3, LargestIs
    <3> QED BY <1>1, <2>1, <2>2, <2>3, <2>4, <3>1, <3>2, <3>4
  <2> QED BY <2>8, <2>9
<1>3. CASE \A i \in L : log[i].state = "inDeleted"
  <2>1. PICK i : i \in L
    OBVIOUS
  <2>2. L = {i}
    <3>1. ASSUME NEW j \in L, j # i
          PROVE  FALSE
      <4>1. i < j \/ j < i
        BY <1>1, <2>1, <3>1
      <4> QED BY <4>1, <2>1, <3>1, <1>3 DEF Settled
    <3> QED BY <2>1, <3>1
  <2>3. Current(log, n, i)
    BY <1>1, <1>3, <2>2 DEF Current
  <2>4. Found(log, n) = i
    BY <2>3, CurrentIsFound
  <2>5. At(log, n, "added") = {}
    BY <1>3, LiveAt
  <2>6. FoundInDeleted(log, n) = 0
    BY <2>5 DEF FoundInDeleted
  <2> QED BY <1>1, <2>2, <2>3, <2>4, <2>6
<1> QED BY <1>1, <1>2, <1>3

(* What is read depends on the live records only.                          *)
LEMMA SameRecords ==
  ASSUME NEW log \in Log, NEW new \in Log, NEW n, Settled(log, n),
         Live(new, n) = Live(log, n), \A i \in Live(log, n) : new[i] = log[i]
  PROVE  Lookup(new, n) = Lookup(log, n) /\ Settled(new, n)
<1>1. Settled(new, n)
  BY DEF Settled
<1>2. CASE Live(log, n) = {}
  BY <1>1, <1>2, NothingIsFound
<1>3. CASE Live(log, n) # {}
  <2>1. PICK i \in Live(log, n) : Current(log, n, i)
    BY <1>3, SettledIsFound DEF Current
  <2>2. Current(new, n, i)
    BY <2>1 DEF Current
  <2>3. Lookup(log, n) = log[i].value /\ Lookup(new, n) = new[i].value
    BY <2>1, <2>2, CurrentIsFound
  <2> QED BY <1>1, <2>3
<1> QED BY <1>2, <1>3
-----------------------------------------------------------------------------
(* Positions in order.                                                     *)

Ascends(e) == \A k, l \in DOMAIN e : k < l => e[k] < e[l]

LEMMA SmallestIn ==
  ASSUME NEW S \in SUBSET Nat, S # {}
  PROVE  \E m \in S : \A i \in S : m <= i
<1> DEFINE R == {pair \in Nat \X Nat : pair[1] < pair[2]}
<1>1. IsWellFoundedOn(R, Nat)
  BY NatLessThanWellFounded DEF OpToRel
<1> HIDE DEF R
<1>2. PICK m \in S : \A j \in S : <<j, m>> \notin R
  BY <1>1, WFMin
<1>3. ASSUME NEW j \in S
      PROVE  m <= j
  <2>1. <<j, m>> \notin R /\ j \in Nat /\ m \in Nat
    BY <1>2
  <2> QED BY <2>1 DEF R
<1> QED BY <1>3

LEMMA AscentExists ==
  ASSUME NEW S \in SUBSET Nat, IsFiniteSet(S)
  PROVE  \E e \in [1 .. Cardinality(S) -> S] : Ascends(e)
<1> DEFINE Good(T) == \E e \in [1 .. Cardinality(T) -> T] : Ascends(e)
           Bad == {T \in FiniteSubsetsOf(S) : ~Good(T)}
<1> SUFFICES ASSUME ~Good(S)
             PROVE  FALSE
  OBVIOUS
<1>1. S \in Bad
  BY DEF FiniteSubsetsOf
<1>2. Bad \subseteq FiniteSubsetsOf(S) /\ Bad # {}
  BY <1>1
<1>3. \E T \in Bad : \A U \in Bad : <<U, T>> \notin StrictSubsetOrdering(S)
  <2> HIDE DEF Bad
  <2> QED BY <1>2, FS_StrictSubsetOrderingWellFounded, WFMin
<1>4. PICK T \in Bad : \A U \in Bad : <<U, T>> \notin StrictSubsetOrdering(S)
  BY <1>3
<1>5. T \in SUBSET Nat /\ IsFiniteSet(T) /\ T \subseteq S /\ ~Good(T)
  BY <1>4 DEF FiniteSubsetsOf
<1>6. CASE T = {}
  <2> DEFINE e == [k \in 1 .. 0 |-> 0]
  <2>1. Cardinality(T) = 0
    BY <1>6, FS_EmptySet
  <2>2. e \in [1 .. 0 -> T] /\ Ascends(e)
    BY DEF Ascends
  <2>3. e \in [1 .. Cardinality(T) -> T]
    BY <2>1, <2>2
  <2> QED BY <1>5, <2>2, <2>3
<1>7. CASE T # {}
  <2>1. PICK m \in T : \A i \in T : m <= i
    BY <1>5, <1>7, SmallestIn
  <2> DEFINE U == T \ {m}
  <2>2. /\ IsFiniteSet(U) /\ Cardinality(U) \in Nat /\ Cardinality(T) \in Nat
        /\ Cardinality(T) = Cardinality(U) + 1
    <3>1. IsFiniteSet(U) /\ Cardinality(U) = Cardinality(T) - 1
      BY <1>5, <2>1, FS_RemoveElement
    <3>2. Cardinality(U) \in Nat /\ Cardinality(T) \in Nat
      BY <1>5, <3>1, FS_CardinalityType
    <3> QED BY <3>1, <3>2
  <2>3. Good(U)
    <3>1. <<U, T>> \in StrictSubsetOrdering(S)
      BY <1>5, <2>1 DEF StrictSubsetOrdering
    <3>2. U \notin Bad
      BY <1>4, <3>1
    <3>3. U \in FiniteSubsetsOf(S)
      BY <1>5, <2>2 DEF FiniteSubsetsOf
    <3> QED BY <3>2, <3>3
  <2>4. PICK e \in [1 .. Cardinality(U) -> U] : Ascends(e)
    BY <2>3
  <2> DEFINE g == [k \in 1 .. Cardinality(T) |-> IF k = 1 THEN m ELSE e[k - 1]]
  <2>5. \A k \in 2 .. Cardinality(T) : k - 1 \in 1 .. Cardinality(U)
    BY <2>2
  <2>6. g \in [1 .. Cardinality(T) -> T]
    <3>1. \A k \in 1 .. Cardinality(T) : k = 1 \/ k \in 2 .. Cardinality(T)
      BY <2>2
    <3>2. \A k \in 2 .. Cardinality(T) : e[k - 1] \in T
      BY <2>4, <2>5
    <3> QED BY <2>1, <3>1, <3>2
  <2>7. Ascends(g)
    <3> SUFFICES ASSUME NEW k \in 1 .. Cardinality(T), NEW l \in 1 .. Cardinality(T), k < l
                 PROVE  g[k] < g[l]
      BY DEF Ascends
    <3>1. l \in 2 .. Cardinality(T) /\ g[l] = e[l - 1] /\ l - 1 \in 1 .. Cardinality(U)
      BY <2>2
    <3>2. e[l - 1] \in U
      BY <2>4, <3>1
    <3>3. CASE k = 1
      <4>1. g[k] = m /\ m <= e[l - 1] /\ m # e[l - 1] /\ m \in Nat /\ e[l - 1] \in Nat
        BY <1>5, <2>1, <3>2, <3>3
      <4> QED BY <3>1, <4>1
    <3>4. CASE k # 1
      <4>1. g[k] = e[k - 1] /\ k - 1 \in 1 .. Cardinality(U) /\ k - 1 < l - 1
        BY <2>2, <3>4
      <4> QED BY <2>4, <3>1, <4>1 DEF Ascends
    <3> QED BY <3>3, <3>4
  <2> HIDE DEF g, U, Bad
  <2> QED BY <1>5, <2>6, <2>7
<1> QED BY <1>6, <1>7

(* InOrder lists every position once.                                      *)
LEMMA InOrderLists ==
  ASSUME NEW S \in SUBSET Nat, IsFiniteSet(S)
  PROVE  /\ InOrder(S) \in [1 .. Cardinality(S) -> S] /\ Cardinality(S) \in Nat
         /\ \A k, l \in 1 .. Cardinality(S) : InOrder(S)[k] = InOrder(S)[l] => k = l
         /\ \A i \in S : \E k \in 1 .. Cardinality(S) : InOrder(S)[k] = i
<1> DEFINE e == InOrder(S)
           D == 1 .. Cardinality(S)
<1>1. e \in [D -> S] /\ Ascends(e)
  <2>1. e = CHOOSE f \in [D -> S] : Ascends(f)
    BY DEF InOrder, Ascends
  <2>2. \E f \in [D -> S] : Ascends(f)
    BY AscentExists
  <2> HIDE DEF e, D
  <2> QED BY <2>1, <2>2
<1>2. Cardinality(S) \in Nat
  BY FS_CardinalityType
<1> HIDE DEF e
<1>3. ASSUME NEW k \in D, NEW l \in D, e[k] = e[l]
      PROVE  k = l
  <2>1. e[k] \in Nat /\ k \in Nat /\ l \in Nat
    <3>1. e[k] \in S /\ S \subseteq Nat
      BY <1>1
    <3>2. D \subseteq Nat
      BY <1>2
    <3> HIDE DEF D
    <3> QED BY <3>1, <3>2
  <2>2. ~(k < l) /\ ~(l < k)
    BY <1>1, <1>3, <2>1 DEF Ascends
  <2> QED BY <2>1, <2>2
<1>4. IsFiniteSet(D) /\ Cardinality(D) = Cardinality(S)
  BY <1>2, FS_Interval
<1>5. e \in Injection(D, S)
  BY <1>1, <1>3 DEF Injection, IsInjective
<1>6. e \in Surjection(D, S)
  BY <1>4, <1>5, FS_Injection
<1>7. \A i \in S : \E k \in D : e[k] = i
  BY <1>6 DEF Surjection
<1> QED BY <1>1, <1>2, <1>3, <1>7 DEF e
-----------------------------------------------------------------------------
(* The buffer of Reclaim.                                                  *)

Added(r) == [r EXCEPT !.state = "added"]

Saved(log, u, d) == Kept(log, u) \cup Promoted(log, u, d)

LEMMA SavedIn ==
  ASSUME NEW log \in Log, NEW u, NEW d
  PROVE  /\ Kept(log, u) \in SUBSET Nat /\ IsFiniteSet(Kept(log, u))
         /\ Promoted(log, u, d) \in SUBSET Nat /\ IsFiniteSet(Promoted(log, u, d))
         /\ Kept(log, u) \cap Promoted(log, u, d) = {}
         /\ \A i \in Saved(log, u, d) :
              /\ i \in DOMAIN log /\ i # u /\ IsLive(log[i]) /\ Complete(Added(log[i]))
              /\ i \in Live(log, log[i].name)
         /\ \A i \in Kept(log, u) : Added(log[i]) = log[i]
<1>1. Kept(log, u) \subseteq DOMAIN log /\ Promoted(log, u, d) \subseteq DOMAIN log
  BY DEF Kept, Promoted
<1>2. DOMAIN log \subseteq Nat /\ IsFiniteSet(DOMAIN log)
  BY InLog, FS_Interval
<1>3. IsFiniteSet(Kept(log, u)) /\ IsFiniteSet(Promoted(log, u, d))
  BY <1>1, <1>2, FS_Subset
<1>4. Kept(log, u) \cap Promoted(log, u, d) = {}
  BY DEF Kept, Promoted
<1>5. ASSUME NEW i \in Saved(log, u, d)
      PROVE  /\ i \in DOMAIN log /\ i # u /\ IsLive(log[i]) /\ Complete(Added(log[i]))
             /\ i \in Live(log, log[i].name)
  <2>1. i \in DOMAIN log /\ i # u /\ log[i].state \in {"added", "inDeleted"}
    BY DEF Saved, Kept, Promoted
  <2>2. Complete(log[i])
    BY <2>1, InLog
  <2>3. Complete(Added(log[i]))
    BY <2>1, <2>2 DEF Complete, Added, IsLive, Record
  <2> QED BY <2>1, <2>3 DEF IsLive, Live
<1>6. ASSUME NEW i \in Kept(log, u)
      PROVE  Added(log[i]) = log[i]
  <2>1. log[i] \in Record /\ log[i].state = "added"
    BY InLog DEF Kept, Complete
  <2> QED BY <2>1 DEF Added, Record
<1> QED BY <1>1, <1>2, <1>3, <1>4, <1>5, <1>6

(* Every record that is saved is in the buffer once, and added.            *)
LEMMA BufferHolds ==
  ASSUME NEW log \in Log, NEW u, NEW d
  PROVE  LET b == ValidBuffer(log, u, d)
         IN /\ b \in Log
            /\ \E f \in [DOMAIN b -> Saved(log, u, d)] :
                 /\ \A k \in DOMAIN b : b[k] = Added(log[f[k]])
                 /\ \A k, l \in DOMAIN b : f[k] = f[l] => k = l
                 /\ \A i \in Saved(log, u, d) : \E k \in DOMAIN b : f[k] = i
<1> DEFINE K == Kept(log, u)
           P == Promoted(log, u, d)
           nK == Cardinality(K)
           nP == Cardinality(P)
           eK == InOrder(K)
           eP == InOrder(P)
           s1 == [k \in DOMAIN eK |-> log[eK[k]]]
           s2 == [k \in DOMAIN eP |-> Added(log[eP[k]])]
           b == s1 \o s2
           f == [k \in 1 .. nK + nP |-> IF k <= nK THEN eK[k] ELSE eP[k - nK]]
<1>1. b = ValidBuffer(log, u, d)
  BY DEF ValidBuffer, Added
<1>2. /\ eK \in [1 .. nK -> K] /\ nK \in Nat
      /\ \A k, l \in 1 .. nK : eK[k] = eK[l] => k = l
      /\ \A i \in K : \E k \in 1 .. nK : eK[k] = i
  BY SavedIn, InOrderLists
<1>3. /\ eP \in [1 .. nP -> P] /\ nP \in Nat
      /\ \A k, l \in 1 .. nP : eP[k] = eP[l] => k = l
      /\ \A i \in P : \E k \in 1 .. nP : eP[k] = i
  BY SavedIn, InOrderLists
<1>4. /\ \A i \in K : i \in Saved(log, u, d) /\ Complete(log[i]) /\ Added(log[i]) = log[i]
      /\ \A i \in P : i \in Saved(log, u, d) /\ Complete(Added(log[i])) /\ i \notin K
  BY SavedIn DEF Saved
<1> HIDE DEF K, P, nK, nP, eK, eP
<1>5. s1 \in Seq(Record) /\ Len(s1) = nK /\ DOMAIN s1 = 1 .. nK
  <2>1. s1 \in [1 .. nK -> Record]
    BY <1>2, <1>4 DEF Complete
  <2> QED BY <1>2, <2>1
<1>6. s2 \in Seq(Record) /\ Len(s2) = nP /\ DOMAIN s2 = 1 .. nP
  <2>1. s2 \in [1 .. nP -> Record]
    BY <1>3, <1>4 DEF Complete
  <2> QED BY <1>3, <2>1
<1>7. /\ \A k \in 1 .. nK : s1[k] = Added(log[eK[k]]) /\ Complete(s1[k])
      /\ \A k \in 1 .. nP : s2[k] = Added(log[eP[k]]) /\ Complete(s2[k])
  BY <1>2, <1>3, <1>4
<1> HIDE DEF s1, s2
<1>8. /\ b \in Seq(Record) /\ Len(b) = nK + nP /\ DOMAIN b = 1 .. nK + nP
      /\ \A k \in 1 .. nK + nP : b[k] = IF k <= nK THEN s1[k] ELSE s2[k - nK]
  <2>1. b \in Seq(Record) /\ Len(b) = nK + nP
    BY <1>5, <1>6
  <2>2. DOMAIN b = 1 .. nK + nP
    BY <2>1
  <2>3. \A k \in 1 .. Len(s1) + Len(s2) : b[k] = IF k <= Len(s1) THEN s1[k] ELSE s2[k - Len(s1)]
    BY <1>5, <1>6
  <2> QED BY <1>5, <1>6, <2>1, <2>2, <2>3
<1>9. \A k \in 1 .. nK + nP : k \in 1 .. nK \/ (k \notin 1 .. nK /\ ~(k <= nK) /\ k - nK \in 1 .. nP)
  BY <1>2, <1>3
<1> HIDE DEF b
<1>10. \A k \in 1 .. nK + nP : b[k] = Added(log[f[k]]) /\ Complete(b[k])
  BY <1>7, <1>8, <1>9
<1>11. f \in [1 .. nK + nP -> Saved(log, u, d)]
  BY <1>2, <1>3, <1>4, <1>9
<1>12. ASSUME NEW k \in 1 .. nK + nP, NEW l \in 1 .. nK + nP, f[k] = f[l]
       PROVE  k = l
  <2>1. CASE k \in 1 .. nK /\ l \in 1 .. nK
    BY <1>2, <1>12, <2>1
  <2>2. CASE k \notin 1 .. nK /\ l \notin 1 .. nK
    <3>1. k - nK \in 1 .. nP /\ l - nK \in 1 .. nP /\ eP[k - nK] = eP[l - nK]
      BY <1>9, <1>12, <2>2
    <3>2. k - nK = l - nK
      BY <1>3, <3>1
    <3> QED BY <1>2, <1>3, <3>2
  <2>3. CASE k \in 1 .. nK /\ l \notin 1 .. nK
    BY <1>2, <1>3, <1>4, <1>9, <1>12, <2>3
  <2>4. CASE k \notin 1 .. nK /\ l \in 1 .. nK
    BY <1>2, <1>3, <1>4, <1>9, <1>12, <2>4
  <2> QED BY <2>1, <2>2, <2>3, <2>4
<1>13. ASSUME NEW i \in Saved(log, u, d)
       PROVE  \E k \in 1 .. nK + nP : f[k] = i
  <2>1. CASE i \in K
    <3>1. PICK k \in 1 .. nK : eK[k] = i
      BY <1>2, <2>1
    <3>2. k \in 1 .. nK + nP /\ f[k] = i
      BY <1>2, <1>3, <3>1
    <3> QED BY <3>2
  <2>2. CASE i \in P
    <3>1. PICK k \in 1 .. nP : eP[k] = i
      BY <1>3, <2>2
    <3>2. k + nK \in 1 .. nK + nP /\ ~(k + nK <= nK) /\ (k + nK) - nK = k
      BY <1>2, <1>3
    <3>3. f[k + nK] = i
      BY <3>1, <3>2
    <3> QED BY <3>2, <3>3
  <2> QED BY <2>1, <2>2 DEF Saved, K, P
<1>14. b \in Log
  <2>1. \A k \in DOMAIN b : Complete(b[k])
    BY <1>8, <1>10
  <2> QED BY <1>8, <2>1 DEF Log, Complete, IsLive
<1> HIDE DEF f
<1>15. \E g \in [DOMAIN b -> Saved(log, u, d)] :
         /\ \A k \in DOMAIN b : b[k] = Added(log[g[k]])
         /\ \A k, l \in DOMAIN b : g[k] = g[l] => k = l
         /\ \A i \in Saved(log, u, d) : \E k \in DOMAIN b : g[k] = i
  BY <1>8, <1>10, <1>11, <1>12, <1>13
<1> QED BY <1>1, <1>14, <1>15
LEMMA BufferIsAdded ==
  ASSUME NEW log \in Log, NEW u, NEW d
  PROVE  LET b == ValidBuffer(log, u, d)
         IN \A k \in DOMAIN b : b[k].state = "added" /\ b[k].name \in Name /\ k \in Live(b, b[k].name)
<1> DEFINE b == ValidBuffer(log, u, d)
<1>1. PICK f \in [DOMAIN b -> Saved(log, u, d)] : \A k \in DOMAIN b : b[k] = Added(log[f[k]])
  BY BufferHolds
<1>2. \A k \in DOMAIN b : f[k] \in DOMAIN log
  BY <1>1, SavedIn
<1>3. \A k \in DOMAIN b : b[k].state = "added"
  BY <1>1, <1>2, InLog DEF Added, Complete, Record
<1>4. \A k \in DOMAIN b : b[k].name \in Name
  BY <1>3, BufferHolds, InLog DEF Complete, IsLive
<1>5. \A k \in DOMAIN b : k \in Live(b, b[k].name)
  BY <1>3 DEF Live
<1> QED BY <1>3, <1>4, <1>5

(* Where the live records of n come from.                                  *)
LEMMA BufferComesFrom ==
  ASSUME NEW log \in Log, NEW u, NEW d, NEW n
  PROVE  LET b == ValidBuffer(log, u, d)
         IN \E f \in [DOMAIN b -> Saved(log, u, d)] :
              /\ \A k \in DOMAIN b : b[k].name = log[f[k]].name /\ b[k].value = log[f[k]].value
              /\ \A k, l \in DOMAIN b : f[k] = f[l] => k = l
              /\ \A i \in Saved(log, u, d) : \E k \in DOMAIN b : f[k] = i
              /\ \A k \in Live(b, n) : k \in DOMAIN b /\ f[k] \in Live(log, n)
<1> DEFINE b == ValidBuffer(log, u, d)
<1>1. PICK f \in [DOMAIN b -> Saved(log, u, d)] :
        /\ \A k \in DOMAIN b : b[k] = Added(log[f[k]])
        /\ \A k, l \in DOMAIN b : f[k] = f[l] => k = l
        /\ \A i \in Saved(log, u, d) : \E k \in DOMAIN b : f[k] = i
  BY BufferHolds
<1> HIDE DEF b
<1>2. ASSUME NEW k \in DOMAIN b
      PROVE  b[k].name = log[f[k]].name /\ b[k].value = log[f[k]].value
  <2>1. f[k] \in DOMAIN log
    BY <1>1, SavedIn
  <2>2. log[f[k]] \in Record
    BY <2>1, InLog DEF Complete
  <2> QED BY <1>1, <2>2 DEF Added, Record
<1>3. ASSUME NEW k \in Live(b, n)
      PROVE  k \in DOMAIN b /\ f[k] \in Live(log, n)
  <2>1. k \in DOMAIN b /\ b[k].name = n
    BY DEF Live
  <2>2. f[k] \in Saved(log, u, d) /\ log[f[k]].name = n
    BY <1>1, <1>2, <2>1
  <2> QED BY <2>1, <2>2, SavedIn
<1> QED BY <1>1, <1>2, <1>3 DEF b

(* What is read of a variable that is not updated survives.                *)
LEMMA BufferReads ==
  ASSUME NEW log \in Log, NEW n, NEW u, NEW d,
         Settled(log, n), u \notin Live(log, n), d \notin Live(log, n)
  PROVE  LET b == ValidBuffer(log, u, d)
         IN Lookup(b, n) = Lookup(log, n) /\ Settled(b, n)
<1> DEFINE b == ValidBuffer(log, u, d)
<1>0. b \in Log /\ \A k \in Live(b, n) : b[k].state = "added"
  BY BufferHolds, BufferIsAdded DEF Live
<1>1. PICK f \in [DOMAIN b -> Saved(log, u, d)] :
        /\ \A k \in DOMAIN b : b[k].name = log[f[k]].name /\ b[k].value = log[f[k]].value
        /\ \A k, l \in DOMAIN b : f[k] = f[l] => k = l
        /\ \A i \in Saved(log, u, d) : \E k \in DOMAIN b : f[k] = i
        /\ \A k \in Live(b, n) : k \in DOMAIN b /\ f[k] \in Live(log, n)
  BY BufferComesFrom
<1>2. \A k \in DOMAIN b : k \in Live(b, b[k].name)
  BY BufferIsAdded
<1> HIDE DEF b
<1>3. CASE Live(log, n) = {}
  <2>1. Live(b, n) = {}
    BY <1>1, <1>3
  <2> QED BY <1>0, <1>3, <2>1, NothingIsFound DEF Settled, b
<1>4. CASE Live(log, n) # {}
  <2>1. PICK c \in Live(log, n) : Current(log, n, c)
    BY <1>4, SettledIsFound DEF Current
  <2>2. /\ c \in DOMAIN log /\ c # u /\ c # d /\ log[c].name = n /\ c \in Nat
        /\ log[c].state \in {"added", "inDeleted"}
    BY LiveIn DEF Live
  <2>3. c \in Saved(log, u, d) /\ \A i \in Saved(log, u, d) : i \in Live(log, n) => i = c
    <3>1. CASE log[c].state = "added"
      <4>1. c \in Kept(log, u)
        BY <2>2, <3>1 DEF Kept
      <4>2. ASSUME NEW i \in Saved(log, u, d), i \in Live(log, n), i # c
            PROVE  FALSE
        <5>1. log[i].state = "inDeleted" /\ log[i].name = n
          BY <2>1, <3>1, <4>2, LiveIn DEF Current, Live
        <5>2. i \in Promoted(log, u, d)
          BY <4>2, <5>1 DEF Saved, Kept
        <5> QED BY <2>2, <4>1, <5>1, <5>2 DEF Promoted
      <4> QED BY <4>1, <4>2 DEF Saved
    <3>2. CASE log[c].state = "inDeleted"
      <4>1. \A j \in Live(log, n) : j <= c /\ log[j].state = "inDeleted"
        BY <2>1, <3>2 DEF Current
      <4>2. \A j \in Live(log, n) : j = c
        <5> SUFFICES ASSUME NEW j \in Live(log, n), j # c
                     PROVE  FALSE
          OBVIOUS
        <5>1. j < c /\ log[c].state # "added"
          BY <2>2, <3>2, <4>1, LiveIn
        <5> QED BY <5>1 DEF Settled
      <4>3. \A k \in Kept(log, u) : log[k].name # n
        <5> SUFFICES ASSUME NEW k \in Kept(log, u), log[k].name = n
                     PROVE  FALSE
          OBVIOUS
        <5>1. k \in Live(log, n) /\ log[k].state = "added"
          BY DEF Kept, Live
        <5> QED BY <4>1, <5>1
      <4>4. \A j \in DOMAIN log : log[j].state = "inDeleted" /\ log[j].name = n => j = c
        BY <4>2 DEF Live
      <4>5. c \in Promoted(log, u, d)
        BY <2>2, <3>2, <4>3, <4>4 DEF Promoted
      <4> QED BY <4>2, <4>5 DEF Saved
    <3> QED BY <2>2, <3>1, <3>2
  <2>4. PICK k \in DOMAIN b : f[k] = c
    BY <1>1, <2>3
  <2>5. k \in Live(b, n) /\ b[k].value = log[c].value
    BY <1>1, <1>2, <2>2, <2>4
  <2>6. \A l \in Live(b, n) : l = k
    <3> SUFFICES ASSUME NEW l \in Live(b, n)
                 PROVE  l = k
      OBVIOUS
    <3>1. f[l] = c /\ l \in DOMAIN b
      BY <1>1, <2>3
    <3> QED BY <1>1, <2>4, <3>1
  <2>7. Current(b, n, k)
    BY <1>0, <2>5, <2>6 DEF Current
  <2>8. Settled(b, n)
    <3>1. k \in Nat
      BY <1>0, <2>5, LiveIn
    <3> QED BY <2>6, <3>1 DEF Settled
  <2>9. Lookup(b, n) = b[k].value /\ Lookup(log, n) = log[c].value
    BY <1>0, <2>1, <2>7, CurrentIsFound
  <2> QED BY <2>5, <2>8, <2>9 DEF b
<1> QED BY <1>3, <1>4

(* Nothing is left of the variable that is updated.                        *)
LEMMA BufferOmits ==
  ASSUME NEW log \in Log, NEW n, NEW u, NEW d,
         Live(log, n) \subseteq {u, d}, \A i \in Live(log, n) : i = u \/ log[i].state = "inDeleted"
  PROVE  LET b == ValidBuffer(log, u, d)
         IN Live(b, n) = {}
<1> DEFINE b == ValidBuffer(log, u, d)
<1>1. PICK f \in [DOMAIN b -> Saved(log, u, d)] :
        \A k \in Live(b, n) : k \in DOMAIN b /\ f[k] \in Live(log, n)
  BY BufferComesFrom
<1> HIDE DEF b
<1>2. ASSUME NEW k \in Live(b, n)
      PROVE  FALSE
  <2>1. f[k] \in Saved(log, u, d) /\ f[k] \in Live(log, n)
    BY <1>1
  <2>2. f[k] # u
    BY <2>1, SavedIn
  <2>3. f[k] = d /\ log[f[k]].state = "inDeleted"
    BY <2>1, <2>2
  <2> QED BY <2>1, <2>2, <2>3 DEF Saved, Kept, Promoted
<1> QED BY <1>2 DEF b

(* The buffer of an update does not depend on the state of its record.     *)
LEMMA SameBuffer ==
  ASSUME NEW log \in Log, NEW new \in Log, NEW u, NEW d,
         DOMAIN new = DOMAIN log, \A i \in DOMAIN log : i # u => new[i] = log[i]
  PROVE  ValidBuffer(new, u, d) = ValidBuffer(log, u, d)
<1>1. Kept(new, u) = Kept(log, u)
  BY DEF Kept
<1>2. Promoted(new, u, d) = Promoted(log, u, d)
  <2> DEFINE Orphan(l, i) == /\ l[i].state = "inDeleted"
                             /\ \A k \in Kept(log, u) : l[k].name # l[i].name
  <2>1. \A i \in DOMAIN log \ {u, d} : Orphan(new, i) <=> Orphan(log, i)
    BY DEF Kept
  <2>2. {i \in DOMAIN log \ {u, d} : Orphan(new, i)} = {i \in DOMAIN log \ {u, d} : Orphan(log, i)}
    BY <2>1
  <2> DEFINE Orphans == {i \in DOMAIN log \ {u, d} : Orphan(log, i)}
  <2>3. /\ Promoted(log, u, d) = {i \in Orphans : \A j \in Orphans : log[j].name = log[i].name => i <= j}
        /\ Promoted(new, u, d) = {i \in Orphans : \A j \in Orphans : new[j].name = new[i].name => i <= j}
    BY <1>1, <2>2 DEF Promoted
  <2>4. \A i \in Orphans : new[i] = log[i]
    OBVIOUS
  <2> HIDE DEF Orphans
  <2> QED BY <2>3, <2>4
<1>3. /\ \A k \in DOMAIN InOrder(Kept(log, u)) : new[InOrder(Kept(log, u))[k]] = log[InOrder(Kept(log, u))[k]]
      /\ \A k \in DOMAIN InOrder(Promoted(log, u, d)) :
           new[InOrder(Promoted(log, u, d))[k]] = log[InOrder(Promoted(log, u, d))[k]]
  <2>1. /\ \A k \in DOMAIN InOrder(Kept(log, u)) : InOrder(Kept(log, u))[k] \in Kept(log, u)
        /\ \A k \in DOMAIN InOrder(Promoted(log, u, d)) : InOrder(Promoted(log, u, d))[k] \in Promoted(log, u, d)
    <3>1. InOrder(Kept(log, u)) \in [1 .. Cardinality(Kept(log, u)) -> Kept(log, u)]
      BY SavedIn, InOrderLists
    <3>2. InOrder(Promoted(log, u, d)) \in [1 .. Cardinality(Promoted(log, u, d)) -> Promoted(log, u, d)]
      BY SavedIn, InOrderLists
    <3> QED BY <3>1, <3>2
  <2>2. \A i \in Kept(log, u) \cup Promoted(log, u, d) : new[i] = log[i]
    BY SavedIn DEF Saved
  <2> QED BY <2>1, <2>2
<1> QED BY <1>1, <1>2, <1>3 DEF ValidBuffer

-----------------------------------------------------------------------------
(* Sizes.                                                                  *)

LEMMA SameTotal ==
  ASSUME NEW log \in Log, NEW new \in Log, DOMAIN new = DOMAIN log,
         \A i \in DOMAIN log : log[i].state = "header" <=> new[i].state = "header"
  PROVE  Total(new) = Total(log)
<1>1. {i \in DOMAIN new : new[i].state = "header"} = {i \in DOMAIN log : log[i].state = "header"}
  OBVIOUS
<1> QED BY <1>1 DEF Total

LEMMA UpTo ==
  ASSUME NEW n \in Nat
  PROVE  Cardinality(1 .. n) = n /\ IsFiniteSet(1 .. n)
<1>1. 1 \in Int /\ n \in Int
  OBVIOUS
<1>2. IsFiniteSet(1 .. n) /\ Cardinality(1 .. n) = IF 1 > n THEN 0 ELSE n - 1 + 1
  BY <1>1, FS_Interval
<1> QED BY <1>2

LEMMA AddedTotal ==
  ASSUME NEW log \in Log, \A i \in DOMAIN log : log[i].state = "added"
  PROVE  Total(log) = 2 * Len(log)
<1>1. {i \in DOMAIN log : log[i].state = "header"} = {}
  OBVIOUS
<1>2. Len(log) \in Nat /\ DOMAIN log = 1 .. Len(log)
  BY InLog
<1>3. Cardinality({}) = 0 /\ Cardinality(1 .. Len(log)) = Len(log)
  BY <1>2, FS_EmptySet, UpTo
<1>4. (1 .. Len(log)) \ {} = 1 .. Len(log)
  OBVIOUS
<1>5. Total(log) = Cardinality({}) + 2 * Cardinality((1 .. Len(log)) \ {})
  BY <1>1, <1>2 DEF Total
<1> QED BY <1>2, <1>3, <1>4, <1>5

(* The buffer has a record for each of the other variables.                *)
LEMMA BufferTotal ==
  ASSUME NEW log \in Log, NEW t \in Name, NEW u, NEW d,
         Live(log, t) \subseteq {u, d}, \A i \in Live(log, t) : i = u \/ log[i].state = "inDeleted",
         \A n \in Name \ {t} : Settled(log, n) /\ u \notin Live(log, n) /\ d \notin Live(log, n)
  PROVE  /\ ValidBuffer(log, u, d) \in Log /\ Total(ValidBuffer(log, u, d)) \in Nat
         /\ Total(ValidBuffer(log, u, d)) = 2 * Cardinality({n \in Name \ {t} : Lookup(log, n) # Absent})
<1> DEFINE b == ValidBuffer(log, u, d)
           S == {n \in Name \ {t} : Lookup(log, n) # Absent}
           f == [k \in 1 .. Len(b) |-> b[k].name]
<1>1. b \in Log /\ Len(b) \in Nat /\ DOMAIN b = 1 .. Len(b)
  BY BufferHolds, InLog
<1>2. \A k \in DOMAIN b : b[k].state = "added" /\ b[k].name \in Name /\ k \in Live(b, b[k].name)
  BY BufferIsAdded
<1>3. Live(b, t) = {}
  BY BufferOmits
<1>4. \A n \in Name \ {t} : Lookup(b, n) = Lookup(log, n) /\ Settled(b, n)
  BY BufferReads
<1> HIDE DEF b
<1>5. ASSUME NEW k \in 1 .. Len(b)
      PROVE  f[k] \in S
  <2>1. b[k].name \in Name \ {t} /\ k \in Live(b, b[k].name)
    BY <1>1, <1>2, <1>3
  <2>2. Lookup(b, b[k].name) # Absent
    BY <1>1, <1>4, <2>1, SettledIsFound, CurrentIsFound
  <2> QED BY <1>4, <2>1, <2>2
<1>6. ASSUME NEW k \in 1 .. Len(b), NEW l \in 1 .. Len(b), f[k] = f[l]
      PROVE  k = l
  <2>1. k \in Live(b, b[k].name) /\ l \in Live(b, b[k].name) /\ b[k].name \in Name \ {t}
    BY <1>1, <1>2, <1>3, <1>6
  <2>2. ~(k < l) /\ ~(l < k)
    BY <1>1, <1>2, <1>4, <2>1 DEF Settled
  <2> QED BY <1>1, <2>2
<1>7. ASSUME NEW n \in S
      PROVE  \E k \in 1 .. Len(b) : f[k] = n
  <2>1. Live(b, n) # {}
    BY <1>1, <1>4, NothingIsFound
  <2>2. PICK k : k \in Live(b, n)
    BY <2>1
  <2>3. k \in 1 .. Len(b) /\ b[k].name = n
    BY <1>1, <2>2 DEF Live
  <2> QED BY <2>3
<1> HIDE DEF S
<1>8. f \in Bijection(1 .. Len(b), S)
  BY <1>5, <1>6, <1>7 DEF Bijection, Injection, IsInjective, Surjection
<1>9. Cardinality(S) = Cardinality(1 .. Len(b)) /\ IsFiniteSet(1 .. Len(b))
  <2>1. IsFiniteSet(1 .. Len(b))
    BY <1>1, UpTo
  <2>2. ExistsBijection(1 .. Len(b), S)
    BY <1>8 DEF ExistsBijection
  <2> QED BY <2>1, <2>2, FS_Bijection
<1>10. Cardinality(1 .. Len(b)) = Len(b)
  BY <1>1, UpTo
<1>11. Total(b) = 2 * Len(b)
  BY <1>1, <1>2, AddedTotal
<1>12. Total(b) \in Nat
  BY <1>1, <1>11
<1> QED BY <1>1, <1>9, <1>10, <1>11, <1>12 DEF b, S
-----------------------------------------------------------------------------
(* Steps.                                                                  *)

Reads == [n \in Name |-> Lookup(Contents, n)]

(* What every step is shown to do.                                         *)
Stepped == StoreInv' /\ [Store!Next]_(Store!vars)

LEMMA Stutters ==
  ASSUME Request' = Request, Reads' = Reads
  PROVE  [Store!Next]_(Store!vars)
BY DEF Store!vars, Reads, Contents

LEMMA Requests ==
  ASSUME Request = None, Request' \in [target : Name, value : Value \cup {Absent}], Reads' = Reads
  PROVE  [Store!Next]_(Store!vars)
BY DEF Store!Next, Store!Request, Store!Requests, Reads, Contents

LEMMA Commits ==
  ASSUME Request # None, Request' = None, Reads' = [Reads EXCEPT ![Request.target] = Request.value]
  PROVE  [Store!Next]_(Store!vars)
BY DEF Store!Next, Store!Commit, Reads, Contents

LEMMA Drops ==
  ASSUME Request' = None, Reads' = Reads
  PROVE  [Store!Next]_(Store!vars)
<1>1. CASE Request = None
  BY <1>1, Stutters
<1>2. CASE Request # None
  BY <1>2 DEF Store!Next, Store!Drop, Reads, Contents
<1> QED BY <1>1, <1>2

(* The records of the variable that is updated are no others'.             *)
LEMMA OwnRecords ==
  ASSUME NEW log \in Log, NEW n, NEW t, n # t, NEW i \in Live(log, t)
  PROVE  i \notin Live(log, n) /\ i # 0
BY LiveIn DEF Live

LEMMA TargetIn ==
  ASSUME Typed, op # None
  PROVE  op.target \in Name /\ op.value \in Value \cup {Absent} /\ op = [target |-> op.target, value |-> op.value]
<1>1. op \in [target : Name, value : Value \cup {Absent}]
  BY DEF Typed
<1> QED BY <1>1

LEMMA RequestIs ==
  ASSUME op \in [target : Name, value : Value \cup {Absent}]
  PROVE  op # None
BY SpaceAssumption

-----------------------------------------------------------------------------
(* Steps that leave the log alone.                                         *)

(* SetVariable returns.                                                    *)
LEMMA Returns ==
  ASSUME StoreInv, pc \notin {"start", "init"} \cup Storing, Return, ~Twice, UNCHANGED <<flash, debris, boot>>,
         cache' = cache
  PROVE  Stepped
<1>1. Typed'
  BY DEF StoreInv, Typed, Return, boot, Updating, Storing
<1>2. Copied'
  BY DEF StoreInv, Copied, Return, Storing
<1>3. Unsettled = {} /\ Unsettled' = {} /\ Contents' = Contents
  BY DEF Unsettled, Twice, Contents, Return
<1>4. AllSettled'
  BY <1>3 DEF StoreInv, AllSettled
<1>5. Replaced'
  BY DEF Replaced, Return
<1>6. Request' = None /\ Reads' = Reads
  BY <1>3 DEF Request, Return, Reads
<1> QED BY <1>1, <1>2, <1>4, <1>5, <1>6, Drops DEF Stepped, StoreInv

LEMMA SetVariableSteps ==
  ASSUME StoreInv, Tame, NEW n \in Name, NEW v \in Value \cup {Absent}, SetVariable(n, v)
  PROVE  Stepped
<1>1. /\ pc = "idle" /\ op = None /\ cache \in Log /\ cache = flash /\ ~debris
      /\ Contents = cache /\ Contents' = cache
      /\ UNCHANGED <<flash, debris, cache, boot>>
  BY DEF SetVariable, StoreInv, Typed, Updating, Storing, Copied, Contents, DeletePath
<1>2. /\ op' = [target |-> n, value |-> v] /\ op' \in [target : Name, value : Value \cup {Absent}]
      /\ op' # None /\ op'.target = n /\ op'.value = v
  BY SpaceAssumption DEF SetVariable
<1>3. CurrPtr' = Found(cache, n) /\ InDeletedTransitionPtr' = FoundInDeleted(cache, n)
  BY DEF SetVariable
<1>4. \A m \in Name : Settled(cache, m)
  BY <1>1 DEF StoreInv, AllSettled, Unsettled, Twice
<1>5. CASE Live(cache, n) = {}
  <2>1. Found(cache, n) = 0 /\ Lookup(cache, n) = Absent
    BY <1>1, <1>5, NothingIsFound
  <2>2. FoundInDeleted(cache, n) = 0
    <3>1. At(cache, n, "added") = {}
      BY <1>5, LiveAt
    <3> QED BY <3>1 DEF FoundInDeleted
  <2>3. v # Absent /\ pc' = "space"
    BY <1>3, <2>1, <2>2 DEF SetVariable
  <2>4. Typed'
    BY <1>1, <1>2, <2>3 DEF StoreInv, Typed, Updating, boot
  <2>5. Copied'
    BY <1>1, <2>3 DEF Copied, Storing
  <2>6. AllSettled'
    BY <1>1, <1>4 DEF AllSettled
  <2>7. Replaced'
    <3>1. Old' = {} /\ New' = {}
      BY <1>3, <2>1, <2>2, <2>3 DEF Old, New
    <3> QED BY <1>1, <1>2, <1>3, <1>5, <2>1, <2>2, <2>3, <3>1 DEF Replaced
  <2>8. Request = None /\ Request' = op' /\ Reads' = Reads
    BY <1>1, <1>2, <2>3 DEF Request, Reads
  <2> QED BY <1>2, <2>4, <2>5, <2>6, <2>7, <2>8, Requests DEF Stepped, StoreInv
<1>6. CASE Live(cache, n) # {}
  <2>1. /\ Found(cache, n) # 0 /\ Live(cache, n) = {Found(cache, n), FoundInDeleted(cache, n)} \ {0}
        /\ FoundInDeleted(cache, n) # 0 => FoundInDeleted(cache, n) < Found(cache, n)
    BY <1>1, <1>4, <1>6, SettledIsFound
  <2>2. /\ pc' = IF v = Absent THEN DeletePath(InDeletedTransitionPtr') ELSE "mark"
        /\ pc' \in {"mark", "deleteInDeleted", "delete"}
        /\ v = Absent <=> pc' # "mark"
        /\ pc' = "deleteInDeleted" => InDeletedTransitionPtr' # 0
        /\ pc' = "delete" => InDeletedTransitionPtr' = 0
    BY <1>3, <2>1 DEF SetVariable, DeletePath
  <2>3. Typed'
    BY <1>1, <1>2, <2>2 DEF StoreInv, Typed, Updating, boot
  <2>4. Copied'
    BY <1>1, <2>2 DEF Copied, Storing
  <2>5. AllSettled'
    BY <1>1, <1>4 DEF AllSettled
  <2>6. Replaced'
    <3>1. New' = {} /\ Old' = {CurrPtr', InDeletedTransitionPtr'} \ {0}
      BY <1>2, <1>3, <2>1, <2>2 DEF Old, New
    <3>2. pc' = "mark" /\ InDeletedTransitionPtr' # 0 =>
            Room' \/ (~atRuntime' /\ Total(Buffer') + 2 <= Space)
      <4>1. Room' <=> Room
        BY <1>1 DEF Room, CommonSpace, boot
      <4>2. Buffer' = ValidBuffer(flash, CurrPtr', InDeletedTransitionPtr')
        BY <1>1 DEF Buffer
      <4> QED BY <1>1, <2>2, <4>1, <4>2 DEF SetVariable, Tame, boot
    <3>3. Live(cache, n)' = Live(cache, n)
      BY <1>1
    <3> HIDE DEF SetVariable
    <3> QED BY <1>1, <1>2, <1>3, <2>1, <2>2, <3>1, <3>2, <3>3 DEF Replaced
  <2>7. Request = None /\ Request' = op' /\ Reads' = Reads
    BY <1>1, <1>2, <2>2 DEF Request, Reads
  <2> QED BY <1>2, <2>3, <2>4, <2>5, <2>6, <2>7, Requests DEF Stepped, StoreInv
<1> QED BY <1>5, <1>6

LEMMA EnoughSpaceSteps ==
  ASSUME StoreInv, EnoughSpace
  PROVE  Stepped
<1>1. /\ pc = "space" /\ pc' = "header"
      /\ UNCHANGED <<flash, debris, cache, boot, op, found>>
  BY DEF EnoughSpace
<1>2. Contents' = Contents /\ Contents = cache
  BY <1>1 DEF Contents
<1>3. Typed'
  BY <1>1 DEF StoreInv, Typed, Updating, boot, found
<1>4. Copied'
  BY <1>1 DEF StoreInv, Copied, Storing
<1>5. AllSettled'
  <2>1. Twice' <=> Twice
    BY <1>1 DEF Twice, found
  <2> QED BY <1>1, <1>2, <2>1 DEF StoreInv, AllSettled, Unsettled
<1>6. Replaced'
  <2>1. Old' = Old /\ New' = New
    BY <1>1 DEF Old, New, found
  <2> QED BY <1>1, <2>1 DEF StoreInv, Replaced, found
<1>7. Request' = Request /\ Reads' = Reads
  BY <1>1, <1>2 DEF Request, Reads
<1> QED BY <1>3, <1>4, <1>5, <1>6, <1>7, Stutters DEF Stepped, StoreInv

LEMMA OutOfResourcesSteps ==
  ASSUME StoreInv, OutOfResources
  PROVE  Stepped
<1>1. /\ pc = "space" /\ ~Room /\ atRuntime /\ Return
      /\ UNCHANGED <<flash, debris, boot>> /\ cache' = cache
  BY DEF OutOfResources
<1>2. op # None
  BY <1>1 DEF StoreInv, Typed, Updating
<1>3. InDeletedTransitionPtr = 0
  BY <1>1, <1>2 DEF StoreInv, Replaced
<1> QED BY <1>1, <1>3, Returns DEF Twice, Storing

LEMMA ReclaimRefusedSteps ==
  ASSUME StoreInv, ReclaimRefused
  PROVE  /\ Stepped
         /\ 2 * Cardinality({n \in Name \ {op.target} : Lookup(flash, n) # Absent}) + 2 > Space
<1>1. /\ pc = "space" /\ ~Room /\ ~atRuntime /\ Total(Buffer) + 2 > Space /\ Return
      /\ UNCHANGED <<flash, debris, boot>> /\ cache = flash /\ cache' = cache
  BY DEF ReclaimRefused, StoreInv, Copied, Storing
<1>2. op # None /\ flash \in Log /\ op.target \in Name
  BY <1>1, TargetIn DEF StoreInv, Typed, Updating
<1>3. /\ Live(cache, op.target) = Old \cup New
      /\ \A i \in Old : cache[i].state = "inDeleted" \/ op.value = Absent
      /\ op.value # Absent
      /\ InDeletedTransitionPtr # 0 => Total(Buffer) + 2 <= Space
      /\ Old = {CurrPtr, InDeletedTransitionPtr} \ {0} /\ New = {}
  BY <1>1, <1>2 DEF StoreInv, Replaced, Old, New
<1>4. /\ Live(flash, op.target) \subseteq {CurrPtr, InDeletedTransitionPtr}
      /\ \A i \in Live(flash, op.target) : i = CurrPtr \/ flash[i].state = "inDeleted"
  BY <1>1, <1>3
<1>5. ASSUME NEW n \in Name \ {op.target}
      PROVE  /\ Settled(flash, n)
             /\ CurrPtr \notin Live(flash, n) /\ InDeletedTransitionPtr \notin Live(flash, n)
  <2>1. Settled(flash, n)
    BY <1>1 DEF StoreInv, AllSettled, Unsettled, Contents
  <2>2. 0 \notin Live(flash, n)
    BY <1>2, LiveIn
  <2>3. \A i \in Old : i \notin Live(flash, n)
    BY <1>1, <1>2, <1>3, OwnRecords
  <2> QED BY <1>3, <2>1, <2>2, <2>3
<1>6. /\ Total(Buffer) \in Nat
      /\ Total(Buffer) = 2 * Cardinality({n \in Name \ {op.target} : Lookup(flash, n) # Absent})
  BY <1>2, <1>4, <1>5, BufferTotal DEF Buffer
<1>7. InDeletedTransitionPtr = 0
  BY <1>1, <1>3, <1>6, SpaceAssumption
<1>8. Stepped
  BY <1>1, <1>7, Returns DEF Twice, Storing
<1> QED BY <1>1, <1>6, <1>8

LEMMA WriteFailsSteps ==
  ASSUME StoreInv, Tame, WriteFails
  PROVE  Stepped
<1>1. /\ pc \in {"mark", "header", "deleteInDeleted", "delete", "space"} /\ Return
      /\ UNCHANGED <<flash, debris, boot>> /\ cache' = cache
  BY DEF WriteFails
<1>2. ~Twice
  BY DEF WriteFails, Whole, Tame, Twice
<1> QED BY <1>1, <1>2, Returns DEF Storing

LEMMA ExitBootServicesSteps ==
  ASSUME StoreInv, ExitBootServices
  PROVE  Stepped
<1>1. /\ pc = "idle" /\ UNCHANGED <<flash, debris, cache, Reclaimed, pc, op, found>> /\ atRuntime' = TRUE
      /\ op = None
  BY DEF ExitBootServices, StoreInv, Typed, Updating, Storing
<1>2. Contents' = Contents
  BY <1>1 DEF Contents
<1>3. Typed'
  BY <1>1 DEF StoreInv, Typed, found
<1>4. Copied'
  BY <1>1 DEF StoreInv, Copied, Storing
<1>5. AllSettled'
  BY <1>1, <1>2 DEF StoreInv, AllSettled, Unsettled, Twice, found
<1>6. Replaced'
  BY <1>1 DEF Replaced
<1>7. Request' = Request /\ Reads' = Reads
  BY <1>1, <1>2 DEF Request, Reads
<1> QED BY <1>3, <1>4, <1>5, <1>6, <1>7, Stutters DEF Stepped, StoreInv
-----------------------------------------------------------------------------
(* Steps that write the new record.                                        *)

(* The step goes on with the update, and memory stays as it is.            *)
LEMMA KeepsMemory ==
  ASSUME StoreInv, pc \in {"header"} \cup Storing, pc' \in {"header"} \cup Storing,
         UNCHANGED <<debris, cache, boot, op, found>>, flash' \in Log, Copied'
  PROVE  Stepped
<1>1. Contents' = Contents /\ op # None
  BY DEF Contents, StoreInv, Typed, Storing, Updating
<1>2. Typed'
  BY DEF StoreInv, Typed, Storing, Updating, boot, found
<1>3. AllSettled'
  <2>1. Twice' <=> Twice
    BY DEF Twice, found, Storing
  <2> QED BY <1>1, <2>1 DEF StoreInv, AllSettled, Unsettled
<1>4. Replaced'
  <2>1. Old' = Old /\ New' = New
    BY DEF Old, New, found, Storing
  <2> QED BY <1>1, <2>1 DEF StoreInv, Replaced, found, Storing
<1>5. Request' = Request /\ Reads' = Reads
  BY <1>1 DEF Request, Reads, Storing
<1> QED BY <1>2, <1>3, <1>4, <1>5, Stutters DEF Stepped, StoreInv

(* The record that is half written is no variable's yet.                   *)
LEMMA HalfIsComplete ==
  ASSUME StoreInv, op # None, op.value # Absent
  PROVE  /\ Complete(Half) /\ ~IsLive(Half) /\ Complete(NewVariable("added"))
         /\ IsLive(NewVariable("added"))
         /\ NewVariable("added").name = op.target /\ NewVariable("added").value = op.value
         /\ NewVariable("added").state = "added"
         /\ pc = "added" => [Half EXCEPT !.state = "added"] = NewVariable("added")
<1>1. op.target \in Name /\ op.value \in Value
  BY TargetIn DEF StoreInv
<1> QED BY <1>1 DEF Half, Complete, IsLive, Record, NewVariable

LEMMA StoringHalf ==
  ASSUME StoreInv, pc \in {"space", "header"} \cup Storing
  PROVE  /\ op # None /\ op.value # Absent /\ cache \in Log /\ flash \in Log
         /\ Len(cache) \in Nat
<1>1. op # None /\ cache \in Log /\ flash \in Log
  BY DEF StoreInv, Typed, Storing, Updating
<1>2. op.value # Absent
  BY <1>1 DEF StoreInv, Replaced, Storing
<1> QED BY <1>1, <1>2, InLog

LEMMA WriteHeaderSteps ==
  ASSUME StoreInv, WriteHeader
  PROVE  Stepped
<1>1. /\ pc = "header" /\ pc' = "valid" /\ UNCHANGED <<debris, cache, boot, op, found>>
      /\ flash' = Append(flash, [NewVariable("header") EXCEPT !.value = None])
  BY DEF WriteHeader
<1>2. op # None /\ op.value # Absent /\ cache \in Log /\ cache = flash /\ ~debris
  BY <1>1, StoringHalf DEF StoreInv, Copied, Storing
<1>3. Half' = [NewVariable("header") EXCEPT !.value = None]
  BY <1>1 DEF Half, NewVariable
<1>4. Complete([NewVariable("header") EXCEPT !.value = None])
  <2>1. op.target \in Name
    BY <1>2, TargetIn DEF StoreInv
  <2> QED BY <2>1 DEF Complete, NewVariable, IsLive, Record
<1>5. flash' \in Log
  BY <1>1, <1>2, <1>4, AppendToLog
<1>6. Copied'
  BY <1>1, <1>2, <1>3 DEF Copied, Storing
<1> QED BY <1>1, <1>5, <1>6, KeepsMemory DEF Storing

(* The last record of the flash is rewritten.                              *)
LEMMA Rewrites ==
  ASSUME NEW log \in Log, NEW r, NEW s, Complete(r), Complete(s), NEW old, old = Append(log, r)
  PROVE  /\ [old EXCEPT ![Len(old)] = s] = Append(log, s)
         /\ old[Len(old)] = r /\ Append(log, s) \in Log
<1>1. log \in Seq(Record) /\ r \in Record /\ s \in Record /\ Len(log) \in Nat
  BY InLog DEF Complete
<1> DEFINE g == Append(log, s)
           f == [old EXCEPT ![Len(old)] = s]
           D == 1 .. Len(log) + 1
           p == Len(log) + 1
<1>2. /\ old \in Seq(Record) /\ Len(old) = p /\ g \in Seq(Record) /\ Len(g) = p
      /\ \A i \in 1 .. Len(log) : old[i] = log[i] /\ g[i] = log[i]
      /\ old[p] = r /\ g[p] = s
  BY <1>1
<1>3. p \in D /\ \A i \in D : i = p \/ i \in 1 .. Len(log)
  BY <1>1
<1> HIDE DEF g
<1>4. f = g
  <2>1. old \in [D -> Record] /\ g \in [D -> Record]
    <3>1. \A q \in Seq(Record) : q \in [1 .. Len(q) -> Record]
      OBVIOUS
    <3> HIDE DEF p
    <3>2. old \in [1 .. p -> Record] /\ g \in [1 .. p -> Record]
      BY <1>2, <3>1
    <3> QED BY <3>2 DEF p
  <2>2. \A i \in D : i # p => old[i] = g[i]
    BY <1>2, <1>3
  <2> HIDE DEF D, p
  <2>3. f = [old EXCEPT ![p] = s]
    BY <1>2
  <2> QED BY <1>2, <1>3, <2>1, <2>2, <2>3
<1>5. Append(log, s) \in Log
  BY AppendToLog
<1> QED BY <1>2, <1>4, <1>5 DEF g

LEMMA WriteHeaderValidSteps ==
  ASSUME StoreInv, WriteHeaderValid
  PROVE  Stepped
<1>1. /\ pc = "valid" /\ pc' = "data" /\ UNCHANGED <<debris, cache, boot, op, found>>
      /\ flash' = [flash EXCEPT ![Len(flash)] = [flash[Len(flash)] EXCEPT !.state = "headerValid"]]
  BY DEF WriteHeaderValid
<1>2. op # None /\ op.value # Absent /\ cache \in Log /\ flash = Append(cache, Half) /\ ~debris
  BY <1>1, StoringHalf DEF StoreInv, Copied, Storing
<1>3. Half' = [Half EXCEPT !.state = "headerValid"] /\ Complete(Half) /\ Complete(Half')
  <2>1. Half' = [Half EXCEPT !.state = "headerValid"]
    BY <1>1 DEF Half
  <2>2. Complete(Half)
    BY <1>2, HalfIsComplete
  <2> QED BY <2>1, <2>2 DEF Complete, Record, IsLive
<1>4. flash' = Append(cache, Half') /\ flash' \in Log
  <2>1. flash[Len(flash)] = Half
    BY <1>2, <1>3, Rewrites
  <2>2. flash' = [flash EXCEPT ![Len(flash)] = Half']
    BY <1>1, <1>3, <2>1
  <2>3. PICK h : h = Half'
    OBVIOUS
  <2>4. Complete(h) /\ flash' = [flash EXCEPT ![Len(flash)] = h]
    BY <1>3, <2>2, <2>3
  <2>5. [flash EXCEPT ![Len(flash)] = h] = Append(cache, h) /\ Append(cache, h) \in Log
    <3>1. cache \in Log /\ flash = Append(cache, Half) /\ Complete(Half)
      BY <1>2, <1>3
    <3> QED BY <2>4, <3>1, Rewrites
  <2> QED BY <2>3, <2>4, <2>5
<1>5. Copied'
  BY <1>1, <1>2, <1>4 DEF Copied, Storing
<1> QED BY <1>1, <1>4, <1>5, KeepsMemory DEF Storing

LEMMA WriteDataSteps ==
  ASSUME StoreInv, WriteData
  PROVE  Stepped
<1>1. /\ pc = "data" /\ pc' = "added" /\ UNCHANGED <<debris, cache, boot, op, found>>
      /\ flash' = [flash EXCEPT ![Len(flash)] = [flash[Len(flash)] EXCEPT !.value = op.value]]
  BY DEF WriteData
<1>2. op # None /\ op.value # Absent /\ cache \in Log /\ flash = Append(cache, Half) /\ ~debris
  BY <1>1, StoringHalf DEF StoreInv, Copied, Storing
<1>3. Half' = [Half EXCEPT !.value = op.value] /\ Complete(Half) /\ Complete(Half')
  <2>1. Half' = [Half EXCEPT !.value = op.value]
    BY <1>1 DEF Half
  <2>2. Complete(Half) /\ ~IsLive(Half)
    BY <1>2, HalfIsComplete
  <2>3. op.value \in Value
    BY <1>2, TargetIn DEF StoreInv
  <2> QED BY <2>1, <2>2, <2>3 DEF Complete, Record, IsLive
<1>4. flash' = Append(cache, Half') /\ flash' \in Log
  <2>1. flash[Len(flash)] = Half
    BY <1>2, <1>3, Rewrites
  <2>2. flash' = [flash EXCEPT ![Len(flash)] = Half']
    BY <1>1, <1>3, <2>1
  <2>3. PICK h : h = Half'
    OBVIOUS
  <2>4. Complete(h) /\ flash' = [flash EXCEPT ![Len(flash)] = h]
    BY <1>3, <2>2, <2>3
  <2>5. [flash EXCEPT ![Len(flash)] = h] = Append(cache, h) /\ Append(cache, h) \in Log
    <3>1. cache \in Log /\ flash = Append(cache, Half) /\ Complete(Half)
      BY <1>2, <1>3
    <3> QED BY <2>4, <3>1, Rewrites
  <2> QED BY <2>3, <2>4, <2>5
<1>5. Copied'
  BY <1>1, <1>2, <1>4 DEF Copied, Storing
<1> QED BY <1>1, <1>4, <1>5, KeepsMemory DEF Storing

-----------------------------------------------------------------------------
(* Steps that change the log.                                              *)

(* The log that is read becomes one that only differs in the records of    *)
(* the target.                                                             *)
LEMMA OthersKeep ==
  ASSUME StoreInv, op # None, NEW new \in Log,
         \A n \in Name \ {op.target} :
           Live(new, n) = Live(Contents, n) /\ \A i \in Live(Contents, n) : new[i] = Contents[i]
  PROVE  \A n \in Name \ {op.target} : Settled(new, n) /\ Lookup(new, n) = Lookup(Contents, n)
<1>1. Contents \in Log
  BY DEF StoreInv, Typed, Contents
<1>2. \A n \in Name \ {op.target} : Settled(Contents, n)
  BY DEF StoreInv, AllSettled, Unsettled
<1> QED BY <1>1, <1>2, SameRecords

LEMMA MarkInDeletedSteps ==
  ASSUME StoreInv, MarkInDeleted
  PROVE  Stepped
<1> DEFINE r == [cache[CurrPtr] EXCEPT !.state = "inDeleted"]
<1>1. /\ pc = "mark" /\ pc' = "space" /\ UNCHANGED <<debris, boot, op, found>>
      /\ flash' = [flash EXCEPT ![CurrPtr] = r] /\ cache' = [cache EXCEPT ![CurrPtr] = r]
  BY DEF MarkInDeleted, SetState
<1>2. /\ op # None /\ cache \in Log /\ cache = flash /\ ~debris /\ Contents = cache /\ Contents' = cache'
      /\ op.target \in Name
  BY <1>1, TargetIn DEF StoreInv, Typed, Copied, Storing, Updating, Contents
<1>3. /\ op.value # Absent /\ Live(cache, op.target) = {CurrPtr, InDeletedTransitionPtr} \ {0}
      /\ CurrPtr # 0 /\ (InDeletedTransitionPtr # 0 => InDeletedTransitionPtr < CurrPtr)
      /\ InDeletedTransitionPtr # 0 => Room \/ (~atRuntime /\ Total(Buffer) + 2 <= Space)
  BY <1>1, <1>2 DEF StoreInv, Replaced, Old, New
<1>4. /\ CurrPtr \in Live(cache, op.target) /\ CurrPtr \in DOMAIN cache /\ CurrPtr \in Nat
      /\ cache[CurrPtr].name = op.target /\ IsLive(cache[CurrPtr]) /\ Complete(cache[CurrPtr])
  BY <1>2, <1>3, LiveIn, InLog DEF Live, IsLive
<1>5. /\ Complete(r) /\ IsLive(r) /\ r.name = op.target /\ r.state = "inDeleted"
      /\ r.value = cache[CurrPtr].value
  BY <1>4 DEF Complete, Record, IsLive
<1> HIDE DEF r
<1>6. /\ cache' \in Log /\ DOMAIN cache' = DOMAIN cache /\ cache'[CurrPtr] = r
      /\ \A i \in DOMAIN cache : i # CurrPtr => cache'[i] = cache[i]
      /\ \A n : n # op.target => Live(cache', n) = Live(cache, n) \ {CurrPtr}
      /\ Live(cache', op.target) = (Live(cache, op.target) \ {CurrPtr}) \cup {CurrPtr}
  <2>1. Differs(cache', cache, CurrPtr, r)
    BY <1>1, <1>2, <1>4, <1>5, ChangeInLog
  <2> QED BY <1>5, <2>1 DEF Differs
<1>7. cache' = flash'
  BY <1>1, <1>2
<1>8. \A n \in Name \ {op.target} : Settled(cache', n) /\ Lookup(cache', n) = Lookup(cache, n)
  <2>1. ASSUME NEW n \in Name \ {op.target}
        PROVE  Live(cache', n) = Live(cache, n) /\ \A i \in Live(cache, n) : cache'[i] = cache[i]
    <3>1. CurrPtr \notin Live(cache, n)
      BY <1>2, <1>4, OwnRecords
    <3>2. Live(cache', n) = Live(cache, n)
      BY <1>6, <3>1
    <3>3. \A i \in Live(cache, n) : i \in DOMAIN cache /\ i # CurrPtr
      BY <1>2, <3>1, LiveIn
    <3> QED BY <1>6, <3>2, <3>3
  <2> QED BY <1>2, <1>6, <2>1, OthersKeep
<1>9. Live(cache', op.target) = Live(cache, op.target)
  BY <1>4, <1>6
<1>10. Settled(cache, op.target)
  BY <1>1, <1>2 DEF StoreInv, AllSettled, Unsettled, Twice
<1>11. \A i \in Live(cache', op.target) : i <= CurrPtr /\ cache'[i].state = "inDeleted"
  <2>1. cache'[CurrPtr].state = "inDeleted" /\ CurrPtr <= CurrPtr
    BY <1>4, <1>5, <1>6
  <2>2. CASE InDeletedTransitionPtr # 0
    <3>1. /\ InDeletedTransitionPtr \in Live(cache, op.target) /\ InDeletedTransitionPtr < CurrPtr
          /\ InDeletedTransitionPtr \in Nat
      BY <1>2, <1>3, <2>2, LiveIn
    <3>2. cache[InDeletedTransitionPtr].state = "inDeleted"
      BY <1>4, <1>10, <3>1 DEF Settled
    <3>3. cache'[InDeletedTransitionPtr] = cache[InDeletedTransitionPtr]
      BY <1>2, <1>4, <1>6, <3>1, LiveIn
    <3> QED BY <1>3, <1>4, <1>9, <2>1, <3>1, <3>2, <3>3
  <2>3. CASE InDeletedTransitionPtr = 0
    BY <1>3, <1>9, <2>1, <2>3
  <2> QED BY <2>2, <2>3
<1>12. Current(cache', op.target, CurrPtr) /\ Current(cache, op.target, CurrPtr)
  <2>1. Current(cache', op.target, CurrPtr)
    BY <1>4, <1>9, <1>11 DEF Current
  <2>2. CASE InDeletedTransitionPtr = 0
    BY <1>3, <1>4, <2>1, <2>2 DEF Current, IsLive
  <2>3. CASE InDeletedTransitionPtr # 0
    <3>1. InDeletedTransitionPtr \in Live(cache, op.target) /\ InDeletedTransitionPtr < CurrPtr
      BY <1>3, <2>3
    <3>2. cache[CurrPtr].state = "added" /\ cache[InDeletedTransitionPtr].state = "inDeleted"
      BY <1>4, <1>10, <3>1 DEF Settled
    <3> QED BY <1>3, <1>4, <2>1, <3>2 DEF Current
  <2> QED BY <2>1, <2>2, <2>3
<1>13. Lookup(cache', op.target) = Lookup(cache, op.target)
  BY <1>2, <1>5, <1>6, <1>12, CurrentIsFound
<1>14. Typed'
  BY <1>1, <1>6, <1>7 DEF StoreInv, Typed, Updating, boot, found
<1>15. Copied'
  BY <1>1, <1>2, <1>7 DEF Copied, Storing
<1>16. AllSettled'
  <2>1. CASE InDeletedTransitionPtr # 0
    <3>1. Unsettled' = {n \in Name : n = op.target}
      BY <1>1, <1>2, <1>3, <2>1 DEF Unsettled, Twice, found
    <3> QED BY <1>2, <1>8, <3>1 DEF AllSettled
  <2>2. CASE InDeletedTransitionPtr = 0
    <3>1. Settled(cache', op.target)
      BY <1>3, <1>4, <1>9, <2>2 DEF Settled
    <3> QED BY <1>2, <1>8, <3>1 DEF AllSettled
  <2> QED BY <2>1, <2>2
<1>17. Replaced'
  <2>1. Old' = {CurrPtr, InDeletedTransitionPtr} \ {0} /\ New' = {}
    BY <1>1, <1>3 DEF Old, New, found
  <2>2. InDeletedTransitionPtr # 0 => Room' \/ (~atRuntime' /\ Total(Buffer') + 2 <= Space)
    <3>1. Total(cache') = Total(cache)
      <4>1. \A i \in DOMAIN cache : cache[i].state = "header" <=> cache'[i].state = "header"
        BY <1>4, <1>5, <1>6 DEF IsLive
      <4> QED BY <1>2, <1>6, <4>1, SameTotal
    <3>2. Room' <=> Room
      BY <1>1, <3>1 DEF Room, CommonSpace, boot
    <3>3. Buffer' = Buffer
      <4>1. ValidBuffer(cache', CurrPtr, InDeletedTransitionPtr) = ValidBuffer(cache, CurrPtr, InDeletedTransitionPtr)
        BY <1>2, <1>6, SameBuffer
      <4> QED BY <1>1, <1>2, <1>7, <4>1 DEF Buffer, found
    <3> QED BY <1>1, <1>3, <3>2, <3>3 DEF boot
  <2>3. \A i \in Old' : cache'[i].state = "inDeleted"
    BY <1>3, <1>9, <1>11, <2>1
  <2> QED BY <1>1, <1>2, <1>3, <1>9, <2>1, <2>2, <2>3 DEF Replaced, found
<1>18. Request' = Request /\ Reads' = Reads
  <2>1. Request' = Request
    BY <1>1 DEF Request
  <2>2. \A n \in Name : Lookup(cache', n) = Lookup(cache, n)
    BY <1>8, <1>13
  <2> QED BY <1>2, <2>1, <2>2 DEF Reads
<1> QED BY <1>14, <1>15, <1>16, <1>17, <1>18, Stutters DEF Stepped, StoreInv
LEMMA DeletedIsComplete == Complete(Deleted) /\ ~IsLive(Deleted) /\ Deleted.state = "deleted"
BY DEF Deleted, Complete, IsLive, Record

(* The flash and the memory lose or change one record.                     *)
LEMMA StateIsSet ==
  ASSUME StoreInv, pc \in {"deleteInDeleted", "delete"}, NEW p \in Live(cache, op.target),
         SetState(p, Deleted)
  PROVE  /\ cache' = flash' /\ cache' \in Log /\ Len(cache') = Len(cache) /\ ~debris'
         /\ cache \in Log /\ op # None /\ op.target \in Name /\ Contents = cache
         /\ Live(cache', op.target) = Live(cache, op.target) \ {p}
         /\ \A i \in Live(cache, op.target) \ {p} : cache'[i] = cache[i]
         /\ \A n \in Name \ {op.target} : Settled(cache', n) /\ Lookup(cache', n) = Lookup(cache, n)
<1>1. /\ op # None /\ cache \in Log /\ cache = flash /\ ~debris /\ Contents = cache /\ op.target \in Name
  BY TargetIn DEF StoreInv, Typed, Copied, Storing, Updating, Contents
<1>2. /\ flash' = [flash EXCEPT ![p] = Deleted] /\ cache' = [cache EXCEPT ![p] = Deleted]
      /\ debris' = debris
  BY DEF SetState
<1>3. p \in DOMAIN cache
  BY <1>1, LiveIn
<1>4. Differs(cache', cache, p, Deleted)
  BY <1>1, <1>2, <1>3, DeletedIsComplete, ChangeInLog
<1>5. /\ cache' \in Log /\ Len(cache') = Len(cache)
      /\ \A i \in DOMAIN cache : i # p => cache'[i] = cache[i]
      /\ \A n : Live(cache', n) = (Live(cache, n) \ {p}) \cup {}
  BY <1>4, DeletedIsComplete DEF Differs
<1>6. ASSUME NEW n \in Name \ {op.target}
      PROVE  Live(cache', n) = Live(cache, n) /\ \A i \in Live(cache, n) : cache'[i] = cache[i]
  <2>1. p \notin Live(cache, n)
    BY <1>1, OwnRecords
  <2>2. Live(cache', n) = Live(cache, n)
    BY <1>5, <2>1
  <2>3. \A i \in Live(cache, n) : i \in DOMAIN cache /\ i # p
    BY <1>1, <2>1, LiveIn
  <2> QED BY <1>5, <2>2, <2>3
<1>7. \A n \in Name \ {op.target} : Settled(cache', n) /\ Lookup(cache', n) = Lookup(cache, n)
  BY <1>1, <1>5, <1>6, OthersKeep
<1>8. Live(cache', op.target) = Live(cache, op.target) \ {p}
  BY <1>5
<1>9. \A i \in Live(cache, op.target) \ {p} : cache'[i] = cache[i]
  <2>1. \A i \in Live(cache, op.target) : i \in DOMAIN cache
    BY <1>1, LiveIn
  <2> QED BY <1>5, <2>1
<1> QED BY <1>1, <1>2, <1>5, <1>7, <1>8, <1>9

LEMMA DeleteInDeletedSteps ==
  ASSUME StoreInv, DeleteInDeleted
  PROVE  Stepped
<1> DEFINE p == InDeletedTransitionPtr
           L == Live(cache, op.target)
<1>1. /\ pc = "deleteInDeleted" /\ pc' = "delete" /\ UNCHANGED <<boot, op, found>>
      /\ SetState(p, Deleted)
  BY DEF DeleteInDeleted, SetState
<1>2. op # None
  BY <1>1 DEF StoreInv, Typed, Updating
<1>3. /\ L = {CurrPtr, p} \cup New /\ New = IF op.value # Absent THEN {Len(cache)} ELSE {}
      /\ CurrPtr # 0 /\ p # 0 /\ p < CurrPtr /\ p # Len(cache)
      /\ op.value # Absent => /\ cache[CurrPtr].state = "inDeleted" /\ cache[p].state = "inDeleted"
                              /\ cache[Len(cache)].state = "added" /\ CurrPtr < Len(cache)
  <2>1. /\ L = {CurrPtr, p} \cup New /\ CurrPtr # 0 /\ p # 0 /\ p < CurrPtr
        /\ Old = {CurrPtr, p}
        /\ New = IF op.value # Absent THEN {Len(cache)} ELSE {}
    BY <1>1, <1>2 DEF StoreInv, Replaced, Old, New
  <2>2. op.value # Absent => /\ cache[CurrPtr].state = "inDeleted" /\ cache[p].state = "inDeleted"
                             /\ cache[Len(cache)].state = "added" /\ CurrPtr < Len(cache)
    BY <1>1, <1>2, <2>1 DEF StoreInv, Replaced
  <2>3. p # Len(cache)
    <3>1. cache \in Log
      BY DEF StoreInv, Typed
    <3>2. p \in Nat /\ CurrPtr \in Nat /\ CurrPtr <= Len(cache) /\ Len(cache) \in Nat
      BY <2>1, <3>1, LiveIn, InLog
    <3> QED BY <2>1, <3>2
  <2> QED BY <2>1, <2>2, <2>3
<1>4. p \in L /\ p # CurrPtr
  <2>1. cache \in Log
    BY DEF StoreInv, Typed
  <2>2. p \in Nat /\ CurrPtr \in Nat
    BY <1>3, <2>1, LiveIn
  <2> QED BY <1>3, <2>2
<1>5. /\ cache' = flash' /\ cache' \in Log /\ Len(cache') = Len(cache) /\ ~debris'
      /\ cache \in Log /\ op.target \in Name /\ Contents = cache
      /\ Live(cache', op.target) = L \ {p}
      /\ \A i \in L \ {p} : cache'[i] = cache[i]
      /\ \A n \in Name \ {op.target} : Settled(cache', n) /\ Lookup(cache', n) = Lookup(cache, n)
  <2>1. p \in Live(cache, op.target)
    BY <1>4
  <2> QED BY <1>1, <2>1, StateIsSet
<1>6. Live(cache', op.target) = {CurrPtr} \cup New
  BY <1>3, <1>4, <1>5
<1>7. CurrPtr \in Nat /\ Len(cache) \in Nat /\ L \subseteq Nat
  BY <1>3, <1>5, LiveIn, InLog
<1>8. Settled(cache', op.target) /\ Lookup(cache', op.target) = Lookup(cache, op.target)
  <2>1. CASE op.value = Absent
    <3>1. Live(cache', op.target) = {CurrPtr} /\ L = {CurrPtr, p} /\ cache'[CurrPtr] = cache[CurrPtr]
      BY <1>3, <1>4, <1>5, <1>6, <2>1
    <3>2. Settled(cache', op.target)
      BY <1>7, <3>1 DEF Settled
    <3>3. cache[p].state = "inDeleted" /\ cache[CurrPtr].state = "added"
      <4>1. Settled(cache, op.target)
        BY <1>5, <2>1 DEF StoreInv, AllSettled, Unsettled, Twice
      <4> QED BY <1>3, <4>1 DEF Settled
    <3>4. Current(cache, op.target, CurrPtr) /\ Current(cache', op.target, CurrPtr)
      BY <3>1, <3>3 DEF Current
    <3> QED BY <1>5, <3>1, <3>2, <3>4, CurrentIsFound
  <2>2. CASE op.value # Absent
    <3>1. /\ Live(cache', op.target) = {CurrPtr, Len(cache)} /\ L = {CurrPtr, p, Len(cache)}
          /\ cache'[CurrPtr] = cache[CurrPtr] /\ cache'[Len(cache)] = cache[Len(cache)]
      BY <1>3, <1>4, <1>5, <1>6, <2>2
    <3>2. /\ cache[CurrPtr].state = "inDeleted" /\ cache[p].state = "inDeleted"
          /\ cache[Len(cache)].state = "added" /\ CurrPtr < Len(cache)
      BY <1>3, <2>2
    <3>3. Settled(cache', op.target)
      BY <1>7, <3>1, <3>2 DEF Settled
    <3>4. Current(cache, op.target, Len(cache)) /\ Current(cache', op.target, Len(cache))
      BY <3>1, <3>2 DEF Current
    <3> QED BY <1>5, <3>1, <3>3, <3>4, CurrentIsFound
  <2> QED BY <2>1, <2>2
<1>9. Contents' = cache'
  BY <1>1 DEF Contents
<1>10. Typed'
  <2>1. debris' \in BOOLEAN
    BY <1>1 DEF SetState, StoreInv, Typed
  <2> QED BY <1>1, <1>5, <2>1 DEF StoreInv, Typed, Updating, boot, found
<1>11. Copied'
  BY <1>1, <1>5 DEF Copied, Storing
<1>12. AllSettled'
  BY <1>5, <1>8, <1>9 DEF AllSettled
<1>13. Replaced'
  <2>1. Old' = {CurrPtr} /\ New' = New
    BY <1>1, <1>5 DEF Old, New, found
  <2>2. \A i \in New' : cache'[i].state = "added" /\ CurrPtr < i
    <3>1. \A i \in New : i = Len(cache) /\ op.value # Absent /\ i \in L /\ i # p
      BY <1>3
    <3> QED BY <1>3, <1>5, <2>1, <3>1
  <2>3. op.value = Absent \/ cache'[CurrPtr].state = "inDeleted"
    BY <1>3, <1>4, <1>5
  <2> QED BY <1>1, <1>3, <1>6, <2>1, <2>2, <2>3 DEF Replaced, found
<1>14. Request' = Request /\ Reads' = Reads
  <2>1. Request' = Request
    BY <1>1 DEF Request
  <2>2. \A n \in Name : Lookup(cache', n) = Lookup(cache, n)
    BY <1>5, <1>8
  <2> QED BY <1>5, <1>9, <2>1, <2>2 DEF Reads
<1> QED BY <1>10, <1>11, <1>12, <1>13, <1>14, Stutters DEF Stepped, StoreInv

(* No update is in progress, or it is over.                                *)
LEMMA Rests ==
  ASSUME StoreInv, op' = None, CurrPtr' = 0, InDeletedTransitionPtr' = 0, pc' \in {"start", "init", "idle"},
         flash' \in Log, cache' \in Log, Copied',
         debris' \in BOOLEAN, atRuntime' \in BOOLEAN, Reclaimed' \in BOOLEAN,
         \A n \in Name : Settled(Contents', n)
  PROVE  StoreInv' /\ Request' = None
<1>1. Typed'
  BY DEF Typed, Updating, Storing
<1>2. AllSettled'
  BY DEF AllSettled
<1>3. Replaced'
  BY DEF Replaced
<1>4. Request' = None
  BY DEF Request
<1> QED BY <1>1, <1>2, <1>3, <1>4 DEF StoreInv

LEMMA DeleteCurrSteps ==
  ASSUME StoreInv, DeleteCurr
  PROVE  Stepped
<1> DEFINE L == Live(cache, op.target)
<1>1. /\ pc = "delete" /\ Return /\ SetState(CurrPtr, Deleted) /\ UNCHANGED boot
  BY DEF DeleteCurr, SetState
<1>2. op # None
  BY <1>1 DEF StoreInv, Typed, Updating
<1>3. /\ L = {CurrPtr} \cup New /\ New = IF op.value # Absent THEN {Len(cache)} ELSE {}
      /\ CurrPtr # 0
      /\ op.value # Absent => /\ cache[CurrPtr].state = "inDeleted"
                              /\ cache[Len(cache)].state = "added" /\ CurrPtr < Len(cache)
  <2>1. L = {CurrPtr} \cup New /\ CurrPtr # 0 /\ Old = {CurrPtr}
        /\ New = IF op.value # Absent THEN {Len(cache)} ELSE {}
    BY <1>1, <1>2 DEF StoreInv, Replaced, Old, New
  <2>2. op.value # Absent => /\ cache[CurrPtr].state = "inDeleted"
                             /\ cache[Len(cache)].state = "added" /\ CurrPtr < Len(cache)
    BY <1>1, <1>2, <2>1 DEF StoreInv, Replaced
  <2> QED BY <2>1, <2>2
<1>4. /\ cache' = flash' /\ cache' \in Log /\ Len(cache') = Len(cache) /\ ~debris'
      /\ cache \in Log /\ op.target \in Name /\ Contents = cache
      /\ Live(cache', op.target) = L \ {CurrPtr}
      /\ \A i \in L \ {CurrPtr} : cache'[i] = cache[i]
      /\ \A n \in Name \ {op.target} : Settled(cache', n) /\ Lookup(cache', n) = Lookup(cache, n)
  <2>1. CurrPtr \in Live(cache, op.target)
    BY <1>3
  <2> QED BY <1>1, <2>1, StateIsSet
<1>5. CurrPtr \in Nat /\ Len(cache) \in Nat
  BY <1>3, <1>4, LiveIn, InLog
<1>6. Contents' = cache' /\ Copied' /\ atRuntime' \in BOOLEAN /\ Reclaimed' \in BOOLEAN /\ debris' \in BOOLEAN
  BY <1>1, <1>4 DEF Contents, Return, Copied, Storing, SetState, boot, StoreInv, Typed
<1>7. CASE op.value = Absent
  <2>1. Live(cache', op.target) = {}
    BY <1>3, <1>4, <1>7
  <2>2. Settled(cache', op.target) /\ Lookup(cache', op.target) = Absent
    BY <1>4, <2>1, NothingIsFound DEF Settled
  <2>3. StoreInv' /\ Request' = None
    BY <1>1, <1>4, <1>6, <2>2, Rests DEF Return
  <2>4. Request # None /\ Request = op
    BY <1>2, <1>7 DEF Request
  <2>5. Reads' = [Reads EXCEPT ![op.target] = Absent]
    <3>1. Reads = [n \in Name |-> Lookup(cache, n)] /\ Reads' = [n \in Name |-> Lookup(cache', n)]
      BY <1>4, <1>6 DEF Reads
    <3> QED BY <1>4, <2>2, <3>1
  <2> QED BY <1>7, <2>3, <2>4, <2>5, Commits DEF Stepped
<1>8. CASE op.value # Absent
  <2>1. /\ Live(cache', op.target) = {Len(cache)} /\ L = {CurrPtr, Len(cache)}
        /\ cache'[Len(cache)] = cache[Len(cache)]
    BY <1>3, <1>4, <1>5, <1>8
  <2>2. Settled(cache', op.target)
    BY <1>5, <2>1 DEF Settled
  <2>3. Current(cache', op.target, Len(cache)) /\ Current(cache, op.target, Len(cache))
    BY <1>3, <1>8, <2>1 DEF Current
  <2>4. Lookup(cache', op.target) = Lookup(cache, op.target)
    BY <1>4, <2>1, <2>3, CurrentIsFound
  <2>5. StoreInv' /\ Request' = None
    BY <1>1, <1>4, <1>6, <2>2, Rests DEF Return
  <2>6. Reads' = Reads
    <3>1. \A n \in Name : Lookup(cache', n) = Lookup(cache, n)
      BY <1>4, <2>4
    <3> QED BY <1>4, <1>6, <3>1 DEF Reads
  <2> QED BY <2>5, <2>6, Drops DEF Stepped
<1> QED BY <1>7, <1>8
(* new is log and a record behind it, the one of t that is read.           *)
Extended(new, log, t, v, r) ==
  /\ new \in Log /\ Len(new) = Len(log) + 1
  /\ Live(new, t) = Live(log, t) \cup {Len(log) + 1}
  /\ \A i \in Live(log, t) : new[i] = log[i] /\ i < Len(log) + 1
  /\ new[Len(log) + 1] = r
  /\ Lookup(new, t) = v
  /\ \A n \in Name \ {t} : Live(new, n) = Live(log, n) /\ \A i \in Live(log, n) : new[i] = log[i]

LEMMA NewRecord ==
  ASSUME NEW log \in Log, NEW t \in Name, NEW v \in Value, NEW r, Complete(r),
         r.name = t, r.value = v, r.state = "added",
         \A i \in Live(log, t) : log[i].state = "inDeleted"
  PROVE  Extended(Append(log, r), log, t, v, r)
<1> DEFINE new == Append(log, r)
           p == Len(log) + 1
<1>1. /\ new \in Log /\ Len(new) = p /\ new[p] = r
      /\ \A i \in DOMAIN log : new[i] = log[i]
      /\ \A n : Live(new, n) = IF IsLive(r) /\ r.name = n THEN Live(log, n) \cup {p} ELSE Live(log, n)
  BY AppendToLog
<1>2. IsLive(r)
  BY DEF IsLive
<1>3. /\ Live(new, t) = Live(log, t) \cup {p}
      /\ \A n : n # t => Live(new, n) = Live(log, n)
  BY <1>1, <1>2
<1>4. \A n : \A i \in Live(log, n) : i \in DOMAIN log /\ i < p
  BY LiveIn, InLog
<1>5. \A n : \A i \in Live(log, n) : new[i] = log[i]
  BY <1>1, <1>4
<1> HIDE DEF new, p
<1>6. Current(new, t, p)
  BY <1>1, <1>3, <1>5 DEF Current
<1>7. Lookup(new, t) = v
  BY <1>1, <1>6, CurrentIsFound
<1> QED BY <1>1, <1>3, <1>4, <1>5, <1>7 DEF new, p, Extended

LEMMA ReclaimWithNewSteps ==
  ASSUME StoreInv, ReclaimWithNew
  PROVE  Stepped
<1> DEFINE b == ValidBuffer(cache, CurrPtr, InDeletedTransitionPtr)
           r == NewVariable("added")
<1>1. /\ pc = "space" /\ Return /\ cache = flash /\ UNCHANGED boot
      /\ flash' = Append(b, r) /\ cache' = Append(b, r) /\ debris' = FALSE
  BY DEF ReclaimWithNew, Reclaim, Buffer, StoreInv, Copied, Storing
<1>2. op # None /\ op.value # Absent /\ cache \in Log
  BY <1>1, StoringHalf
<1>3. op.target \in Name /\ op.value \in Value /\ Contents = cache
  BY <1>1, <1>2, TargetIn DEF StoreInv, Contents
<1>4. Live(cache, op.target) = {CurrPtr, InDeletedTransitionPtr} \ {0}
      /\ \A i \in Live(cache, op.target) : cache[i].state = "inDeleted"
  <2>1. Old = {CurrPtr, InDeletedTransitionPtr} \ {0} /\ New = {}
    BY <1>1 DEF Old, New
  <2> QED BY <1>1, <1>2, <2>1 DEF StoreInv, Replaced
<1>5. b \in Log
  BY <1>2, BufferHolds
<1>6. Live(b, op.target) = {}
  BY <1>2, <1>4, BufferOmits
<1>7. \A n \in Name \ {op.target} : Lookup(b, n) = Lookup(cache, n) /\ Settled(b, n)
  <2>1. ASSUME NEW n \in Name \ {op.target}
        PROVE  /\ Settled(cache, n)
               /\ CurrPtr \notin Live(cache, n) /\ InDeletedTransitionPtr \notin Live(cache, n)
    <3>1. Settled(cache, n)
      BY <1>3 DEF StoreInv, AllSettled, Unsettled
    <3>2. 0 \notin Live(cache, n)
      BY <1>2, LiveIn
    <3>3. \A i \in Live(cache, op.target) : i \notin Live(cache, n)
      BY <1>2, OwnRecords
    <3> QED BY <1>4, <3>1, <3>2, <3>3
  <2> QED BY <1>2, <2>1, BufferReads
<1>8. Complete(r) /\ r.name = op.target /\ r.value = op.value /\ r.state = "added"
  BY <1>2, HalfIsComplete
<1> HIDE DEF b, r
<1>9. /\ cache' \in Log
      /\ Live(cache', op.target) = {Len(b) + 1}
      /\ Lookup(cache', op.target) = op.value
      /\ \A n \in Name \ {op.target} : Live(cache', n) = Live(b, n) /\ \A i \in Live(b, n) : cache'[i] = b[i]
  <2>1. Extended(Append(b, r), b, op.target, op.value, r)
    BY <1>3, <1>5, <1>6, <1>8, NewRecord
  <2>2. Extended(cache', b, op.target, op.value, r)
    BY <1>1, <2>1
  <2> QED BY <1>6, <2>2 DEF Extended
<1>10. \A n \in Name \ {op.target} : Settled(cache', n) /\ Lookup(cache', n) = Lookup(cache, n)
  <2>1. ASSUME NEW n \in Name \ {op.target}
        PROVE  Settled(cache', n) /\ Lookup(cache', n) = Lookup(b, n)
    BY <1>5, <1>7, <1>9, SameRecords
  <2> QED BY <1>7, <2>1
<1>11. Settled(cache', op.target)
  <2>1. Len(b) \in Nat
    BY <1>5, InLog
  <2> QED BY <1>9, <2>1 DEF Settled
<1>12. Contents' = cache' /\ cache' = flash'
  BY <1>1 DEF Contents, Return
<1>13. StoreInv' /\ Request' = None
  <2>1. Copied'
    BY <1>1, <1>12 DEF Copied, Storing, Return
  <2>2. debris' \in BOOLEAN /\ atRuntime' \in BOOLEAN /\ Reclaimed' \in BOOLEAN
    BY <1>1 DEF boot, StoreInv, Typed
  <2>3. \A n \in Name : Settled(Contents', n)
    BY <1>10, <1>11, <1>12
  <2> QED BY <1>1, <1>9, <1>12, <2>1, <2>2, <2>3, Rests DEF Return
<1>14. Request # None /\ Request = op
  BY <1>1, <1>2 DEF Request
<1>15. Reads' = [Reads EXCEPT ![op.target] = op.value]
  <2>1. Reads = [n \in Name |-> Lookup(cache, n)] /\ Reads' = [n \in Name |-> Lookup(cache', n)]
    BY <1>3, <1>12 DEF Reads
  <2> QED BY <1>3, <1>9, <1>10, <2>1
<1> QED BY <1>13, <1>14, <1>15, Commits DEF Stepped

LEMMA WriteAddedSteps ==
  ASSUME StoreInv, WriteAdded
  PROVE  Stepped
<1> DEFINE r == NewVariable("added")
           p == Len(cache) + 1
<1>1. /\ pc = "added" /\ UNCHANGED <<debris, boot>>
      /\ flash' = [flash EXCEPT ![Len(flash)] = [flash[Len(flash)] EXCEPT !.state = "added"]]
      /\ cache' = Append(cache, r)
      /\ IF CurrPtr = 0 THEN Return
         ELSE pc' = DeletePath(InDeletedTransitionPtr) /\ UNCHANGED <<op, found>>
  BY DEF WriteAdded
<1>2. /\ op # None /\ op.value # Absent /\ cache \in Log /\ flash = Append(cache, Half) /\ ~debris
      /\ Len(cache) \in Nat
  BY <1>1, StoringHalf DEF StoreInv, Copied, Storing
<1>3. op.target \in Name /\ op.value \in Value /\ Contents = cache
  BY <1>1, <1>2, TargetIn DEF StoreInv, Contents
<1>4. /\ Complete(Half) /\ Complete(r) /\ r.name = op.target /\ r.value = op.value /\ r.state = "added"
      /\ [Half EXCEPT !.state = "added"] = r
  BY <1>1, <1>2, HalfIsComplete
<1> HIDE DEF r
<1>5. flash' = cache'
  <2>1. flash[Len(flash)] = Half
    BY <1>2, <1>4, Rewrites
  <2>2. flash' = [flash EXCEPT ![Len(flash)] = r]
    BY <1>1, <1>4, <2>1
  <2>3. [flash EXCEPT ![Len(flash)] = r] = Append(cache, r)
    <3>1. cache \in Log /\ flash = Append(cache, Half) /\ Complete(Half) /\ Complete(r)
      BY <1>2, <1>4
    <3> QED BY <3>1, Rewrites
  <2> QED BY <1>1, <2>2, <2>3
<1>6. /\ Live(cache, op.target) = {CurrPtr, InDeletedTransitionPtr} \ {0}
      /\ \A i \in Live(cache, op.target) : cache[i].state = "inDeleted"
      /\ InDeletedTransitionPtr # 0 => CurrPtr # 0 /\ InDeletedTransitionPtr < CurrPtr
  <2>1. Old = {CurrPtr, InDeletedTransitionPtr} \ {0} /\ New = {}
    BY <1>1 DEF Old, New
  <2> QED BY <1>1, <1>2, <2>1 DEF StoreInv, Replaced
<1>7. /\ cache' \in Log /\ Len(cache') = p
      /\ Live(cache', op.target) = Live(cache, op.target) \cup {p}
      /\ \A i \in Live(cache, op.target) : cache'[i] = cache[i] /\ i < p
      /\ cache'[p] = r
      /\ Lookup(cache', op.target) = op.value
      /\ \A n \in Name \ {op.target} :
           Live(cache', n) = Live(cache, n) /\ \A i \in Live(cache, n) : cache'[i] = cache[i]
  <2>1. Complete(r) /\ r.name = op.target /\ r.value = op.value /\ r.state = "added"
    BY <1>4
  <2>2. Extended(Append(cache, r), cache, op.target, op.value, r)
    BY <1>2, <1>3, <1>6, <2>1, NewRecord
  <2>3. Extended(cache', cache, op.target, op.value, r)
    BY <1>1, <2>2
  <2> QED BY <2>3 DEF Extended
<1>8. \A n \in Name \ {op.target} : Settled(cache', n) /\ Lookup(cache', n) = Lookup(cache, n)
  BY <1>2, <1>3, <1>7, OthersKeep
<1>9. p \in Nat /\ p # 0
  BY <1>2
<1> HIDE DEF p
<1>10. Contents' = cache'
  BY <1>1 DEF Contents, Return, DeletePath
<1>11. Request # None /\ Request = op
  BY <1>1, <1>2 DEF Request
<1>12. Reads' = [Reads EXCEPT ![op.target] = op.value]
  <2>1. Reads = [n \in Name |-> Lookup(cache, n)] /\ Reads' = [n \in Name |-> Lookup(cache', n)]
    BY <1>3, <1>10 DEF Reads
  <2> QED BY <1>3, <1>7, <1>8, <2>1
<1>13. debris' \in BOOLEAN /\ atRuntime' \in BOOLEAN /\ Reclaimed' \in BOOLEAN
  BY <1>1 DEF boot, StoreInv, Typed
<1>14. CASE CurrPtr = 0
  <2>1. Live(cache, op.target) = {} /\ Return
    BY <1>1, <1>6, <1>14
  <2>2. Live(cache', op.target) = {p}
    BY <1>7, <2>1
  <2>3. Settled(cache', op.target)
    BY <1>9, <2>2 DEF Settled
  <2>4. Copied'
    BY <1>2, <1>5, <1>1, <2>1 DEF Copied, Storing, Return
  <2>5. \A n \in Name : Settled(Contents', n)
    BY <1>8, <1>10, <2>3
  <2>6. StoreInv' /\ Request' = None
    BY <1>5, <1>7, <1>13, <2>1, <2>4, <2>5, Rests DEF Return
  <2> QED BY <1>11, <1>12, <2>6, Commits DEF Stepped
<1>15. CASE CurrPtr # 0
  <2>1. /\ pc' = DeletePath(InDeletedTransitionPtr) /\ UNCHANGED <<op, found>>
        /\ pc' \in {"deleteInDeleted", "delete"}
        /\ pc' = "delete" <=> InDeletedTransitionPtr = 0
    BY <1>1, <1>15 DEF DeletePath
  <2>2. Typed'
    BY <1>2, <1>5, <1>7, <1>13, <2>1 DEF StoreInv, Typed, Updating, found
  <2>3. Copied'
    BY <1>1, <1>2, <1>5, <2>1 DEF Copied, Storing
  <2>4. AllSettled'
    <3>1. CASE pc' = "deleteInDeleted"
      <4>1. Unsettled' = {n \in Name : n = op.target}
        BY <1>2, <2>1, <3>1 DEF Unsettled, Twice, found
      <4> QED BY <1>8, <1>10, <4>1 DEF AllSettled
    <3>2. CASE pc' = "delete"
      <4>1. Live(cache', op.target) = {CurrPtr, p} /\ CurrPtr \in Live(cache, op.target)
        BY <1>6, <1>7, <1>15, <2>1, <3>2
      <4>2. /\ cache'[CurrPtr].state = "inDeleted" /\ cache'[p].state = "added"
            /\ CurrPtr < p /\ CurrPtr \in Nat
        BY <1>2, <1>4, <1>6, <1>7, <4>1, LiveIn
      <4>3. Settled(cache', op.target)
        BY <1>9, <4>1, <4>2 DEF Settled
      <4> QED BY <1>8, <1>10, <4>3 DEF AllSettled
    <3> QED BY <2>1, <3>1, <3>2
  <2>5. Replaced'
    <3>1. Old' = Live(cache, op.target) /\ New' = {p}
      BY <1>2, <1>6, <1>7, <1>15, <2>1 DEF Old, New, found
    <3>2. CurrPtr < p
      BY <1>6, <1>7, <1>15
    <3>3. \A i \in Old' : cache'[i].state = "inDeleted"
      BY <1>6, <1>7, <3>1
    <3>4. \A i \in New' : cache'[i].state = "added" /\ CurrPtr < i
      BY <1>4, <1>7, <3>1, <3>2
    <3>5. Live(cache', op.target) = Old' \cup New'
      BY <1>7, <3>1
    <3> QED BY <1>2, <1>6, <1>15, <2>1, <3>3, <3>4, <3>5 DEF Replaced, found
  <2>6. Request' = None
    BY <1>2, <2>1 DEF Request
  <2> QED BY <1>11, <1>12, <2>2, <2>3, <2>4, <2>5, <2>6, Commits DEF Stepped, StoreInv
<1> QED BY <1>14, <1>15

-----------------------------------------------------------------------------
(* From boot to boot.                                                      *)

LEMMA PowerFailureSteps ==
  ASSUME StoreInv, Tame, PowerFailure
  PROVE  Stepped
<1>1. /\ pc # "start" /\ ~Twice /\ cache' = <<>> /\ atRuntime' = FALSE /\ Reclaimed' = FALSE
      /\ pc' = "start" /\ op' = None /\ CurrPtr' = 0 /\ InDeletedTransitionPtr' = 0
      /\ flash' = flash /\ debris' \in {debris, TRUE}
  BY DEF PowerFailure, Whole, Tame, Twice
<1>2. Contents = cache /\ Contents' = flash /\ flash \in Log /\ cache \in Log
  BY <1>1 DEF Contents, StoreInv, Typed
<1>3. \A n \in Name : Settled(cache, n)
  BY <1>1, <1>2 DEF StoreInv, AllSettled, Unsettled
<1>4. ASSUME NEW n \in Name
      PROVE  Settled(flash, n) /\ Lookup(flash, n) = Lookup(cache, n)
  <2>1. CASE pc \in Storing
    <3>1. op # None /\ op.value # Absent /\ flash = Append(cache, Half)
      BY <2>1, StoringHalf DEF StoreInv, Copied
    <3>2. Complete(Half) /\ ~IsLive(Half)
      BY <3>1, HalfIsComplete
    <3>3. Live(flash, n) = Live(cache, n) /\ \A i \in Live(cache, n) : flash[i] = cache[i]
      <4>1. \A i \in Live(cache, n) : i \in DOMAIN cache
        BY <1>2, LiveIn
      <4> QED BY <1>2, <3>1, <3>2, <4>1, AppendToLog
    <3> QED BY <1>2, <1>3, <3>3, SameRecords
  <2>2. CASE pc \notin Storing
    BY <1>1, <1>3, <2>2 DEF StoreInv, Copied
  <2> QED BY <2>1, <2>2
<1>5. StoreInv' /\ Request' = None
  <2>1. Copied'
    BY <1>1 DEF Copied, Storing
  <2>2. debris' \in BOOLEAN /\ atRuntime' \in BOOLEAN /\ Reclaimed' \in BOOLEAN
    BY <1>1 DEF StoreInv, Typed
  <2> QED BY <1>1, <1>2, <1>4, <2>1, <2>2, EmptyLog, Rests
<1>6. Reads' = Reads
  BY <1>2, <1>4 DEF Reads
<1> QED BY <1>5, <1>6, Drops DEF Stepped

(* The log is read, or rewritten without an update.                        *)
LEMMA Boots ==
  ASSUME StoreInv, pc \in {"start", "init", "idle"}, pc' \in {"init", "idle"},
         UNCHANGED <<op, found>>, atRuntime' \in BOOLEAN, Reclaimed' \in BOOLEAN,
         cache' = flash', debris' \in BOOLEAN, debris' => pc' = "init",
         flash' \in {flash, ValidBuffer(flash, 0, 0)}
  PROVE  Stepped
<1>1. op = None /\ CurrPtr = 0 /\ InDeletedTransitionPtr = 0 /\ flash \in Log
  BY DEF StoreInv, Typed, Updating, Storing
<1>2. Contents = flash /\ Contents' = flash'
  BY DEF Contents, StoreInv, Copied, Storing
<1>3. \A n \in Name : Settled(flash, n)
  BY <1>1, <1>2 DEF StoreInv, AllSettled, Unsettled, Twice
<1>4. flash' \in Log /\ \A n \in Name : Settled(flash', n) /\ Lookup(flash', n) = Lookup(flash, n)
  <2>1. CASE flash' = flash
    BY <1>1, <1>3, <2>1
  <2>2. CASE flash' = ValidBuffer(flash, 0, 0)
    <3>1. \A n \in Name : 0 \notin Live(flash, n)
      BY <1>1, LiveIn
    <3>2. ValidBuffer(flash, 0, 0) \in Log
      BY <1>1, BufferHolds
    <3>3. \A n \in Name : /\ Lookup(ValidBuffer(flash, 0, 0), n) = Lookup(flash, n)
                          /\ Settled(ValidBuffer(flash, 0, 0), n)
      BY <1>1, <1>3, <3>1, BufferReads
    <3> QED BY <2>2, <3>2, <3>3
  <2> QED BY <2>1, <2>2
<1>5. Copied'
  BY DEF Copied, Storing
<1>6. StoreInv' /\ Request' = None
  BY <1>1, <1>2, <1>4, <1>5, Rests DEF found
<1>7. Reads' = Reads
  BY <1>2, <1>4 DEF Reads
<1> QED BY <1>6, <1>7, Drops DEF Stepped

LEMMA BootSteps ==
  ASSUME StoreInv, InitNonVolatileVariableStore \/ VariableWriteServiceInitialize \/ ReclaimForOS
  PROVE  Stepped
<1>1. debris \in BOOLEAN /\ atRuntime \in BOOLEAN /\ Reclaimed \in BOOLEAN /\ FALSE \in BOOLEAN /\ TRUE \in BOOLEAN
  BY DEF StoreInv, Typed
<1>2. CASE InitNonVolatileVariableStore
  BY <1>1, <1>2, Boots DEF InitNonVolatileVariableStore, boot
<1>3. CASE VariableWriteServiceInitialize
  <2>1. cache = flash
    BY <1>3 DEF VariableWriteServiceInitialize, StoreInv, Copied, Storing
  <2>2. cache' = flash' /\ ~debris' /\ debris' \in BOOLEAN
    BY <1>1, <1>3, <2>1 DEF VariableWriteServiceInitialize, FreeAreaIsFree, Reclaim
  <2>3. flash' \in {flash, ValidBuffer(flash, 0, 0)}
    BY <1>3 DEF VariableWriteServiceInitialize, Reclaim
  <2> QED BY <1>1, <1>3, <2>2, <2>3, Boots DEF VariableWriteServiceInitialize, boot
<1>4. CASE ReclaimForOS
  <2>1. cache = flash /\ ~debris
    BY <1>4 DEF ReclaimForOS, StoreInv, Copied, Storing
  <2>2. cache' = flash' /\ ~debris' /\ debris' \in BOOLEAN
    BY <1>1, <1>4, <2>1 DEF ReclaimForOS, Reclaim
  <2>3. flash' \in {flash, ValidBuffer(flash, 0, 0)}
    BY <1>4 DEF ReclaimForOS, Reclaim
  <2>4. UNCHANGED <<op, found>> /\ pc = "idle" /\ pc' = "idle" /\ atRuntime' = atRuntime /\ Reclaimed' = TRUE
    BY <1>4 DEF ReclaimForOS
  <2> QED BY <1>1, <2>2, <2>3, <2>4, Boots
<1> QED BY <1>2, <1>3, <1>4

-----------------------------------------------------------------------------
(* The theorems.                                                           *)

LEMMA StartsInStoreInv ==
  ASSUME Init
  PROVE  StoreInv /\ Store!Init
<1>1. Typed
  BY EmptyLog DEF Init, Typed, Updating, Storing
<1>2. Copied
  BY DEF Init, Copied, Storing
<1>3. Contents = <<>>
  BY DEF Init, Contents
<1>4. AllSettled
  BY <1>3, EmptyLog DEF AllSettled, Settled
<1>5. Replaced
  BY DEF Init, Replaced
<1>6. Store!Init
  <2>1. Request = None
    BY DEF Init, Request
  <2>2. \A n \in Name : Lookup(<<>>, n) = Absent
    BY EmptyLog, NothingIsFound
  <2> QED BY <1>3, <2>1, <2>2 DEF Store!Init, Contents
<1> QED BY <1>1, <1>2, <1>4, <1>5, <1>6 DEF StoreInv

LEMMA StutteringSteps ==
  ASSUME StoreInv, UNCHANGED vars
  PROVE  Stepped
<1>1. UNCHANGED <<flash, debris, cache, atRuntime, Reclaimed, pc, op, CurrPtr, InDeletedTransitionPtr>>
  BY DEF vars, boot, found
<1>2. StoreInv'
  <2>1. Typed'
    BY <1>1 DEF StoreInv, Typed
  <2>2. Copied'
    BY <1>1 DEF StoreInv, Copied, Half
  <2>3. AllSettled'
    BY <1>1 DEF StoreInv, AllSettled, Unsettled, Twice, Contents
  <2>4. Replaced'
    BY <1>1 DEF StoreInv, Replaced, Old, New, Room, CommonSpace, Buffer
  <2> QED BY <2>1, <2>2, <2>3, <2>4 DEF StoreInv
<1>3. Request' = Request /\ Reads' = Reads
  BY <1>1 DEF Request, Reads, Contents
<1> QED BY <1>2, <1>3, Stutters DEF Stepped

LEMMA NextSteps ==
  ASSUME StoreInv, Tame, [Next]_vars
  PROVE  Stepped
<1>1. CASE UNCHANGED vars
  BY <1>1, StutteringSteps
<1>2. ASSUME NEW n \in Name, NEW v \in Value \cup {Absent}, SetVariable(n, v)
      PROVE  Stepped
  BY <1>2, SetVariableSteps
<1>3. CASE UpdateVariable
  BY <1>3, MarkInDeletedSteps, EnoughSpaceSteps, OutOfResourcesSteps, ReclaimWithNewSteps,
     ReclaimRefusedSteps, WriteHeaderSteps, WriteHeaderValidSteps, WriteDataSteps, WriteAddedSteps,
     DeleteInDeletedSteps, DeleteCurrSteps, WriteFailsSteps DEF UpdateVariable
<1>4. CASE PowerFailure
  BY <1>4, PowerFailureSteps
<1>5. CASE InitNonVolatileVariableStore \/ VariableWriteServiceInitialize \/ ReclaimForOS
  BY <1>5, BootSteps
<1>6. CASE ExitBootServices
  BY <1>6, ExitBootServicesSteps
<1> QED BY <1>1, <1>2, <1>3, <1>4, <1>5, <1>6 DEF Next

(* What the log holds of each variable, between any two writes of the      *)
(* flash.                                                                  *)
THEOREM LogIsInOrder ==
  ASSUME Tame
  PROVE  Spec => []StoreInv
<1>1. StoreInv /\ [Next]_vars => StoreInv'
  BY NextSteps DEF Stepped
<1> QED BY <1>1, StartsInStoreInv, PTL DEF Spec

(* When UpdateVariable begins to write a record, the flash behind the log  *)
(* is blank and the log in memory ends where that in flash does.           *)
THEOREM RecordsLandOnBlank ==
  ASSUME Tame
  PROVE  Spec => []WritesLandOnBlank
<1>1. StoreInv => WritesLandOnBlank
  BY DEF StoreInv, Copied, Storing, WritesLandOnBlank
<1> QED BY <1>1, LogIsInOrder, PTL

(* SetVariable is atomic: the log implements BlockUpdate, of which the     *)
(* blocks are the variables.                                               *)
THEOREM SetVariableIsAtomic ==
  ASSUME Tame
  PROVE  Spec => SetIsAtomic
<1>1. StoreInv /\ [Next]_vars => [Store!Next]_(Store!vars)
  BY NextSteps DEF Stepped
<1>2. Init => Store!Init
  BY StartsInStoreInv
<1> QED BY <1>1, <1>2, LogIsInOrder, PTL DEF Spec, SetIsAtomic, Store!Spec

(* Before the end of the boot services a variable is refused only when the *)
(* others, which are live, leave it no room.                               *)
THEOREM OnlyLiveVariablesRefuse ==
  ASSUME Tame
  PROVE  Spec => RefusedOnlyWhenFull
<1>1. StoreInv /\ [Next]_vars =>
        [ReclaimRefused =>
           2 * Cardinality({n \in Name \ {op.target} : Lookup(flash, n) # Absent}) + 2 > Space]_vars
  BY ReclaimRefusedSteps
<1> QED BY <1>1, LogIsInOrder, PTL DEF Spec, RefusedOnlyWhenFull
=============================================================================
