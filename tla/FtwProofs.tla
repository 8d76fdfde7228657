------------------------------ MODULE FtwProofs ------------------------------
(***************************************************************************)
(* Proofs about the fault tolerant write.                                  *)
(*                                                                         *)
(* First the walk over the headers of the queue, then the stack of calls   *)
(* and the types (TypesAreKept, for every configuration), and then single  *)
(* writes: the queue and what is programmed in it, the inductive invariant *)
(* DriverInv, one lemma for each action, and the theorems that follow.     *)
(* Then what is read of a block: the invariant DataInv, one lemma for each *)
(* action again, and the refinement of BlockUpdate.  Last, series of more  *)
(* than one write: the queues in order, and the invariant SeriesInv.       *)
(***************************************************************************)
EXTENDS Ftw, NaturalsInduction, WellFoundedInduction, SequenceTheorems, TLAPS

-----------------------------------------------------------------------------
(* Natural numbers.                                                        *)

LEMMA LeastOf ==
  ASSUME NEW T, T \subseteq Nat, T # {}
  PROVE  \E x \in T : \A y \in T : x <= y
<1>1. PICK x \in T : \A y \in T : ~(<<y, x>> \in OpToRel(<, Nat))
  BY NatLessThanWellFounded, WFMin
<1>2. \A y \in T : ~(y < x)
  BY <1>1 DEF OpToRel
<1> QED BY <1>2

LEMMA GreatestOf ==
  ASSUME NEW n \in Nat, NEW T, T \subseteq 0 .. n, T # {}
  PROVE  \E x \in T : \A y \in T : y <= x
<1> DEFINE D == {d \in Nat : \E x \in T : d = n - x}
<1>1. PICK z \in T : TRUE
  OBVIOUS
<1>2. n - z \in D
  BY <1>1
<1>3. PICK d \in D : \A y \in D : d <= y
  BY <1>2, LeastOf
<1>4. PICK x \in T : d = n - x
  BY <1>3
<1>5. ASSUME NEW y \in T
      PROVE  y <= x
  <2>1. n - y \in D
    BY <1>5
  <2>2. d <= n - y
    BY <1>3, <2>1
  <2> QED BY <1>4, <1>5, <2>2
<1> QED BY <1>5

LEMMA SizeIsNat == Size \in Nat /\ Size >= 2 /\ 0 \in 0 .. Size
  BY FtwAssumption

-----------------------------------------------------------------------------
(* The walk over the headers of a queue.                                   *)

Queues == [0 .. Size - 1 -> Cells]

Completed(q, p) == p < Size /\ Has(q, p, WRITES_COMPLETED)

NextHeader(q, p) ==
  IF p + FTW_WRITE_TOTAL_SIZE(q[p].writes) < Size THEN p + FTW_WRITE_TOTAL_SIZE(q[p].writes)
                                                  ELSE Size

Walks(q, f) == f = [p \in 0 .. Size |-> IF Completed(q, p) THEN f[NextHeader(q, p)] ELSE p]

LEMMA CellsOK ==
  ASSUME NEW q \in Queues
  PROVE  /\ \A p \in 0 .. Size - 1 : q[p] \in Cells /\ q[p].writes \in Nat
         /\ \A p \in Nat : Cell(q, p) \in Cells /\ Cell(q, p).writes \in Nat
<1>1. \A c \in Cells : c.writes \in Nat
  <2>1. Counts \cup {0, 1} \subseteq Nat
    BY FtwAssumption
  <2>2. \A c \in Cells : c.writes \in Counts \cup {0, 1}
    BY DEF Cells
  <2> QED BY <2>1, <2>2
<1>2. Blank \in Cells
  BY DEF Blank, Cells
<1>3. \A p \in 0 .. Size - 1 : q[p] \in Cells
  BY DEF Queues
<1>4. \A p \in Nat : p < Size => p \in 0 .. Size - 1
  BY SizeIsNat
<1> QED BY <1>1, <1>2, <1>3, <1>4 DEF Cell

LEMMA NextIsLater ==
  ASSUME NEW q \in Queues, NEW p \in 0 .. Size, Completed(q, p)
  PROVE  NextHeader(q, p) \in 0 .. Size /\ p < NextHeader(q, p)
<1>1. p \in 0 .. Size - 1
  BY SizeIsNat DEF Completed
<1>2. q[p].writes \in Nat
  BY <1>1, CellsOK
<1> QED BY <1>1, <1>2, SizeIsNat DEF NextHeader, FTW_WRITE_TOTAL_SIZE, Completed

(* There is such a function, built from the end of the queue.              *)
WalksFrom(q, k, g) ==
  \A p \in k .. Size : g[p] = IF Completed(q, p) THEN g[NextHeader(q, p)] ELSE p

LEMMA WalkExists ==
  ASSUME NEW q \in Queues
  PROVE  \E f : Walks(q, f)
<1> DEFINE K == {k \in 0 .. Size : \E g : WalksFrom(q, k, g)}
<1>1. Size \in K
  <2>1. WalksFrom(q, Size, [p \in {Size} |-> Size])
    BY SizeIsNat DEF WalksFrom, Completed
  <2> QED BY <2>1, SizeIsNat
<1>2. PICK k \in K : \A y \in K : k <= y
  <2>1. K \subseteq Nat /\ K # {}
    BY <1>1, SizeIsNat
  <2> HIDE DEF K
  <2> QED BY <2>1, LeastOf
<1>3. k \in 0 .. Size
  OBVIOUS
<1>4. PICK g : WalksFrom(q, k, g)
  BY <1>2
<1>5. k = 0
  <2>1. SUFFICES ASSUME k # 0 PROVE FALSE
    OBVIOUS
  <2> DEFINE j == k - 1
  <2>2. j \in 0 .. Size /\ j < k
    BY <1>3, <2>1, SizeIsNat
  <2> DEFINE g2 == [p \in j .. Size |->
                      IF p = j THEN IF Completed(q, j) THEN g[NextHeader(q, j)] ELSE j ELSE g[p]]
  <2>3. \A p \in j .. Size : p # j => p \in k .. Size
    BY <1>3, <2>2, SizeIsNat
  <2>4. \A p \in j .. Size : Completed(q, p) =>
          NextHeader(q, p) \in j .. Size /\ NextHeader(q, p) # j
    <3>1. \A p \in j .. Size : p \in 0 .. Size
      BY <2>2
    <3> HIDE DEF j
    <3> QED BY <2>2, <3>1, NextIsLater, SizeIsNat
  <2>5. ASSUME NEW p \in j .. Size
        PROVE  g2[p] = IF Completed(q, p) THEN g2[NextHeader(q, p)] ELSE p
    <3>1. Completed(q, p) => g2[NextHeader(q, p)] = g[NextHeader(q, p)]
      BY <2>4
    <3>2. CASE p = j
      BY <3>1, <3>2
    <3>3. CASE p # j
      <4>1. g2[p] = g[p]
        BY <3>3
      <4>2. g[p] = IF Completed(q, p) THEN g[NextHeader(q, p)] ELSE p
        BY <1>4, <2>3, <3>3 DEF WalksFrom
      <4> HIDE DEF g2, j
      <4> QED BY <3>1, <4>1, <4>2
    <3> QED BY <3>2, <3>3
  <2>6. j \in K
    <3>1. WalksFrom(q, j, g2)
      BY <2>5 DEF WalksFrom
    <3> HIDE DEF g2, j
    <3> QED BY <2>2, <3>1
  <2> HIDE DEF K
  <2> QED BY <1>2, <1>3, <2>2, <2>6
<1> DEFINE f == [p \in 0 .. Size |-> g[p]]
<1>6. \A p \in 0 .. Size : Completed(q, p) => f[NextHeader(q, p)] = g[NextHeader(q, p)]
  BY NextIsLater
<1>7. \A p \in 0 .. Size : f[p] = IF Completed(q, p) THEN f[NextHeader(q, p)] ELSE p
  BY <1>4, <1>5, <1>6 DEF WalksFrom
<1>8. Walks(q, f)
  BY <1>7 DEF Walks
<1> QED BY <1>8

LEMMA HeaderByWalk ==
  ASSUME NEW q \in Queues
  PROVE  \E f : /\ Walks(q, f) /\ GetLastWriteHeader(q) = f[0]
                /\ \A p \in 0 .. Size : /\ f[p] = IF Completed(q, p) THEN f[NextHeader(q, p)] ELSE p
                                        /\ f[p] \in p .. Size /\ ~Completed(q, f[p])
<1> DEFINE f == CHOOSE f : Walks(q, f)
<1>1. Walks(q, f)
  BY WalkExists
<1>2. GetLastWriteHeader(q) = f[0]
  BY DEF GetLastWriteHeader, Walks, NextHeader, Completed
<1> HIDE DEF f
<1>3. \A p \in 0 .. Size : f[p] = IF Completed(q, p) THEN f[NextHeader(q, p)] ELSE p
  BY <1>1 DEF Walks
<1>4. \A p \in 0 .. Size : f[p] \in p .. Size /\ ~Completed(q, f[p])
  <2> DEFINE B == {p \in 0 .. Size : ~(f[p] \in p .. Size /\ ~Completed(q, f[p]))}
  <2>1. SUFFICES ASSUME B # {} PROVE FALSE
    OBVIOUS
  <2>2. PICK p \in B : \A y \in B : y <= p
    BY <2>1, GreatestOf, SizeIsNat
  <2>3. p \in 0 .. Size
    OBVIOUS
  <2>4. CASE Completed(q, p)
    <3>1. NextHeader(q, p) \in 0 .. Size /\ p < NextHeader(q, p)
      BY <2>3, <2>4, NextIsLater
    <3>2. NextHeader(q, p) \notin B
      <4> HIDE DEF B
      <4> QED BY <2>2, <2>3, <3>1, SizeIsNat
    <3>3. f[p] = f[NextHeader(q, p)]
      BY <1>3, <2>3, <2>4
    <3>4. f[p] \in p .. Size /\ ~Completed(q, f[p])
      BY <2>3, <3>1, <3>2, <3>3, SizeIsNat
    <3> QED BY <2>2, <3>4
  <2>5. CASE ~Completed(q, p)
    <3>1. f[p] = p
      BY <1>3, <2>3, <2>5
    <3> QED BY <2>2, <2>3, <2>5, <3>1, SizeIsNat
  <2> QED BY <2>4, <2>5
<1> QED BY <1>1, <1>2, <1>3, <1>4

(* The last header is the first one on the walk that is not completed.     *)
LEMMA LastHeaderOK ==
  ASSUME NEW q \in Queues
  PROVE  /\ GetLastWriteHeader(q) \in 0 .. Size
         /\ ~Completed(q, GetLastWriteHeader(q))
<1>1. PICK f : /\ GetLastWriteHeader(q) = f[0]
               /\ \A p \in 0 .. Size : f[p] \in p .. Size /\ ~Completed(q, f[p])
  BY HeaderByWalk
<1> QED BY <1>1, SizeIsNat

(* A change that keeps the completed headers, and how many records each    *)
(* has, does not change the walk over them.                                *)
LEMMA WalkReaches ==
  ASSUME NEW q \in Queues, NEW q2 \in Queues, NEW h, h = GetLastWriteHeader(q),
         \A p \in 0 .. Size : p < h /\ Completed(q, p) =>
                               Completed(q2, p) /\ q2[p].writes = q[p].writes
  PROVE  /\ ~Completed(q2, h) => GetLastWriteHeader(q2) = h
         /\ Completed(q2, h) /\ ~Completed(q2, NextHeader(q2, h)) =>
              GetLastWriteHeader(q2) = NextHeader(q2, h)
         /\ Completed(q2, h) => GetLastWriteHeader(q2) >= NextHeader(q2, h)
<1>1. PICK f : /\ h = f[0]
               /\ \A p \in 0 .. Size : /\ f[p] = IF Completed(q, p) THEN f[NextHeader(q, p)] ELSE p
                                       /\ f[p] \in p .. Size /\ ~Completed(q, f[p])
  BY HeaderByWalk
<1>2. PICK g : /\ GetLastWriteHeader(q2) = g[0]
               /\ \A p \in 0 .. Size : /\ g[p] = IF Completed(q2, p) THEN g[NextHeader(q2, p)] ELSE p
                                       /\ g[p] \in p .. Size
  BY HeaderByWalk
<1>3. h \in 0 .. Size
  BY LastHeaderOK
<1>4. \A p \in 0 .. Size : f[p] = h => g[p] = g[h]
  <2> DEFINE B == {p \in 0 .. Size : f[p] = h /\ g[p] # g[h]}
  <2>1. SUFFICES ASSUME B # {} PROVE FALSE
    OBVIOUS
  <2>2. PICK p \in B : \A y \in B : y <= p
    BY <2>1, GreatestOf, SizeIsNat
  <2>3. p \in 0 .. Size /\ f[p] = h /\ p # h /\ g[p] # g[h]
    OBVIOUS
  <2>4. Completed(q, p)
    BY <1>1, <2>3
  <2>5. NextHeader(q, p) \in 0 .. Size /\ p < NextHeader(q, p) /\ f[NextHeader(q, p)] = h
    BY <1>1, <2>3, <2>4, NextIsLater
  <2>6. p < h
    BY <1>1, <1>3, <2>3, SizeIsNat
  <2>7. Completed(q2, p) /\ q2[p].writes = q[p].writes
    BY <2>3, <2>4, <2>6
  <2>8. NextHeader(q2, p) = NextHeader(q, p)
    BY <2>7 DEF NextHeader
  <2>9. g[p] = g[NextHeader(q, p)]
    BY <1>2, <2>3, <2>7, <2>8
  <2>10. NextHeader(q, p) \in B
    BY <2>3, <2>5, <2>9
  <2> HIDE DEF B
  <2> QED BY <2>2, <2>3, <2>5, <2>10, SizeIsNat
<1>5. g[0] = g[h]
  BY <1>1, <1>4, SizeIsNat
<1>6. Completed(q2, h) => NextHeader(q2, h) \in 0 .. Size
  BY <1>3, NextIsLater
<1> QED BY <1>2, <1>3, <1>5, <1>6, SizeIsNat

(* A change behind the completed headers does not change the walk to them. *)
LEMMA WalkAgrees ==
  ASSUME NEW q \in Queues, NEW q2 \in Queues, NEW h, h = GetLastWriteHeader(q),
         \A p \in 0 .. Size : p < h => q2[p] = q[p]
  PROVE  /\ ~Completed(q2, h) => GetLastWriteHeader(q2) = h
         /\ Completed(q2, h) /\ ~Completed(q2, NextHeader(q2, h)) =>
              GetLastWriteHeader(q2) = NextHeader(q2, h)
<1>1. \A p \in 0 .. Size : p < h /\ Completed(q, p) =>
                            Completed(q2, p) /\ q2[p].writes = q[p].writes
  BY DEF Completed, Has, Cell
<1> QED BY <1>1, WalkReaches

(* The last record is one of those of the header.                          *)
LEMMA LastRecordOK ==
  ASSUME NEW q \in Queues, NEW h \in Nat
  PROVE  /\ GetLastWriteRecord(q, h) \in Nat
         /\ GetLastWriteRecord(q, h) > h
         /\ Cell(q, h).writes \in {0, 1} => GetLastWriteRecord(q, h) = h + 1
<1> DEFINE w == Cell(q, h).writes
           open == {i \in 1 .. w : ~Has(q, h + i, DEST_COMPLETED)}
<1>1. w \in Nat
  BY CellsOK
<1>2. open # {} => Min(open) \in 1 .. w
  <2>1. open \subseteq Nat /\ open \subseteq 1 .. w
    BY <1>1
  <2> HIDE DEF open
  <2>2. open # {} => \E x \in open : \A y \in open : x <= y
    BY <2>1, LeastOf
  <2> QED BY <2>1, <2>2 DEF Min
<1>3. GetLastWriteRecord(q, h) =
        IF w = 0 THEN h + 1 ELSE h + (IF open = {} THEN w ELSE Min(open))
  BY DEF GetLastWriteRecord
<1> HIDE DEF open, w
<1>4. CASE w = 0
  BY <1>3, <1>4
<1>5. CASE w # 0
  <2> DEFINE m == IF open = {} THEN w ELSE Min(open)
  <2>1. m \in 1 .. w
    BY <1>1, <1>2, <1>5
  <2>2. GetLastWriteRecord(q, h) = h + m
    BY <1>3, <1>5
  <2> HIDE DEF m
  <2> QED BY <1>1, <2>1, <2>2 DEF w
<1> QED BY <1>4, <1>5 DEF w

-----------------------------------------------------------------------------
(* Where the driver is.  A point of the driver is called from others only, *)
(* and a routine only calls routines of a higher rank, so that no routine  *)
(* is on the stack of calls twice.                                         *)

Outer == {"off", "initWorkSpace", "initAbort", "initAgain", "initAbortLast", "initFirst",
          "initLast", "initTail", "initRestart", "initDone", "done", "idle"}
Allocating == {"allocate", "allocHeader", "allocWrites"}
Storing    == {"writeErase", "writeSpare", "spareCompleted"}
Writing    == {"write", "writeRecord"} \cup Storing
Copying    == {"reclaimErase", "reclaimWrite", "reclaimValid", "reclaimInvalid"}
Reclaiming == {"reclaim", "format"} \cup Copying
Restoring  == {"restoreErase", "restoreWrite"}
Delivering == {"writeTarget", "targetWrite", "destCompleted", "complete"}
Flushing   == {"flushWork", "workInvalid", "workErase", "workWrite", "workValid"}
Booting    == {"bootBlock", "bootErase", "bootWrite", "bootUnswap"}

Rank(l) ==
  IF l \in Outer THEN 0
  ELSE IF l \in Writing \cup {"restart", "abort", "getLastWrite"} THEN 1
  ELSE IF l \in Allocating THEN 2
  ELSE IF l \in Reclaiming \cup Restoring \cup {"eraseSpare"} THEN 3
  ELSE IF l \in Delivering THEN 4
  ELSE 5

Refreshed == {"allocate", "allocHeader", "write", "restart", "abort", "getLastWrite",
              "initWorkSpace", "initFirst", "initRestart"}

MayCall(x, l) ==
  \/ x = "done" /\ l \in Allocating \cup Writing \cup Restoring
                          \cup {"restart", "eraseSpare", "abort", "complete", "getLastWrite"}
  \/ x = "write" /\ l \in Allocating
  \/ x \in Refreshed /\ l \in Reclaiming \cup Restoring
  \/ x \in {"restoreErase", "eraseSpare"} /\ l \in Delivering
  \/ x \in {"restoreErase", "destCompleted", "initAbort"} /\ l \in Flushing
  \/ x \in {"destCompleted", "initAbortLast"} /\ l \in Booting
  \/ x = "initAbortLast" /\ l \in {"restart", "eraseSpare"}
  \/ x \in {"initAgain", "initLast", "initTail", "initDone"} /\ l \in {"abort", "complete"}

Labels == Outer \cup Allocating \cup Writing \cup Reclaiming \cup Restoring \cup Delivering
            \cup Flushing \cup Booting \cup {"restart", "eraseSpare", "abort", "getLastWrite"}

Chained(r, l) ==
  /\ r \in Seq(Labels) /\ l \in Labels
  /\ r = <<>> <=> l \in Outer
  /\ \A i \in 1 .. Len(r) : Rank(r[i]) < Rank(l)
  /\ \A i, j \in 1 .. Len(r) : i < j => Rank(r[i]) < Rank(r[j])
  /\ \A i \in 1 .. Len(r) : i = 1 => r[i] \in Outer
  /\ \A i \in 1 .. Len(r) : MayCall(r[i], IF i = Len(r) THEN l ELSE r[i + 1])

(* What a point of the driver, running or to be returned to, finds in      *)
(* memory.                                                                 *)
Args == [target : Target \cup {None}, value : Value \cup {None}, writes : Counts \cup {0, 1}]

Finds(l, arg, buffer, im) ==
  /\ l \in Copying \cup Restoring \cup Storing => buffer \in Blocks
  /\ l \in {"reclaimErase", "reclaimWrite", "bootErase", "bootWrite"} => im \in Blocks
  /\ l \in Allocating => arg \in Args /\ arg.writes # 0
  /\ l \in Writing => arg \in Args /\ arg.target # None /\ arg.value # None /\ arg.writes # 0

Memory ==
  /\ Finds(pc, args, spareBuffer, image)
  /\ \A i \in 1 .. Len(ret) : Finds(ret[i], args, spareBuffer, image)

FlashOK ==
  /\ target \in [Target \ {WorkTarget} -> Value \cup {Torn, Erased}]
  /\ spare \in Blocks /\ work \in Blocks /\ swap \in BOOLEAN

RamOK ==
  /\ hdr \in 0 .. Size /\ rec \in Nat /\ offset \in 0 .. Size
  /\ args = None \/ args \in Args
  /\ image = None \/ image \in Blocks
  /\ spareBuffer = None \/ spareBuffer \in Blocks

TypeInv == FlashOK /\ RamOK /\ Chained(ret, pc) /\ Memory

USE DEF flash, ram

-----------------------------------------------------------------------------
(* The stack of calls.                                                     *)

Goes(l, m) ==
  /\ l \in Labels /\ m \in Labels
  /\ l \in Outer <=> m \in Outer
  /\ Rank(l) <= Rank(m)
  /\ \A x : MayCall(x, l) => MayCall(x, m)

Calls(c, m) == c \in Labels /\ m \in Labels /\ MayCall(c, m) /\ Rank(c) < Rank(m)

LEMMA RankIsNat == \A l : Rank(l) \in 0 .. 5 /\ (l \in Outer <=> Rank(l) = 0)
  BY DEF Rank

LEMMA GotoRule ==
  ASSUME NEW r, NEW l, NEW m, Chained(r, l), Goes(l, m)
  PROVE  Chained(r, m)
<1>1. \A x : Rank(x) \in 0 .. 5
  BY RankIsNat
<1>2. Len(r) \in Nat
  BY LenProperties DEF Chained
<1>3. \A i \in 1 .. Len(r) : Rank(r[i]) < Rank(m)
  BY <1>1 DEF Chained, Goes
<1>4. \A i \in 1 .. Len(r) : MayCall(r[i], IF i = Len(r) THEN m ELSE r[i + 1])
  BY DEF Chained, Goes
<1> QED BY <1>3, <1>4 DEF Chained, Goes

LEMMA CallRule ==
  ASSUME NEW r, NEW l, NEW c, NEW m, Chained(r, l), Goes(l, c), Calls(c, m)
  PROVE  Chained(Append(r, c), m)
<1> DEFINE s == Append(r, c)
<1>1. Chained(r, c)
  BY GotoRule
<1>2. \A x : Rank(x) \in 0 .. 5
  BY RankIsNat
<1>3. /\ r \in Seq(Labels) /\ c \in Labels /\ Len(r) \in Nat
      /\ s \in Seq(Labels) /\ Len(s) = Len(r) + 1
      /\ \A i \in 1 .. Len(r) : s[i] = r[i]
      /\ s[Len(r) + 1] = c
  BY <1>1, AppendProperties, LenProperties DEF Chained
<1> HIDE DEF s
<1>4. s # <<>> /\ m \notin Outer /\ m \in Labels /\ Rank(c) < Rank(m)
  BY <1>2, <1>3, RankIsNat, EmptySeq DEF Calls
<1>5. \A i \in 1 .. Len(s) : i \in 1 .. Len(r) \/ i = Len(r) + 1
  BY <1>3
<1>6. \A i \in 1 .. Len(r) : Rank(r[i]) < Rank(c)
  BY <1>1 DEF Chained
<1>7. \A i \in 1 .. Len(s) : Rank(s[i]) < Rank(m)
  BY <1>2, <1>3, <1>4, <1>5, <1>6
<1>8. \A i, j \in 1 .. Len(s) : i < j => Rank(s[i]) < Rank(s[j])
  BY <1>1, <1>3, <1>5, <1>6 DEF Chained
<1>9. \A i \in 1 .. Len(s) : i = 1 => s[i] \in Outer
  <2>1. CASE Len(r) = 0
    BY <1>1, <1>3, <2>1, EmptySeq DEF Chained
  <2>2. CASE Len(r) # 0
    BY <1>1, <1>3, <2>2 DEF Chained
  <2> QED BY <2>1, <2>2
<1>10. \A i \in 1 .. Len(s) : MayCall(s[i], IF i = Len(s) THEN m ELSE s[i + 1])
  <2>1. ASSUME NEW i \in 1 .. Len(r)
        PROVE  MayCall(s[i], IF i = Len(s) THEN m ELSE s[i + 1])
    <3>1. i # Len(s) /\ s[i] = r[i]
      BY <1>3
    <3>2. MayCall(r[i], IF i = Len(r) THEN c ELSE r[i + 1])
      BY <1>1 DEF Chained
    <3>3. s[i + 1] = IF i = Len(r) THEN c ELSE r[i + 1]
      BY <1>3
    <3> QED BY <3>1, <3>2, <3>3
  <2>2. MayCall(s[Len(r) + 1], m)
    BY <1>3 DEF Calls
  <2> QED BY <1>3, <1>5, <2>1, <2>2
<1> QED BY <1>3, <1>4, <1>7, <1>8, <1>9, <1>10 DEF Chained, s

LEMMA ReturnRule ==
  ASSUME NEW r, NEW l, Chained(r, l), l \notin Outer
  PROVE  /\ Len(r) \in 1 .. Len(r) /\ MayCall(r[Len(r)], l) /\ r[Len(r)] \in Labels
         /\ Chained(SubSeq(r, 1, Len(r) - 1), r[Len(r)])
         /\ LET s == SubSeq(r, 1, Len(r) - 1)
            IN  Len(s) = Len(r) - 1 /\ \A i \in 1 .. Len(s) : s[i] = r[i] /\ i \in 1 .. Len(r)
<1> DEFINE s == SubSeq(r, 1, Len(r) - 1)
           m == r[Len(r)]
<1>1. r \in Seq(Labels) /\ r # <<>>
  BY DEF Chained
<1>2. Len(r) \in Nat /\ Len(r) \in 1 .. Len(r)
  BY <1>1, LenProperties, EmptySeq
<1>3. m \in Labels
  BY <1>1, <1>2, ElementOfSeq
<1>4. s \in Seq(Labels) /\ Len(s) = Len(r) - 1 /\ \A i \in 1 .. Len(s) : s[i] = r[i]
  <2> DEFINE n == Len(r) - 1
  <2>1. 1 \in 1 .. Len(r) + 1 /\ n \in 1 - 1 .. Len(r)
    BY <1>2
  <2>2. /\ SubSeq(r, 1, n) \in Seq(Labels)
        /\ Len(SubSeq(r, 1, n)) = IF 1 <= n THEN n - 1 + 1 ELSE 0
        /\ \A i \in 1 .. n - 1 + 1 : SubSeq(r, 1, n)[i] = r[1 + i - 1]
    BY <1>1, <1>2, <2>1, SubSeqProperties
  <2>3. n \in Nat /\ (n - 1 + 1 = n) /\ (IF 1 <= n THEN n - 1 + 1 ELSE 0) = n
    <3>1. \A k \in Nat : (k - 1 + 1 = k) /\ (IF 1 <= k THEN k - 1 + 1 ELSE 0) = k
      OBVIOUS
    <3>2. n \in Nat
      BY <1>2
    <3> HIDE DEF n
    <3> QED BY <3>1, <3>2
  <2>4. \A i \in 1 .. n : 1 + i - 1 = i
    OBVIOUS
  <2> HIDE DEF n
  <2> QED BY <2>2, <2>3, <2>4 DEF n
<1>5. \A i \in 1 .. Len(s) : i \in 1 .. Len(r) /\ i < Len(r)
  BY <1>2, <1>4
<1> HIDE DEF s
<1>6. MayCall(m, l)
  BY <1>2 DEF Chained
<1>7. \A i \in 1 .. Len(s) : Rank(s[i]) < Rank(m)
  BY <1>2, <1>4, <1>5 DEF Chained
<1>8. \A i, j \in 1 .. Len(s) : i < j => Rank(s[i]) < Rank(s[j])
  BY <1>4, <1>5 DEF Chained
<1>9. \A i \in 1 .. Len(s) : i = 1 => s[i] \in Outer
  BY <1>4, <1>5 DEF Chained
<1>10. \A i \in 1 .. Len(s) : MayCall(s[i], IF i = Len(s) THEN m ELSE s[i + 1])
  <2>1. ASSUME NEW i \in 1 .. Len(s)
        PROVE  MayCall(s[i], IF i = Len(s) THEN m ELSE s[i + 1])
    <3>1. MayCall(r[i], r[i + 1])
      BY <1>5 DEF Chained
    <3>2. r[i + 1] = IF i = Len(s) THEN m ELSE s[i + 1]
      <4>1. CASE i = Len(s)
        BY <1>2, <1>4, <4>1
      <4>2. CASE i # Len(s)
        <5>1. i + 1 \in 1 .. Len(s)
          BY <1>2, <1>4, <4>2
        <5> QED BY <1>4, <4>2, <5>1
      <4> QED BY <4>1, <4>2
    <3> QED BY <1>4, <3>1, <3>2
  <2> QED BY <2>1
<1>11. s = <<>> <=> m \in Outer
  <2>1. CASE Len(r) = 1
    BY <1>1, <1>2, <1>4, <2>1, EmptySeq DEF Chained
  <2>2. CASE Len(r) # 1
    <3>1. 1 \in 1 .. Len(s) /\ s # <<>>
      BY <1>2, <1>4, <2>2, EmptySeq
    <3>2. Rank(s[1]) < Rank(m) /\ Rank(s[1]) \in 0 .. 5 /\ Rank(m) \in 0 .. 5
      BY <1>7, <3>1, RankIsNat
    <3> QED BY <3>1, <3>2, RankIsNat
  <2> QED BY <2>1, <2>2
<1>12. Chained(s, m)
  BY <1>3, <1>4, <1>7, <1>8, <1>9, <1>10, <1>11 DEF Chained
<1> QED BY <1>2, <1>3, <1>4, <1>5, <1>6, <1>12 DEF s
-----------------------------------------------------------------------------
(* Types of blocks and queues.                                             *)

Data == Value \cup {Torn, Erased}

LEMMA BlocksOK ==
  /\ Empty \in Queues
  /\ \A v \in Data : Block(v) \in Blocks /\ Block(v).queue = Empty /\ Block(v).data = v
  /\ \A b \in Blocks : b.queue \in Queues /\ b.data \in Data
                       /\ {b.header, b.valid, b.invalid} \subseteq BOOLEAN
<1>1. Blank \in Cells
  BY DEF Blank, Cells
<1>2. Empty \in Queues
  BY <1>1 DEF Empty, Queues
<1> QED BY <1>2 DEF Block, Blocks, Data, Queues

LEMMA ChangedBlocksOK ==
  ASSUME NEW b \in Blocks
  PROVE  /\ [b EXCEPT !.valid = TRUE] \in Blocks
         /\ [b EXCEPT !.invalid = TRUE] \in Blocks
         /\ \A v \in Data : [b EXCEPT !.data = v] \in Blocks
         /\ \A q \in Queues : [b EXCEPT !.queue = q] \in Blocks
         /\ [b EXCEPT !.header = TRUE, !.valid = FALSE, !.invalid = FALSE] \in Blocks
  BY DEF Blocks, Data, Queues

LEMMA ProgramOK ==
  ASSUME NEW q \in Queues, NEW p \in Nat
  PROVE  /\ \A f \in SUBSET {1, 2, 4}, w \in Counts \cup {0, 1}, t \in Target \cup {None} :
              Program(q, p, f, w, t) \in Queues
         /\ \A f \in {1, 2, 4} : UpdateFvState(q, p, f) \in Queues
<1>1. ASSUME NEW f \in SUBSET {1, 2, 4}, NEW w \in Counts \cup {0, 1}, NEW t \in Target \cup {None}
      PROVE  Program(q, p, f, w, t) \in Queues
  <2>1. \A x \in 0 .. Size - 1 : [flags |-> q[x].flags \cup f, writes |-> w, target |-> t] \in Cells
    BY <1>1, CellsOK DEF Cells
  <2> QED BY <2>1, CellsOK DEF Program, Queues
<1>2. ASSUME NEW f \in {1, 2, 4}
      PROVE  UpdateFvState(q, p, f) \in Queues
  <2>1. Cell(q, p) \in Cells
    BY CellsOK
  <2>2. Cell(q, p).writes \in Counts \cup {0, 1} /\ Cell(q, p).target \in Target \cup {None}
    BY <2>1 DEF Cells
  <2>3. {f} \in SUBSET {1, 2, 4}
    OBVIOUS
  <2> QED BY <1>1, <2>2, <2>3 DEF UpdateFvState
<1> QED BY <1>1, <1>2

LEMMA PreservedOK ==
  ASSUME NEW q \in Queues
  PROVE  Preserved(q) \in Queues
<1>1. GetLastWriteHeader(q) \in Nat
  BY LastHeaderOK, SizeIsNat
<1>2. \A p \in 0 .. Size - 1 : Cell(q, GetLastWriteHeader(q) + p) \in Cells
  BY <1>1, CellsOK
<1>3. Blank \in Cells
  BY DEF Blank, Cells
<1> QED BY <1>1, <1>2, <1>3, BlocksOK DEF Preserved, Queues

(* Operations on the flash.                                                *)
LEMMA FlashSteps ==
  ASSUME FlashOK
  PROVE  /\ \A b \in Blocks : WriteSpare(b) \/ WriteWork(b) => FlashOK'
         /\ \A q \in Queues : WriteQueue(q) => FlashOK'
         /\ \A t, v : v \in Data /\ WriteTarget(t, v) => FlashOK'
         /\ UNCHANGED flash => FlashOK'
<1>1. ASSUME NEW b \in Blocks, WriteSpare(b) PROVE FlashOK'
  BY <1>1, BlocksOK DEF WriteSpare, FlashOK, Data
<1>2. ASSUME NEW b \in Blocks, WriteWork(b) PROVE FlashOK'
  BY <1>2 DEF WriteWork, FlashOK
<1>3. ASSUME NEW q \in Queues, WriteQueue(q) PROVE FlashOK'
  <2>1. [work EXCEPT !.queue = q] \in Blocks
    BY ChangedBlocksOK DEF FlashOK
  <2> QED BY <1>2, <1>3, <2>1 DEF WriteQueue
<1>4. ASSUME NEW t, NEW v \in Data, WriteTarget(t, v) PROVE FlashOK'
  BY <1>4 DEF WriteTarget, FlashOK, Data
<1>5. UNCHANGED flash => FlashOK'
  BY DEF FlashOK
<1> QED BY <1>1, <1>2, <1>3, <1>4, <1>5

LEMMA LocateOK ==
  ASSUME NEW q \in Queues, Locate(q)
  PROVE  hdr' \in 0 .. Size /\ rec' \in Nat
  BY LastHeaderOK, LastRecordOK, SizeIsNat DEF Locate

-----------------------------------------------------------------------------
(* The stack of calls and what is in memory.                               *)

ControlOK == Chained(ret, pc) /\ Memory

Callers == Refreshed \cup {"done", "restoreErase", "eraseSpare", "destCompleted", "initAbort",
                           "initAbortLast", "initAgain", "initLast", "initTail", "initDone"}

LEMMA FramesCall ==
  ASSUME NEW r, NEW l, Chained(r, l), NEW i \in 1 .. Len(r)
  PROVE  r[i] \in Callers /\ Rank(r[i]) < Rank(l)
  BY DEF Chained, MayCall, Callers, Refreshed

(* What returning activations find is kept.                                *)
FramesKept ==
  \A x \in Callers : /\ Rank(x) < Rank(pc)
                     /\ Finds(x, args, spareBuffer, image)
                     => Finds(x, args', spareBuffer', image')

LEMMA GotoStep ==
  ASSUME ControlOK, FramesKept, NEW m, Goto(m), Goes(pc, m),
         Finds(m, args', spareBuffer', image')
  PROVE  ControlOK'
<1>1. Chained(ret, m)
  BY GotoRule DEF ControlOK
<1>2. \A i \in 1 .. Len(ret) : Finds(ret[i], args', spareBuffer', image')
  BY FramesCall DEF ControlOK, Memory, FramesKept
<1> QED BY <1>1, <1>2 DEF ControlOK, Memory, Goto

LEMMA CallStep ==
  ASSUME ControlOK, FramesKept, NEW m, NEW c, Call(m, c), Goes(pc, c), Calls(c, m),
         Finds(m, args', spareBuffer', image'), Finds(c, args', spareBuffer', image')
  PROVE  ControlOK'
<1>1. Chained(Append(ret, c), m)
  BY CallRule DEF ControlOK
<1>2. \A i \in 1 .. Len(ret) : Finds(ret[i], args', spareBuffer', image')
  BY FramesCall DEF ControlOK, Memory, FramesKept
<1>3. /\ Len(ret) \in Nat /\ Len(Append(ret, c)) = Len(ret) + 1
      /\ \A i \in 1 .. Len(ret) : Append(ret, c)[i] = ret[i]
      /\ Append(ret, c)[Len(ret) + 1] = c
  <2>1. ret \in Seq(Labels) /\ c \in Labels
    BY DEF ControlOK, Chained, Calls
  <2> QED BY <2>1, AppendProperties, LenProperties
<1>4. \A i \in 1 .. Len(Append(ret, c)) : i \in 1 .. Len(ret) \/ i = Len(ret) + 1
  BY <1>3
<1>5. \A i \in 1 .. Len(Append(ret, c)) : Finds(Append(ret, c)[i], args', spareBuffer', image')
  BY <1>2, <1>3, <1>4
<1> QED BY <1>1, <1>5 DEF ControlOK, Memory, Call

LEMMA ReturnStep ==
  ASSUME ControlOK, FramesKept, Return, pc \notin Outer
  PROVE  /\ ControlOK' /\ MayCall(pc', pc) /\ pc' \in Callers
         /\ ret # <<>> /\ ret[Len(ret)] = pc'
<1> DEFINE s == SubSeq(ret, 1, Len(ret) - 1)
<1>1. /\ Len(ret) \in 1 .. Len(ret) /\ MayCall(ret[Len(ret)], pc)
      /\ Chained(s, ret[Len(ret)])
      /\ \A i \in 1 .. Len(s) : s[i] = ret[i] /\ i \in 1 .. Len(ret)
  BY ReturnRule DEF ControlOK
<1>2. \A i \in 1 .. Len(ret) : Finds(ret[i], args', spareBuffer', image') /\ ret[i] \in Callers
  BY FramesCall DEF ControlOK, Memory, FramesKept
<1>3. pc' = ret[Len(ret)] /\ ret' = s /\ ret # <<>>
  BY DEF Return, ControlOK, Chained
<1> HIDE DEF s
<1>4. Chained(ret', pc')
  BY <1>1, <1>3
<1>5. Memory'
  BY <1>1, <1>2, <1>3 DEF Memory
<1> QED BY <1>1, <1>2, <1>3, <1>4, <1>5 DEF ControlOK

(* The jumps and calls of the driver.                                      *)
LEMMA Jumps ==
  /\ Goes("reclaim", "reclaimErase")
  /\ Goes("format", "reclaimErase")
  /\ Goes("reclaimErase", "reclaimWrite")
  /\ Goes("reclaimWrite", "reclaimValid")
  /\ Goes("reclaimValid", "reclaimInvalid")
  /\ Goes("flushWork", "workInvalid")
  /\ Goes("workInvalid", "workErase")
  /\ Goes("workErase", "workWrite")
  /\ Goes("workWrite", "workValid")
  /\ Goes("restoreErase", "restoreWrite")
  /\ Goes("allocate", "allocHeader")
  /\ Goes("allocHeader", "allocWrites")
  /\ Goes("write", "writeRecord")
  /\ Goes("writeRecord", "writeErase")
  /\ Goes("writeErase", "writeSpare")
  /\ Goes("writeSpare", "spareCompleted")
  /\ Goes("writeTarget", "targetWrite")
  /\ Goes("targetWrite", "destCompleted")
  /\ Goes("bootBlock", "bootErase")
  /\ Goes("bootErase", "bootWrite")
  /\ Goes("bootWrite", "bootUnswap")
  /\ Goes("destCompleted", "complete")
  /\ Goes("abort", "complete")
  /\ Goes("getLastWrite", "abort")
  /\ Goes("reclaimInvalid", "restoreErase")
  /\ Goes("write", "write")
  /\ Goes("spareCompleted", "restoreErase")
  /\ Goes("writeTarget", "destCompleted")
  /\ Goes("restart", "eraseSpare")
  /\ \A l, m \in Outer : Goes(l, m)
<1>1. /\ Goes("reclaim", "reclaimErase")
      /\ Goes("format", "reclaimErase")
      /\ Goes("reclaimErase", "reclaimWrite")
      /\ Goes("reclaimWrite", "reclaimValid")
      /\ Goes("reclaimValid", "reclaimInvalid")
      /\ Goes("flushWork", "workInvalid")
  BY DEF Goes, Calls, Rank, MayCall, Labels, Outer, Allocating, Storing, Writing, Copying, Reclaiming,
         Restoring, Delivering, Flushing, Booting, Refreshed
<1>2. /\ Goes("workInvalid", "workErase")
      /\ Goes("workErase", "workWrite")
      /\ Goes("workWrite", "workValid")
      /\ Goes("restoreErase", "restoreWrite")
      /\ Goes("allocate", "allocHeader")
      /\ Goes("allocHeader", "allocWrites")
  BY DEF Goes, Calls, Rank, MayCall, Labels, Outer, Allocating, Storing, Writing, Copying, Reclaiming,
         Restoring, Delivering, Flushing, Booting, Refreshed
<1>3. /\ Goes("write", "writeRecord")
      /\ Goes("writeRecord", "writeErase")
      /\ Goes("writeErase", "writeSpare")
      /\ Goes("writeSpare", "spareCompleted")
      /\ Goes("writeTarget", "targetWrite")
      /\ Goes("targetWrite", "destCompleted")
  BY DEF Goes, Calls, Rank, MayCall, Labels, Outer, Allocating, Storing, Writing, Copying, Reclaiming,
         Restoring, Delivering, Flushing, Booting, Refreshed
<1>4. /\ Goes("bootBlock", "bootErase")
      /\ Goes("bootErase", "bootWrite")
      /\ Goes("bootWrite", "bootUnswap")
      /\ Goes("destCompleted", "complete")
      /\ Goes("abort", "complete")
      /\ Goes("getLastWrite", "abort")
  BY DEF Goes, Calls, Rank, MayCall, Labels, Outer, Allocating, Storing, Writing, Copying, Reclaiming,
         Restoring, Delivering, Flushing, Booting, Refreshed
<1>5. /\ Goes("reclaimInvalid", "restoreErase")
      /\ Goes("write", "write")
      /\ Goes("spareCompleted", "restoreErase")
      /\ Goes("writeTarget", "destCompleted")
      /\ Goes("restart", "eraseSpare")
  BY DEF Goes, Calls, Rank, MayCall, Labels, Outer, Allocating, Storing, Writing, Copying, Reclaiming,
         Restoring, Delivering, Flushing, Booting, Refreshed
<1>6. \A l, m \in Outer : Goes(l, m)
  <2>1. \A l \in Outer : \A x : ~MayCall(x, l)
    BY DEF MayCall, Outer, Allocating, Storing, Writing, Copying, Reclaiming, Restoring,
           Delivering, Flushing, Booting, Refreshed
  <2> QED BY <2>1 DEF Goes, Rank, Labels
<1> QED BY <1>1, <1>2, <1>3, <1>4, <1>5, <1>6

LEMMA CallsMade ==
  /\ Calls("restoreErase", "flushWork")
  /\ Calls("allocHeader", "reclaim")
  /\ Calls("write", "allocate")
  /\ Calls("restoreErase", "writeTarget")
  /\ Calls("destCompleted", "flushWork")
  /\ Calls("destCompleted", "bootBlock")
  /\ Calls("eraseSpare", "writeTarget")
  /\ Calls("initAbort", "flushWork")
  /\ Calls("initFirst", "format")
  /\ Calls("initRestart", "reclaim")
  /\ Calls("initWorkSpace", "reclaim")
  /\ Calls("initAbortLast", "bootBlock")
  /\ Calls("initAgain", "abort")
<1>1. /\ Calls("restoreErase", "flushWork")
      /\ Calls("allocHeader", "reclaim")
      /\ Calls("write", "allocate")
      /\ Calls("restoreErase", "writeTarget")
      /\ Calls("destCompleted", "flushWork")
      /\ Calls("destCompleted", "bootBlock")
  BY DEF Goes, Calls, Rank, MayCall, Labels, Outer, Allocating, Storing, Writing, Copying, Reclaiming,
         Restoring, Delivering, Flushing, Booting, Refreshed
<1>2. /\ Calls("eraseSpare", "writeTarget")
      /\ Calls("initAbort", "flushWork")
      /\ Calls("initFirst", "format")
      /\ Calls("initRestart", "reclaim")
      /\ Calls("initWorkSpace", "reclaim")
      /\ Calls("initAbortLast", "bootBlock")
  BY DEF Goes, Calls, Rank, MayCall, Labels, Outer, Allocating, Storing, Writing, Copying, Reclaiming,
         Restoring, Delivering, Flushing, Booting, Refreshed
<1>3. Calls("initAgain", "abort")
  BY DEF Goes, Calls, Rank, MayCall, Labels, Outer, Allocating, Storing, Writing, Copying, Reclaiming,
         Restoring, Delivering, Flushing, Booting, Refreshed
<1> QED BY <1>1, <1>2, <1>3

(* Every action keeps the types.                                           *)

Quiet == Outer \cup Flushing \cup Delivering
           \cup {"reclaim", "format", "restart", "abort", "getLastWrite", "eraseSpare",
                 "bootBlock", "bootUnswap"}

(* What each point finds.                                                  *)
LEMMA FindsAt ==
  ASSUME NEW a, NEW b, NEW im
  PROVE  /\ \A l \in Quiet : Finds(l, a, b, im)
         /\ \A l \in {"reclaimErase", "reclaimWrite"} :
              Finds(l, a, b, im) <=> b \in Blocks /\ im \in Blocks
         /\ \A l \in {"reclaimValid", "reclaimInvalid", "restoreErase", "restoreWrite"} :
              Finds(l, a, b, im) <=> b \in Blocks
         /\ \A l \in {"bootErase", "bootWrite"} : Finds(l, a, b, im) <=> im \in Blocks
         /\ \A l \in Allocating : Finds(l, a, b, im) <=> a \in Args /\ a.writes # 0
         /\ \A l \in {"write", "writeRecord"} :
              Finds(l, a, b, im) <=>
                a \in Args /\ a.target # None /\ a.value # None /\ a.writes # 0
         /\ \A l \in Storing :
              Finds(l, a, b, im) <=>
                b \in Blocks /\ a \in Args /\ a.target # None /\ a.value # None /\ a.writes # 0
<1>1. \A l \in Quiet : Finds(l, a, b, im)
  BY DEF Finds, Quiet, Outer, Flushing, Delivering, Copying, Restoring, Storing, Allocating, Writing
<1>2. \A l \in {"reclaimErase", "reclaimWrite"} :
        Finds(l, a, b, im) <=> b \in Blocks /\ im \in Blocks
  BY DEF Finds, Copying, Restoring, Storing, Allocating, Writing
<1>3. \A l \in {"reclaimValid", "reclaimInvalid", "restoreErase", "restoreWrite"} :
        Finds(l, a, b, im) <=> b \in Blocks
  BY DEF Finds, Copying, Restoring, Storing, Allocating, Writing
<1>4. \A l \in {"bootErase", "bootWrite"} : Finds(l, a, b, im) <=> im \in Blocks
  BY DEF Finds, Copying, Restoring, Storing, Allocating, Writing
<1>5. \A l \in Allocating : Finds(l, a, b, im) <=> a \in Args /\ a.writes # 0
  BY DEF Finds, Copying, Restoring, Storing, Allocating, Writing
<1>6. \A l \in {"write", "writeRecord"} :
        Finds(l, a, b, im) <=> a \in Args /\ a.target # None /\ a.value # None /\ a.writes # 0
  BY DEF Finds, Copying, Restoring, Storing, Allocating, Writing
<1>7. \A l \in Storing :
        Finds(l, a, b, im) <=>
          b \in Blocks /\ a \in Args /\ a.target # None /\ a.value # None /\ a.writes # 0
  BY DEF Finds, Copying, Restoring, Storing, Allocating, Writing
<1> QED BY <1>1, <1>2, <1>3, <1>4, <1>5, <1>6, <1>7

(* Of the points to return to, only "restoreErase" needs a buffer, and none *)
(* needs an image.                                                          *)
LEMMA CallersFind ==
  ASSUME NEW x \in Callers, NEW a, NEW b, NEW b2, NEW im, NEW im2, Finds(x, a, b, im),
         b2 \in Blocks \/ b2 = b \/ x # "restoreErase"
  PROVE  Finds(x, a, b2, im2)
  BY DEF Finds, Callers, Refreshed, Copying, Restoring, Storing, Allocating, Writing

LEMMA FramesStay ==
  ASSUME TypeInv, args' = args,
         spareBuffer' \in Blocks \/ spareBuffer' = spareBuffer \/ Rank(pc) <= 3
  PROVE  FramesKept
<1>1. ASSUME NEW x \in Callers, Rank(x) < Rank(pc), Finds(x, args, spareBuffer, image)
      PROVE  Finds(x, args', spareBuffer', image')
  <2>1. x = "restoreErase" => Rank(x) = 3
    BY DEF Rank, Outer, Writing, Storing, Allocating, Reclaiming, Restoring
  <2>2. Rank(pc) \in 0 .. 5 /\ Rank(x) \in 0 .. 5
    BY RankIsNat
  <2>3. spareBuffer' \in Blocks \/ spareBuffer' = spareBuffer \/ x # "restoreErase"
    BY <1>1, <2>1, <2>2
  <2> QED BY <1>1, <2>3, CallersFind
<1> QED BY <1>1 DEF FramesKept

LEMMA JumpKeepsTypes ==
  ASSUME TypeInv, FlashOK', UNCHANGED ram, NEW m, Goto(m), Goes(pc, m),
         Finds(m, args, spareBuffer, image)
  PROVE  TypeInv'
<1>1. FramesKept
  BY FramesStay
<1>2. ControlOK'
  BY <1>1, GotoStep DEF TypeInv, ControlOK
<1>3. RamOK'
  BY DEF TypeInv, RamOK
<1> QED BY <1>2, <1>3 DEF TypeInv, ControlOK

LEMMA CallKeepsTypes ==
  ASSUME TypeInv, FlashOK', UNCHANGED ram, NEW m, NEW c, Call(m, c), Goes(pc, c), Calls(c, m),
         Finds(m, args, spareBuffer, image), Finds(c, args, spareBuffer, image)
  PROVE  TypeInv'
<1>1. FramesKept
  BY FramesStay
<1>2. ControlOK'
  BY <1>1, CallStep DEF TypeInv, ControlOK
<1>3. RamOK'
  BY DEF TypeInv, RamOK
<1> QED BY <1>2, <1>3 DEF TypeInv, ControlOK

LEMMA ReturnKeepsTypes ==
  ASSUME TypeInv, FlashOK', UNCHANGED ram, Return, pc \notin Outer
  PROVE  TypeInv'
<1>1. FramesKept
  BY FramesStay
<1>2. ControlOK'
  BY <1>1, ReturnStep DEF TypeInv, ControlOK
<1>3. RamOK'
  BY DEF TypeInv, RamOK
<1> QED BY <1>2, <1>3 DEF TypeInv, ControlOK

LEMMA BlocksAtHand ==
  ASSUME TypeInv
  PROVE  /\ FlashOK /\ spare \in Blocks /\ work \in Blocks /\ spare.data \in Data
         /\ work.queue \in Queues /\ spare.queue \in Queues
         /\ hdr \in Nat /\ rec \in Nat /\ offset \in Nat
         /\ Erased \in Data /\ Torn \in Data /\ Block(Erased) \in Blocks /\ Block(Torn) \in Blocks
         /\ Finds(pc, args, spareBuffer, image)
<1>1. FlashOK /\ spare \in Blocks /\ work \in Blocks /\ Finds(pc, args, spareBuffer, image)
      /\ hdr \in 0 .. Size /\ rec \in Nat /\ offset \in 0 .. Size
  BY DEF TypeInv, FlashOK, Memory, RamOK
<1>2. Erased \in Data /\ Torn \in Data
  BY DEF Data
<1>3. hdr \in Nat /\ offset \in Nat
  BY <1>1, SizeIsNat
<1> QED BY <1>1, <1>2, <1>3, BlocksOK

(* Operations on the flash that leave the memory alone.                    *)
LEMMA MovesKeepTypes ==
  ASSUME TypeInv,
         \/ ReclaimErase \/ ReclaimValid \/ FlushSpareValid \/ FlushWorkInvalid
         \/ FlushWorkErase \/ FlushWorkWrite \/ RestoreErase \/ AllocateHeader
         \/ WriteErase \/ WriteSpareBlock \/ FlushToTarget \/ FlushTargetWrite
         \/ FlushBootErase
  PROVE  TypeInv'
<1>1. /\ FlashOK /\ Erased \in Data /\ spare.data \in Data /\ Block(Erased) \in Blocks
      /\ work.queue \in Queues /\ offset \in Nat /\ spare \in Blocks /\ work \in Blocks
      /\ Finds(pc, args, spareBuffer, image)
  BY BlocksAtHand
<1>2. /\ [spare EXCEPT !.valid = TRUE] \in Blocks
      /\ [work EXCEPT !.invalid = TRUE] \in Blocks
      /\ [spare EXCEPT !.header = TRUE, !.valid = FALSE, !.invalid = FALSE] \in Blocks
  BY <1>1, ChangedBlocksOK
<1>3. CASE ReclaimErase
  <2>1. /\ pc = "reclaimErase" /\ Goto("reclaimWrite") /\ Goes(pc, "reclaimWrite") /\ UNCHANGED ram
    BY <1>3, Jumps DEF ReclaimErase, At
  <2>2. Finds("reclaimWrite", args, spareBuffer, image)
    BY <1>1, <2>1, FindsAt DEF Copying
  <2>3. FlashOK'
    BY <1>1, <1>2, <1>3, FlashSteps DEF ReclaimErase
  <2> QED BY <2>1, <2>2, <2>3, JumpKeepsTypes
<1>4. CASE ReclaimValid
  <2>1. /\ pc = "reclaimValid" /\ Goto("reclaimInvalid") /\ Goes(pc, "reclaimInvalid") /\ UNCHANGED ram
    BY <1>4, Jumps DEF ReclaimValid, At
  <2>2. Finds("reclaimInvalid", args, spareBuffer, image)
    BY <1>1, <2>1, FindsAt DEF Copying
  <2>3. FlashOK'
    BY <1>1, <1>2, <1>4, FlashSteps DEF ReclaimValid
  <2> QED BY <2>1, <2>2, <2>3, JumpKeepsTypes
<1>5. CASE FlushSpareValid
  <2>1. /\ pc = "flushWork" /\ Goto("workInvalid") /\ Goes(pc, "workInvalid") /\ UNCHANGED ram
    BY <1>5, Jumps DEF FlushSpareValid, At
  <2>2. Finds("workInvalid", args, spareBuffer, image)
    BY <1>1, <2>1, FindsAt DEF Quiet, Flushing
  <2>3. FlashOK'
    BY <1>1, <1>2, <1>5, FlashSteps DEF FlushSpareValid
  <2> QED BY <2>1, <2>2, <2>3, JumpKeepsTypes
<1>6. CASE FlushWorkInvalid
  <2>1. /\ pc = "workInvalid" /\ Goto("workErase") /\ Goes(pc, "workErase") /\ UNCHANGED ram
    BY <1>6, Jumps DEF FlushWorkInvalid, At
  <2>2. Finds("workErase", args, spareBuffer, image)
    BY <1>1, <2>1, FindsAt DEF Quiet, Flushing
  <2>3. FlashOK'
    BY <1>1, <1>2, <1>6, FlashSteps DEF FlushWorkInvalid
  <2> QED BY <2>1, <2>2, <2>3, JumpKeepsTypes
<1>7. CASE FlushWorkErase
  <2>1. /\ pc = "workErase" /\ Goto("workWrite") /\ Goes(pc, "workWrite") /\ UNCHANGED ram
    BY <1>7, Jumps DEF FlushWorkErase, At
  <2>2. Finds("workWrite", args, spareBuffer, image)
    BY <1>1, <2>1, FindsAt DEF Quiet, Flushing
  <2>3. FlashOK'
    BY <1>1, <1>2, <1>7, FlashSteps DEF FlushWorkErase
  <2> QED BY <2>1, <2>2, <2>3, JumpKeepsTypes
<1>8. CASE FlushWorkWrite
  <2>1. /\ pc = "workWrite" /\ Goto("workValid") /\ Goes(pc, "workValid") /\ UNCHANGED ram
    BY <1>8, Jumps DEF FlushWorkWrite, At
  <2>2. Finds("workValid", args, spareBuffer, image)
    BY <1>1, <2>1, FindsAt DEF Quiet, Flushing
  <2>3. FlashOK'
    BY <1>1, <1>2, <1>8, FlashSteps DEF FlushWorkWrite
  <2> QED BY <2>1, <2>2, <2>3, JumpKeepsTypes
<1>9. CASE RestoreErase
  <2>1. /\ pc = "restoreErase" /\ Goto("restoreWrite") /\ Goes(pc, "restoreWrite") /\ UNCHANGED ram
    BY <1>9, Jumps DEF RestoreErase, At
  <2>2. Finds("restoreWrite", args, spareBuffer, image)
    BY <1>1, <2>1, FindsAt DEF Restoring
  <2>3. FlashOK'
    BY <1>1, <1>2, <1>9, FlashSteps DEF RestoreErase
  <2> QED BY <2>1, <2>2, <2>3, JumpKeepsTypes
<1>10. CASE AllocateHeader
  <2>0. Program(work.queue, offset, {HEADER_ALLOCATED}, args.writes, None) \in Queues
    <3>1. args \in Args
      BY <1>1, <1>10, FindsAt DEF AllocateHeader, At, Allocating
    <3>2. args.writes \in Counts \cup {0, 1}
      BY <3>1 DEF Args
    <3> QED BY <1>1, <3>2, ProgramOK DEF HEADER_ALLOCATED
  <2>1. /\ pc = "allocHeader" /\ Goto("allocWrites") /\ Goes(pc, "allocWrites") /\ UNCHANGED ram
    BY <1>10, Jumps DEF AllocateHeader, At
  <2>2. Finds("allocWrites", args, spareBuffer, image)
    BY <1>1, <2>1, FindsAt DEF Allocating
  <2>3. FlashOK'
    BY <1>1, <1>2, <1>10, <2>0, FlashSteps DEF AllocateHeader
  <2> QED BY <2>1, <2>2, <2>3, JumpKeepsTypes
<1>11. CASE WriteErase
  <2>1. /\ pc = "writeErase" /\ Goto("writeSpare") /\ Goes(pc, "writeSpare") /\ UNCHANGED ram
    BY <1>11, Jumps DEF WriteErase, At
  <2>2. Finds("writeSpare", args, spareBuffer, image)
    BY <1>1, <2>1, FindsAt DEF Storing
  <2>3. FlashOK'
    BY <1>1, <1>2, <1>11, FlashSteps DEF WriteErase
  <2> QED BY <2>1, <2>2, <2>3, JumpKeepsTypes
<1>12. CASE WriteSpareBlock
  <2>0. NewContents \in Blocks
    <3>1. args \in Args /\ args.value # None
      BY <1>1, <1>12, FindsAt DEF WriteSpareBlock, At, Storing
    <3>2. args.value \in Data
      BY <3>1 DEF Args, Data
    <3> QED BY <1>1, <3>2, BlocksOK, ChangedBlocksOK DEF NewContents
  <2>1. /\ pc = "writeSpare" /\ Goto("spareCompleted") /\ Goes(pc, "spareCompleted") /\ UNCHANGED ram
    BY <1>12, Jumps DEF WriteSpareBlock, At
  <2>2. Finds("spareCompleted", args, spareBuffer, image)
    BY <1>1, <2>1, FindsAt DEF Storing
  <2>3. FlashOK'
    BY <1>1, <1>2, <1>12, <2>0, FlashSteps DEF WriteSpareBlock
  <2> QED BY <2>1, <2>2, <2>3, JumpKeepsTypes
<1>13. CASE FlushToTarget
  <2>1. /\ pc = "writeTarget" /\ Goto("targetWrite") /\ Goes(pc, "targetWrite") /\ UNCHANGED ram
    BY <1>13, Jumps DEF FlushToTarget, At
  <2>2. Finds("targetWrite", args, spareBuffer, image)
    BY <1>1, <2>1, FindsAt DEF Quiet, Delivering
  <2>3. FlashOK'
    BY <1>1, <1>2, <1>13, FlashSteps DEF FlushToTarget
  <2> QED BY <2>1, <2>2, <2>3, JumpKeepsTypes
<1>14. CASE FlushTargetWrite
  <2>1. /\ pc = "targetWrite" /\ Goto("destCompleted") /\ Goes(pc, "destCompleted") /\ UNCHANGED ram
    BY <1>14, Jumps DEF FlushTargetWrite, At
  <2>2. Finds("destCompleted", args, spareBuffer, image)
    BY <1>1, <2>1, FindsAt DEF Quiet, Delivering
  <2>3. FlashOK'
    BY <1>1, <1>2, <1>14, FlashSteps DEF FlushTargetWrite
  <2> QED BY <2>1, <2>2, <2>3, JumpKeepsTypes
<1>15. CASE FlushBootErase
  <2>1. /\ pc = "bootErase" /\ Goto("bootWrite") /\ Goes(pc, "bootWrite") /\ UNCHANGED ram
    BY <1>15, Jumps DEF FlushBootErase, At
  <2>2. Finds("bootWrite", args, spareBuffer, image)
    BY <1>1, <2>1, FindsAt DEF Booting
  <2>3. FlashOK'
    BY <1>1, <1>2, <1>15, FlashSteps DEF FlushBootErase
  <2> QED BY <2>1, <2>2, <2>3, JumpKeepsTypes
<1> QED BY <1>3, <1>4, <1>5, <1>6, <1>7, <1>8, <1>9, <1>10, <1>11, <1>12, <1>13, <1>14, <1>15

(* Calls of routines.                                                      *)
LEMMA CallsKeepTypes ==
  ASSUME TypeInv, ReclaimInvalid \/ SpareCompleted \/ FlushToWork \/ FlushToBoot
  PROVE  TypeInv'
<1>1. /\ FlashOK /\ spare \in Blocks /\ work \in Blocks /\ work.queue \in Queues
      /\ spare.queue \in Queues /\ rec \in Nat /\ Finds(pc, args, spareBuffer, image)
  BY BlocksAtHand
<1>2. \A q \in Queues : UpdateFvState(q, rec, SPARE_COMPLETED) \in Queues
  BY <1>1, ProgramOK DEF SPARE_COMPLETED
<1>3. /\ [work EXCEPT !.invalid = TRUE] \in Blocks
      /\ [spare EXCEPT !.queue = UpdateFvState(@, rec, SPARE_COMPLETED)] \in Blocks
  BY <1>1, <1>2, ChangedBlocksOK
<1>4. CASE ReclaimInvalid
  <2>1. /\ pc = "reclaimInvalid" /\ Call("flushWork", "restoreErase") /\ UNCHANGED ram
        /\ Goes(pc, "restoreErase")
    BY <1>4, Jumps DEF ReclaimInvalid, At
  <2>2. Finds("restoreErase", args, spareBuffer, image) /\ Finds("flushWork", args, spareBuffer, image)
    BY <1>1, <2>1, FindsAt DEF Quiet, Flushing
  <2>3. FlashOK'
    BY <1>1, <1>3, <1>4, FlashSteps DEF ReclaimInvalid
  <2> QED BY <2>1, <2>2, <2>3, CallKeepsTypes, CallsMade
<1>5. CASE SpareCompleted
  <2>1. /\ pc = "spareCompleted" /\ Call("writeTarget", "restoreErase") /\ UNCHANGED ram
        /\ Goes(pc, "restoreErase")
    BY <1>5, Jumps DEF SpareCompleted, At
  <2>2. Finds("restoreErase", args, spareBuffer, image) /\ Finds("writeTarget", args, spareBuffer, image)
    BY <1>1, <2>1, FindsAt DEF Quiet, Delivering, Storing
  <2>3. FlashOK'
    BY <1>1, <1>2, <1>5, FlashSteps DEF SpareCompleted
  <2> QED BY <2>1, <2>2, <2>3, CallKeepsTypes, CallsMade
<1>6. CASE FlushToWork
  <2>1. /\ pc = "writeTarget" /\ Call("flushWork", "destCompleted") /\ UNCHANGED ram
        /\ Goes(pc, "destCompleted")
    BY <1>6, Jumps DEF FlushToWork, At
  <2>2. Finds("destCompleted", args, spareBuffer, image) /\ Finds("flushWork", args, spareBuffer, image)
    BY FindsAt DEF Quiet, Delivering, Flushing
  <2>3. FlashOK'
    BY <1>1, <1>3, <1>6, FlashSteps DEF FlushToWork
  <2> QED BY <2>1, <2>2, <2>3, CallKeepsTypes, CallsMade
<1>7. CASE FlushToBoot
  <2>1. /\ pc = "writeTarget" /\ Call("bootBlock", "destCompleted") /\ UNCHANGED ram
        /\ Goes(pc, "destCompleted")
    BY <1>7, Jumps DEF FlushToBoot, At
  <2>2. Finds("destCompleted", args, spareBuffer, image) /\ Finds("bootBlock", args, spareBuffer, image)
    BY FindsAt DEF Quiet, Delivering
  <2>3. FlashOK'
    BY <1>1, <1>7, FlashSteps DEF FlushToBoot
  <2> QED BY <2>1, <2>2, <2>3, CallKeepsTypes, CallsMade
<1> QED BY <1>4, <1>5, <1>6, <1>7

(* Ends of routines.                                                       *)
Ends == Flushing \cup Restoring \cup Allocating \cup Delivering \cup Booting
          \cup {"write", "restart", "eraseSpare", "abort", "getLastWrite"}

LEMMA EndsAreInner == \A l \in Ends : l \notin Outer
  BY DEF Ends, Flushing, Restoring, Allocating, Delivering, Booting, Outer

LEMMA ReturnsKeepTypes ==
  ASSUME TypeInv,
         \/ FlushWorkValid \/ AllocateWrites \/ FlushBootUnswap \/ WritesCompleted
         \/ RestartEraseSpare \/ DestCompleted
  PROVE  TypeInv'
<1>1. /\ FlashOK /\ spare \in Blocks /\ work \in Blocks /\ work.queue \in Queues
      /\ rec \in Nat /\ hdr \in Nat /\ offset \in Nat /\ Block(Erased) \in Blocks
      /\ Finds(pc, args, spareBuffer, image)
  BY BlocksAtHand
<1>2. /\ UpdateFvState(work.queue, offset, WRITES_ALLOCATED) \in Queues
      /\ UpdateFvState(work.queue, hdr, WRITES_COMPLETED) \in Queues
      /\ UpdateFvState(work.queue, rec, DEST_COMPLETED) \in Queues
  BY <1>1, ProgramOK DEF WRITES_ALLOCATED, WRITES_COMPLETED, DEST_COMPLETED
<1>3. [work EXCEPT !.valid = TRUE] \in Blocks
  BY <1>1, ChangedBlocksOK
<1>4. FlashOK'
  <2>1. CASE FlushBootUnswap
    BY <1>1, <2>1 DEF FlushBootUnswap, FlashOK
  <2>2. CASE FlushWorkValid
    BY <1>1, <1>3, <2>2, FlashSteps DEF FlushWorkValid
  <2>3. CASE AllocateWrites \/ WritesCompleted \/ DestCompleted
    BY <1>1, <1>2, <2>3, FlashSteps DEF AllocateWrites, WritesCompleted, DestCompleted
  <2>4. CASE RestartEraseSpare
    BY <1>1, <2>4, FlashSteps DEF RestartEraseSpare
  <2> QED BY <2>1, <2>2, <2>3, <2>4
<1>5. UNCHANGED ram
  BY DEF FlushWorkValid, AllocateWrites, FlushBootUnswap, WritesCompleted, RestartEraseSpare,
         DestCompleted
<1>6. pc \in Ends
  BY DEF FlushWorkValid, AllocateWrites, FlushBootUnswap, WritesCompleted, RestartEraseSpare,
         DestCompleted, At, Ends, Flushing, Allocating, Booting, Delivering
<1>7. CASE Return
  BY <1>4, <1>5, <1>6, <1>7, EndsAreInner, ReturnKeepsTypes
<1>8. CASE ~Return
  <2>1. pc = "destCompleted" /\ Goto("complete")
    BY <1>8 DEF FlushWorkValid, AllocateWrites, FlushBootUnswap, WritesCompleted,
                RestartEraseSpare, DestCompleted, At
  <2>2. Goes(pc, "complete") /\ Finds("complete", args, spareBuffer, image)
    BY <2>1, Jumps, FindsAt DEF Quiet, Delivering
  <2> QED BY <1>4, <1>5, <2>1, <2>2, JumpKeepsTypes
<1> QED BY <1>7, <1>8

(* Decisions that leave the flash alone.                                   *)
LEMMA ChecksKeepTypes ==
  ASSUME TypeInv, Allocate \/ WriteChecks \/ Restart \/ Abort \/ GetLastWrite
  PROVE  TypeInv'
<1>1. /\ Finds(pc, args, spareBuffer, image) /\ FlashOK'
  BY BlocksAtHand, FlashSteps DEF Allocate, WriteChecks, Restart, Abort, GetLastWrite
<1>2. CASE Allocate
  <2>1. /\ pc = "allocate" /\ Finds("allocHeader", args, spareBuffer, image)
        /\ Finds("reclaim", args, spareBuffer, image)
    BY <1>1, <1>2, FindsAt DEF Allocate, At, Allocating, Quiet
  <2>2. args' = args /\ spareBuffer' = spareBuffer /\ image' = image
    BY <1>2 DEF Allocate
  <2>3. FramesKept
    BY <2>2, FramesStay
  <2>4. RamOK'
    BY <1>2 DEF Allocate, TypeInv, RamOK
  <2>5. ControlOK'
    <3>1. CASE Return
      BY <2>1, <2>3, <3>1, ReturnStep DEF TypeInv, ControlOK, Outer
    <3>2. CASE Call("reclaim", "allocHeader")
      BY <2>1, <2>2, <2>3, <3>2, CallStep, CallsMade, Jumps DEF TypeInv, ControlOK
    <3>3. CASE Goto("allocHeader")
      BY <2>1, <2>2, <2>3, <3>3, GotoStep, Jumps DEF TypeInv, ControlOK
    <3> QED BY <1>2, <3>1, <3>2, <3>3 DEF Allocate
  <2> QED BY <1>1, <2>4, <2>5 DEF TypeInv, ControlOK
<1>3. CASE WriteChecks
  <2>1. /\ pc = "write" /\ UNCHANGED ram
        /\ Finds("allocate", args, spareBuffer, image) /\ Finds("write", args, spareBuffer, image)
        /\ Finds("writeRecord", args, spareBuffer, image)
    BY <1>1, <1>3, FindsAt DEF WriteChecks, At, Allocating
  <2>2. CASE Call("allocate", "write")
    BY <1>1, <2>1, <2>2, CallKeepsTypes, CallsMade, Jumps
  <2>3. CASE Return
    BY <1>1, <2>1, <2>3, ReturnKeepsTypes DEF Outer
  <2>4. CASE Goto("writeRecord")
    BY <1>1, <2>1, <2>4, JumpKeepsTypes, Jumps
  <2> QED BY <1>3, <2>2, <2>3, <2>4 DEF WriteChecks
<1>4. CASE Restart
  <2>1. /\ pc = "restart" /\ UNCHANGED ram
        /\ Finds("writeTarget", args, spareBuffer, image)
        /\ Finds("eraseSpare", args, spareBuffer, image)
    BY <1>4, FindsAt DEF Restart, At, Quiet, Delivering
  <2>2. CASE Call("writeTarget", "eraseSpare")
    BY <1>1, <2>1, <2>2, CallKeepsTypes, CallsMade, Jumps
  <2>3. CASE Return
    BY <1>1, <2>1, <2>3, ReturnKeepsTypes DEF Outer
  <2> QED BY <1>4, <2>2, <2>3 DEF Restart
<1>5. CASE Abort
  <2>1. /\ pc = "abort" /\ UNCHANGED ram /\ Finds("complete", args, spareBuffer, image)
    BY <1>5, FindsAt DEF Abort, At, Quiet, Delivering
  <2>2. CASE Goto("complete")
    BY <1>1, <2>1, <2>2, JumpKeepsTypes, Jumps
  <2>3. CASE Return
    BY <1>1, <2>1, <2>3, ReturnKeepsTypes DEF Outer
  <2> QED BY <1>5, <2>2, <2>3 DEF Abort
<1>6. CASE GetLastWrite
  <2>1. /\ pc = "getLastWrite" /\ UNCHANGED ram /\ Finds("abort", args, spareBuffer, image)
    BY <1>6, FindsAt DEF GetLastWrite, At, Quiet
  <2>2. CASE Goto("abort")
    BY <1>1, <2>1, <2>2, JumpKeepsTypes, Jumps
  <2>3. CASE Return
    BY <1>1, <2>1, <2>3, ReturnKeepsTypes DEF Outer
  <2> QED BY <1>6, <2>2, <2>3 DEF GetLastWrite, Goto
<1> QED BY <1>2, <1>3, <1>4, <1>5, <1>6

(* Steps that fill or free a buffer.                                       *)
LEMMA BufferJump ==
  ASSUME TypeInv, FlashOK', RamOK', args' = args,
         spareBuffer' \in Blocks \/ spareBuffer' = spareBuffer,
         NEW m, Goto(m), Goes(pc, m), Finds(m, args', spareBuffer', image')
  PROVE  TypeInv'
<1>1. FramesKept
  BY FramesStay
<1>2. ControlOK'
  BY <1>1, GotoStep DEF TypeInv, ControlOK
<1> QED BY <1>2 DEF TypeInv, ControlOK

LEMMA BuffersKeepTypes ==
  ASSUME TypeInv,
         \/ FtwReclaimWorkSpace \/ ReclaimWrite \/ RestoreWrite \/ WriteRecord
         \/ FlushSpareBlockToBootBlock \/ FlushBootWrite
  PROVE  TypeInv'
<1>1. /\ FlashOK /\ spare \in Blocks /\ work \in Blocks /\ work.queue \in Queues
      /\ rec \in Nat /\ hdr \in Nat /\ RamOK /\ Finds(pc, args, spareBuffer, image)
  BY BlocksAtHand DEF TypeInv
<1>2. ASSUME NEW preserve \in BOOLEAN, StartReclaim(preserve), pc \in {"reclaim", "format"}
      PROVE  TypeInv'
  <2> DEFINE q == IF preserve THEN Preserved(work.queue) ELSE Empty
             b == [header |-> preserve => work.header, valid |-> FALSE,
                   invalid |-> FALSE, queue |-> q, data |-> work.data]
  <2>1. q \in Queues
    BY <1>1, PreservedOK, BlocksOK
  <2>2. image' = b /\ Locate(q) /\ spareBuffer' = spare /\ Goto("reclaimErase")
        /\ UNCHANGED flash /\ args' = args /\ offset' = offset
    BY <1>2 DEF StartReclaim
  <2>3. b \in Blocks
    <3>1. work.header \in BOOLEAN /\ work.data \in Data
      BY <1>1, BlocksOK
    <3> HIDE DEF q
    <3> QED BY <2>1, <3>1 DEF Blocks, Data, Queues
  <2> HIDE DEF q, b
  <2>4. hdr' \in 0 .. Size /\ rec' \in Nat
    BY <2>1, <2>2, LocateOK
  <2>5. RamOK' /\ image' \in Blocks /\ spareBuffer' \in Blocks
    BY <1>1, <2>2, <2>3, <2>4 DEF RamOK
  <2>6. FlashOK'
    BY <1>1, <2>2, FlashSteps
  <2>7. Finds("reclaimErase", args', spareBuffer', image') /\ Goes(pc, "reclaimErase")
    BY <1>2, <2>5, FindsAt, Jumps
  <2> QED BY <2>2, <2>5, <2>6, <2>7, BufferJump
<1>3. CASE FtwReclaimWorkSpace
  BY <1>2, <1>3 DEF FtwReclaimWorkSpace, At
<1>4. CASE ReclaimWrite
  <2>1. /\ pc = "reclaimWrite" /\ Goto("reclaimValid") /\ image' = None
        /\ UNCHANGED <<hdr, rec, args, offset, spareBuffer>>
    BY <1>4 DEF ReclaimWrite, At
  <2>2. image \in Blocks /\ Finds("reclaimValid", args', spareBuffer', image')
    BY <1>1, <2>1, FindsAt
  <2>3. FlashOK'
    BY <1>1, <1>4, <2>2, FlashSteps DEF ReclaimWrite
  <2>4. RamOK'
    BY <1>1, <2>1 DEF RamOK
  <2> QED BY <2>1, <2>2, <2>3, <2>4, BufferJump, Jumps
<1>5. CASE RestoreWrite
  <2>1. /\ pc = "restoreWrite" /\ Return /\ spareBuffer' = None
        /\ UNCHANGED <<hdr, rec, args, offset, image>>
    BY <1>5 DEF RestoreWrite, At
  <2>2. spareBuffer \in Blocks
    BY <1>1, <2>1, FindsAt
  <2>3. FlashOK'
    BY <1>1, <1>5, <2>2, FlashSteps DEF RestoreWrite
  <2>4. RamOK'
    BY <1>1, <2>1 DEF RamOK
  <2>5. Rank(pc) = 3
    BY <2>1 DEF Rank, Outer, Writing, Storing, Allocating, Reclaiming, Restoring
  <2>6. FramesKept
    BY <2>1, <2>5, FramesStay
  <2>7. ControlOK'
    BY <2>1, <2>6, ReturnStep DEF TypeInv, ControlOK, Outer
  <2> QED BY <2>3, <2>4, <2>7 DEF TypeInv, ControlOK
<1>6. CASE WriteRecord
  <2>1. /\ pc = "writeRecord" /\ Goto("writeErase") /\ spareBuffer' = spare
        /\ UNCHANGED <<hdr, rec, args, offset, image>>
    BY <1>6 DEF WriteRecord, At
  <2>2. args \in Args /\ Finds("writeErase", args', spareBuffer', image')
    BY <1>1, <2>1, FindsAt DEF Storing
  <2>3. Program(work.queue, rec, IF args.target = BootTarget THEN {BOOT_BLOCK_UPDATE} ELSE {},
                0, args.target) \in Queues
    <3>1. args.target \in Target \cup {None}
      BY <2>2 DEF Args
    <3>2. (IF args.target = BootTarget THEN {BOOT_BLOCK_UPDATE} ELSE {}) \in SUBSET {1, 2, 4}
      BY DEF BOOT_BLOCK_UPDATE
    <3>3. 0 \in Counts \cup {0, 1}
      OBVIOUS
    <3> QED BY <1>1, <3>1, <3>2, <3>3, ProgramOK
  <2>4. FlashOK'
    BY <1>1, <1>6, <2>3, FlashSteps DEF WriteRecord
  <2>5. RamOK'
    BY <1>1, <2>1 DEF RamOK
  <2> QED BY <1>1, <2>1, <2>2, <2>4, <2>5, BufferJump, Jumps
<1>7. CASE FlushSpareBlockToBootBlock
  <2>1. /\ pc = "bootBlock" /\ Goto("bootErase") /\ image' = spare
        /\ UNCHANGED <<hdr, rec, args, offset, spareBuffer>>
    BY <1>7 DEF FlushSpareBlockToBootBlock, At
  <2>2. Finds("bootErase", args', spareBuffer', image')
    BY <1>1, <2>1, FindsAt
  <2>3. FlashOK'
    BY <1>1, <1>7 DEF FlushSpareBlockToBootBlock, FlashOK
  <2>4. RamOK'
    BY <1>1, <2>1 DEF RamOK
  <2> QED BY <1>1, <2>1, <2>2, <2>3, <2>4, BufferJump, Jumps
<1>8. CASE FlushBootWrite
  <2>1. /\ pc = "bootWrite" /\ Goto("bootUnswap") /\ image' = None
        /\ UNCHANGED <<hdr, rec, args, offset, spareBuffer>>
    BY <1>8 DEF FlushBootWrite, At
  <2>2. image \in Blocks /\ Finds("bootUnswap", args', spareBuffer', image')
    BY <1>1, <2>1, FindsAt DEF Quiet
  <2>3. FlashOK'
    BY <1>1, <1>8, <2>2, FlashSteps DEF FlushBootWrite
  <2>4. RamOK'
    BY <1>1, <2>1 DEF RamOK
  <2> QED BY <2>1, <2>2, <2>3, <2>4, BufferJump, Jumps
<1> QED BY <1>3, <1>4, <1>5, <1>6, <1>7, <1>8

(* Refreshing the work space, with a reclaim if there is no room left.     *)
LEMMA OuterCalls ==
  /\ \A l \in Refreshed : Calls(l, "reclaim")
  /\ \A l \in {"allocate", "write", "restart", "abort", "getLastWrite"} : Calls("done", l)
  /\ \A c \in {"initAgain", "initLast", "initTail", "initDone"} : Calls(c, "abort")
  /\ Calls("initAbortLast", "restart")
<1>1. \A l \in Refreshed : Calls(l, "reclaim")
  BY DEF Calls, Rank, MayCall, Labels, Outer, Allocating, Storing, Writing, Copying, Reclaiming,
         Restoring, Delivering, Flushing, Booting, Refreshed
<1>2. \A l \in {"allocate", "write", "restart", "abort", "getLastWrite"} : Calls("done", l)
  BY DEF Calls, Rank, MayCall, Labels, Outer, Allocating, Storing, Writing
<1>3. \A c \in {"initAgain", "initLast", "initTail", "initDone"} : Calls(c, "abort")
  BY DEF Calls, Rank, MayCall, Labels, Outer, Writing, Storing
<1>4. Calls("initAbortLast", "restart")
  BY DEF Calls, Rank, MayCall, Labels, Outer, Writing, Storing
<1> QED BY <1>1, <1>2, <1>3, <1>4

LEMMA GoesToItself == \A l \in Labels : Goes(l, l)
  BY RankIsNat DEF Goes

LEMMA EmptyStack ==
  /\ \A l \in Outer : Chained(<<>>, l)
  /\ \A r, l : Chained(r, l) /\ l \in Outer => r = <<>>
<1>1. Len(<<>>) = 0 /\ <<>> \in Seq(Labels)
  OBVIOUS
<1>2. \A l \in Outer : Chained(<<>>, l)
  BY <1>1 DEF Chained, Labels
<1> QED BY <1>2 DEF Chained

LEMMA OneCall ==
  ASSUME NEW c \in Outer, NEW l, Calls(c, l)
  PROVE  Chained(<<c>>, l)
<1>1. Chained(<<>>, c) /\ Goes(c, c)
  BY EmptyStack, Jumps
<1>2. Append(<<>>, c) = <<c>>
  OBVIOUS
<1> QED BY <1>1, <1>2, CallRule

Stacks(l, r) ==
  \/ r = <<>> /\ l \in Outer
  \/ \E c \in Outer : r = <<c>> /\ Calls(c, l)

LEMMA StacksOK ==
  ASSUME NEW l, NEW r, Stacks(l, r)
  PROVE  /\ Chained(r, l)
         /\ \A a, b, im : \A i \in 1 .. Len(r) : Finds(r[i], a, b, im)
<1>1. CASE r = <<>> /\ l \in Outer
  <2>1. Len(r) = 0
    BY <1>1
  <2> QED BY <1>1, <2>1, EmptyStack
<1>2. ASSUME NEW c \in Outer, r = <<c>>, Calls(c, l)
      PROVE  Chained(r, l) /\ \A a, b, im : \A i \in 1 .. Len(r) : Finds(r[i], a, b, im)
  <2>1. \A a, b, im : Finds(c, a, b, im)
    BY FindsAt DEF Quiet
  <2>2. \A i \in 1 .. Len(r) : r[i] = c
    BY <1>2
  <2>3. Chained(r, l)
    BY <1>2, OneCall
  <2> QED BY <2>1, <2>2, <2>3
<1> QED BY <1>1, <1>2 DEF Stacks

LEMMA RefreshKeepsTypes ==
  ASSUME TypeInv, UNCHANGED <<flash, offset, image, spareBuffer>>,
         args' = args \/ args' \in Args,
         NEW l \in Refreshed, NEW r, Refresh(l, r), Stacks(l, r), Finds(l, args', spareBuffer, image)
  PROVE  TypeInv'
<1>1. work.queue \in Queues /\ RamOK /\ FlashOK
  BY BlocksAtHand DEF TypeInv
<1>2. FlashOK'
  BY <1>1 DEF FlashOK
<1>3. Chained(r, l) /\ \A a, b, im : \A i \in 1 .. Len(r) : Finds(r[i], a, b, im)
  BY StacksOK
<1>4. hdr' \in 0 .. Size /\ rec' \in Nat
  BY <1>1, LocateOK DEF Refresh, RamOK
<1>5. RamOK'
  BY <1>1, <1>4 DEF RamOK
<1>6. CASE pc' = l /\ ret' = r
  BY <1>2, <1>3, <1>5, <1>6 DEF TypeInv, Memory
<1>7. CASE pc' = "reclaim" /\ ret' = Append(r, l)
  <2>1. Goes(l, l) /\ Calls(l, "reclaim")
    BY GoesToItself, OuterCalls DEF Calls
  <2>2. Chained(Append(r, l), "reclaim")
    BY <1>3, <2>1, CallRule
  <2>3. /\ Len(r) \in Nat /\ Len(Append(r, l)) = Len(r) + 1
        /\ \A i \in 1 .. Len(r) : Append(r, l)[i] = r[i]
        /\ Append(r, l)[Len(r) + 1] = l
    BY <1>3, AppendProperties, LenProperties DEF Chained
  <2>4. \A i \in 1 .. Len(Append(r, l)) : i \in 1 .. Len(r) \/ i = Len(r) + 1
    BY <2>3
  <2>5. \A i \in 1 .. Len(Append(r, l)) : Finds(Append(r, l)[i], args', spareBuffer, image)
    BY <1>3, <2>3, <2>4
  <2>6. Finds("reclaim", args', spareBuffer, image)
    BY FindsAt DEF Quiet
  <2>7. Memory'
    BY <1>7, <2>5, <2>6 DEF Memory
  <2> QED BY <1>2, <1>5, <1>7, <2>2, <2>7 DEF TypeInv
<1> QED BY <1>6, <1>7 DEF Refresh

(* The initialisation.                                                     *)
LEMMA InitCallsOK ==
  /\ \A c \in {"initAgain", "initLast", "initTail", "initDone"} : Stacks("abort", <<c>>)
  /\ Stacks("restart", <<"initAbortLast">>)
  /\ Stacks("initWorkSpace", <<>>) /\ Stacks("initFirst", <<>>)
  /\ \A l \in {"allocate", "write", "restart", "abort", "getLastWrite"} : Stacks(l, <<"done">>)
  BY OuterCalls DEF Stacks, Outer

LEMMA InitKeepsTypes ==
  ASSUME TypeInv,
         \/ InitRefresh \/ InitWorkSpace \/ InitAbort \/ InitFirst \/ InitLast \/ InitTail
         \/ InitRestart
  PROVE  TypeInv'
<1> DEFINE R == \E l \in {"abort", "restart", "initWorkSpace", "initFirst"} : \E r : Refresh(l, r) /\ Stacks(l, r)
           J == UNCHANGED <<hdr, rec>> /\ \E m \in Outer : Goto(m)
           C == UNCHANGED <<hdr, rec>> /\ \E m, c : /\ Call(m, c) /\ c \in Outer /\ Calls(c, m)
                                                     /\ m \in {"reclaim", "format", "flushWork", "bootBlock"}
<1>1. UNCHANGED <<flash, args, offset, image, spareBuffer>> /\ pc \in Outer /\ pc \in Labels
  BY DEF InitRefresh, InitWorkSpace, InitAbort, InitFirst, InitLast, InitTail, InitRestart, At,
         Outer, Labels
<1>2. R \/ J \/ C
  <2>1. CASE InitRefresh
    <3>1. CASE Refresh("initWorkSpace", <<>>)
      BY <3>1, InitCallsOK
    <3>2. CASE Call("reclaim", "initWorkSpace") /\ UNCHANGED <<hdr, rec>>
      BY <3>2, OuterCalls DEF Refreshed, Outer
    <3> QED BY <2>1, <3>1, <3>2 DEF InitRefresh
  <2>2. CASE InitWorkSpace
    <3>1. CASE Goto("initFirst")
      BY <2>2, <3>1 DEF InitWorkSpace, Outer
    <3>2. CASE Call("flushWork", "initAbort")
      BY <2>2, <3>2, CallsMade DEF InitWorkSpace, Outer
    <3>3. CASE Call("format", "initFirst")
      BY <2>2, <3>3, CallsMade DEF InitWorkSpace, Outer
    <3> QED BY <2>2, <3>1, <3>2, <3>3 DEF InitWorkSpace
  <2>3. CASE InitAbort
    BY <2>3, InitCallsOK DEF InitAbort
  <2>4. CASE InitFirst
    BY <2>4, InitCallsOK DEF InitFirst, Outer
  <2>5. CASE InitLast
    BY <2>5, InitCallsOK DEF InitLast, Outer
  <2>6. CASE InitTail
    <3>1. CASE Goto("initRestart")
      BY <2>6, <3>1 DEF InitTail, Outer
    <3>2. CASE Call("reclaim", "initRestart")
      BY <2>6, <3>2, CallsMade DEF InitTail, Outer
    <3> QED BY <2>6, <3>1, <3>2 DEF InitTail
  <2>7. CASE InitRestart
    <3>1. \/ Goto("initDone") /\ UNCHANGED <<hdr, rec>>
          \/ Call("bootBlock", "initAbortLast") /\ UNCHANGED <<hdr, rec>>
          \/ Refresh("abort", <<"initDone">>)
          \/ Refresh("restart", <<"initAbortLast">>)
      BY <2>7 DEF InitRestart
    <3>2. CASE Goto("initDone") /\ UNCHANGED <<hdr, rec>>
      BY <3>2 DEF Outer
    <3>3. CASE Call("bootBlock", "initAbortLast") /\ UNCHANGED <<hdr, rec>>
      BY <3>3, CallsMade DEF Outer
    <3> QED BY <3>1, <3>2, <3>3, InitCallsOK
  <2> QED BY <2>1, <2>2, <2>3, <2>4, <2>5, <2>6, <2>7
<1>3. FlashOK'
  BY <1>1, FlashSteps DEF TypeInv
<1>4. CASE R
  <2>1. PICK l \in {"abort", "restart", "initWorkSpace", "initFirst"} :
          \E r : Refresh(l, r) /\ Stacks(l, r)
    BY <1>4
  <2>2. PICK r : Refresh(l, r) /\ Stacks(l, r)
    BY <2>1
  <2>3. l \in Refreshed /\ Finds(l, args', spareBuffer, image)
    BY FindsAt DEF Refreshed, Quiet, Outer
  <2> QED BY <1>1, <2>2, <2>3, RefreshKeepsTypes
<1>5. CASE J
  <2>1. PICK m \in Outer : Goto(m)
    BY <1>5
  <2>2. Goes(pc, m) /\ Finds(m, args, spareBuffer, image)
    BY <1>1, Jumps, FindsAt DEF Quiet
  <2> QED BY <1>1, <1>3, <1>5, <2>1, <2>2, JumpKeepsTypes
<1>6. CASE C
  <2>1. PICK m, c : /\ Call(m, c) /\ c \in Outer /\ Calls(c, m)
                    /\ m \in {"reclaim", "format", "flushWork", "bootBlock"}
    BY <1>6
  <2>2. Goes(pc, c) /\ Finds(m, args, spareBuffer, image) /\ Finds(c, args, spareBuffer, image)
    BY <1>1, <2>1, Jumps, FindsAt DEF Quiet, Flushing
  <2> QED BY <1>1, <1>3, <1>6, <2>1, <2>2, CallKeepsTypes
<1> QED BY <1>2, <1>4, <1>5, <1>6

(* The services.                                                           *)
LEMMA ServicesKeepTypes ==
  ASSUME TypeInv, Request
  PROVE  TypeInv'
<1> DEFINE Ls == {"allocate", "write", "restart", "abort", "getLastWrite"}
<1>1. ASSUME NEW l \in Ls, NEW t \in Target \cup {None}, NEW v \in Value \cup {None},
             NEW n \in Counts \cup {0, 1}, Service(l, t, v, n),
             l = "allocate" => n # 0,
             l = "write" => t # None /\ v # None /\ n # 0
      PROVE  TypeInv'
  <2>1. /\ args' = [target |-> t, value |-> v, writes |-> n]
        /\ Refresh(l, <<"done">>) /\ UNCHANGED <<flash, offset, image, spareBuffer>>
    BY <1>1 DEF Service
  <2>2. args' \in Args
    BY <2>1 DEF Args
  <2>3. Finds(l, args', spareBuffer, image)
    <3>1. CASE l = "allocate"
      BY <1>1, <2>1, <2>2, <3>1, FindsAt DEF Allocating
    <3>2. CASE l = "write"
      BY <1>1, <2>1, <2>2, <3>2, FindsAt
    <3>3. CASE l \in {"restart", "abort", "getLastWrite"}
      BY <3>3, FindsAt DEF Quiet
    <3> QED BY <3>1, <3>2, <3>3
  <2>4. l \in Refreshed /\ Stacks(l, <<"done">>)
    BY InitCallsOK DEF Refreshed
  <2> QED BY <2>1, <2>2, <2>3, <2>4, RefreshKeepsTypes
<1>2. None \notin Target /\ None \notin Value /\ \A n \in Counts : n # 0
  BY FtwAssumption
<1>3. ASSUME NEW n \in Counts, FtwAllocate(n) PROVE TypeInv'
  BY <1>1, <1>2, <1>3 DEF FtwAllocate
<1>4. ASSUME NEW t \in Target, NEW v \in Value, FtwWrite(t, v) PROVE TypeInv'
  BY <1>1, <1>2, <1>4 DEF FtwWrite
<1>5. CASE FtwRestart \/ FtwAbort \/ FtwGetLastWrite
  BY <1>1, <1>5 DEF FtwRestart, FtwAbort, FtwGetLastWrite
<1> QED BY <1>3, <1>4, <1>5 DEF Request

(* The end of a service, and failures.                                     *)
LEMMA ForgetKeepsTypes ==
  ASSUME FlashOK', Forget, ret' = <<>>, pc' \in Outer
  PROVE  TypeInv'
<1>1. RamOK'
  BY SizeIsNat DEF Forget, RamOK
<1>2. Chained(ret', pc')
  BY EmptyStack
<1>3. Memory'
  <2>1. Finds(pc', args', spareBuffer', image')
    BY FindsAt DEF Quiet
  <2>2. Len(ret') = 0
    OBVIOUS
  <2> QED BY <2>1, <2>2 DEF Memory
<1> QED BY <1>1, <1>2, <1>3 DEF TypeInv

LEMMA InterruptedOK ==
  ASSUME TypeInv, Interrupted
  PROVE  FlashOK'
<1>1. FlashOK /\ Torn \in Data /\ Block(Torn) \in Blocks
  BY BlocksAtHand
<1> QED BY <1>1, FlashSteps DEF Interrupted

LEMMA FailuresKeepTypes ==
  ASSUME TypeInv, Done \/ PowerFailure \/ DeviceError
  PROVE  TypeInv'
<1>1. CASE Done
  <2>1. pc \in Outer /\ pc' \in Outer /\ ret' = ret /\ Forget /\ UNCHANGED flash
    BY <1>1 DEF Done, Goto, At, Outer
  <2>2. ret = <<>>
    BY <2>1, EmptyStack DEF TypeInv
  <2>3. FlashOK'
    BY <2>1, FlashSteps DEF TypeInv
  <2> QED BY <2>1, <2>2, <2>3, ForgetKeepsTypes
<1>2. CASE PowerFailure
  BY <1>2, InterruptedOK, ForgetKeepsTypes DEF PowerFailure, Outer
<1>3. CASE DeviceError
  <2>1. FlashOK' /\ pc' = "done" /\ ret' = <<>> /\ UNCHANGED ram
    BY <1>3, InterruptedOK DEF DeviceError
  <2>2. RamOK'
    BY <2>1 DEF TypeInv, RamOK
  <2>3. Chained(ret', pc')
    BY <2>1, EmptyStack DEF Outer
  <2>4. Memory'
    <3>1. Finds("done", args', spareBuffer', image')
      BY FindsAt DEF Quiet, Outer
    <3>2. Len(ret') = 0
      BY <2>1
    <3> QED BY <2>1, <3>1, <3>2 DEF Memory
  <2> QED BY <2>1, <2>2, <2>3, <2>4 DEF TypeInv
<1> QED BY <1>1, <1>2, <1>3

(* Type correctness.                                                       *)
LEMMA TypesAtStart == Init => TypeInv
<1> SUFFICES ASSUME Init PROVE TypeInv
  OBVIOUS
<1>1. FlashOK
  BY BlocksOK DEF Init, FlashOK, Data
<1>2. RamOK
  BY SizeIsNat DEF Init, RamOK
<1>3. Chained(ret, pc)
  BY EmptyStack DEF Init, Outer
<1>4. Memory
  <2>1. Finds("off", args, spareBuffer, image)
    BY FindsAt DEF Quiet, Outer
  <2> QED BY <2>1 DEF Init, Memory
<1> QED BY <1>1, <1>2, <1>3, <1>4 DEF TypeInv

LEMMA StepsKeepTypes == TypeInv /\ [Next]_vars => TypeInv'
<1> SUFFICES ASSUME TypeInv, [Next]_vars PROVE TypeInv'
  OBVIOUS
<1>1. CASE UNCHANGED vars
  BY <1>1 DEF vars, TypeInv, FlashOK, RamOK, Memory
<1>2. CASE Next
  BY <1>2, MovesKeepTypes, CallsKeepTypes, ReturnsKeepTypes, ChecksKeepTypes, BuffersKeepTypes,
     InitKeepsTypes, ServicesKeepTypes, FailuresKeepTypes DEF Next, DriverStep
<1> QED BY <1>1, <1>2

LEMMA TypeInvOK == TypeInv => TypeOK
  BY DEF TypeInv, FlashOK, RamOK, TypeOK, Args

(* The flash and the driver's variables have their types, whatever the     *)
(* lengths of the series, whichever blocks share the working block, and    *)
(* wherever power or the device fails.                                     *)
THEOREM TypesAreKept == Spec => []TypeOK
<1> QED BY TypesAtStart, StepsKeepTypes, TypeInvOK, PTL DEF Spec

-----------------------------------------------------------------------------
(* Single writes.  What follows is about callers that allocate one write   *)
(* at a time (FtwWrite does it for them) and stop after an error that left *)
(* no valid work space.                                                    *)

SingleWrites == Counts \subseteq {1} /\ ~CallersGoOn

(* The queue: completed writes, at most one that is not, and erased cells. *)
BlankFrom(q, k) == \A p \in 0 .. Size - 1 : p >= k => q[p] = Blank

RecordOK(c) ==
  \/ c = Blank
  \/ /\ c.target \in Target
     /\ BOOT_BLOCK_UPDATE \in c.flags <=> c.target = BootTarget
     /\ DEST_COMPLETED \in c.flags => SPARE_COMPLETED \in c.flags

Free(q, h) == h = GetLastWriteHeader(q) /\ BlankFrom(q, h)

Open(q, h) ==
  /\ h = GetLastWriteHeader(q) /\ h + 2 <= Size /\ BlankFrom(q, h + 2)
  /\ HEADER_ALLOCATED \in q[h].flags /\ q[h].writes = 1
  /\ RecordOK(q[h + 1])

Tidy(q) == Free(q, GetLastWriteHeader(q)) \/ Open(q, GetLastWriteHeader(q))

Record(q)  == Cell(q, GetLastWriteHeader(q) + 1)
InSpare(q) == /\ SPARE_COMPLETED \in Record(q).flags
              /\ DEST_COMPLETED \notin Record(q).flags

LEMMA FreeFacts ==
  ASSUME NEW q \in Queues, NEW h, Free(q, h)
  PROVE  /\ h \in 0 .. Size /\ h = GetLastWriteHeader(q)
         /\ Cell(q, h) = Blank /\ Cell(q, h + 1) = Blank /\ Record(q) = Blank
         /\ GetLastWriteRecord(q, h) = h + 1
         /\ ~InSpare(q) /\ Tidy(q) /\ Preserved(q) = Empty
<1>1. h \in 0 .. Size /\ h = GetLastWriteHeader(q)
  BY LastHeaderOK DEF Free
<1>2. Cell(q, h) = Blank /\ Cell(q, h + 1) = Blank
  <2>1. h < Size => h \in 0 .. Size - 1
    BY <1>1, SizeIsNat
  <2>2. h + 1 < Size => h + 1 \in 0 .. Size - 1 /\ h + 1 >= h
    BY <1>1, SizeIsNat
  <2>3. h >= h
    BY <1>1
  <2> QED BY <2>1, <2>2, <2>3 DEF Cell, Free, BlankFrom
<1>3. GetLastWriteRecord(q, h) = h + 1
  BY <1>1, <1>2, LastRecordOK, SizeIsNat DEF Blank
<1>4. ~Has(q, h, HEADER_ALLOCATED)
  BY <1>2 DEF Has, Blank
<1> QED BY <1>1, <1>2, <1>3, <1>4 DEF Record, InSpare, Tidy, Free, Preserved, Blank

LEMMA OpenFacts ==
  ASSUME NEW q \in Queues, NEW h, Open(q, h)
  PROVE  /\ h \in 0 .. Size - 1 /\ h + 1 \in 0 .. Size - 1 /\ h \in Nat /\ h + 2 <= Size
         /\ h = GetLastWriteHeader(q)
         /\ Cell(q, h) = q[h] /\ Cell(q, h + 1) = q[h + 1] /\ Record(q) = q[h + 1]
         /\ q[h] \in Cells /\ q[h + 1] \in Cells
         /\ Has(q, h, HEADER_ALLOCATED) /\ ~Has(q, h, WRITES_COMPLETED)
         /\ GetLastWriteRecord(q, h) = h + 1 /\ Tidy(q)
<1>1. h \in 0 .. Size /\ h = GetLastWriteHeader(q) /\ h + 2 <= Size
  BY LastHeaderOK DEF Open
<1>2. /\ h \in 0 .. Size - 1 /\ h + 1 \in 0 .. Size - 1 /\ h \in Nat
      /\ h < Size /\ h + 1 < Size
  BY <1>1, SizeIsNat
<1>3. Cell(q, h) = q[h] /\ Cell(q, h + 1) = q[h + 1] /\ q[h] \in Cells /\ q[h + 1] \in Cells
  BY <1>2, CellsOK DEF Cell
<1>4. ~Has(q, h, WRITES_COMPLETED)
  BY <1>1, <1>2, LastHeaderOK DEF Completed
<1>5. GetLastWriteRecord(q, h) = h + 1
  BY <1>2, <1>3, LastRecordOK DEF Open
<1> QED BY <1>1, <1>2, <1>3, <1>4, <1>5 DEF Record, Has, Open, Tidy

LEMMA TidyFacts ==
  ASSUME NEW q \in Queues, Tidy(q), NEW h, h = GetLastWriteHeader(q)
  PROVE  /\ Free(q, h) \/ Open(q, h)
         /\ GetLastWriteRecord(q, h) = h + 1 /\ h \in 0 .. Size
         /\ Cell(q, h + 1) = Record(q)
         /\ RecordOK(Record(q))
         /\ h + 2 > Size => Free(q, h)
         /\ Has(q, h, HEADER_ALLOCATED) => Open(q, h)
         /\ Cell(q, h) = Blank <=> Free(q, h)
         /\ InSpare(q) => Open(q, h)
<1>1. Free(q, h) \/ Open(q, h)
  BY DEF Tidy
<1>2. h \in 0 .. Size
  BY LastHeaderOK
<1>3. GetLastWriteRecord(q, h) = h + 1
  BY <1>1, FreeFacts, OpenFacts
<1>4. Cell(q, h + 1) = Record(q) /\ RecordOK(Record(q))
  BY <1>1, FreeFacts, OpenFacts DEF Record, RecordOK, Open
<1>5. h + 2 > Size => Free(q, h)
  <2>1. h + 2 > Size => ~(h + 2 <= Size)
    BY <1>2, SizeIsNat
  <2> QED BY <1>1, <2>1 DEF Open
<1>6. Has(q, h, HEADER_ALLOCATED) => Open(q, h)
  BY <1>1, FreeFacts DEF Has, Blank
<1>7. Cell(q, h) = Blank <=> Free(q, h)
  BY <1>1, FreeFacts, OpenFacts DEF Has, Blank
<1>8. InSpare(q) => Open(q, h)
  BY <1>1, FreeFacts
<1> QED BY <1>1, <1>2, <1>3, <1>4, <1>5, <1>6, <1>7, <1>8

LEMMA EmptyIsFree == Free(Empty, 0) /\ Tidy(Empty) /\ ~InSpare(Empty)
<1>1. Empty \in Queues
  BY BlocksOK
<1>2. PICK f : /\ GetLastWriteHeader(Empty) = f[0]
               /\ \A p \in 0 .. Size : f[p] = IF Completed(Empty, p) THEN f[NextHeader(Empty, p)] ELSE p
  BY <1>1, HeaderByWalk
<1>3. ~Completed(Empty, 0)
  <2>1. Empty[0] = Blank
    BY SizeIsNat DEF Empty
  <2> QED BY <2>1 DEF Completed, Has, Cell, Blank
<1>4. GetLastWriteHeader(Empty) = 0
  BY <1>2, <1>3, SizeIsNat
<1>5. Free(Empty, 0)
  BY <1>4 DEF Free, BlankFrom, Empty
<1> QED BY <1>1, <1>5, FreeFacts

(* What is programmed in the queue.                                        *)
LEMMA SameHeader ==
  ASSUME NEW q \in Queues, NEW q2 \in Queues, NEW h, h = GetLastWriteHeader(q),
         \A p \in 0 .. Size - 1 : p < h => q2[p] = q[p],
         ~Has(q2, h, WRITES_COMPLETED)
  PROVE  GetLastWriteHeader(q2) = h
<1>1. h \in 0 .. Size
  BY LastHeaderOK
<1>2. \A p \in 0 .. Size : p < h => p \in 0 .. Size - 1
  BY <1>1, SizeIsNat
<1> QED BY <1>2, WalkAgrees DEF Completed

LEMMA ProgramAt ==
  ASSUME NEW q \in Queues, NEW p \in 0 .. Size - 1, NEW f, NEW w, NEW t
  PROVE  /\ Program(q, p, f, w, t)[p] = [flags |-> q[p].flags \cup f, writes |-> w, target |-> t]
         /\ \A x \in 0 .. Size - 1 : x # p => Program(q, p, f, w, t)[x] = q[x]
         /\ \A b : UpdateFvState(q, p, b)[p] =
                     [flags |-> q[p].flags \cup {b}, writes |-> q[p].writes, target |-> q[p].target]
         /\ \A b : \A x \in 0 .. Size - 1 : x # p => UpdateFvState(q, p, b)[x] = q[x]
<1>1. DOMAIN q = 0 .. Size - 1 /\ Cell(q, p) = q[p]
  BY SizeIsNat DEF Queues, Cell
<1> QED BY <1>1 DEF Program, UpdateFvState

LEMMA HeaderAllocated ==
  ASSUME NEW q \in Queues, NEW h, Free(q, h), h + 2 <= Size,
         NEW q2 \in Queues, q2 = Program(q, h, {HEADER_ALLOCATED}, 1, None)
  PROVE  Open(q2, h) /\ q2[h + 1] = Blank
<1>1. h \in 0 .. Size /\ h = GetLastWriteHeader(q)
  BY FreeFacts
<1>2. h \in 0 .. Size - 1 /\ h + 1 \in 0 .. Size - 1 /\ h + 1 # h /\ h + 1 >= h
  BY <1>1, SizeIsNat
<1>3. q[h] = Blank /\ q[h + 1] = Blank
  BY <1>2 DEF Free, BlankFrom
<1>4. /\ q2[h] = [flags |-> q[h].flags \cup {HEADER_ALLOCATED}, writes |-> 1, target |-> None]
      /\ \A x \in 0 .. Size - 1 : x # h => q2[x] = q[x]
  BY <1>2, ProgramAt
<1>5. q2[h].flags = {HEADER_ALLOCATED} /\ q2[h].writes = 1
  BY <1>3, <1>4 DEF Blank
<1>6. ~Has(q2, h, WRITES_COMPLETED)
  BY <1>2, <1>5, SizeIsNat DEF Has, Cell, HEADER_ALLOCATED, WRITES_COMPLETED
<1>7. GetLastWriteHeader(q2) = h
  <2>1. \A p \in 0 .. Size - 1 : p < h => p # h
    BY <1>2
  <2> QED BY <1>1, <1>4, <1>6, <2>1, SameHeader
<1>8. BlankFrom(q2, h + 2)
  <2>1. \A p \in 0 .. Size - 1 : p >= h + 2 => p >= h /\ p # h
    BY <1>2
  <2> QED BY <1>4, <2>1 DEF Free, BlankFrom
<1>9. q2[h + 1] = Blank
  BY <1>2, <1>3, <1>4
<1> QED BY <1>5, <1>7, <1>8, <1>9 DEF Open, RecordOK

(* A flag of the header, or a new record.                                  *)
LEMMA StaysOpen ==
  ASSUME NEW q \in Queues, NEW h, Open(q, h), NEW q2 \in Queues,
         \A x \in 0 .. Size - 1 : x \notin {h, h + 1} => q2[x] = q[x],
         q[h].flags \subseteq q2[h].flags, q2[h].writes = 1, WRITES_COMPLETED \notin q2[h].flags,
         RecordOK(q2[h + 1])
  PROVE  Open(q2, h)
<1>1. h = GetLastWriteHeader(q) /\ h \in 0 .. Size - 1 /\ h + 2 <= Size
  BY OpenFacts
<1>2. \A p \in 0 .. Size - 1 : (p < h \/ p >= h + 2) => p \notin {h, h + 1}
  BY <1>1
<1>3. ~Has(q2, h, WRITES_COMPLETED)
  BY <1>1, SizeIsNat DEF Has, Cell
<1>4. GetLastWriteHeader(q2) = h
  BY <1>1, <1>2, <1>3, SameHeader
<1>5. BlankFrom(q2, h + 2)
  BY <1>2 DEF Open, BlankFrom
<1> QED BY <1>1, <1>4, <1>5 DEF Open

LEMMA HeaderFlagged ==
  ASSUME NEW q \in Queues, NEW h, Open(q, h),
         NEW q2 \in Queues, q2 = UpdateFvState(q, h, WRITES_ALLOCATED)
  PROVE  Open(q2, h) /\ q2[h + 1] = q[h + 1]
<1>1. h \in 0 .. Size - 1 /\ h + 1 \in 0 .. Size - 1 /\ h + 1 # h
  BY OpenFacts
<1>2. /\ q2[h] = [flags |-> q[h].flags \cup {WRITES_ALLOCATED}, writes |-> q[h].writes,
                  target |-> q[h].target]
      /\ \A x \in 0 .. Size - 1 : x # h => q2[x] = q[x]
  BY <1>1, ProgramAt
<1>3. q2[h].flags = q[h].flags \cup {WRITES_ALLOCATED} /\ q2[h].writes = q[h].writes
  BY <1>2
<1>4. WRITES_COMPLETED \notin q[h].flags
  BY OpenFacts DEF Has
<1>5. WRITES_COMPLETED \notin q2[h].flags
  BY <1>3, <1>4 DEF WRITES_COMPLETED, WRITES_ALLOCATED
<1>6. q2[h + 1] = q[h + 1]
  BY <1>1, <1>2
<1> QED BY <1>2, <1>3, <1>5, <1>6, StaysOpen DEF Open

LEMMA RecordChanged ==
  ASSUME NEW q \in Queues, NEW h, Open(q, h), NEW q2 \in Queues,
         \A x \in 0 .. Size - 1 : x # h + 1 => q2[x] = q[x], RecordOK(q2[h + 1])
  PROVE  Open(q2, h)
<1>1. h \in 0 .. Size - 1 /\ h + 1 \in 0 .. Size - 1 /\ h + 1 # h
  BY OpenFacts
<1>2. q2[h] = q[h]
  BY <1>1
<1>3. WRITES_COMPLETED \notin q2[h].flags
  BY <1>2, OpenFacts DEF Has
<1> QED BY <1>2, <1>3, StaysOpen DEF Open

LEMMA RecordWritten ==
  ASSUME NEW q \in Queues, NEW h, Open(q, h), NEW t \in Target, q[h + 1].target \in {t, None},
         NEW q2 \in Queues,
         q2 = Program(q, h + 1, IF t = BootTarget THEN {BOOT_BLOCK_UPDATE} ELSE {}, 0, t)
  PROVE  /\ Open(q2, h) /\ q2[h + 1].target = t
         /\ SPARE_COMPLETED \in q2[h + 1].flags <=> SPARE_COMPLETED \in q[h + 1].flags
         /\ DEST_COMPLETED \in q2[h + 1].flags <=> DEST_COMPLETED \in q[h + 1].flags
<1> DEFINE f == IF t = BootTarget THEN {BOOT_BLOCK_UPDATE} ELSE {}
<1>1. h + 1 \in 0 .. Size - 1
  BY OpenFacts
<1>2. /\ q2[h + 1] = [flags |-> q[h + 1].flags \cup f, writes |-> 0, target |-> t]
      /\ \A x \in 0 .. Size - 1 : x # h + 1 => q2[x] = q[x]
  BY <1>1, ProgramAt
<1>3. q2[h + 1].flags = q[h + 1].flags \cup f /\ q2[h + 1].target = t
  BY <1>2
<1>4. None \notin Target
  BY FtwAssumption
<1>5. q[h + 1].flags = {} \/ (BOOT_BLOCK_UPDATE \in q[h + 1].flags <=> t = BootTarget)
  BY <1>4 DEF Open, RecordOK, Blank
<1>6. DEST_COMPLETED \in q[h + 1].flags => SPARE_COMPLETED \in q[h + 1].flags
  BY DEF Open, RecordOK, Blank
<1>7. RecordOK(q2[h + 1])
  BY <1>3, <1>5, <1>6 DEF RecordOK, BOOT_BLOCK_UPDATE, SPARE_COMPLETED, DEST_COMPLETED
<1>8. Open(q2, h)
  BY <1>2, <1>7, RecordChanged
<1> QED BY <1>3, <1>8 DEF BOOT_BLOCK_UPDATE, SPARE_COMPLETED, DEST_COMPLETED

LEMMA RecordFlagged ==
  ASSUME NEW q \in Queues, NEW h, Open(q, h), q[h + 1].target \in Target,
         NEW f \in {SPARE_COMPLETED, DEST_COMPLETED},
         f = DEST_COMPLETED => SPARE_COMPLETED \in q[h + 1].flags,
         NEW q2 \in Queues, q2 = UpdateFvState(q, h + 1, f)
  PROVE  /\ Open(q2, h) /\ q2[h + 1].target = q[h + 1].target
         /\ q2[h + 1].flags = q[h + 1].flags \cup {f}
         /\ f \in q[h + 1].flags => q2 = q
<1>1. h + 1 \in 0 .. Size - 1 /\ q[h + 1] \in Cells
  BY OpenFacts
<1>2. /\ q2[h + 1] = [flags |-> q[h + 1].flags \cup {f}, writes |-> q[h + 1].writes,
                      target |-> q[h + 1].target]
      /\ \A x \in 0 .. Size - 1 : x # h + 1 => q2[x] = q[x]
  <2>1. PICK p \in 0 .. Size - 1 : p = h + 1
    BY <1>1
  <2>2. q2 = UpdateFvState(q, p, f)
    BY <2>1
  <2> QED BY <2>1, <2>2, ProgramAt
<1>3. q2[h + 1].flags = q[h + 1].flags \cup {f} /\ q2[h + 1].target = q[h + 1].target
  BY <1>2
<1>4. /\ BOOT_BLOCK_UPDATE \in q[h + 1].flags <=> q[h + 1].target = BootTarget
      /\ DEST_COMPLETED \in q[h + 1].flags => SPARE_COMPLETED \in q[h + 1].flags
  BY FtwAssumption DEF Open, RecordOK, Blank
<1>5. RecordOK(q2[h + 1])
  BY <1>3, <1>4 DEF RecordOK, BOOT_BLOCK_UPDATE, SPARE_COMPLETED, DEST_COMPLETED
<1>6. Open(q2, h)
  BY <1>2, <1>5, RecordChanged
<1>7. f \in q[h + 1].flags => q2 = q
  <2>1. SUFFICES ASSUME f \in q[h + 1].flags PROVE q2 = q
    OBVIOUS
  <2>2. q[h + 1] = [flags |-> q[h + 1].flags, writes |-> q[h + 1].writes,
                    target |-> q[h + 1].target]
    BY <1>1 DEF Cells
  <2>3. q[h + 1].flags \cup {f} = q[h + 1].flags
    BY <2>1
  <2>4. q2[h + 1] = q[h + 1]
    BY <1>2, <2>2, <2>3
  <2>5. \A x \in 0 .. Size - 1 : q2[x] = q[x]
    BY <1>2, <2>4
  <2>6. q = [x \in 0 .. Size - 1 |-> q[x]] /\ q2 = [x \in 0 .. Size - 1 |-> q2[x]]
    BY DEF Queues
  <2> QED BY <2>5, <2>6
<1> QED BY <1>3, <1>6, <1>7

LEMMA HeaderCompleted ==
  ASSUME NEW q \in Queues, NEW h, Open(q, h),
         NEW q2 \in Queues, q2 = UpdateFvState(q, h, WRITES_COMPLETED)
  PROVE  /\ Free(q2, h + 2) /\ Has(q2, h, WRITES_COMPLETED) /\ q2[h].writes = 1
<1>1. h \in 0 .. Size - 1 /\ h + 2 <= Size /\ h = GetLastWriteHeader(q) /\ h \in 0 .. Size
  BY OpenFacts, SizeIsNat
<1>2. /\ q2[h] = [flags |-> q[h].flags \cup {WRITES_COMPLETED}, writes |-> q[h].writes,
                  target |-> q[h].target]
      /\ \A x \in 0 .. Size - 1 : x # h => q2[x] = q[x]
  BY <1>1, ProgramAt
<1>3. q2[h].writes = 1 /\ Has(q2, h, WRITES_COMPLETED) /\ Completed(q2, h)
  BY <1>1, <1>2, SizeIsNat DEF Open, Has, Cell, Completed
<1>4. NextHeader(q2, h) = h + 2
  BY <1>1, <1>3, SizeIsNat DEF NextHeader, FTW_WRITE_TOTAL_SIZE
<1>5. BlankFrom(q2, h + 2)
  <2>1. \A p \in 0 .. Size - 1 : p >= h + 2 => p # h
    BY <1>1
  <2> QED BY <1>2, <2>1 DEF Open, BlankFrom
<1>6. ~Completed(q2, h + 2)
  <2>1. h + 2 < Size => h + 2 \in 0 .. Size - 1 /\ h + 2 >= h + 2
    BY <1>1, SizeIsNat
  <2> QED BY <1>5, <2>1 DEF Completed, Has, Cell, BlankFrom, Blank
<1>7. GetLastWriteHeader(q2) = h + 2
  <2>1. \A p \in 0 .. Size : p < h => p \in 0 .. Size - 1 /\ p # h
    BY <1>1, SizeIsNat
  <2> QED BY <1>1, <1>2, <1>3, <1>4, <1>6, <2>1, WalkAgrees
<1> QED BY <1>3, <1>5, <1>7 DEF Free

-----------------------------------------------------------------------------
(* The inductive invariant for single writes.                              *)

(* A block in the spare, or a copy of it: its queue, if it has one.        *)
Keeps(b) ==
  /\ Tidy(b.queue)
  /\ InSpare(b.queue) => Record(b.queue).target = WorkTarget /\ b.data \in Value

(* What the spare block holds for the record of the working block w that   *)
(* says its data is there; only an update of the working block itself is   *)
(* under way while that is not valid.                                      *)
SpareHolds(w, s) ==
  InSpare(w.queue) =>
    /\ s.data \in Value
    /\ Record(w.queue).target = WorkTarget =>
         /\ UpdateFvState(s.queue, GetLastWriteHeader(w.queue) + 1, SPARE_COMPLETED) = w.queue
         /\ IsValidWorkSpace(s)
    /\ ~IsValidWorkSpace(w) => Record(w.queue).target = WorkTarget

(* The top swap bit is set only for the boot block's record.               *)
Swapped(w) ==
  IsValidWorkSpace(w) /\ InSpare(w.queue) /\ Record(w.queue).target = BootTarget

FlashInv ==
  /\ Tidy(work.queue) /\ Keeps(spare)
  /\ image # None => Keeps(image)
  /\ spareBuffer # None => Keeps(spareBuffer)
  /\ SpareHolds(work, spare)
  /\ swap => Swapped(work)
  /\ BootTarget # None /\ ~swap => target[BootTarget] \in Value

(* Where FtwLastWriteHeader and FtwLastWriteRecord point to, and where they *)
(* are left by the completion of a write.                                   *)
Placed == hdr = GetLastWriteHeader(work.queue) /\ rec = hdr + 1 /\ hdr + 2 <= Size

Past ==
  /\ rec = hdr + 1 /\ hdr + 2 <= Size
  /\ Has(work.queue, hdr, WRITES_COMPLETED) /\ work.queue[hdr].writes = 1
  /\ Free(work.queue, hdr + 2)

Fresh(q) == hdr = 0 /\ rec = 1 /\ q = Empty

Top == IF ret = <<>> THEN None ELSE ret[Len(ret)]

Settled ==
  {"initFirst", "initAbort", "initAgain", "initAbortLast", "initLast", "initTail", "initRestart",
   "initDone", "restart", "eraseSpare", "abort", "getLastWrite"}
     \cup Allocating \cup Writing \cup Restoring \cup Delivering \cup Booting

Working ==
  {"initWorkSpace", "initFirst", "restart", "abort", "getLastWrite"}
     \cup Allocating \cup Writing \cup Delivering \cup Booting

Clearing ==
  {"eraseSpare", "initDone", "writeRecord", "allocHeader", "allocWrites"}
     \cup Reclaiming \cup Restoring \cup Storing

MaySwap ==
  {"off", "initWorkSpace", "initFirst", "initLast", "initTail", "initRestart", "done", "idle",
   "allocate", "write", "restart", "getLastWrite", "writeTarget"} \cup Booting

Erasing == {"flushWork", "workInvalid", "workErase"}

(* What holds at each point of the driver.                                 *)
PointInv(l) ==
  /\ l \in Settled => IsValidWorkSpace(work)
  /\ l \in Working => Placed
  /\ l = "initLast" => Placed \/ Past
  /\ l \in {"initTail", "initRestart"} =>
       Past \/ (Placed /\ DEST_COMPLETED \notin Record(work.queue).flags)
  /\ l \in Clearing => ~InSpare(work.queue)
  /\ l \notin MaySwap => ~swap
  /\ l = "reclaim" => Free(work.queue, GetLastWriteHeader(work.queue))
  /\ l \in {"reclaimErase", "reclaimWrite"} => Fresh(image.queue)
  /\ l \in {"reclaimValid", "reclaimInvalid"} => Fresh(spare.queue)
  /\ l \in Restoring /\ Top # "done" => Fresh(work.queue)
  /\ l \in Allocating => args.writes = 1
  /\ l = "allocHeader" => offset = hdr /\ Free(work.queue, hdr)
  /\ l = "allocWrites" => /\ offset = hdr /\ Open(work.queue, hdr)
                          /\ work.queue[hdr + 1] = Blank
  /\ l \in {"write", "writeRecord"} \/ (l = "allocate" /\ Top = "write") =>
       Cell(work.queue, rec).target \in {args.target, None}
  /\ l \in {"writeRecord"} \cup Storing \cup Delivering \cup Booting => Open(work.queue, hdr)
  /\ l \in {"writeRecord"} \cup Storing =>
       /\ SPARE_COMPLETED \notin work.queue[hdr + 1].flags
       /\ DEST_COMPLETED \notin work.queue[hdr + 1].flags
  /\ l \in Storing => work.queue[hdr + 1].target = args.target
  /\ l = "spareCompleted" =>
       /\ spare.data = args.value
       /\ args.target = WorkTarget => spare.queue = work.queue /\ IsValidWorkSpace(spare)
  /\ l \in {"writeTarget", "targetWrite", "destCompleted"} \cup Booting => InSpare(work.queue)
  /\ l = "targetWrite" => work.queue[hdr + 1].target \notin {WorkTarget, BootTarget}
  /\ l \in Booting => work.queue[hdr + 1].target = BootTarget
  /\ l \in {"bootErase", "bootWrite", "bootUnswap"} => swap
  /\ l \in {"bootErase", "bootWrite"} => image.data \in Value
  /\ l = "bootUnswap" => target[BootTarget] \in Value

(* FlushSpareBlockToWorkingBlock, for the routine it returns to.           *)
FlushInv(l) ==
  l \in Flushing =>
    /\ l \in Erasing /\ InSpare(work.queue) => Record(work.queue).target = WorkTarget
    /\ l = "workWrite" => work.queue = Empty
    /\ l = "workValid" => work.queue = spare.queue /\ work.header /\ ~work.invalid
    /\ Top = "restoreErase" =>
         Fresh(spare.queue) /\ (l \in Erasing => ~InSpare(work.queue))
    /\ Top = "initAbort" => IsValidWorkSpace(spare)
    /\ Top = "destCompleted" =>
         /\ IsValidWorkSpace(spare)
         /\ Open(spare.queue, hdr) /\ rec = hdr + 1 /\ InSpare(spare.queue)

(* FtwAllocate never has to reclaim, and only FtwWrite restores the spare  *)
(* block after the record is done.                                         *)
Callee(i) == IF i = Len(ret) THEN pc ELSE ret[i + 1]

StackInv ==
  \A i \in 1 .. Len(ret) :
    /\ ret[i] # "allocHeader"
    /\ ret[i] = "restoreErase" /\ Callee(i) \in Delivering => i > 1 /\ ret[i - 1] = "done"

DriverInv == FlashInv /\ PointInv(pc) /\ FlushInv(pc) /\ StackInv

-----------------------------------------------------------------------------
(* Operations on the flash.                                                *)

LEMMA BlockParts ==
  ASSUME NEW b \in Blocks
  PROVE  /\ \A q : /\ [b EXCEPT !.queue = q].queue = q /\ [b EXCEPT !.queue = q].data = b.data
                   /\ IsValidWorkSpace([b EXCEPT !.queue = q]) <=> IsValidWorkSpace(b)
         /\ \A v : /\ [b EXCEPT !.data = v].queue = b.queue /\ [b EXCEPT !.data = v].data = v
                   /\ IsValidWorkSpace([b EXCEPT !.data = v]) <=> IsValidWorkSpace(b)
         /\ [b EXCEPT !.valid = TRUE].queue = b.queue /\ [b EXCEPT !.valid = TRUE].data = b.data
         /\ IsValidWorkSpace([b EXCEPT !.valid = TRUE]) <=> b.header /\ ~b.invalid
         /\ [b EXCEPT !.invalid = TRUE].queue = b.queue
         /\ [b EXCEPT !.invalid = TRUE].data = b.data
         /\ ~IsValidWorkSpace([b EXCEPT !.invalid = TRUE])
  BY DEF Blocks, IsValidWorkSpace

LEMMA PlainBlocks ==
  ASSUME NEW v
  PROVE  /\ Block(v).queue = Empty /\ Block(v).data = v /\ ~IsValidWorkSpace(Block(v))
         /\ Keeps(Block(v)) /\ \A s : SpareHolds(Block(v), s)
  BY EmptyIsFree DEF Block, IsValidWorkSpace, Keeps, SpareHolds

BuffersKeep ==
  /\ image' # None => Keeps(image')
  /\ spareBuffer' # None => Keeps(spareBuffer')

LEMMA BuffersUnchanged ==
  ASSUME FlashInv, image' \in {image, spare, None}, spareBuffer' \in {spareBuffer, spare, None}
  PROVE  BuffersKeep
  BY DEF FlashInv, BuffersKeep

LEMMA SpareRule ==
  ASSUME FlashInv, BuffersKeep, ~swap, NEW b, WriteSpare(b), Keeps(b), SpareHolds(work, b)
  PROVE  FlashInv' /\ spare' = b /\ work' = work /\ target' = target /\ swap' = swap
<1>1. spare' = b /\ work' = work /\ target' = target /\ swap' = swap
  BY DEF WriteSpare
<1> QED BY <1>1 DEF FlashInv, BuffersKeep

LEMMA WorkRule ==
  ASSUME FlashInv, BuffersKeep, ~swap, NEW b, WriteWork(b), Tidy(b.queue), SpareHolds(b, spare)
  PROVE  FlashInv' /\ work' = b /\ spare' = spare /\ target' = target /\ swap' = swap
<1>1. work' = b /\ spare' = spare /\ target' = target /\ swap' = swap
  BY DEF WriteWork
<1> QED BY <1>1 DEF FlashInv, BuffersKeep

LEMMA TargetRule ==
  ASSUME FlashInv, BuffersKeep, NEW t, NEW v, WriteTarget(t, v), t # BootTarget
  PROVE  FlashInv' /\ spare' = spare /\ work' = work /\ swap' = swap
<1>1. spare' = spare /\ work' = work /\ swap' = swap /\ target' = [target EXCEPT ![t] = v]
  BY DEF WriteTarget
<1>2. target'[BootTarget] = target[BootTarget]
  BY <1>1
<1> QED BY <1>1, <1>2 DEF FlashInv, BuffersKeep

LEMMA SwapRule ==
  ASSUME FlashInv, BuffersKeep, swap, NEW b, WriteSpare(b)
  PROVE  /\ FlashInv' /\ spare' = spare /\ work' = work /\ swap' = swap
         /\ target' = [target EXCEPT ![BootTarget] = b.data]
<1>1. /\ spare' = spare /\ work' = work /\ swap' = swap
      /\ target' = [target EXCEPT ![BootTarget] = b.data]
  BY DEF WriteSpare
<1> QED BY <1>1 DEF FlashInv, BuffersKeep

LEMMA FlashUnchanged ==
  ASSUME FlashInv, BuffersKeep, UNCHANGED flash
  PROVE  FlashInv'
  BY DEF FlashInv, BuffersKeep

(* The queue of a working block that stays valid.                          *)
LEMMA QueueRule ==
  ASSUME TypeInv, FlashInv, BuffersKeep, ~swap, IsValidWorkSpace(work),
         NEW q \in Queues, WriteQueue(q), Tidy(q),
         InSpare(q) =>
           /\ spare.data \in Value
           /\ Record(q).target = WorkTarget =>
                /\ UpdateFvState(spare.queue, GetLastWriteHeader(q) + 1, SPARE_COMPLETED) = q
                /\ IsValidWorkSpace(spare)
  PROVE  /\ FlashInv' /\ work'.queue = q /\ IsValidWorkSpace(work')
         /\ spare' = spare /\ target' = target /\ swap' = swap
<1> DEFINE b == [work EXCEPT !.queue = q]
<1>1. work \in Blocks
  BY DEF TypeInv, FlashOK
<1>2. b.queue = q /\ IsValidWorkSpace(b)
  BY <1>1, BlockParts
<1>3. WriteWork(b)
  BY DEF WriteQueue
<1> HIDE DEF b
<1>4. SpareHolds(b, spare)
  BY <1>2 DEF SpareHolds
<1> QED BY <1>2, <1>3, <1>4, WorkRule

(* When nothing is pending the top swap bit is clear and the spare block   *)
(* is free.                                                                *)
LEMMA NothingPending ==
  ASSUME FlashInv, ~InSpare(work.queue)
  PROVE  ~swap /\ \A s : SpareHolds(work, s)
  BY DEF FlashInv, Swapped, SpareHolds

(* The working block's queue, for the pointers into it.                    *)
LEMMA WorkQueueFacts ==
  ASSUME TypeInv, FlashInv, NEW h, h = GetLastWriteHeader(work.queue)
  PROVE  /\ work.queue \in Queues /\ Tidy(work.queue) /\ h \in 0 .. Size
         /\ Free(work.queue, h) \/ Open(work.queue, h)
         /\ GetLastWriteRecord(work.queue, h) = h + 1
         /\ Cell(work.queue, h + 1) = Record(work.queue) /\ RecordOK(Record(work.queue))
         /\ h + 2 > Size => Free(work.queue, h)
         /\ Has(work.queue, h, HEADER_ALLOCATED) => Open(work.queue, h)
         /\ Cell(work.queue, h) = Blank <=> Free(work.queue, h)
         /\ InSpare(work.queue) => Open(work.queue, h)
         /\ ~Has(work.queue, h, WRITES_COMPLETED)
<1>1. work.queue \in Queues /\ Tidy(work.queue)
  BY BlocksOK DEF TypeInv, FlashOK, FlashInv
<1>2. ~Has(work.queue, h, WRITES_COMPLETED)
  <2>1. Free(work.queue, h) \/ Open(work.queue, h)
    BY <1>1, TidyFacts
  <2> QED BY <1>1, <2>1, FreeFacts, OpenFacts DEF Has, Blank
<1> QED BY <1>1, <1>2, TidyFacts

LEMMA UnfinishedIsInSpare ==
  ASSUME TypeInv, FlashInv
  PROVE  Unfinished <=> InSpare(work.queue)
<1>1. LastRecord = GetLastWriteHeader(work.queue) + 1
  BY WorkQueueFacts DEF LastRecord
<1> QED BY <1>1 DEF Unfinished, InSpare, Record, Has

-----------------------------------------------------------------------------
(* The stack of calls.                                                     *)

LEMMA StackFacts ==
  ASSUME TypeInv
  PROVE  /\ ret \in Seq(Labels) /\ Len(ret) \in Nat /\ (ret = <<>> <=> pc \in Outer)
         /\ ret # <<>> => Len(ret) \in 1 .. Len(ret) /\ Top = ret[Len(ret)]
         /\ ret # <<>> => MayCall(Top, pc)
         /\ \A i \in 1 .. Len(ret) : i = 1 => ret[i] \in Outer
<1>1. /\ ret \in Seq(Labels) /\ Len(ret) \in Nat /\ (ret = <<>> <=> pc \in Outer)
      /\ \A i \in 1 .. Len(ret) : i = 1 => ret[i] \in Outer
  BY LenProperties DEF TypeInv, Chained
<1>2. ret # <<>> => Len(ret) \in 1 .. Len(ret) /\ Top = ret[Len(ret)]
  BY <1>1, EmptySeq DEF Top
<1>3. ret # <<>> => MayCall(Top, pc)
  BY <1>1, <1>2 DEF TypeInv, Chained
<1> QED BY <1>1, <1>2, <1>3

LEMMA GotoStack ==
  ASSUME TypeInv, StackInv, NEW m, Goto(m), m \in Delivering => pc \in Delivering \cup {"abort"}
  PROVE  StackInv' /\ Top' = Top /\ pc' = m
<1>1. pc' = m /\ ret' = ret
  BY DEF Goto
<1>2. ASSUME NEW i \in 1 .. Len(ret), ret[i] = "restoreErase", Callee(i)' \in Delivering
      PROVE  i > 1 /\ ret[i - 1] = "done"
  <2>1. CASE i # Len(ret)
    BY <1>1, <1>2, <2>1 DEF Callee, StackInv
  <2>2. CASE i = Len(ret)
    <3>1. m \in Delivering /\ pc \in Delivering \cup {"abort"}
      BY <1>1, <1>2, <2>2 DEF Callee
    <3>2. ret # <<>> /\ Top = "restoreErase"
      BY <1>2, <2>2, StackFacts DEF Top
    <3>3. pc # "abort"
      BY <3>2, StackFacts DEF MayCall, Refreshed, Restoring, Reclaiming, Copying, Delivering,
                              Flushing
    <3> QED BY <1>2, <2>2, <3>1, <3>3 DEF Callee, StackInv
  <2> QED BY <2>1, <2>2
<1>3. StackInv'
  BY <1>1, <1>2 DEF StackInv
<1> QED BY <1>1, <1>3 DEF Top

LEMMA CallStack ==
  ASSUME TypeInv, StackInv, NEW m, NEW c, Call(m, c), c \in Labels, c # "allocHeader",
         c \in Delivering => pc \in Delivering,
         c = "restoreErase" /\ m \in Delivering => ret # <<>> /\ Top = "done"
  PROVE  StackInv' /\ Top' = c /\ pc' = m /\ ret' # <<>>
<1>1. pc' = m /\ ret' = Append(ret, c)
  BY DEF Call
<1>2. /\ Len(ret) \in Nat /\ Len(ret') = Len(ret) + 1
      /\ \A i \in 1 .. Len(ret) : ret'[i] = ret[i]
      /\ ret'[Len(ret) + 1] = c
  BY <1>1, StackFacts, AppendProperties
<1>3. \A i \in 1 .. Len(ret') : i \in 1 .. Len(ret) \/ i = Len(ret) + 1
  BY <1>2
<1>4. ASSUME NEW i \in 1 .. Len(ret)
      PROVE  /\ ret'[i] # "allocHeader"
             /\ ret'[i] = "restoreErase" /\ Callee(i)' \in Delivering => i > 1 /\ ret'[i - 1] = "done"
  <2>1. Callee(i)' \in Delivering => Callee(i) \in Delivering
    <3>1. CASE i # Len(ret)
      <4>1. i + 1 \in 1 .. Len(ret) /\ i # Len(ret')
        BY <1>2, <3>1
      <4> QED BY <1>2, <3>1, <4>1 DEF Callee
    <3>2. CASE i = Len(ret)
      BY <1>2, <3>2 DEF Callee
    <3> QED BY <3>1, <3>2
  <2>2. i > 1 => i - 1 \in 1 .. Len(ret)
    BY <1>2
  <2> QED BY <1>2, <2>1, <2>2 DEF StackInv
<1>5. ASSUME NEW i, i = Len(ret) + 1
      PROVE  /\ ret'[i] # "allocHeader"
             /\ ret'[i] = "restoreErase" /\ Callee(i)' \in Delivering => i > 1 /\ ret'[i - 1] = "done"
  <2>1. ret'[i] = c /\ Callee(i)' = m
    BY <1>1, <1>2, <1>5 DEF Callee
  <2>2. ret # <<>> => i > 1 /\ i - 1 = Len(ret) /\ ret'[i - 1] = Top
    BY <1>2, <1>5, StackFacts
  <2> QED BY <2>1, <2>2
<1>6. StackInv'
  BY <1>3, <1>4, <1>5 DEF StackInv
<1>7. ret' # <<>>
  BY <1>2
<1> QED BY <1>1, <1>2, <1>6, <1>7 DEF Top

LEMMA ReturnStack ==
  ASSUME TypeInv, StackInv, Return, pc \notin Outer
  PROVE  /\ StackInv' /\ ret # <<>> /\ pc' = Top /\ MayCall(pc', pc) /\ pc' # "allocHeader"
         /\ pc' = "restoreErase" /\ pc \in Delivering => Top' = "done"
<1> DEFINE s == SubSeq(ret, 1, Len(ret) - 1)
<1>1. /\ Len(ret) \in 1 .. Len(ret) /\ MayCall(ret[Len(ret)], pc)
      /\ Len(s) = Len(ret) - 1 /\ \A i \in 1 .. Len(s) : s[i] = ret[i] /\ i \in 1 .. Len(ret)
  BY ReturnRule DEF TypeInv
<1>2. ret # <<>> /\ pc' = ret[Len(ret)] /\ ret' = s /\ Len(ret) \in Nat /\ Top = ret[Len(ret)]
  BY StackFacts DEF Return
<1> HIDE DEF s
<1>3. ASSUME NEW i \in 1 .. Len(s)
      PROVE  /\ s[i] = ret[i] /\ Callee(i)' = Callee(i) /\ (i > 1 => s[i - 1] = ret[i - 1])
  <2>1. i # Len(ret) /\ (i = Len(s) <=> i + 1 = Len(ret)) /\ (i > 1 => i - 1 \in 1 .. Len(s))
    BY <1>1, <1>2
  <2>2. i # Len(s) => i + 1 \in 1 .. Len(s)
    BY <1>1, <1>2
  <2> QED BY <1>1, <1>2, <2>1, <2>2 DEF Callee
<1>4. StackInv'
  BY <1>1, <1>2, <1>3 DEF StackInv
<1>5. pc' = "restoreErase" /\ pc \in Delivering => Top' = "done"
  <2>1. SUFFICES ASSUME pc' = "restoreErase", pc \in Delivering PROVE Top' = "done"
    OBVIOUS
  <2>2. Len(ret) > 1 /\ ret[Len(ret) - 1] = "done"
    BY <1>1, <1>2, <2>1 DEF StackInv, Callee
  <2>3. Len(s) \in 1 .. Len(s) /\ s[Len(s)] = "done" /\ s # <<>>
    BY <1>1, <1>2, <2>2
  <2> QED BY <1>2, <2>3 DEF Top
<1>6. pc' # "allocHeader"
  BY <1>1, <1>2 DEF StackInv
<1> QED BY <1>1, <1>2, <1>4, <1>5, <1>6

LEMMA ShortStack ==
  /\ ret' = <<>> => StackInv'
  /\ \A c : ret' = <<c>> /\ c \notin {"allocHeader", "restoreErase"} =>
           StackInv' /\ Top' = c /\ ret' # <<>>
  /\ \A c, l : ret' = Append(<<c>>, l) /\ {c, l} \cap {"allocHeader", "restoreErase"} = {} =>
           StackInv' /\ Top' = l /\ ret' # <<>>
<1>1. ret' = <<>> => StackInv'
  <2>1. ret' = <<>> => Len(ret') = 0
    OBVIOUS
  <2> QED BY <2>1 DEF StackInv
<1>2. ASSUME NEW c, ret' = <<c>>, c \notin {"allocHeader", "restoreErase"}
      PROVE  StackInv' /\ Top' = c /\ ret' # <<>>
  <2>1. Len(ret') = 1 /\ ret'[1] = c /\ ret' # <<>>
    BY <1>2
  <2>2. \A i \in 1 .. Len(ret') : ret'[i] = c
    BY <2>1
  <2> QED BY <1>2, <2>1, <2>2 DEF StackInv, Top
<1>3. ASSUME NEW c, NEW l, ret' = Append(<<c>>, l), {c, l} \cap {"allocHeader", "restoreErase"} = {}
      PROVE  StackInv' /\ Top' = l /\ ret' # <<>>
  <2>1. Len(ret') = 2 /\ ret'[1] = c /\ ret'[2] = l /\ ret' # <<>>
    <3>1. <<c>> \in Seq({c, l}) /\ l \in {c, l} /\ Len(<<c>>) = 1 /\ <<c>>[1] = c
      OBVIOUS
    <3> QED BY <1>3, <3>1, AppendProperties
  <2>2. \A i \in 1 .. Len(ret') : ret'[i] \in {c, l}
    BY <2>1
  <2> QED BY <1>3, <2>1, <2>2 DEF StackInv, Top
<1> QED BY <1>1, <1>2, <1>3

-----------------------------------------------------------------------------
(* Every action keeps the invariant.                                       *)

(* The reclaim: nothing is pending, and the new work space is empty.       *)
LEMMA StartReclaimInv ==
  ASSUME TypeInv, DriverInv, FtwReclaimWorkSpace
  PROVE  DriverInv'
<1>1. PICK preserve \in BOOLEAN :
        /\ StartReclaim(preserve)
        /\ pc = IF preserve THEN "reclaim" ELSE "format"
  BY DEF FtwReclaimWorkSpace, At
<1> DEFINE q == IF preserve THEN Preserved(work.queue) ELSE Empty
<1>2. FlashInv /\ StackInv /\ ~InSpare(work.queue) /\ ~swap /\ work.queue \in Queues
  BY <1>1, BlocksAtHand DEF DriverInv, PointInv, Clearing, Reclaiming, MaySwap, Booting
<1>3. q = Empty
  <2>1. CASE preserve
    <3>1. Free(work.queue, GetLastWriteHeader(work.queue))
      BY <1>1, <2>1 DEF DriverInv, PointInv
    <3> QED BY <1>2, <2>1, <3>1, FreeFacts
  <2>2. CASE ~preserve
    BY <2>2
  <2> QED BY <2>1, <2>2
<1>4. /\ image' = [header |-> preserve => work.header, valid |-> FALSE,
                   invalid |-> FALSE, queue |-> q, data |-> work.data]
      /\ hdr' = GetLastWriteHeader(q) /\ rec' = GetLastWriteRecord(q, GetLastWriteHeader(q))
      /\ spareBuffer' = spare /\ UNCHANGED flash /\ Goto("reclaimErase")
  BY <1>1 DEF StartReclaim, Locate
<1> HIDE DEF q
<1>5. image'.queue = Empty /\ hdr' = 0 /\ rec' = 1
  <2>1. Empty \in Queues
    BY BlocksOK
  <2>2. GetLastWriteHeader(Empty) = 0 /\ GetLastWriteRecord(Empty, 0) = 1
    BY <2>1, EmptyIsFree, FreeFacts
  <2> QED BY <1>3, <1>4, <2>2
<1>6. BuffersKeep
  BY <1>2, <1>4, <1>5, EmptyIsFree DEF BuffersKeep, Keeps, FlashInv
<1>7. FlashInv'
  BY <1>2, <1>4, <1>6, FlashUnchanged
<1>8. StackInv' /\ pc' = "reclaimErase"
  BY <1>2, <1>4, GotoStack DEF Delivering
<1> QED BY <1>2, <1>4, <1>5, <1>7, <1>8
        DEF DriverInv, PointInv, FlushInv, Fresh, Settled, Working, Clearing, MaySwap, Erasing,
            Allocating, Writing, Storing, Restoring, Delivering, Booting, Reclaiming, Copying,
            Flushing

-----------------------------------------------------------------------------
LEMMA ReclaimEraseInv ==
  ASSUME TypeInv, DriverInv, ReclaimErase
  PROVE  DriverInv'
<1>1. /\ FlashInv /\ StackInv /\ ~InSpare(work.queue) /\ ~swap /\ Fresh(image.queue)
      /\ WriteSpare(Block(Erased)) /\ Goto("reclaimWrite") /\ UNCHANGED ram
  BY DEF ReclaimErase, At, DriverInv, PointInv, Clearing, Reclaiming, Copying, MaySwap, Booting
<1>2. BuffersKeep
  BY <1>1, BuffersUnchanged
<1>3. FlashInv' /\ work' = work /\ swap' = swap
  BY <1>1, <1>2, NothingPending, PlainBlocks, SpareRule
<1>4. StackInv' /\ pc' = "reclaimWrite"
  BY <1>1, GotoStack DEF Delivering
<1> QED BY <1>1, <1>3, <1>4
        DEF DriverInv, PointInv, FlushInv, Fresh, Settled, Working, Clearing, MaySwap, Erasing,
            Allocating, Writing, Storing, Restoring, Delivering, Booting, Reclaiming, Copying,
            Flushing

LEMMA ReclaimWriteInv ==
  ASSUME TypeInv, DriverInv, ReclaimWrite
  PROVE  DriverInv'
<1>1. /\ FlashInv /\ StackInv /\ ~InSpare(work.queue) /\ ~swap /\ Fresh(image.queue)
      /\ WriteSpare(image) /\ Goto("reclaimValid") /\ image' = None
      /\ UNCHANGED <<hdr, rec, args, offset, spareBuffer>>
  BY DEF ReclaimWrite, At, DriverInv, PointInv, Clearing, Reclaiming, Copying, MaySwap, Booting
<1>2. BuffersKeep
  BY <1>1, BuffersUnchanged
<1>3. Keeps(image)
  BY <1>1, EmptyIsFree DEF Fresh, Keeps
<1>4. FlashInv' /\ work' = work /\ swap' = swap /\ spare' = image
  BY <1>1, <1>2, <1>3, NothingPending, SpareRule
<1>5. StackInv' /\ pc' = "reclaimValid"
  BY <1>1, GotoStack DEF Delivering
<1> QED BY <1>1, <1>4, <1>5
        DEF DriverInv, PointInv, FlushInv, Fresh, Settled, Working, Clearing, MaySwap, Erasing,
            Allocating, Writing, Storing, Restoring, Delivering, Booting, Reclaiming, Copying,
            Flushing

LEMMA ReclaimValidInv ==
  ASSUME TypeInv, DriverInv, ReclaimValid
  PROVE  DriverInv'
<1>1. /\ FlashInv /\ StackInv /\ ~InSpare(work.queue) /\ ~swap /\ Fresh(spare.queue)
      /\ WriteSpare([spare EXCEPT !.valid = TRUE]) /\ Goto("reclaimInvalid") /\ UNCHANGED ram
  BY DEF ReclaimValid, At, DriverInv, PointInv, Clearing, Reclaiming, Copying, MaySwap, Booting
<1> DEFINE b == [spare EXCEPT !.valid = TRUE]
<1>2. BuffersKeep
  BY <1>1, BuffersUnchanged
<1>3. b.queue = spare.queue /\ b.data = spare.data
  BY BlocksAtHand, BlockParts
<1> HIDE DEF b
<1>4. Keeps(b)
  BY <1>1, <1>3, EmptyIsFree DEF Fresh, Keeps
<1>5. FlashInv' /\ work' = work /\ swap' = swap /\ spare' = b
  BY <1>1, <1>2, <1>4, NothingPending, SpareRule DEF b
<1>6. StackInv' /\ pc' = "reclaimInvalid"
  BY <1>1, GotoStack DEF Delivering
<1> QED BY <1>1, <1>3, <1>5, <1>6
        DEF DriverInv, PointInv, FlushInv, Fresh, Settled, Working, Clearing, MaySwap, Erasing,
            Allocating, Writing, Storing, Restoring, Delivering, Booting, Reclaiming, Copying,
            Flushing

LEMMA ReclaimInvalidInv ==
  ASSUME TypeInv, DriverInv, ReclaimInvalid
  PROVE  DriverInv'
<1>1. /\ FlashInv /\ StackInv /\ ~InSpare(work.queue) /\ ~swap /\ Fresh(spare.queue)
      /\ WriteWork([work EXCEPT !.invalid = TRUE]) /\ Call("flushWork", "restoreErase")
      /\ UNCHANGED ram
  BY DEF ReclaimInvalid, At, DriverInv, PointInv, Clearing, Reclaiming, Copying, MaySwap, Booting
<1> DEFINE b == [work EXCEPT !.invalid = TRUE]
<1>2. BuffersKeep
  BY <1>1, BuffersUnchanged
<1>3. b.queue = work.queue
  BY BlocksAtHand, BlockParts
<1> HIDE DEF b
<1>4. Tidy(b.queue) /\ SpareHolds(b, spare)
  BY <1>1, <1>3 DEF FlashInv, SpareHolds
<1>5. FlashInv' /\ work' = b /\ swap' = swap /\ spare' = spare
  BY <1>1, <1>2, <1>4, WorkRule DEF b
<1>6. StackInv' /\ pc' = "flushWork" /\ Top' = "restoreErase"
  BY <1>1, CallStack DEF Delivering, Labels, Restoring
<1> QED BY <1>1, <1>3, <1>5, <1>6
        DEF DriverInv, PointInv, FlushInv, Fresh, Settled, Working, Clearing, MaySwap, Erasing,
            Allocating, Writing, Storing, Restoring, Delivering, Booting, Reclaiming, Copying,
            Flushing

-----------------------------------------------------------------------------
(* FlushSpareBlockToWorkingBlock.                                          *)
LEMMA FlushSpareValidInv ==
  ASSUME TypeInv, DriverInv, FlushSpareValid
  PROVE  DriverInv'
<1>1. /\ FlashInv /\ StackInv /\ ~swap /\ FlushInv("flushWork") /\ pc = "flushWork"
      /\ WriteSpare([spare EXCEPT !.valid = TRUE]) /\ Goto("workInvalid") /\ UNCHANGED ram
  BY DEF FlushSpareValid, At, DriverInv, PointInv, MaySwap, Booting
<1> DEFINE b == [spare EXCEPT !.valid = TRUE]
<1>2. BuffersKeep
  BY <1>1, BuffersUnchanged
<1>3. /\ b.queue = spare.queue /\ b.data = spare.data
      /\ IsValidWorkSpace(spare) => IsValidWorkSpace(b)
  BY BlocksAtHand, BlockParts DEF IsValidWorkSpace
<1> HIDE DEF b
<1>4. Keeps(b) /\ SpareHolds(work, b)
  BY <1>1, <1>3 DEF FlashInv, Keeps, SpareHolds
<1>5. FlashInv' /\ work' = work /\ swap' = swap /\ spare' = b
  BY <1>1, <1>2, <1>4, SpareRule DEF b
<1>6. StackInv' /\ pc' = "workInvalid" /\ Top' = Top
  BY <1>1, GotoStack DEF Delivering
<1> QED BY <1>1, <1>3, <1>5, <1>6
        DEF DriverInv, PointInv, FlushInv, Fresh, Settled, Working, Clearing, MaySwap, Erasing,
            Allocating, Writing, Storing, Restoring, Delivering, Booting, Reclaiming, Copying,
            Flushing

LEMMA FlushWorkInvalidInv ==
  ASSUME TypeInv, DriverInv, FlushWorkInvalid
  PROVE  DriverInv'
<1>1. /\ FlashInv /\ StackInv /\ ~swap /\ FlushInv("workInvalid") /\ pc = "workInvalid"
      /\ WriteWork([work EXCEPT !.invalid = TRUE]) /\ Goto("workErase") /\ UNCHANGED ram
  BY DEF FlushWorkInvalid, At, DriverInv, PointInv, MaySwap, Booting
<1> DEFINE b == [work EXCEPT !.invalid = TRUE]
<1>2. BuffersKeep
  BY <1>1, BuffersUnchanged
<1>3. b.queue = work.queue
  BY BlocksAtHand, BlockParts
<1> HIDE DEF b
<1>4. Tidy(b.queue) /\ SpareHolds(b, spare)
  BY <1>1, <1>3 DEF FlashInv, SpareHolds, FlushInv, Flushing, Erasing
<1>5. FlashInv' /\ work' = b /\ swap' = swap /\ spare' = spare
  BY <1>1, <1>2, <1>4, WorkRule DEF b
<1>6. StackInv' /\ pc' = "workErase" /\ Top' = Top
  BY <1>1, GotoStack DEF Delivering
<1> QED BY <1>1, <1>3, <1>5, <1>6
        DEF DriverInv, PointInv, FlushInv, Fresh, Settled, Working, Clearing, MaySwap, Erasing,
            Allocating, Writing, Storing, Restoring, Delivering, Booting, Reclaiming, Copying,
            Flushing

LEMMA FlushWorkEraseInv ==
  ASSUME TypeInv, DriverInv, FlushWorkErase
  PROVE  DriverInv'
<1>1. /\ FlashInv /\ StackInv /\ ~swap /\ FlushInv("workErase") /\ pc = "workErase"
      /\ WriteWork(Block(Erased)) /\ Goto("workWrite") /\ UNCHANGED ram
  BY DEF FlushWorkErase, At, DriverInv, PointInv, MaySwap, Booting
<1>2. BuffersKeep
  BY <1>1, BuffersUnchanged
<1>3. Tidy(Block(Erased).queue) /\ SpareHolds(Block(Erased), spare) /\ Block(Erased).queue = Empty
  BY PlainBlocks DEF Keeps
<1>4. FlashInv' /\ work'.queue = Empty /\ swap' = swap /\ spare' = spare
  BY <1>1, <1>2, <1>3, WorkRule
<1>5. StackInv' /\ pc' = "workWrite" /\ Top' = Top
  BY <1>1, GotoStack DEF Delivering
<1> QED BY <1>1, <1>4, <1>5
        DEF DriverInv, PointInv, FlushInv, Fresh, Settled, Working, Clearing, MaySwap, Erasing,
            Allocating, Writing, Storing, Restoring, Delivering, Booting, Reclaiming, Copying,
            Flushing

(* The routines that flush the spare block to the working block.           *)
LEMMA FlushedFrom ==
  ASSUME TypeInv, pc \in Flushing
  PROVE  Top \in {"restoreErase", "destCompleted", "initAbort"} /\ pc \notin Outer
<1>1. pc \notin Outer
  BY DEF Flushing, Outer
<1>2. MayCall(Top, pc)
  BY <1>1, StackFacts
<1> QED BY <1>1, <1>2 DEF MayCall, Flushing, Allocating, Writing, Storing, Restoring, Reclaiming,
           Copying, Delivering, Booting

(* A record whose data is in the spare block.                              *)
LEMMA InSpareFacts ==
  ASSUME NEW q \in Queues, NEW h, Open(q, h), InSpare(q)
  PROVE  /\ Record(q) = q[h + 1] /\ Cell(q, h + 1) = q[h + 1]
         /\ q[h + 1].target \in Target /\ q[h + 1].target # None
         /\ SPARE_COMPLETED \in q[h + 1].flags /\ DEST_COMPLETED \notin q[h + 1].flags
         /\ UpdateFvState(q, h + 1, SPARE_COMPLETED) = q
<1>1. h \in Nat /\ Record(q) = q[h + 1] /\ Cell(q, h + 1) = q[h + 1]
  BY OpenFacts
<1>2. SPARE_COMPLETED \in q[h + 1].flags /\ DEST_COMPLETED \notin q[h + 1].flags
  BY <1>1 DEF InSpare
<1>3. q[h + 1].target \in Target
  <2>1. RecordOK(q[h + 1]) /\ q[h + 1] # Blank
    BY <1>2 DEF Open, Blank
  <2> QED BY <2>1 DEF RecordOK
<1>4. PICK q2 \in Queues : q2 = UpdateFvState(q, h + 1, SPARE_COMPLETED)
  <2>1. h + 1 \in Nat /\ SPARE_COMPLETED \in {1, 2, 4}
    BY <1>1 DEF SPARE_COMPLETED
  <2> QED BY <2>1, ProgramOK
<1>5. q2 = q
  BY <1>2, <1>3, <1>4, RecordFlagged DEF SPARE_COMPLETED, DEST_COMPLETED
<1> QED BY <1>1, <1>2, <1>3, <1>4, <1>5, FtwAssumption

LEMMA FlushWorkWriteInv ==
  ASSUME TypeInv, DriverInv, FlushWorkWrite
  PROVE  DriverInv'
<1> DEFINE b == [spare EXCEPT !.header = TRUE, !.valid = FALSE, !.invalid = FALSE]
           h == GetLastWriteHeader(spare.queue)
<1>1. /\ FlashInv /\ StackInv /\ ~swap /\ FlushInv("workWrite") /\ pc = "workWrite"
      /\ WriteWork(b) /\ Goto("workValid") /\ UNCHANGED ram
  BY DEF FlushWorkWrite, At, DriverInv, PointInv, MaySwap, Booting
<1>2. BuffersKeep
  BY <1>1, BuffersUnchanged
<1>3. /\ b.queue = spare.queue /\ b.header /\ ~b.invalid /\ ~IsValidWorkSpace(b)
      /\ spare.queue \in Queues /\ Keeps(spare)
  BY <1>1, BlocksAtHand DEF Blocks, IsValidWorkSpace, FlashInv
<1> HIDE DEF b
<1>4. ASSUME InSpare(spare.queue)
      PROVE  /\ IsValidWorkSpace(spare)
             /\ UpdateFvState(spare.queue, h + 1, SPARE_COMPLETED) = spare.queue
             /\ Record(spare.queue).target = WorkTarget /\ spare.data \in Value
  <2>1. spare.queue # Empty
    BY <1>4, EmptyIsFree
  <2>2. IsValidWorkSpace(spare)
    BY <1>1, <2>1, FlushedFrom DEF FlushInv, Fresh, Flushing
  <2>3. Record(spare.queue).target = WorkTarget /\ spare.data \in Value
    BY <1>3, <1>4 DEF Keeps
  <2>4. Open(spare.queue, h)
    BY <1>3, <1>4, TidyFacts DEF Keeps
  <2> QED BY <1>3, <1>4, <2>2, <2>3, <2>4, InSpareFacts
<1>5. SpareHolds(b, spare) /\ Tidy(b.queue)
  BY <1>3, <1>4 DEF SpareHolds, Keeps
<1>6. FlashInv' /\ work' = b /\ swap' = swap /\ spare' = spare
  BY <1>1, <1>2, <1>5, WorkRule
<1>7. StackInv' /\ pc' = "workValid" /\ Top' = Top
  BY <1>1, GotoStack DEF Delivering
<1> QED BY <1>1, <1>3, <1>6, <1>7
        DEF DriverInv, PointInv, FlushInv, Fresh, Settled, Working, Clearing, MaySwap, Erasing,
            Allocating, Writing, Storing, Restoring, Delivering, Booting, Reclaiming, Copying,
            Flushing

LEMMA FlushWorkValidInv ==
  ASSUME TypeInv, DriverInv, FlushWorkValid
  PROVE  DriverInv'
<1> DEFINE b == [work EXCEPT !.valid = TRUE]
<1>1. /\ FlashInv /\ StackInv /\ ~swap /\ FlushInv("workValid") /\ pc = "workValid"
      /\ WriteWork(b) /\ Return /\ UNCHANGED ram
  BY DEF FlushWorkValid, At, DriverInv, PointInv, MaySwap, Booting
<1>2. BuffersKeep
  BY <1>1, BuffersUnchanged
<1>3. work.queue = spare.queue /\ work.header /\ ~work.invalid
  BY <1>1 DEF FlushInv, Flushing
<1>4. b.queue = spare.queue /\ IsValidWorkSpace(b) /\ spare.queue \in Queues
  BY <1>3, BlocksAtHand, BlockParts
<1> HIDE DEF b
<1>5. SpareHolds(b, spare) /\ Tidy(b.queue)
  BY <1>1, <1>3, <1>4 DEF FlashInv, SpareHolds
<1>6. FlashInv' /\ work' = b /\ swap' = swap /\ spare' = spare
  BY <1>1, <1>2, <1>5, WorkRule
<1>7. StackInv' /\ pc' = Top /\ Top \in {"restoreErase", "destCompleted", "initAbort"}
  BY <1>1, FlushedFrom, ReturnStack DEF Flushing
<1>8. CASE Top = "restoreErase"
  <2>1. Fresh(work'.queue)
    BY <1>1, <1>4, <1>6, <1>8 DEF FlushInv, Flushing, Fresh
  <2>2. ~InSpare(work'.queue)
    BY <2>1, EmptyIsFree DEF Fresh
  <2> QED BY <1>1, <1>4, <1>6, <1>7, <1>8, <2>1, <2>2
          DEF DriverInv, PointInv, FlushInv, Fresh, Settled, Working, Clearing, MaySwap, Erasing,
              Allocating, Writing, Storing, Restoring, Delivering, Booting, Reclaiming, Copying,
              Flushing
<1>9. CASE Top = "destCompleted"
  <2>1. Open(work'.queue, hdr') /\ rec' = hdr' + 1 /\ InSpare(work'.queue)
    BY <1>1, <1>4, <1>6, <1>9 DEF FlushInv, Flushing
  <2>2. Placed'
    BY <1>4, <1>6, <2>1, OpenFacts DEF Placed
  <2> QED BY <1>1, <1>4, <1>6, <1>7, <1>9, <2>1, <2>2
          DEF DriverInv, PointInv, FlushInv, Settled, Working, Clearing, MaySwap, Erasing,
              Allocating, Writing, Storing, Restoring, Delivering, Booting, Reclaiming, Copying,
              Flushing
<1>10. CASE Top = "initAbort"
  BY <1>1, <1>4, <1>6, <1>7, <1>10
  DEF DriverInv, PointInv, FlushInv, Settled, Working, Clearing, MaySwap, Erasing,
      Allocating, Writing, Storing, Restoring, Delivering, Booting, Reclaiming, Copying,
      Flushing
<1> QED BY <1>7, <1>8, <1>9, <1>10

-----------------------------------------------------------------------------
(* The spare block gets back what it held.                                 *)
LEMMA RestoreEraseInv ==
  ASSUME TypeInv, DriverInv, RestoreErase
  PROVE  DriverInv'
<1>1. /\ FlashInv /\ StackInv /\ PointInv("restoreErase") /\ pc = "restoreErase"
      /\ WriteSpare(Block(Erased)) /\ Goto("restoreWrite") /\ UNCHANGED ram
  BY DEF RestoreErase, At, DriverInv
<1>2. /\ ~InSpare(work.queue) /\ ~swap /\ IsValidWorkSpace(work)
      /\ Top # "done" => Fresh(work.queue)
  BY <1>1 DEF PointInv, Clearing, MaySwap, Booting, Settled, Restoring
<1>3. BuffersKeep
  BY <1>1, BuffersUnchanged
<1>4. FlashInv' /\ work' = work /\ swap' = swap
  BY <1>1, <1>2, <1>3, NothingPending, PlainBlocks, SpareRule
<1>5. StackInv' /\ pc' = "restoreWrite" /\ Top' = Top
  BY <1>1, GotoStack DEF Delivering
<1> QED BY <1>1, <1>2, <1>4, <1>5
        DEF DriverInv, PointInv, FlushInv, Fresh, Settled, Working, Clearing, MaySwap, Erasing,
            Allocating, Writing, Storing, Restoring, Delivering, Booting, Reclaiming, Copying,
            Flushing

(* An empty queue, for the routines that ask for a reclaim.                *)
LEMMA FreshWork ==
  ASSUME TypeInv, Fresh(work.queue)
  PROVE  /\ Placed /\ Free(work.queue, hdr) /\ ~InSpare(work.queue)
         /\ Cell(work.queue, rec) = Blank /\ Record(work.queue) = Blank
<1>1. work.queue = Empty /\ hdr = 0 /\ rec = 1 /\ work.queue \in Queues
  BY BlocksAtHand DEF Fresh
<1>2. Free(work.queue, hdr)
  BY <1>1, EmptyIsFree
<1>3. Cell(work.queue, rec) = Blank
  BY <1>1, <1>2, FreeFacts
<1> QED BY <1>1, <1>2, <1>3, FreeFacts, SizeIsNat DEF Placed

LEMMA RestoreWriteInv ==
  ASSUME TypeInv, TypeInv', DriverInv, SingleWrites, RestoreWrite
  PROVE  DriverInv'
<1>1. /\ FlashInv /\ StackInv /\ PointInv("restoreWrite") /\ pc = "restoreWrite"
      /\ WriteSpare(spareBuffer) /\ Return /\ spareBuffer' = None
      /\ UNCHANGED <<hdr, rec, args, offset, image>>
  BY DEF RestoreWrite, At, DriverInv
<1>2. /\ ~InSpare(work.queue) /\ ~swap /\ IsValidWorkSpace(work)
      /\ Top # "done" => Fresh(work.queue)
  BY <1>1 DEF PointInv, Clearing, MaySwap, Booting, Settled, Restoring
<1>3. BuffersKeep
  BY <1>1, BuffersUnchanged
<1>4. Keeps(spareBuffer)
  <2>1. spareBuffer \in Blocks
    BY <1>1, BlocksAtHand DEF Finds, Restoring
  <2> QED BY <1>1, <2>1, NoneIsNoBlock DEF FlashInv
<1>5. FlashInv' /\ work' = work /\ swap' = swap
  BY <1>1, <1>2, <1>3, <1>4, NothingPending, SpareRule
<1>6. StackInv' /\ pc' = Top /\ MayCall(pc', pc) /\ pc' # "allocHeader"
  BY <1>1, ReturnStack DEF Outer
<1>7. pc' = "done" \/ pc' \in Refreshed \ {"allocHeader"}
  BY <1>1, <1>6 DEF MayCall, Allocating, Writing, Storing, Delivering, Flushing, Booting, Restoring
<1>8. CASE pc' = "done"
  BY <1>2, <1>5, <1>6, <1>8
     DEF DriverInv, PointInv, FlushInv, Settled, Working, Clearing, MaySwap, Erasing,
         Allocating, Writing, Storing, Restoring, Delivering, Booting, Reclaiming, Copying,
         Flushing
<1>9. CASE pc' \in Refreshed \ {"allocHeader"}
  <2>1. Fresh(work.queue) /\ UNCHANGED <<work, hdr, rec, args>>
    BY <1>1, <1>2, <1>5, <1>6, <1>9 DEF Refreshed
  <2>2. Placed' /\ Cell(work.queue, rec) = Blank /\ Record(work.queue) = Blank
    BY <2>1, FreshWork DEF Placed
  <2>3. pc' = "allocate" => args'.writes = 1
    <3>1. pc' = "allocate" => args' \in Args /\ args'.writes # 0
      BY DEF TypeInv, Memory, Finds, Allocating
    <3> QED BY <3>1 DEF Args, SingleWrites
  <2> QED BY <1>2, <1>5, <1>6, <1>9, <2>1, <2>2, <2>3
          DEF DriverInv, PointInv, FlushInv, Settled, Working, Clearing, MaySwap, Erasing,
              Allocating, Writing, Storing, Restoring, Delivering, Booting, Reclaiming, Copying,
              Flushing, Refreshed, Blank
<1> QED BY <1>7, <1>8, <1>9

(* FtwAllocate.                                                            *)
LEMMA AllocateInv ==
  ASSUME TypeInv, TypeInv', DriverInv, SingleWrites, Allocate
  PROVE  DriverInv'
<1>1. /\ FlashInv /\ StackInv /\ PointInv("allocate") /\ pc = "allocate"
      /\ offset' = hdr /\ UNCHANGED <<flash, hdr, rec, args, image, spareBuffer>>
  BY DEF Allocate, At, DriverInv
<1>2. IsValidWorkSpace(work) /\ Placed /\ args.writes = 1
  BY <1>1 DEF PointInv, Settled, Working, Allocating
<1>3. Return \/ (Goto("allocHeader") /\ ~Has(work.queue, hdr, HEADER_ALLOCATED))
  <2>1. hdr \in Nat /\ hdr + 2 <= Size /\ hdr + FTW_WRITE_TOTAL_SIZE(args.writes) = hdr + 2
    BY <1>2, BlocksAtHand DEF Placed, FTW_WRITE_TOTAL_SIZE
  <2>2. ~(hdr + FTW_WRITE_TOTAL_SIZE(args.writes) > Size)
    BY <2>1, SizeIsNat
  <2> QED BY <2>2 DEF Allocate
<1>4. BuffersKeep /\ FlashInv'
  BY <1>1, BuffersUnchanged, FlashUnchanged
<1>5. CASE Return
  <2>1. StackInv' /\ pc' = Top /\ MayCall(pc', pc)
    BY <1>1, <1>5, ReturnStack DEF Outer
  <2>2. pc' \in {"done", "write"}
    BY <1>1, <2>1 DEF MayCall, Allocating, Writing, Storing, Delivering, Flushing, Booting,
                      Restoring, Reclaiming, Copying
  <2> QED BY <1>1, <1>2, <1>4, <2>1, <2>2
          DEF DriverInv, PointInv, FlushInv, Settled, Working, Clearing, MaySwap, Erasing, Placed,
              Allocating, Writing, Storing, Restoring, Delivering, Booting, Reclaiming, Copying,
              Flushing
<1>6. CASE Goto("allocHeader") /\ ~Has(work.queue, hdr, HEADER_ALLOCATED)
  <2>1. StackInv' /\ pc' = "allocHeader"
    BY <1>1, <1>6, GotoStack DEF Delivering
  <2>2. Free(work.queue, hdr) /\ ~InSpare(work.queue)
    <3>1. hdr = GetLastWriteHeader(work.queue)
      BY <1>2 DEF Placed
    <3>2. Free(work.queue, hdr) /\ work.queue \in Queues
      BY <1>1, <1>6, <3>1, WorkQueueFacts, OpenFacts
    <3> QED BY <3>2, FreeFacts
  <2>3. ~swap
    BY <1>1, <2>2, NothingPending
  <2> QED BY <1>1, <1>2, <1>4, <2>1, <2>2, <2>3
          DEF DriverInv, PointInv, FlushInv, Settled, Working, Clearing, MaySwap, Erasing, Placed,
              Allocating, Writing, Storing, Restoring, Delivering, Booting, Reclaiming, Copying,
              Flushing
<1> QED BY <1>3, <1>5, <1>6

LEMMA AllocateHeaderInv ==
  ASSUME TypeInv, DriverInv, AllocateHeader
  PROVE  DriverInv'
<1>1. /\ FlashInv /\ StackInv /\ PointInv("allocHeader") /\ pc = "allocHeader"
      /\ WriteQueue(Program(work.queue, offset, {HEADER_ALLOCATED}, args.writes, None))
      /\ Goto("allocWrites") /\ UNCHANGED ram
  BY DEF AllocateHeader, At, DriverInv
<1>2. /\ IsValidWorkSpace(work) /\ Placed /\ args.writes = 1 /\ ~swap
      /\ offset = hdr /\ Free(work.queue, hdr) /\ work.queue \in Queues
  BY <1>1, BlocksAtHand
     DEF PointInv, Settled, Working, Allocating, MaySwap, Booting
<1>3. PICK q \in Queues : q = Program(work.queue, hdr, {HEADER_ALLOCATED}, 1, None)
  <2>1. {HEADER_ALLOCATED} \in SUBSET {1, 2, 4} /\ hdr \in Nat
    BY BlocksAtHand DEF HEADER_ALLOCATED
  <2> QED BY <1>2, <2>1, ProgramOK
<1>4. Open(q, hdr) /\ q[hdr + 1] = Blank
  BY <1>2, <1>3, HeaderAllocated DEF Placed
<1>5. Tidy(q) /\ ~InSpare(q) /\ hdr = GetLastWriteHeader(q)
  BY <1>4, OpenFacts DEF InSpare, Blank
<1>6. BuffersKeep
  BY <1>1, BuffersUnchanged
<1>7. /\ FlashInv' /\ work'.queue = q /\ IsValidWorkSpace(work')
      /\ spare' = spare /\ swap' = swap
  BY <1>1, <1>2, <1>3, <1>5, <1>6, QueueRule
<1>8. StackInv' /\ pc' = "allocWrites"
  BY <1>1, GotoStack DEF Delivering
<1> QED BY <1>1, <1>2, <1>4, <1>5, <1>7, <1>8
        DEF DriverInv, PointInv, FlushInv, Settled, Working, Clearing, MaySwap, Erasing, Placed,
            Allocating, Writing, Storing, Restoring, Delivering, Booting, Reclaiming, Copying,
            Flushing

LEMMA AllocateWritesInv ==
  ASSUME TypeInv, DriverInv, AllocateWrites
  PROVE  DriverInv'
<1>1. /\ FlashInv /\ StackInv /\ PointInv("allocWrites") /\ pc = "allocWrites"
      /\ WriteQueue(UpdateFvState(work.queue, offset, WRITES_ALLOCATED))
      /\ Return /\ UNCHANGED ram
  BY DEF AllocateWrites, At, DriverInv
<1>2. /\ IsValidWorkSpace(work) /\ Placed /\ ~swap /\ work.queue \in Queues
      /\ offset = hdr /\ Open(work.queue, hdr) /\ work.queue[hdr + 1] = Blank
  BY <1>1, BlocksAtHand
     DEF PointInv, Settled, Working, Allocating, MaySwap, Booting
<1>3. PICK q \in Queues : q = UpdateFvState(work.queue, hdr, WRITES_ALLOCATED)
  BY <1>2, BlocksAtHand, ProgramOK DEF WRITES_ALLOCATED
<1>4. Open(q, hdr) /\ q[hdr + 1] = Blank
  BY <1>2, <1>3, HeaderFlagged
<1>5. /\ Tidy(q) /\ ~InSpare(q) /\ hdr = GetLastWriteHeader(q) /\ Cell(q, hdr + 1) = Blank
  BY <1>4, OpenFacts DEF InSpare, Blank
<1>6. BuffersKeep
  BY <1>1, BuffersUnchanged
<1>7. /\ FlashInv' /\ work'.queue = q /\ IsValidWorkSpace(work')
      /\ spare' = spare /\ swap' = swap
  BY <1>1, <1>2, <1>3, <1>5, <1>6, QueueRule
<1>8. StackInv' /\ pc' = Top /\ MayCall(pc', pc)
  BY <1>1, ReturnStack DEF Outer
<1>9. pc' \in {"done", "write"}
  BY <1>1, <1>8 DEF MayCall, Allocating, Writing, Storing, Delivering, Flushing, Booting,
                    Restoring, Reclaiming, Copying
<1> QED BY <1>1, <1>2, <1>4, <1>5, <1>7, <1>8, <1>9
        DEF DriverInv, PointInv, FlushInv, Settled, Working, Clearing, MaySwap, Erasing, Placed,
            Allocating, Writing, Storing, Restoring, Delivering, Booting, Reclaiming, Copying,
            Flushing, Blank

-----------------------------------------------------------------------------
(* FtwWrite.                                                               *)
LEMMA WriteChecksInv ==
  ASSUME TypeInv, TypeInv', DriverInv, SingleWrites, WriteChecks
  PROVE  DriverInv'
<1>1. /\ FlashInv /\ StackInv /\ PointInv("write") /\ pc = "write"
      /\ UNCHANGED <<flash, ram>>
  BY DEF WriteChecks, At, DriverInv
<1>2. /\ IsValidWorkSpace(work) /\ Placed /\ Cell(work.queue, rec).target \in {args.target, None}
  BY <1>1 DEF PointInv, Settled, Working, Writing
<1>3. BuffersKeep /\ FlashInv'
  BY <1>1, BuffersUnchanged, FlashUnchanged
<1>4. \/ Call("allocate", "write")
      \/ Return
      \/ /\ Goto("writeRecord") /\ Cell(work.queue, hdr) # Blank
         /\ ~Has(work.queue, rec, DEST_COMPLETED) /\ ~Has(work.queue, rec, SPARE_COMPLETED)
  BY DEF WriteChecks
<1>5. CASE Call("allocate", "write")
  <2>1. StackInv' /\ pc' = "allocate" /\ Top' = "write"
    BY <1>1, <1>5, CallStack DEF Delivering, Labels, Writing
  <2>2. args'.writes = 1
    <3>1. args' \in Args /\ args'.writes # 0
      BY <2>1 DEF TypeInv, Memory, Finds, Allocating
    <3> QED BY <3>1 DEF Args, SingleWrites
  <2> QED BY <1>1, <1>2, <1>3, <2>1, <2>2
          DEF DriverInv, PointInv, FlushInv, Settled, Working, Clearing, MaySwap, Erasing, Placed,
              Allocating, Writing, Storing, Restoring, Delivering, Booting, Reclaiming, Copying,
              Flushing
<1>6. CASE Return
  <2>1. StackInv' /\ pc' = Top /\ MayCall(pc', pc)
    BY <1>1, <1>6, ReturnStack DEF Outer
  <2>2. pc' = "done"
    BY <1>1, <2>1 DEF MayCall, Allocating, Writing, Storing, Delivering, Flushing, Booting,
                      Restoring, Reclaiming, Copying
  <2> QED BY <1>1, <1>2, <1>3, <2>1, <2>2
          DEF DriverInv, PointInv, FlushInv, Settled, Working, Clearing, MaySwap, Erasing,
              Allocating, Writing, Storing, Restoring, Delivering, Booting, Reclaiming, Copying,
              Flushing
<1>7. CASE /\ Goto("writeRecord") /\ Cell(work.queue, hdr) # Blank
           /\ ~Has(work.queue, rec, DEST_COMPLETED) /\ ~Has(work.queue, rec, SPARE_COMPLETED)
  <2>1. StackInv' /\ pc' = "writeRecord"
    BY <1>1, <1>7, GotoStack DEF Delivering
  <2>2. Open(work.queue, hdr) /\ work.queue \in Queues
    BY <1>1, <1>2, <1>7, WorkQueueFacts DEF Placed
  <2>3. /\ Record(work.queue) = work.queue[hdr + 1] /\ Cell(work.queue, rec) = work.queue[hdr + 1]
        /\ SPARE_COMPLETED \notin work.queue[hdr + 1].flags
        /\ DEST_COMPLETED \notin work.queue[hdr + 1].flags
    BY <1>2, <1>7, <2>2, OpenFacts DEF Placed, Has
  <2>4. ~InSpare(work.queue) /\ ~swap
    BY <1>1, <2>3, NothingPending DEF InSpare
  <2> QED BY <1>1, <1>2, <1>3, <2>1, <2>2, <2>3, <2>4
          DEF DriverInv, PointInv, FlushInv, Settled, Working, Clearing, MaySwap, Erasing, Placed,
              Allocating, Writing, Storing, Restoring, Delivering, Booting, Reclaiming, Copying,
              Flushing
<1> QED BY <1>4, <1>5, <1>6, <1>7

(* What FtwWrite was called with.                                          *)
LEMMA WriteArgs ==
  ASSUME TypeInv, pc \in Writing
  PROVE  args.target \in Target /\ args.value \in Value
<1>1. args \in Args /\ args.target # None /\ args.value # None
  BY BlocksAtHand DEF Finds
<1> QED BY <1>1 DEF Args

LEMMA WriteRecordInv ==
  ASSUME TypeInv, DriverInv, WriteRecord
  PROVE  DriverInv'
<1> DEFINE flags == IF args.target = BootTarget THEN {BOOT_BLOCK_UPDATE} ELSE {}
<1>1. /\ FlashInv /\ StackInv /\ PointInv("writeRecord") /\ pc = "writeRecord"
      /\ WriteQueue(Program(work.queue, rec, flags, 0, args.target))
      /\ spareBuffer' = spare /\ Goto("writeErase")
      /\ UNCHANGED <<hdr, rec, args, offset, image>>
  BY DEF WriteRecord, At, DriverInv
<1>2. /\ IsValidWorkSpace(work) /\ Placed /\ ~swap /\ work.queue \in Queues
      /\ Open(work.queue, hdr) /\ Cell(work.queue, rec).target \in {args.target, None}
      /\ SPARE_COMPLETED \notin work.queue[hdr + 1].flags
      /\ DEST_COMPLETED \notin work.queue[hdr + 1].flags
  BY <1>1, BlocksAtHand DEF PointInv, Settled, Working, Writing, MaySwap, Booting
<1>3. PICK q \in Queues : q = Program(work.queue, hdr + 1, flags, 0, args.target)
  <2>1. args.target \in Target \cup {None} /\ flags \in SUBSET {1, 2, 4} /\ rec \in Nat
    BY <1>1, WriteArgs, BlocksAtHand DEF Writing, BOOT_BLOCK_UPDATE
  <2> HIDE DEF flags
  <2>2. Program(work.queue, rec, flags, 0, args.target) \in Queues
    BY <1>2, <2>1, ProgramOK
  <2> QED BY <1>2, <2>2 DEF Placed
<1>4. /\ Open(q, hdr) /\ q[hdr + 1].target = args.target
      /\ SPARE_COMPLETED \notin q[hdr + 1].flags /\ DEST_COMPLETED \notin q[hdr + 1].flags
  <2>1. args.target \in Target /\ work.queue[hdr + 1].target \in {args.target, None}
    BY <1>1, <1>2, WriteArgs, OpenFacts DEF Writing, Placed
  <2> QED BY <1>2, <1>3, <2>1, RecordWritten
<1>5. /\ Tidy(q) /\ ~InSpare(q) /\ hdr = GetLastWriteHeader(q)
  BY <1>4, OpenFacts DEF InSpare
<1>6. BuffersKeep
  BY <1>1, BuffersUnchanged
<1> HIDE DEF flags
<1>7. /\ FlashInv' /\ work'.queue = q /\ IsValidWorkSpace(work')
      /\ spare' = spare /\ swap' = swap
  BY <1>1, <1>2, <1>3, <1>5, <1>6, QueueRule DEF Placed
<1>8. StackInv' /\ pc' = "writeErase"
  BY <1>1, GotoStack DEF Delivering
<1> QED BY <1>1, <1>2, <1>4, <1>5, <1>7, <1>8
        DEF DriverInv, PointInv, FlushInv, Settled, Working, Clearing, MaySwap, Erasing, Placed,
            Allocating, Writing, Storing, Restoring, Delivering, Booting, Reclaiming, Copying,
            Flushing

LEMMA WriteEraseInv ==
  ASSUME TypeInv, DriverInv, WriteErase
  PROVE  DriverInv'
<1>1. /\ FlashInv /\ StackInv /\ PointInv("writeErase") /\ pc = "writeErase"
      /\ WriteSpare(Block(Erased)) /\ Goto("writeSpare") /\ UNCHANGED ram
  BY DEF WriteErase, At, DriverInv
<1>2. /\ IsValidWorkSpace(work) /\ Placed /\ ~swap /\ ~InSpare(work.queue)
      /\ Open(work.queue, hdr) /\ work.queue[hdr + 1].target = args.target
      /\ SPARE_COMPLETED \notin work.queue[hdr + 1].flags
      /\ DEST_COMPLETED \notin work.queue[hdr + 1].flags
  BY <1>1 DEF PointInv, Settled, Working, Writing, Storing, MaySwap, Booting, Clearing
<1>3. BuffersKeep
  BY <1>1, BuffersUnchanged
<1>4. FlashInv' /\ work' = work /\ swap' = swap
  BY <1>1, <1>2, <1>3, NothingPending, PlainBlocks, SpareRule
<1>5. StackInv' /\ pc' = "writeSpare"
  BY <1>1, GotoStack DEF Delivering
<1> QED BY <1>1, <1>2, <1>4, <1>5
        DEF DriverInv, PointInv, FlushInv, Settled, Working, Clearing, MaySwap, Erasing, Placed,
            Allocating, Writing, Storing, Restoring, Delivering, Booting, Reclaiming, Copying,
            Flushing

LEMMA WriteSpareBlockInv ==
  ASSUME TypeInv, DriverInv, WriteSpareBlock
  PROVE  DriverInv'
<1>1. /\ FlashInv /\ StackInv /\ PointInv("writeSpare") /\ pc = "writeSpare"
      /\ WriteSpare(NewContents) /\ Goto("spareCompleted") /\ UNCHANGED ram
  BY DEF WriteSpareBlock, At, DriverInv
<1>2. /\ IsValidWorkSpace(work) /\ Placed /\ ~swap /\ ~InSpare(work.queue)
      /\ Open(work.queue, hdr) /\ work.queue[hdr + 1].target = args.target
      /\ SPARE_COMPLETED \notin work.queue[hdr + 1].flags
      /\ DEST_COMPLETED \notin work.queue[hdr + 1].flags
  BY <1>1 DEF PointInv, Settled, Working, Writing, Storing, MaySwap, Booting, Clearing
<1>3. BuffersKeep
  BY <1>1, BuffersUnchanged
<1>4. /\ Keeps(NewContents) /\ NewContents.data = args.value
      /\ args.target = WorkTarget =>
           NewContents.queue = work.queue /\ IsValidWorkSpace(NewContents)
  <2>1. CASE args.target = WorkTarget
    <3> DEFINE b == [work EXCEPT !.data = args.value]
    <3>1. /\ b.queue = work.queue /\ b.data = args.value
          /\ IsValidWorkSpace(b) <=> IsValidWorkSpace(work)
      BY BlocksAtHand, BlockParts
    <3>2. NewContents = b
      BY <2>1 DEF NewContents
    <3> HIDE DEF b
    <3> QED BY <1>1, <1>2, <3>1, <3>2 DEF Keeps, FlashInv
  <2>2. CASE args.target # WorkTarget
    BY <2>2, PlainBlocks DEF NewContents
  <2> QED BY <2>1, <2>2
<1>5. FlashInv' /\ work' = work /\ swap' = swap /\ spare' = NewContents
  BY <1>1, <1>2, <1>3, <1>4, NothingPending, SpareRule
<1>6. StackInv' /\ pc' = "spareCompleted"
  BY <1>1, GotoStack DEF Delivering
<1> QED BY <1>1, <1>2, <1>4, <1>5, <1>6
        DEF DriverInv, PointInv, FlushInv, Settled, Working, Clearing, MaySwap, Erasing, Placed,
            Allocating, Writing, Storing, Restoring, Delivering, Booting, Reclaiming, Copying,
            Flushing

LEMMA SpareCompletedInv ==
  ASSUME TypeInv, DriverInv, SpareCompleted
  PROVE  DriverInv'
<1>1. /\ FlashInv /\ StackInv /\ PointInv("spareCompleted") /\ pc = "spareCompleted"
      /\ WriteQueue(UpdateFvState(work.queue, rec, SPARE_COMPLETED))
      /\ Call("writeTarget", "restoreErase") /\ UNCHANGED ram
  BY DEF SpareCompleted, At, DriverInv
<1>2. /\ IsValidWorkSpace(work) /\ Placed /\ ~swap /\ work.queue \in Queues
      /\ Open(work.queue, hdr) /\ work.queue[hdr + 1].target = args.target
      /\ DEST_COMPLETED \notin work.queue[hdr + 1].flags
      /\ spare.data = args.value
      /\ args.target = WorkTarget => spare.queue = work.queue /\ IsValidWorkSpace(spare)
  BY <1>1, BlocksAtHand
     DEF PointInv, Settled, Working, Writing, Storing, MaySwap, Booting, Clearing
<1>3. args.target \in Target /\ args.value \in Value
  BY <1>1, WriteArgs DEF Writing, Storing
<1>4. rec = hdr + 1 /\ rec \in Nat
  BY <1>2, BlocksAtHand DEF Placed
<1>5. PICK q \in Queues : q = UpdateFvState(work.queue, hdr + 1, SPARE_COMPLETED)
  BY <1>2, <1>4, ProgramOK DEF SPARE_COMPLETED
<1>6. /\ Open(q, hdr) /\ q[hdr + 1].target = args.target
      /\ SPARE_COMPLETED \in q[hdr + 1].flags /\ DEST_COMPLETED \notin q[hdr + 1].flags
  BY <1>2, <1>3, <1>5, RecordFlagged DEF SPARE_COMPLETED, DEST_COMPLETED
<1>7. Tidy(q) /\ Record(q) = q[hdr + 1] /\ hdr = GetLastWriteHeader(q) /\ InSpare(q)
  BY <1>6, OpenFacts DEF InSpare
<1>8. BuffersKeep
  BY <1>1, BuffersUnchanged
<1>9. /\ FlashInv' /\ work'.queue = q /\ IsValidWorkSpace(work') /\ spare' = spare
  BY <1>1, <1>2, <1>3, <1>4, <1>5, <1>6, <1>7, <1>8, QueueRule
<1>10. ret # <<>> /\ Top = "done"
  <2>1. ret # <<>> /\ MayCall(Top, pc)
    BY <1>1, StackFacts DEF Outer
  <2> QED BY <1>1, <2>1 DEF MayCall, Allocating, Writing, Storing, Delivering, Flushing, Booting,
             Restoring, Reclaiming, Copying
<1>11. StackInv' /\ pc' = "writeTarget" /\ Top' = "restoreErase"
  BY <1>1, <1>10, CallStack DEF Delivering, Labels, Restoring
<1> QED BY <1>1, <1>2, <1>6, <1>7, <1>9, <1>11
        DEF DriverInv, PointInv, FlushInv, Settled, Working, Clearing, MaySwap, Erasing, Placed,
            Allocating, Writing, Storing, Restoring, Delivering, Booting, Reclaiming, Copying,
            Flushing

-----------------------------------------------------------------------------
(* FtwWriteRecord: where the data of the spare block goes.                 *)
LEMMA AtTarget ==
  ASSUME TypeInv, DriverInv, pc = "writeTarget"
  PROVE  /\ FlashInv /\ StackInv /\ IsValidWorkSpace(work) /\ Placed /\ work.queue \in Queues
         /\ Open(work.queue, hdr) /\ InSpare(work.queue)
         /\ Cell(work.queue, rec) = work.queue[hdr + 1]
         /\ Record(work.queue) = work.queue[hdr + 1] /\ work.queue[hdr + 1].target # None
         /\ swap => work.queue[hdr + 1].target = BootTarget
<1>1. /\ FlashInv /\ StackInv /\ IsValidWorkSpace(work) /\ Placed /\ work.queue \in Queues
      /\ Open(work.queue, hdr) /\ InSpare(work.queue)
  BY BlocksAtHand DEF DriverInv, PointInv, Settled, Working, Delivering
<1>2. rec = hdr + 1
  BY <1>1 DEF Placed
<1> QED BY <1>1, <1>2, InSpareFacts DEF FlashInv, Swapped

LEMMA FlushToWorkInv ==
  ASSUME TypeInv, DriverInv, FlushToWork
  PROVE  DriverInv'
<1> DEFINE b == [spare EXCEPT !.queue = UpdateFvState(@, rec, SPARE_COMPLETED)]
<1>1. /\ FlashInv /\ StackInv /\ IsValidWorkSpace(work) /\ Placed /\ work.queue \in Queues
      /\ Open(work.queue, hdr) /\ InSpare(work.queue) /\ pc = "writeTarget"
      /\ Record(work.queue).target = WorkTarget /\ ~swap
  <2>1. pc = "writeTarget" /\ Cell(work.queue, rec).target = WorkTarget
    BY DEF FlushToWork, At
  <2> QED BY <2>1, AtTarget, FtwAssumption
<1>2. WriteSpare(b) /\ Call("flushWork", "destCompleted") /\ UNCHANGED ram
  BY DEF FlushToWork
<1>3. /\ spare.data \in Value /\ IsValidWorkSpace(spare)
      /\ UpdateFvState(spare.queue, rec, SPARE_COMPLETED) = work.queue
  BY <1>1 DEF FlashInv, SpareHolds, Placed
<1>4. b.queue = work.queue /\ b.data = spare.data /\ IsValidWorkSpace(b)
  <2>1. PICK q : q = UpdateFvState(spare.queue, rec, SPARE_COMPLETED)
    OBVIOUS
  <2>2. /\ [spare EXCEPT !.queue = q].queue = q /\ [spare EXCEPT !.queue = q].data = spare.data
        /\ IsValidWorkSpace([spare EXCEPT !.queue = q]) <=> IsValidWorkSpace(spare)
    BY BlocksAtHand, BlockParts
  <2>3. b = [spare EXCEPT !.queue = q]
    BY <2>1
  <2> QED BY <1>3, <2>1, <2>2, <2>3
<1> HIDE DEF b
<1>5. Keeps(b)
  BY <1>1, <1>3, <1>4 DEF Keeps, FlashInv
<1>6. SpareHolds(work, b)
  <2>1. UpdateFvState(work.queue, hdr + 1, SPARE_COMPLETED) = work.queue
    BY <1>1, InSpareFacts
  <2> QED BY <1>1, <1>3, <1>4, <2>1 DEF SpareHolds, Placed
<1>7. BuffersKeep
  BY <1>2, <1>1, BuffersUnchanged
<1>8. FlashInv' /\ work' = work /\ swap' = swap /\ spare' = b
  BY <1>1, <1>2, <1>5, <1>6, <1>7, SpareRule
<1>9. StackInv' /\ pc' = "flushWork" /\ Top' = "destCompleted"
  BY <1>1, <1>2, CallStack DEF Delivering, Labels
<1> QED BY <1>1, <1>2, <1>4, <1>8, <1>9
        DEF DriverInv, PointInv, FlushInv, Settled, Working, Clearing, MaySwap, Erasing, Placed,
            Allocating, Writing, Storing, Restoring, Delivering, Booting, Reclaiming, Copying,
            Flushing

LEMMA FlushToBootInv ==
  ASSUME TypeInv, DriverInv, FlushToBoot
  PROVE  DriverInv'
<1>1. /\ pc = "writeTarget" /\ Cell(work.queue, rec).target = BootTarget
      /\ Call("bootBlock", "destCompleted") /\ UNCHANGED <<flash, ram>>
  BY DEF FlushToBoot, At
<1>2. /\ FlashInv /\ StackInv /\ IsValidWorkSpace(work) /\ Placed
      /\ Open(work.queue, hdr) /\ InSpare(work.queue)
      /\ work.queue[hdr + 1].target = BootTarget
  BY <1>1, AtTarget
<1>3. BuffersKeep /\ FlashInv'
  BY <1>1, <1>2, BuffersUnchanged, FlashUnchanged
<1>4. StackInv' /\ pc' = "bootBlock"
  BY <1>1, <1>2, CallStack DEF Delivering, Labels
<1> QED BY <1>1, <1>2, <1>3, <1>4
        DEF DriverInv, PointInv, FlushInv, Settled, Working, Clearing, MaySwap, Erasing, Placed,
            Allocating, Writing, Storing, Restoring, Delivering, Booting, Reclaiming, Copying,
            Flushing

LEMMA FlushToTargetInv ==
  ASSUME TypeInv, DriverInv, FlushToTarget
  PROVE  DriverInv'
<1>1. /\ pc = "writeTarget" /\ Cell(work.queue, rec).target \notin {WorkTarget, BootTarget}
      /\ WriteTarget(Cell(work.queue, rec).target, Erased)
      /\ Goto("targetWrite") /\ UNCHANGED ram
  BY DEF FlushToTarget, At
<1>2. /\ FlashInv /\ StackInv /\ IsValidWorkSpace(work) /\ Placed /\ ~swap
      /\ Open(work.queue, hdr) /\ InSpare(work.queue)
      /\ work.queue[hdr + 1].target \notin {WorkTarget, BootTarget}
  BY <1>1, AtTarget
<1>3. BuffersKeep
  BY <1>1, <1>2, BuffersUnchanged
<1>4. FlashInv' /\ spare' = spare /\ work' = work /\ swap' = swap
  BY <1>1, <1>2, <1>3, TargetRule
<1>5. StackInv' /\ pc' = "targetWrite"
  BY <1>1, <1>2, GotoStack DEF Delivering
<1> QED BY <1>1, <1>2, <1>4, <1>5
        DEF DriverInv, PointInv, FlushInv, Settled, Working, Clearing, MaySwap, Erasing, Placed,
            Allocating, Writing, Storing, Restoring, Delivering, Booting, Reclaiming, Copying,
            Flushing

LEMMA FlushTargetWriteInv ==
  ASSUME TypeInv, DriverInv, FlushTargetWrite
  PROVE  DriverInv'
<1>1. /\ FlashInv /\ StackInv /\ PointInv("targetWrite") /\ pc = "targetWrite"
      /\ WriteTarget(Cell(work.queue, rec).target, spare.data)
      /\ Goto("destCompleted") /\ UNCHANGED ram
  BY DEF FlushTargetWrite, At, DriverInv
<1>2. /\ IsValidWorkSpace(work) /\ Placed /\ ~swap
      /\ Open(work.queue, hdr) /\ InSpare(work.queue)
      /\ work.queue[hdr + 1].target \notin {WorkTarget, BootTarget}
  BY <1>1 DEF PointInv, Settled, Working, Delivering, MaySwap, Booting
<1>3. Cell(work.queue, rec).target # BootTarget
  BY <1>2, BlocksAtHand, OpenFacts DEF Placed
<1>4. BuffersKeep
  BY <1>1, BuffersUnchanged
<1>5. FlashInv' /\ spare' = spare /\ work' = work /\ swap' = swap
  BY <1>1, <1>3, <1>4, TargetRule
<1>6. StackInv' /\ pc' = "destCompleted"
  BY <1>1, GotoStack DEF Delivering
<1> QED BY <1>1, <1>2, <1>5, <1>6
        DEF DriverInv, PointInv, FlushInv, Settled, Working, Clearing, MaySwap, Erasing, Placed,
            Allocating, Writing, Storing, Restoring, Delivering, Booting, Reclaiming, Copying,
            Flushing

(* FlushSpareBlockToBootBlock.                                             *)
LEMMA AtBoot ==
  ASSUME TypeInv, DriverInv, pc \in Booting
  PROVE  /\ FlashInv /\ StackInv /\ IsValidWorkSpace(work) /\ Placed /\ work.queue \in Queues
         /\ Open(work.queue, hdr) /\ InSpare(work.queue)
         /\ work.queue[hdr + 1].target = BootTarget /\ Record(work.queue).target = BootTarget
         /\ BootTarget \in DOMAIN target /\ spare.data \in Value
<1>1. /\ FlashInv /\ StackInv /\ IsValidWorkSpace(work) /\ Placed /\ work.queue \in Queues
      /\ Open(work.queue, hdr) /\ InSpare(work.queue) /\ work.queue[hdr + 1].target = BootTarget
  BY BlocksAtHand DEF DriverInv, PointInv, Settled, Working
<1>2. /\ Record(work.queue).target = BootTarget
      /\ BootTarget \in Target /\ BootTarget # None
  BY <1>1, InSpareFacts
<1>3. BootTarget \in DOMAIN target
  BY <1>2, FtwAssumption DEF TypeInv, FlashOK
<1> QED BY <1>1, <1>2, <1>3 DEF FlashInv, SpareHolds

LEMMA BootBlockInv ==
  ASSUME TypeInv, DriverInv, FlushSpareBlockToBootBlock
  PROVE  DriverInv'
<1>1. /\ pc = "bootBlock" /\ image' = spare /\ swap' = TRUE /\ Goto("bootErase")
      /\ UNCHANGED <<target, spare, work, hdr, rec, args, offset, spareBuffer>>
  BY DEF FlushSpareBlockToBootBlock, At
<1>2. /\ FlashInv /\ StackInv /\ IsValidWorkSpace(work) /\ Placed /\ work.queue \in Queues
      /\ Open(work.queue, hdr) /\ InSpare(work.queue)
      /\ work.queue[hdr + 1].target = BootTarget /\ Record(work.queue).target = BootTarget
      /\ spare.data \in Value
  BY <1>1, AtBoot DEF Booting
<1>3. BuffersKeep
  BY <1>1, <1>2, BuffersUnchanged
<1>4. FlashInv'
  BY <1>1, <1>2, <1>3 DEF FlashInv, BuffersKeep, Swapped
<1>5. StackInv' /\ pc' = "bootErase"
  BY <1>1, <1>2, GotoStack DEF Delivering
<1> QED BY <1>1, <1>2, <1>4, <1>5
        DEF DriverInv, PointInv, FlushInv, Settled, Working, Clearing, MaySwap, Erasing, Placed,
            Allocating, Writing, Storing, Restoring, Delivering, Booting, Reclaiming, Copying,
            Flushing

LEMMA FlushBootEraseInv ==
  ASSUME TypeInv, DriverInv, FlushBootErase
  PROVE  DriverInv'
<1>1. /\ pc = "bootErase" /\ WriteSpare(Block(Erased)) /\ Goto("bootWrite") /\ UNCHANGED ram
  BY DEF FlushBootErase, At
<1>2. /\ FlashInv /\ StackInv /\ IsValidWorkSpace(work) /\ Placed
      /\ Open(work.queue, hdr) /\ InSpare(work.queue)
      /\ work.queue[hdr + 1].target = BootTarget
  BY <1>1, AtBoot DEF Booting
<1>3. swap /\ image.data \in Value
  BY <1>1 DEF DriverInv, PointInv
<1>4. BuffersKeep
  BY <1>1, <1>2, BuffersUnchanged
<1>5. FlashInv' /\ spare' = spare /\ work' = work /\ swap' = swap
  BY <1>1, <1>2, <1>3, <1>4, SwapRule
<1>6. StackInv' /\ pc' = "bootWrite"
  BY <1>1, <1>2, GotoStack DEF Delivering
<1> QED BY <1>1, <1>2, <1>3, <1>5, <1>6
        DEF DriverInv, PointInv, FlushInv, Settled, Working, Clearing, MaySwap, Erasing, Placed,
            Allocating, Writing, Storing, Restoring, Delivering, Booting, Reclaiming, Copying,
            Flushing

LEMMA FlushBootWriteInv ==
  ASSUME TypeInv, DriverInv, FlushBootWrite
  PROVE  DriverInv'
<1>1. /\ pc = "bootWrite" /\ WriteSpare(image) /\ Goto("bootUnswap") /\ image' = None
      /\ UNCHANGED <<hdr, rec, args, offset, spareBuffer>>
  BY DEF FlushBootWrite, At
<1>2. /\ FlashInv /\ StackInv /\ IsValidWorkSpace(work) /\ Placed
      /\ Open(work.queue, hdr) /\ InSpare(work.queue)
      /\ work.queue[hdr + 1].target = BootTarget /\ BootTarget \in DOMAIN target
  BY <1>1, AtBoot DEF Booting
<1>3. swap /\ image.data \in Value
  BY <1>1 DEF DriverInv, PointInv
<1>4. BuffersKeep
  BY <1>1, <1>2, BuffersUnchanged
<1>5. /\ FlashInv' /\ spare' = spare /\ work' = work /\ swap' = swap
      /\ target' = [target EXCEPT ![BootTarget] = image.data]
  BY <1>1, <1>2, <1>3, <1>4, SwapRule
<1>6. target'[BootTarget] \in Value
  BY <1>2, <1>3, <1>5
<1>7. StackInv' /\ pc' = "bootUnswap"
  BY <1>1, <1>2, GotoStack DEF Delivering
<1> QED BY <1>1, <1>2, <1>3, <1>5, <1>6, <1>7
        DEF DriverInv, PointInv, FlushInv, Settled, Working, Clearing, MaySwap, Erasing, Placed,
            Allocating, Writing, Storing, Restoring, Delivering, Booting, Reclaiming, Copying,
            Flushing

LEMMA FlushBootUnswapInv ==
  ASSUME TypeInv, DriverInv, FlushBootUnswap
  PROVE  DriverInv'
<1>1. /\ pc = "bootUnswap" /\ swap' = FALSE /\ Return /\ UNCHANGED <<target, spare, work, ram>>
  BY DEF FlushBootUnswap, At
<1>2. /\ FlashInv /\ StackInv /\ IsValidWorkSpace(work) /\ Placed
      /\ Open(work.queue, hdr) /\ InSpare(work.queue)
  BY <1>1, AtBoot DEF Booting
<1>3. target[BootTarget] \in Value
  BY <1>1 DEF DriverInv, PointInv
<1>4. BuffersKeep
  BY <1>1, <1>2, BuffersUnchanged
<1>5. FlashInv'
  BY <1>1, <1>2, <1>3, <1>4 DEF FlashInv, BuffersKeep
<1>6. StackInv' /\ pc' = Top /\ MayCall(pc', pc)
  BY <1>1, <1>2, ReturnStack DEF Outer
<1>7. pc' \in {"destCompleted", "initAbortLast"}
  BY <1>1, <1>6 DEF MayCall, Allocating, Writing, Storing, Delivering, Flushing, Booting,
                    Restoring, Reclaiming, Copying
<1> QED BY <1>1, <1>2, <1>5, <1>6, <1>7
        DEF DriverInv, PointInv, FlushInv, Settled, Working, Clearing, MaySwap, Erasing, Placed,
            Allocating, Writing, Storing, Restoring, Delivering, Booting, Reclaiming, Copying,
            Flushing

-----------------------------------------------------------------------------
(* The end of a write.                                                     *)
LEMMA DestCompletedInv ==
  ASSUME TypeInv, DriverInv, DestCompleted
  PROVE  DriverInv'
<1>1. /\ FlashInv /\ StackInv /\ PointInv("destCompleted") /\ pc = "destCompleted"
      /\ WriteQueue(UpdateFvState(work.queue, rec, DEST_COMPLETED)) /\ UNCHANGED ram
  BY DEF DestCompleted, At, DriverInv
<1>2. /\ IsValidWorkSpace(work) /\ Placed /\ ~swap /\ work.queue \in Queues
      /\ Open(work.queue, hdr) /\ InSpare(work.queue)
  BY <1>1, BlocksAtHand DEF PointInv, Settled, Working, Delivering, MaySwap, Booting
<1>3. rec = hdr + 1 /\ rec \in Nat
  BY <1>2, BlocksAtHand DEF Placed
<1>4. PICK q \in Queues : q = UpdateFvState(work.queue, hdr + 1, DEST_COMPLETED)
  BY <1>2, <1>3, ProgramOK DEF DEST_COMPLETED
<1>5. /\ Open(q, hdr) /\ q[hdr + 1].flags = work.queue[hdr + 1].flags \cup {DEST_COMPLETED}
  BY <1>2, <1>4, InSpareFacts, RecordFlagged
<1>6. Tidy(q) /\ ~InSpare(q) /\ hdr = GetLastWriteHeader(q)
  BY <1>5, OpenFacts DEF InSpare
<1>7. BuffersKeep
  BY <1>1, BuffersUnchanged
<1>8. /\ FlashInv' /\ work'.queue = q /\ IsValidWorkSpace(work') /\ swap' = swap
  BY <1>1, <1>2, <1>3, <1>4, <1>6, <1>7, QueueRule
<1>9. Goto("complete")
  <2>1. IsLastRecordOfWrites(work.queue, hdr, rec)
    BY <1>2, <1>3, OpenFacts DEF IsLastRecordOfWrites, Open
  <2> QED BY <2>1 DEF DestCompleted
<1>10. StackInv' /\ pc' = "complete"
  BY <1>1, <1>9, GotoStack DEF Delivering
<1> QED BY <1>1, <1>2, <1>5, <1>6, <1>8, <1>10
        DEF DriverInv, PointInv, FlushInv, Settled, Working, Clearing, MaySwap, Erasing, Placed,
            Allocating, Writing, Storing, Restoring, Delivering, Booting, Reclaiming, Copying,
            Flushing

LEMMA WritesCompletedInv ==
  ASSUME TypeInv, DriverInv, WritesCompleted
  PROVE  DriverInv'
<1>1. /\ FlashInv /\ StackInv /\ PointInv("complete") /\ pc = "complete"
      /\ WriteQueue(UpdateFvState(work.queue, hdr, WRITES_COMPLETED)) /\ Return /\ UNCHANGED ram
  BY DEF WritesCompleted, At, DriverInv
<1>2. /\ IsValidWorkSpace(work) /\ Placed /\ ~swap /\ work.queue \in Queues
      /\ Open(work.queue, hdr)
  BY <1>1, BlocksAtHand DEF PointInv, Settled, Working, Delivering, MaySwap, Booting
<1>3. PICK q \in Queues : q = UpdateFvState(work.queue, hdr, WRITES_COMPLETED)
  BY <1>2, BlocksAtHand, ProgramOK DEF WRITES_COMPLETED
<1>4. Free(q, hdr + 2) /\ Has(q, hdr, WRITES_COMPLETED) /\ q[hdr].writes = 1
  BY <1>2, <1>3, HeaderCompleted
<1>5. Tidy(q) /\ ~InSpare(q)
  BY <1>4, FreeFacts
<1>6. BuffersKeep
  BY <1>1, BuffersUnchanged
<1>7. /\ FlashInv' /\ work'.queue = q /\ IsValidWorkSpace(work') /\ swap' = swap
  BY <1>1, <1>2, <1>3, <1>5, <1>6, QueueRule
<1>8. Past'
  BY <1>1, <1>2, <1>4, <1>7 DEF Past, Placed
<1>9. /\ StackInv' /\ pc' = Top /\ MayCall(pc', pc)
      /\ pc' = "restoreErase" => Top' = "done"
  BY <1>1, ReturnStack DEF Outer, Delivering
<1>10. pc' \in {"done", "restoreErase", "eraseSpare", "initAgain", "initLast", "initTail",
                "initDone"}
  BY <1>1, <1>9 DEF MayCall, Allocating, Writing, Storing, Delivering, Flushing, Booting,
                    Restoring, Reclaiming, Copying
<1> QED BY <1>1, <1>2, <1>5, <1>7, <1>8, <1>9, <1>10
        DEF DriverInv, PointInv, FlushInv, Settled, Working, Clearing, MaySwap, Erasing,
            Allocating, Writing, Storing, Restoring, Delivering, Booting, Reclaiming, Copying,
            Flushing

(* FtwRestart, FtwAbort and FtwGetLastWrite.                               *)
LEMMA PlacedFacts ==
  ASSUME TypeInv, FlashInv, Placed
  PROVE  /\ Free(work.queue, hdr) \/ Open(work.queue, hdr)
         /\ Has(work.queue, hdr, HEADER_ALLOCATED) <=> Open(work.queue, hdr)
         /\ ~Has(work.queue, hdr, WRITES_COMPLETED)
         /\ Cell(work.queue, rec) = Record(work.queue)
         /\ InSpare(work.queue) => Open(work.queue, hdr)
         /\ Free(work.queue, hdr) => ~InSpare(work.queue) /\ Record(work.queue) = Blank
         /\ InSpare(work.queue) <=> /\ Has(work.queue, rec, SPARE_COMPLETED)
                                    /\ ~Has(work.queue, rec, DEST_COMPLETED)
<1>1. hdr = GetLastWriteHeader(work.queue) /\ rec = hdr + 1 /\ work.queue \in Queues
  BY BlocksAtHand DEF Placed
<1>2. Cell(work.queue, rec) = Record(work.queue)
  BY <1>1, WorkQueueFacts
<1> QED BY <1>1, <1>2, WorkQueueFacts, OpenFacts, FreeFacts DEF InSpare, Has

LEMMA RestartInv ==
  ASSUME TypeInv, DriverInv, Restart
  PROVE  DriverInv'
<1>1. /\ FlashInv /\ StackInv /\ PointInv("restart") /\ pc = "restart"
      /\ UNCHANGED <<flash, ram>>
  BY DEF Restart, At, DriverInv
<1>2. IsValidWorkSpace(work) /\ Placed
  BY <1>1 DEF PointInv, Settled, Working
<1>3. BuffersKeep /\ FlashInv'
  BY <1>1, BuffersUnchanged, FlashUnchanged
<1>4. \/ Return /\ ~InSpare(work.queue)
      \/ Call("writeTarget", "eraseSpare") /\ InSpare(work.queue)
  BY <1>1, <1>2, PlacedFacts DEF Restart
<1>5. CASE Return /\ ~InSpare(work.queue)
  <2>1. StackInv' /\ pc' = Top /\ MayCall(pc', pc)
    BY <1>1, <1>5, ReturnStack DEF Outer
  <2>2. pc' \in {"done", "initAbortLast"}
    BY <1>1, <2>1 DEF MayCall, Allocating, Writing, Storing, Delivering, Flushing, Booting,
                      Restoring, Reclaiming, Copying
  <2>3. ~swap
    BY <1>1, <1>5, NothingPending
  <2> QED BY <1>1, <1>2, <1>3, <1>5, <2>1, <2>2, <2>3
          DEF DriverInv, PointInv, FlushInv, Settled, Working, Clearing, MaySwap, Erasing,
              Allocating, Writing, Storing, Restoring, Delivering, Booting, Reclaiming, Copying,
              Flushing
<1>6. CASE Call("writeTarget", "eraseSpare") /\ InSpare(work.queue)
  <2>1. StackInv' /\ pc' = "writeTarget"
    BY <1>1, <1>6, CallStack DEF Delivering, Labels
  <2>2. Open(work.queue, hdr)
    BY <1>1, <1>2, <1>6, PlacedFacts
  <2> QED BY <1>1, <1>2, <1>3, <1>6, <2>1, <2>2
          DEF DriverInv, PointInv, FlushInv, Settled, Working, Clearing, MaySwap, Erasing, Placed,
              Allocating, Writing, Storing, Restoring, Delivering, Booting, Reclaiming, Copying,
              Flushing
<1> QED BY <1>4, <1>5, <1>6

LEMMA RestartEraseSpareInv ==
  ASSUME TypeInv, DriverInv, RestartEraseSpare
  PROVE  DriverInv'
<1>1. /\ FlashInv /\ StackInv /\ PointInv("eraseSpare") /\ pc = "eraseSpare"
      /\ WriteSpare(Block(Erased)) /\ Return /\ UNCHANGED ram
  BY DEF RestartEraseSpare, At, DriverInv
<1>2. IsValidWorkSpace(work) /\ ~swap /\ ~InSpare(work.queue)
  BY <1>1 DEF PointInv, Settled, Clearing, MaySwap, Booting
<1>3. BuffersKeep
  BY <1>1, BuffersUnchanged
<1>4. FlashInv' /\ work' = work /\ swap' = swap
  BY <1>1, <1>2, <1>3, NothingPending, PlainBlocks, SpareRule
<1>5. StackInv' /\ pc' = Top /\ MayCall(pc', pc)
  BY <1>1, ReturnStack DEF Outer
<1>6. pc' \in {"done", "initAbortLast"}
  BY <1>1, <1>5 DEF MayCall, Allocating, Writing, Storing, Delivering, Flushing, Booting,
                    Restoring, Reclaiming, Copying
<1> QED BY <1>1, <1>2, <1>4, <1>5, <1>6
        DEF DriverInv, PointInv, FlushInv, Settled, Working, Clearing, MaySwap, Erasing,
            Allocating, Writing, Storing, Restoring, Delivering, Booting, Reclaiming, Copying,
            Flushing

LEMMA AbortInv ==
  ASSUME TypeInv, DriverInv, Abort
  PROVE  DriverInv'
<1>1. /\ FlashInv /\ StackInv /\ PointInv("abort") /\ pc = "abort"
      /\ UNCHANGED <<flash, ram>>
  BY DEF Abort, At, DriverInv
<1>2. IsValidWorkSpace(work) /\ Placed /\ ~swap
  BY <1>1 DEF PointInv, Settled, Working, MaySwap, Booting
<1>3. BuffersKeep /\ FlashInv'
  BY <1>1, BuffersUnchanged, FlashUnchanged
<1>4. \/ Return /\ Free(work.queue, hdr)
      \/ Goto("complete") /\ Open(work.queue, hdr)
  BY <1>1, <1>2, PlacedFacts DEF Abort
<1>5. CASE Return /\ Free(work.queue, hdr)
  <2>1. StackInv' /\ pc' = Top /\ MayCall(pc', pc)
    BY <1>1, <1>5, ReturnStack DEF Outer
  <2>2. pc' \in {"done", "initAgain", "initLast", "initTail", "initDone"}
    BY <1>1, <2>1 DEF MayCall, Allocating, Writing, Storing, Delivering, Flushing, Booting,
                      Restoring, Reclaiming, Copying
  <2>3. ~InSpare(work.queue) /\ DEST_COMPLETED \notin Record(work.queue).flags
    BY <1>1, <1>2, <1>5, PlacedFacts DEF Blank
  <2> QED BY <1>1, <1>2, <1>3, <2>1, <2>2, <2>3
          DEF DriverInv, PointInv, FlushInv, Settled, Working, Clearing, MaySwap, Erasing, Placed,
              Allocating, Writing, Storing, Restoring, Delivering, Booting, Reclaiming, Copying,
              Flushing
<1>6. CASE Goto("complete") /\ Open(work.queue, hdr)
  <2>1. StackInv' /\ pc' = "complete"
    BY <1>1, <1>6, GotoStack DEF Delivering
  <2> QED BY <1>1, <1>2, <1>3, <1>6, <2>1
          DEF DriverInv, PointInv, FlushInv, Settled, Working, Clearing, MaySwap, Erasing, Placed,
              Allocating, Writing, Storing, Restoring, Delivering, Booting, Reclaiming, Copying,
              Flushing
<1> QED BY <1>4, <1>5, <1>6

LEMMA GetLastWriteInv ==
  ASSUME TypeInv, DriverInv, GetLastWrite
  PROVE  DriverInv'
<1>1. /\ FlashInv /\ StackInv /\ PointInv("getLastWrite") /\ pc = "getLastWrite"
      /\ UNCHANGED <<flash, ram>>
  BY DEF GetLastWrite, At, DriverInv
<1>2. IsValidWorkSpace(work) /\ Placed
  BY <1>1 DEF PointInv, Settled, Working
<1>3. BuffersKeep /\ FlashInv'
  BY <1>1, BuffersUnchanged, FlashUnchanged
<1>4. Return \/ (Goto("abort") /\ ~InSpare(work.queue))
  BY <1>1, <1>2, PlacedFacts DEF GetLastWrite, Goto, LastRecordCompleted, FirstRecordNotStarted
<1>5. CASE Return
  <2>1. StackInv' /\ pc' = Top /\ MayCall(pc', pc)
    BY <1>1, <1>5, ReturnStack DEF Outer
  <2>2. pc' = "done"
    BY <1>1, <2>1 DEF MayCall, Allocating, Writing, Storing, Delivering, Flushing, Booting,
                      Restoring, Reclaiming, Copying
  <2> QED BY <1>1, <1>2, <1>3, <2>1, <2>2
          DEF DriverInv, PointInv, FlushInv, Settled, Working, Clearing, MaySwap, Erasing,
              Allocating, Writing, Storing, Restoring, Delivering, Booting, Reclaiming, Copying,
              Flushing
<1>6. CASE Goto("abort") /\ ~InSpare(work.queue)
  <2>1. StackInv' /\ pc' = "abort" /\ ~swap
    BY <1>1, <1>6, GotoStack, NothingPending DEF Delivering
  <2> QED BY <1>1, <1>2, <1>3, <1>6, <2>1
          DEF DriverInv, PointInv, FlushInv, Settled, Working, Clearing, MaySwap, Erasing, Placed,
              Allocating, Writing, Storing, Restoring, Delivering, Booting, Reclaiming, Copying,
              Flushing
<1> QED BY <1>4, <1>5, <1>6

-----------------------------------------------------------------------------
(* WorkSpaceRefresh asks for a reclaim only when the queue has no open      *)
(* write; the routine that follows finds the pointers in place.            *)
LEMMA RefreshInv ==
  ASSUME TypeInv, DriverInv, UNCHANGED <<flash, image, spareBuffer>>,
         NEW l \in {"initWorkSpace", "initFirst", "allocate", "write", "restart", "abort",
                    "getLastWrite"},
         NEW r, r = <<>> \/ \E c : r = <<c>> /\ c \notin {"write", "allocHeader", "restoreErase"},
         Refresh(l, r),
         l # "initWorkSpace" => IsValidWorkSpace(work),
         l = "abort" => ~swap,
         l = "allocate" => args'.writes = 1 /\ r # <<>>,
         l = "write" => Cell(work.queue, LastRecord).target \in {args'.target, None}
  PROVE  DriverInv'
<1> DEFINE h == GetLastWriteHeader(work.queue)
<1>1. FlashInv /\ FlashInv'
  <2>1. FlashInv
    BY DEF DriverInv
  <2> QED BY <2>1, BuffersUnchanged, FlashUnchanged
<1>2. /\ h \in 0 .. Size /\ GetLastWriteRecord(work.queue, h) = h + 1
      /\ work.queue \in Queues /\ LastRecord = h + 1
      /\ h + 2 > Size => Free(work.queue, h)
  BY <1>1, WorkQueueFacts DEF LastRecord
<1>3. CASE h + 2 > Size
  <2>1. pc' = "reclaim" /\ ret' = Append(r, l)
    BY <1>3 DEF Refresh
  <2>2. ~InSpare(work.queue) /\ ~swap
    BY <1>1, <1>2, <1>3, FreeFacts, NothingPending
  <2>3. StackInv'
    <3>1. CASE r = <<>>
      <4>1. ret' = <<l>>
        BY <2>1, <3>1
      <4> QED BY <4>1, ShortStack
    <3>2. ASSUME NEW c, r = <<c>>, c \notin {"write", "allocHeader", "restoreErase"}
          PROVE  StackInv'
      <4>1. ret' = Append(<<c>>, l)
        BY <2>1, <3>2
      <4>2. {c, l} \cap {"allocHeader", "restoreErase"} = {}
        BY <3>2
      <4> QED BY <4>1, <4>2, ShortStack
    <3> QED BY <3>1, <3>2
  <2> QED BY <1>1, <1>2, <1>3, <2>1, <2>2, <2>3
          DEF DriverInv, PointInv, FlushInv, Settled, Working, Clearing, MaySwap, Erasing,
              Allocating, Writing, Storing, Restoring, Delivering, Booting, Reclaiming, Copying,
              Flushing
<1>4. CASE ~(h + 2 > Size)
  <2>1. pc' = l /\ ret' = r /\ hdr' = h /\ rec' = h + 1
    BY <1>2, <1>4 DEF Refresh, Locate
  <2>2. hdr' + 2 <= Size
    BY <1>2, <1>4, <2>1, SizeIsNat
  <2>3. StackInv' /\ (l = "allocate" => Top' # "write")
    BY ShortStack, <2>1
  <2> HIDE DEF h
  <2>4. Placed'
    BY <2>1, <2>2 DEF Placed, h
  <2>5. l = "write" => Cell(work'.queue, rec').target \in {args'.target, None}
    BY <1>2, <2>1
  <2> QED BY <1>1, <2>1, <2>3, <2>4, <2>5
          DEF DriverInv, PointInv, FlushInv, Settled, Working, Clearing, MaySwap, Erasing,
              Allocating, Writing, Storing, Restoring, Delivering, Booting, Reclaiming, Copying,
              Flushing
<1> QED BY <1>3, <1>4

(* InitFtwProtocol.                                                        *)
LEMMA InitRefreshInv ==
  ASSUME TypeInv, DriverInv, InitRefresh
  PROVE  DriverInv'
<1>1. pc = "off" /\ UNCHANGED <<flash, args, offset, image, spareBuffer>> /\ ret = <<>>
  BY StackFacts DEF InitRefresh, At, Outer
<1>2. CASE Refresh("initWorkSpace", <<>>)
  BY <1>1, <1>2, RefreshInv
<1>3. CASE work = Block(Torn) /\ Call("reclaim", "initWorkSpace")
  <2>1. pc' = "reclaim" /\ ret' = <<"initWorkSpace">>
    BY <1>1, <1>3 DEF Call
  <2>2. StackInv'
    BY <2>1, ShortStack
  <2>3. FlashInv
    BY DEF DriverInv
  <2>4. FlashInv'
    BY <1>1, <2>3, BuffersUnchanged, FlashUnchanged
  <2>5. work.queue = Empty /\ work.queue \in Queues
    BY <1>3, PlainBlocks, BlocksAtHand
  <2>6. Free(work.queue, 0) /\ GetLastWriteHeader(work.queue) = 0 /\ ~InSpare(work.queue)
    BY <2>5, EmptyIsFree, FreeFacts
  <2>7. ~swap
    BY <2>3, <2>6, NothingPending
  <2> QED BY <1>1, <2>1, <2>2, <2>4, <2>6, <2>7
          DEF DriverInv, PointInv, FlushInv, Settled, Working, Clearing, MaySwap, Erasing,
              Allocating, Writing, Storing, Restoring, Delivering, Booting, Reclaiming, Copying,
              Flushing
<1> QED BY <1>2, <1>3 DEF InitRefresh

LEMMA InitWorkSpaceInv ==
  ASSUME TypeInv, DriverInv, InitWorkSpace
  PROVE  DriverInv'
<1>1. /\ FlashInv /\ StackInv /\ PointInv("initWorkSpace") /\ pc = "initWorkSpace"
      /\ UNCHANGED <<flash, ram>>
  BY DEF InitWorkSpace, At, DriverInv
<1>2. Placed
  BY <1>1 DEF PointInv, Working
<1>3. BuffersKeep /\ FlashInv'
  BY <1>1, BuffersUnchanged, FlashUnchanged
<1>4. CASE IsValidWorkSpace(work)
  <2>1. Goto("initFirst")
    BY <1>4 DEF InitWorkSpace
  <2>2. StackInv' /\ pc' = "initFirst"
    BY <1>1, <2>1, GotoStack DEF Delivering
  <2> QED BY <1>1, <1>2, <1>3, <1>4, <2>2
          DEF DriverInv, PointInv, FlushInv, Settled, Working, Clearing, MaySwap, Erasing, Placed,
              Allocating, Writing, Storing, Restoring, Delivering, Booting, Reclaiming, Copying,
              Flushing
<1>5. CASE ~IsValidWorkSpace(work) /\ IsValidWorkSpace(spare)
  <2>1. Call("flushWork", "initAbort")
    BY <1>5 DEF InitWorkSpace
  <2>2. StackInv' /\ pc' = "flushWork" /\ Top' = "initAbort"
    BY <1>1, <2>1, CallStack DEF Delivering, Labels, Outer
  <2>3. ~swap /\ (InSpare(work.queue) => Record(work.queue).target = WorkTarget)
    BY <1>1, <1>5 DEF FlashInv, Swapped, SpareHolds
  <2> QED BY <1>1, <1>3, <1>5, <2>2, <2>3
          DEF DriverInv, PointInv, FlushInv, Settled, Working, Clearing, MaySwap, Erasing,
              Allocating, Writing, Storing, Restoring, Delivering, Booting, Reclaiming, Copying,
              Flushing
<1>6. CASE ~IsValidWorkSpace(work) /\ ~IsValidWorkSpace(spare)
  <2>1. Call("format", "initFirst")
    BY <1>6 DEF InitWorkSpace
  <2>2. StackInv' /\ pc' = "format"
    BY <1>1, <2>1, CallStack DEF Delivering, Labels, Outer
  <2>3. ~swap /\ ~InSpare(work.queue)
    BY <1>1, <1>6 DEF FlashInv, Swapped, SpareHolds
  <2> QED BY <1>1, <1>3, <2>2, <2>3
          DEF DriverInv, PointInv, FlushInv, Settled, Working, Clearing, MaySwap, Erasing,
              Allocating, Writing, Storing, Restoring, Delivering, Booting, Reclaiming, Copying,
              Flushing
<1> QED BY <1>4, <1>5, <1>6

LEMMA InitAbortInv ==
  ASSUME TypeInv, DriverInv, InitAbort
  PROVE  DriverInv'
<1>1. /\ pc \in {"initAbort", "initAgain", "initAbortLast"}
      /\ UNCHANGED <<flash, args, offset, image, spareBuffer>>
      /\ \/ Refresh("abort", <<"initAgain">>) \/ Refresh("initFirst", <<>>)
         \/ Refresh("abort", <<"initDone">>)
  BY DEF InitAbort, At
<1>2. IsValidWorkSpace(work) /\ ~swap
  BY <1>1 DEF DriverInv, PointInv, Settled, MaySwap, Booting
<1> QED BY <1>1, <1>2, RefreshInv

LEMMA InitFirstInv ==
  ASSUME TypeInv, DriverInv, InitFirst
  PROVE  DriverInv'
<1>1. /\ FlashInv /\ StackInv /\ PointInv("initFirst") /\ pc = "initFirst"
      /\ UNCHANGED <<flash, args, offset, image, spareBuffer>>
  BY DEF InitFirst, At, DriverInv
<1>2. IsValidWorkSpace(work) /\ Placed
  BY <1>1 DEF PointInv, Settled, Working
<1>3. CASE FirstRecordNotStarted
  <2>1. Refresh("abort", <<"initLast">>)
    BY <1>3 DEF InitFirst
  <2>2. ~swap
    <3>1. ~InSpare(work.queue)
      BY <1>1, <1>2, <1>3, PlacedFacts DEF FirstRecordNotStarted
    <3> QED BY <1>1, <3>1, NothingPending
  <2> QED BY <1>1, <1>2, <2>1, <2>2, RefreshInv
<1>4. CASE ~FirstRecordNotStarted
  <2>1. Goto("initLast") /\ UNCHANGED <<hdr, rec>>
    BY <1>4 DEF InitFirst
  <2>2. StackInv' /\ pc' = "initLast"
    BY <1>1, <2>1, GotoStack DEF Delivering
  <2>3. BuffersKeep /\ FlashInv'
    BY <1>1, BuffersUnchanged, FlashUnchanged
  <2> QED BY <1>1, <1>2, <2>1, <2>2, <2>3
          DEF DriverInv, PointInv, FlushInv, Settled, Working, Clearing, MaySwap, Erasing, Placed,
              Allocating, Writing, Storing, Restoring, Delivering, Booting, Reclaiming, Copying,
              Flushing
<1> QED BY <1>3, <1>4

LEMMA InitLastInv ==
  ASSUME TypeInv, DriverInv, InitLast
  PROVE  DriverInv'
<1>1. /\ FlashInv /\ StackInv /\ PointInv("initLast") /\ pc = "initLast"
      /\ UNCHANGED <<flash, args, offset, image, spareBuffer>>
  BY DEF InitLast, At, DriverInv
<1>2. IsValidWorkSpace(work) /\ (Placed \/ Past)
  BY <1>1 DEF PointInv, Settled
<1>3. CASE LastRecordCompleted
  <2>1. Refresh("abort", <<"initTail">>)
    BY <1>3 DEF InitLast
  <2>2. ~swap
    <3>1. Placed
      BY <1>2, <1>3 DEF LastRecordCompleted, Past
    <3>2. ~InSpare(work.queue)
      BY <1>1, <1>3, <3>1, PlacedFacts DEF LastRecordCompleted
    <3> QED BY <1>1, <3>2, NothingPending
  <2> QED BY <1>1, <1>2, <2>1, <2>2, RefreshInv
<1>4. CASE ~LastRecordCompleted
  <2>1. Goto("initTail") /\ UNCHANGED <<hdr, rec>>
    BY <1>4 DEF InitLast
  <2>2. StackInv' /\ pc' = "initTail"
    BY <1>1, <2>1, GotoStack DEF Delivering
  <2>3. BuffersKeep /\ FlashInv'
    BY <1>1, BuffersUnchanged, FlashUnchanged
  <2>4. Placed => DEST_COMPLETED \notin Record(work.queue).flags
    <3>1. SUFFICES ASSUME Placed, DEST_COMPLETED \in Record(work.queue).flags PROVE FALSE
      OBVIOUS
    <3>2. Open(work.queue, hdr) /\ Has(work.queue, rec, DEST_COMPLETED)
      BY <1>1, <3>1, PlacedFacts DEF Blank, Has
    <3>3. IsLastRecordOfWrites(work.queue, hdr, rec)
      BY <3>1, <3>2, BlocksAtHand, OpenFacts DEF IsLastRecordOfWrites, Open, Placed
    <3> QED BY <1>1, <1>4, <3>1, <3>2, <3>3, PlacedFacts DEF LastRecordCompleted
  <2> QED BY <1>1, <1>2, <2>1, <2>2, <2>3, <2>4
          DEF DriverInv, PointInv, FlushInv, Settled, Working, Clearing, MaySwap, Erasing,
              Placed, Past,
              Allocating, Writing, Storing, Restoring, Delivering, Booting, Reclaiming, Copying,
              Flushing
<1> QED BY <1>3, <1>4

LEMMA InitTailInv ==
  ASSUME TypeInv, DriverInv, InitTail
  PROVE  DriverInv'
<1> DEFINE used == IF Cell(work.queue, hdr).flags = {} THEN 0
                     ELSE FTW_WRITE_TOTAL_SIZE(Cell(work.queue, hdr).writes)
<1>1. /\ FlashInv /\ StackInv /\ PointInv("initTail") /\ pc = "initTail"
      /\ UNCHANGED <<flash, ram>>
  BY DEF InitTail, At, DriverInv
<1>2. /\ IsValidWorkSpace(work)
      /\ Past \/ (Placed /\ DEST_COMPLETED \notin Record(work.queue).flags)
  BY <1>1 DEF PointInv, Settled
<1>3. BuffersKeep /\ FlashInv'
  BY <1>1, BuffersUnchanged, FlashUnchanged
<1>4. hdr \in Nat /\ work.queue \in Queues /\ hdr < Size /\ Cell(work.queue, hdr) = work.queue[hdr]
  BY <1>2, BlocksAtHand, SizeIsNat DEF Past, Placed, Cell
<1>5. \A p \in hdr + used .. Size - 1 : work.queue[p] = Blank
  <2>1. CASE used = 2 /\ BlankFrom(work.queue, hdr + 2)
    BY <1>4, <2>1, SizeIsNat DEF BlankFrom
  <2>2. CASE used = 0 /\ BlankFrom(work.queue, hdr)
    BY <1>4, <2>2, SizeIsNat DEF BlankFrom
  <2>3. CASE Past
    <3>1. used = 2
      BY <1>4, <2>3 DEF Past, Has, FTW_WRITE_TOTAL_SIZE
    <3> QED BY <2>1, <2>3, <3>1 DEF Past, Free
  <2>4. CASE Placed /\ Free(work.queue, hdr)
    <3>1. used = 0
      BY <1>4, <2>4, FreeFacts DEF Blank
    <3> QED BY <2>2, <2>4, <3>1 DEF Free
  <2>5. CASE Placed /\ Open(work.queue, hdr)
    <3>1. used = 2
      BY <1>4, <2>5 DEF Open, FTW_WRITE_TOTAL_SIZE
    <3> QED BY <2>1, <2>5, <3>1 DEF Open
  <2> QED BY <1>1, <1>2, <2>3, <2>4, <2>5, PlacedFacts
<1>6. Goto("initRestart")
  BY <1>5 DEF InitTail
<1>7. StackInv' /\ pc' = "initRestart"
  BY <1>1, <1>6, GotoStack DEF Delivering
<1> HIDE DEF used
<1> QED BY <1>1, <1>2, <1>3, <1>7
        DEF DriverInv, PointInv, FlushInv, Settled, Working, Clearing, MaySwap, Erasing,
            Placed, Past,
            Allocating, Writing, Storing, Restoring, Delivering, Booting, Reclaiming, Copying,
            Flushing

LEMMA InitRestartInv ==
  ASSUME TypeInv, DriverInv, InitRestart
  PROVE  DriverInv'
<1> DEFINE isBoot  == Has(work.queue, rec, BOOT_BLOCK_UPDATE)
           pending == /\ ~Has(work.queue, hdr, WRITES_COMPLETED)
                      /\ Has(work.queue, rec, SPARE_COMPLETED)
<1>1. /\ FlashInv /\ StackInv /\ PointInv("initRestart") /\ pc = "initRestart"
      /\ UNCHANGED <<flash, args, offset, image, spareBuffer>> /\ work.queue \in Queues
  BY BlocksAtHand DEF InitRestart, At, DriverInv
<1>2. /\ IsValidWorkSpace(work)
      /\ Past \/ (Placed /\ DEST_COMPLETED \notin Record(work.queue).flags)
  BY <1>1 DEF PointInv, Settled
<1>3. BuffersKeep /\ FlashInv'
  BY <1>1, BuffersUnchanged, FlashUnchanged
<1>4. pending => /\ Placed /\ InSpare(work.queue) /\ Open(work.queue, hdr)
                 /\ work.queue[hdr + 1].target \in Target
                 /\ isBoot <=> work.queue[hdr + 1].target = BootTarget
                 /\ Record(work.queue) = work.queue[hdr + 1]
  <2>1. SUFFICES ASSUME pending
                 PROVE  /\ Placed /\ InSpare(work.queue) /\ Open(work.queue, hdr)
                        /\ work.queue[hdr + 1].target \in Target
                        /\ isBoot <=> work.queue[hdr + 1].target = BootTarget
                        /\ Record(work.queue) = work.queue[hdr + 1]
    OBVIOUS
  <2>2. Placed /\ DEST_COMPLETED \notin Record(work.queue).flags
    BY <1>2, <2>1 DEF Past
  <2>3. InSpare(work.queue) /\ Open(work.queue, hdr)
    BY <1>1, <2>1, <2>2, PlacedFacts DEF Has
  <2>4. /\ work.queue[hdr + 1].target \in Target /\ Record(work.queue) = work.queue[hdr + 1]
        /\ SPARE_COMPLETED \in work.queue[hdr + 1].flags
        /\ Cell(work.queue, rec) = work.queue[hdr + 1]
    BY <1>1, <2>2, <2>3, InSpareFacts DEF Placed
  <2>5. isBoot <=> work.queue[hdr + 1].target = BootTarget
    <3>1. RecordOK(work.queue[hdr + 1]) /\ work.queue[hdr + 1] # Blank
      BY <2>3, <2>4 DEF Open, Blank
    <3> QED BY <2>4, <3>1 DEF RecordOK, Has
  <2> QED BY <2>2, <2>3, <2>4, <2>5
<1>5. ~pending => ~InSpare(work.queue)
  <2>1. CASE Past
    BY <1>1, <2>1, FreeFacts DEF Past
  <2>2. CASE Placed
    BY <1>1, <2>2, PlacedFacts
  <2> QED BY <1>2, <2>1, <2>2
<1>6. \/ ~pending /\ Goto("initDone") /\ UNCHANGED <<hdr, rec>>
      \/ pending /\ isBoot /\ Call("bootBlock", "initAbortLast") /\ UNCHANGED <<hdr, rec>>
      \/ pending /\ BootTarget = None /\ isBoot
      \/ pending /\ ~isBoot /\ Refresh("restart", <<"initAbortLast">>)
      \/ pending /\ ~isBoot /\ Refresh("abort", <<"initDone">>)
  BY DEF InitRestart
<1> HIDE DEF pending, isBoot
<1>7. CASE ~pending /\ Goto("initDone") /\ UNCHANGED <<hdr, rec>>
  <2>1. StackInv' /\ pc' = "initDone"
    BY <1>1, <1>7, GotoStack DEF Delivering
  <2>2. ~InSpare(work.queue) /\ ~swap
    BY <1>1, <1>5, <1>7, NothingPending
  <2> QED BY <1>1, <1>2, <1>3, <2>1, <2>2
          DEF DriverInv, PointInv, FlushInv, Settled, Working, Clearing, MaySwap, Erasing,
              Allocating, Writing, Storing, Restoring, Delivering, Booting, Reclaiming, Copying,
              Flushing
<1>8. CASE pending /\ isBoot /\ Call("bootBlock", "initAbortLast") /\ UNCHANGED <<hdr, rec>>
  <2>1. StackInv' /\ pc' = "bootBlock"
    BY <1>1, <1>8, CallStack DEF Delivering, Labels, Outer
  <2> QED BY <1>1, <1>2, <1>3, <1>4, <1>8, <2>1
          DEF DriverInv, PointInv, FlushInv, Settled, Working, Clearing, MaySwap, Erasing, Placed,
              Allocating, Writing, Storing, Restoring, Delivering, Booting, Reclaiming, Copying,
              Flushing
<1>9. ~(pending /\ BootTarget = None /\ isBoot)
  BY <1>4, FtwAssumption
<1>10. CASE pending /\ ~isBoot /\ Refresh("restart", <<"initAbortLast">>)
  BY <1>1, <1>2, <1>10, RefreshInv
<1>11. CASE pending /\ ~isBoot /\ Refresh("abort", <<"initDone">>)
  <2>1. ~swap
    BY <1>1, <1>4, <1>11 DEF FlashInv, Swapped
  <2> QED BY <1>1, <1>2, <1>11, <2>1, RefreshInv
<1> QED BY <1>6, <1>7, <1>8, <1>9, <1>10, <1>11

-----------------------------------------------------------------------------
(* The services.                                                           *)
LEMMA RequestInv ==
  ASSUME TypeInv, DriverInv, SingleWrites, Request
  PROVE  DriverInv'
<1>1. FlashInv
  BY DEF DriverInv
<1>2. ASSUME NEW l \in {"allocate", "write", "restart", "abort", "getLastWrite"},
             NEW t, NEW v, NEW n, Service(l, t, v, n),
             l = "allocate" => n = 1,
             l = "abort" => ~swap,
             l = "write" => Cell(work.queue, LastRecord).target \in {t, None}
      PROVE  DriverInv'
  <2>1. /\ args' = [target |-> t, value |-> v, writes |-> n]
        /\ Refresh(l, <<"done">>) /\ UNCHANGED <<flash, offset, image, spareBuffer>>
        /\ IsValidWorkSpace(work)
    BY <1>2 DEF Service, Idle, SingleWrites
  <2>2. <<"done">> # <<>> /\ \E c : <<"done">> = <<c>> /\ c \notin {"write", "allocHeader", "restoreErase"}
    OBVIOUS
  <2>3. args'.writes = n /\ args'.target = t
    BY <2>1
  <2> QED BY <1>2, <2>1, <2>2, <2>3, RefreshInv
<1>3. ASSUME NEW n \in Counts, FtwAllocate(n) PROVE DriverInv'
  BY <1>2, <1>3 DEF FtwAllocate, SingleWrites
<1>4. ASSUME NEW t \in Target, NEW v \in Value, FtwWrite(t, v) PROVE DriverInv'
  BY <1>2, <1>4 DEF FtwWrite
<1>5. CASE FtwRestart \/ FtwGetLastWrite
  BY <1>2, <1>5 DEF FtwRestart, FtwGetLastWrite
<1>6. CASE FtwAbort
  <2>1. ~swap
    BY <1>1, <1>6, UnfinishedIsInSpare, NothingPending DEF FtwAbort
  <2> QED BY <1>2, <1>6, <2>1 DEF FtwAbort
<1> QED BY <1>3, <1>4, <1>5, <1>6 DEF Request

LEMMA DoneInv ==
  ASSUME TypeInv, DriverInv, Done
  PROVE  DriverInv'
<1>1. /\ pc \in {"done", "initDone"} /\ Goto("idle") /\ UNCHANGED flash
      /\ image' = None /\ spareBuffer' = None /\ FlashInv /\ StackInv
  BY DEF Done, Forget, At, DriverInv
<1>2. FlashInv'
  BY <1>1, BuffersUnchanged, FlashUnchanged
<1>3. StackInv' /\ pc' = "idle"
  BY <1>1, GotoStack DEF Delivering
<1> QED BY <1>2, <1>3
        DEF DriverInv, PointInv, FlushInv, Settled, Working, Clearing, MaySwap, Erasing,
            Allocating, Writing, Storing, Restoring, Delivering, Booting, Reclaiming, Copying,
            Flushing

(* Failures.  The spare block is only written while nothing depends on it, *)
(* or, with the top swap bit set, in the place of the boot block.          *)
LEMMA InterruptedInv ==
  ASSUME TypeInv, DriverInv, BuffersKeep, Interrupted
  PROVE  FlashInv'
<1>1. FlashInv /\ PointInv(pc)
  BY DEF DriverInv
<1>2. CASE UNCHANGED flash
  BY <1>1, <1>2, FlashUnchanged
<1>3. CASE pc \in SpareWrites /\ WriteSpare(Block(Torn)) /\ swap
  BY <1>1, <1>3, SwapRule
<1>4. CASE pc \in SpareWrites /\ WriteSpare(Block(Torn)) /\ ~swap
  <2>1. ~InSpare(work.queue)
    BY <1>1, <1>4 DEF SpareWrites, PointInv, Clearing, Reclaiming, Copying, Restoring, Storing
  <2> QED BY <1>1, <1>4, <2>1, NothingPending, PlainBlocks, SpareRule
<1>5. CASE pc \in {"workErase", "workWrite"} /\ WriteWork(Block(Torn))
  <2>1. ~swap
    BY <1>1, <1>5 DEF PointInv, MaySwap, Booting
  <2>2. Tidy(Block(Torn).queue) /\ SpareHolds(Block(Torn), spare)
    BY PlainBlocks DEF Keeps
  <2> QED BY <1>1, <1>5, <2>1, <2>2, WorkRule
<1>6. CASE /\ At("targetWrite")
           /\ WriteTarget(Cell(work.queue, rec).target, Torn)
  <2>1. Cell(work.queue, rec).target # BootTarget
    <3>1. /\ Placed /\ Open(work.queue, hdr) /\ work.queue[hdr + 1].target # BootTarget
          /\ work.queue \in Queues
      BY <1>1, <1>6, BlocksAtHand DEF PointInv, At, Working, Delivering
    <3> QED BY <3>1, OpenFacts DEF Placed
  <2> QED BY <1>1, <1>6, <2>1, TargetRule
<1>7. CASE /\ Cell(work.queue, rec).target \notin {WorkTarget, BootTarget}
           /\ WriteTarget(Cell(work.queue, rec).target, Torn)
  BY <1>1, <1>7, TargetRule
<1> QED BY <1>2, <1>3, <1>4, <1>5, <1>6, <1>7 DEF Interrupted

LEMMA FailuresInv ==
  ASSUME TypeInv, DriverInv, PowerFailure \/ DeviceError
  PROVE  DriverInv'
<1>1. /\ Interrupted /\ pc' \in {"off", "done"} /\ ret' = <<>>
      /\ image' \in {image, None} /\ spareBuffer' \in {spareBuffer, None}
  BY DEF PowerFailure, DeviceError, Forget
<1>2. FlashInv'
  <2>1. FlashInv
    BY DEF DriverInv
  <2> QED BY <1>1, <2>1, BuffersUnchanged, InterruptedInv
<1>3. StackInv'
  BY <1>1, ShortStack
<1> QED BY <1>1, <1>2, <1>3
        DEF DriverInv, PointInv, FlushInv, Settled, Working, Clearing, MaySwap, Erasing,
            Allocating, Writing, Storing, Restoring, Delivering, Booting, Reclaiming, Copying,
            Flushing

-----------------------------------------------------------------------------
LEMMA InvAtStart == Init => DriverInv
<1> SUFFICES ASSUME Init PROVE DriverInv
  OBVIOUS
<1>1. FlashInv
  <2>1. PICK v \in Value : work = Block(v)
    BY DEF Init
  <2>2. BootTarget # None => target[BootTarget] \in Value
    BY FtwAssumption DEF Init
  <2>3. spare = Block(Erased) /\ ~swap /\ image = None /\ spareBuffer = None
    BY DEF Init
  <2> QED BY <2>1, <2>2, <2>3, PlainBlocks DEF FlashInv, Keeps
<1>2. StackInv
  <2>1. Len(ret) = 0
    BY DEF Init
  <2> QED BY <2>1 DEF StackInv
<1> QED BY <1>1, <1>2
        DEF Init, DriverInv, PointInv, FlushInv, Settled, Working, Clearing, MaySwap, Erasing,
            Allocating, Writing, Storing, Restoring, Delivering, Booting, Reclaiming, Copying,
            Flushing

LEMMA DriverStepInv ==
  ASSUME TypeInv, TypeInv', DriverInv, SingleWrites, DriverStep
  PROVE  DriverInv'
<1>1. CASE FtwReclaimWorkSpace \/ ReclaimErase \/ ReclaimWrite \/ ReclaimValid \/ ReclaimInvalid
  BY <1>1, StartReclaimInv, ReclaimEraseInv, ReclaimWriteInv, ReclaimValidInv, ReclaimInvalidInv
<1>2. CASE \/ FlushSpareValid \/ FlushWorkInvalid \/ FlushWorkErase \/ FlushWorkWrite
           \/ FlushWorkValid
  BY <1>2, FlushSpareValidInv, FlushWorkInvalidInv, FlushWorkEraseInv, FlushWorkWriteInv,
     FlushWorkValidInv
<1>3. CASE RestoreErase \/ RestoreWrite \/ Allocate \/ AllocateHeader \/ AllocateWrites
  BY <1>3, RestoreEraseInv, RestoreWriteInv, AllocateInv, AllocateHeaderInv, AllocateWritesInv
<1>4. CASE WriteChecks \/ WriteRecord \/ WriteErase \/ WriteSpareBlock \/ SpareCompleted
  BY <1>4, WriteChecksInv, WriteRecordInv, WriteEraseInv, WriteSpareBlockInv, SpareCompletedInv
<1>5. CASE FlushToWork \/ FlushToBoot \/ FlushToTarget \/ FlushTargetWrite
  BY <1>5, FlushToWorkInv, FlushToBootInv, FlushToTargetInv, FlushTargetWriteInv
<1>6. CASE FlushSpareBlockToBootBlock \/ FlushBootErase \/ FlushBootWrite \/ FlushBootUnswap
  BY <1>6, BootBlockInv, FlushBootEraseInv, FlushBootWriteInv, FlushBootUnswapInv
<1>7. CASE \/ DestCompleted \/ WritesCompleted \/ Restart \/ RestartEraseSpare \/ Abort
           \/ GetLastWrite
  BY <1>7, DestCompletedInv, WritesCompletedInv, RestartInv, RestartEraseSpareInv, AbortInv,
     GetLastWriteInv
<1>8. CASE \/ InitRefresh \/ InitWorkSpace \/ InitAbort \/ InitFirst \/ InitLast \/ InitTail
           \/ InitRestart
  BY <1>8, InitRefreshInv, InitWorkSpaceInv, InitAbortInv, InitFirstInv, InitLastInv, InitTailInv,
     InitRestartInv
<1>9. CASE Done
  BY <1>9, DoneInv
<1> QED BY <1>1, <1>2, <1>3, <1>4, <1>5, <1>6, <1>7, <1>8, <1>9 DEF DriverStep

LEMMA StepsKeepInv ==
  ASSUME SingleWrites, TypeInv, TypeInv', DriverInv, [Next]_vars
  PROVE  DriverInv'
<1>1. CASE UNCHANGED vars
  BY <1>1 DEF vars, DriverInv, FlashInv, PointInv, FlushInv, StackInv, Callee, Placed, Past,
              Fresh, Top, Swapped
<1>2. CASE Next
  BY <1>2, DriverStepInv, RequestInv, FailuresInv DEF Next
<1> QED BY <1>1, <1>2

LEMMA InvIsKept ==
  ASSUME SingleWrites
  PROVE  Spec => [](TypeInv /\ DriverInv)
<1>1. Init => TypeInv /\ DriverInv
  BY TypesAtStart, InvAtStart
<1>2. TypeInv /\ DriverInv /\ [Next]_vars => (TypeInv /\ DriverInv)'
  BY StepsKeepTypes, StepsKeepInv
<1> QED BY <1>1, <1>2, PTL DEF Spec

(* Every header and record a single write programs is within the queue.    *)
THEOREM WritesAreInQueue == SingleWrites => (Spec => []WritesStayInQueue)
<1> SUFFICES ASSUME SingleWrites PROVE Spec => []WritesStayInQueue
  OBVIOUS
<1>1. TypeInv /\ DriverInv => WritesStayInQueue
  <2> SUFFICES ASSUME TypeInv, DriverInv PROVE WritesStayInQueue
    OBVIOUS
  <2>1. hdr \in Nat /\ rec \in Nat /\ PointInv(pc)
    BY BlocksAtHand DEF DriverInv
  <2>2. pc \in {"allocHeader", "allocWrites"} => Placed /\ args.writes = 1 /\ offset = hdr
    BY <2>1 DEF PointInv, Working, Allocating
  <2>3. pc \in {"writeRecord", "spareCompleted", "writeTarget", "destCompleted"} => Placed
    BY <2>1 DEF PointInv, Working, Writing, Storing, Delivering
  <2>4. Placed => hdr + 2 <= Size /\ rec < Size
    BY <2>1, SizeIsNat DEF Placed
  <2> QED BY <2>1, <2>2, <2>3, <2>4 DEF WritesStayInQueue, FTW_WRITE_TOTAL_SIZE
<1> QED BY <1>1, InvIsKept, PTL

(* Whenever power fails the processor finds an intact boot block: the spare *)
(* block while the top swap bit is set, its own otherwise.                  *)
THEOREM BootBlockStaysIntact == SingleWrites => (Spec => []BootBlockIntact)
<1> SUFFICES ASSUME SingleWrites PROVE Spec => []BootBlockIntact
  OBVIOUS
<1>1. TypeInv /\ DriverInv => BootBlockIntact
  BY DEF DriverInv, FlashInv, Swapped, SpareHolds, BootBlockIntact
<1> QED BY <1>1, InvIsKept, PTL

(* However often power fails, and wherever, the initialisation only ends   *)
(* when no data is left in the spare block alone.                          *)
THEOREM RecoveryIsComplete == SingleWrites => (Spec => []RecoveryCompletes)
<1> SUFFICES ASSUME SingleWrites PROVE Spec => []RecoveryCompletes
  OBVIOUS
<1>1. TypeInv /\ DriverInv => RecoveryCompletes
  <2> SUFFICES ASSUME TypeInv, DriverInv, pc = "initDone" PROVE ~Unfinished
    BY DEF RecoveryCompletes, At
  <2>1. FlashInv /\ ~InSpare(work.queue)
    BY DEF DriverInv, PointInv, Clearing
  <2> QED BY <2>1, UnfinishedIsInSpare
<1> QED BY <1>1, InvIsKept, PTL

-----------------------------------------------------------------------------
(* The driver implements BlockUpdate.  What a reader gets depends on the   *)
(* flash only.                                                             *)

PendingOf(w) ==
  IF IsValidWorkSpace(w) /\ InSpare(w.queue) THEN Record(w.queue).target ELSE None

HomeOf(tg, w, t) == IF t = WorkTarget THEN w.data ELSE tg[t]

IsCopied(w, s) == ~IsValidWorkSpace(w) /\ IsValidWorkSpace(s)

ReadFrom(tg, w, s) ==
  [t \in Target |-> IF PendingOf(w) = t \/ (t = WorkTarget /\ IsCopied(w, s)) THEN s.data
                                                                       ELSE HomeOf(tg, w, t)]

LEMMA LastRecordIs ==
  ASSUME NEW q \in Queues, Tidy(q), NEW r, r = GetLastWriteRecord(q, GetLastWriteHeader(q))
  PROVE  /\ Cell(q, r) = Record(q)
         /\ Has(q, r, SPARE_COMPLETED) /\ ~Has(q, r, DEST_COMPLETED) <=> InSpare(q)
<1>1. r = GetLastWriteHeader(q) + 1
  BY TidyFacts
<1> QED BY <1>1 DEF Record, InSpare, Has

LEMMA ContentsIs ==
  ASSUME TypeInv, FlashInv
  PROVE  Contents = ReadFrom(target, work, spare)
<1>1. work.queue \in Queues /\ Tidy(work.queue)
  BY BlocksAtHand DEF FlashInv
<1>2. Cell(work.queue, LastRecord) = Record(work.queue) /\ (Unfinished <=> InSpare(work.queue))
  BY <1>1, LastRecordIs DEF LastRecord, Unfinished
<1>3. Pending = PendingOf(work)
  BY <1>2 DEF Pending, PendingOf
<1> QED BY <1>3 DEF Contents, ReadFrom, HomeOf, IsCopied

LEMMA ContentsWillBe ==
  ASSUME TypeInv', FlashInv'
  PROVE  Contents' = ReadFrom(target', work', spare')
<1>1. work'.queue \in Queues /\ Tidy(work'.queue)
  BY BlocksOK DEF FlashInv, TypeInv, FlashOK
<1>2. /\ Cell(work'.queue, LastRecord') = Record(work'.queue)
      /\ Unfinished' <=> InSpare(work'.queue)
  BY <1>1, LastRecordIs DEF LastRecord, Unfinished
<1>3. Pending' = PendingOf(work')
  BY <1>2 DEF Pending, PendingOf
<1> QED BY <1>3 DEF Contents, ReadFrom, HomeOf, IsCopied

LEMMA PendingFacts ==
  ASSUME NEW w \in Blocks, Tidy(w.queue)
  PROVE  /\ PendingOf(w) \in Target \cup {None}
         /\ IsValidWorkSpace(w) /\ InSpare(w.queue) <=> PendingOf(w) # None
         /\ PendingOf(w) # None => PendingOf(w) = Record(w.queue).target
<1>1. w.queue \in Queues /\ None \notin Target
  BY BlocksOK, FtwAssumption
<1>2. InSpare(w.queue) => Record(w.queue).target \in Target
  BY <1>1, TidyFacts, InSpareFacts
<1> QED BY <1>1, <1>2 DEF PendingOf

(* The spare block is written while nothing depends on it.                 *)
LEMMA SpareIsFree ==
  ASSUME NEW tg, NEW w, NEW s, NEW s2, PendingOf(w) = None,
         IsCopied(w, s) => s.data = w.data, IsCopied(w, s2) => s2.data = w.data
  PROVE  ReadFrom(tg, w, s) = ReadFrom(tg, w, s2)
BY FtwAssumption DEF ReadFrom, HomeOf

(* A target is written while the spare block is read for it.               *)
LEMMA TargetIsFree ==
  ASSUME NEW tg, NEW tg2, NEW w, NEW s,
         \A t \in Target : t \notin {PendingOf(w), WorkTarget} => tg2[t] = tg[t]
  PROVE  ReadFrom(tg, w, s) = ReadFrom(tg2, w, s)
BY DEF ReadFrom, HomeOf

(* The queue is written, and what was pending is so still or has arrived.  *)
LEMMA PendingArrives ==
  ASSUME NEW tg, NEW w, NEW w2, NEW s, w2.data = w.data,
         IsValidWorkSpace(w), IsValidWorkSpace(w2),
         \/ PendingOf(w2) = PendingOf(w)
         \/ PendingOf(w2) = None /\ HomeOf(tg, w, PendingOf(w)) = s.data
  PROVE  ReadFrom(tg, w, s) = ReadFrom(tg, w2, s)
BY FtwAssumption DEF ReadFrom, HomeOf, IsCopied

(* The working block is written while its data is read from the spare      *)
(* block, or is the same there.                                            *)
WorkIsSpare(w, s) ==
  /\ PendingOf(w) \in {None, WorkTarget}
  /\ PendingOf(w) = WorkTarget \/ IsCopied(w, s) \/ w.data = s.data

LEMMA WorkIsFree ==
  ASSUME NEW tg, NEW w, NEW w2, NEW s, WorkIsSpare(w, s), WorkIsSpare(w2, s)
  PROVE  ReadFrom(tg, w, s) = ReadFrom(tg, w2, s)
BY FtwAssumption DEF ReadFrom, HomeOf, WorkIsSpare

-----------------------------------------------------------------------------
(* What else is invariant: where data is found.                            *)

(* The data in the spare block, while the work space is not valid, is that *)
(* of the working block, unless an update of it was begun or it was erased *)
(* or written in part.                                                     *)
Same ==
  /\ ~work.header => work.queue = Empty
  /\ IsCopied(work, spare) =>
       InSpare(work.queue) \/ work.queue = Empty \/ spare.data = work.data

(* A write that is in the spare block still has reached its target.        *)
Delivered ==
  InSpare(work.queue) => HomeOf(target, work, Record(work.queue).target) = spare.data

Ending == {"destCompleted", "initAbort", "initAbortLast", "abort", "complete"}

DataAt(l) ==
  /\ l = "reclaim" => work.header
  /\ l \in Reclaiming => (IsCopied(work, spare) => spare.data = work.data)
  /\ l \in {"reclaimErase", "reclaimWrite"} =>
       image.header /\ ~image.invalid /\ image.data = work.data
  /\ l \in {"reclaimValid", "reclaimInvalid"} =>
       spare.header /\ ~spare.invalid /\ spare.data = work.data
  /\ l = "reclaimInvalid" \/ l \in Flushing => IsValidWorkSpace(spare)
  /\ l \in {"flushWork", "workInvalid"} => InSpare(work.queue) \/ ~IsValidWorkSpace(work)
  /\ l \in {"workErase", "workWrite", "workValid"} => ~IsValidWorkSpace(work)
  /\ l = "workValid" => work.data = spare.data
  /\ l \in {"bootErase", "bootWrite"} => image.data = spare.data
  /\ l = "bootUnswap" => target[BootTarget] = spare.data
  /\ l \in Ending => Delivered

DataInv == Same /\ DataAt(pc)

(* No step but the commit of an update changes what is read.               *)
Kept == DataInv' /\ Contents' = Contents

(* Points of the driver of which nothing is said but, at the end of a      *)
(* write, that it is delivered.                                            *)
Silent == Labels \ (Reclaiming \cup Flushing \cup {"bootErase", "bootWrite", "bootUnswap"})

LEMMA SilentPoints ==
  ASSUME pc' \in Silent, pc' \in Ending => Delivered'
  PROVE  DataAt(pc)'
BY DEF DataAt, Silent, Reclaiming, Copying, Flushing

LEMMA CallersAreSilent == Callers \subseteq Silent
BY DEF Callers, Silent, Labels, Outer, Allocating, Writing, Storing, Reclaiming, Copying,
       Restoring, Delivering, Flushing, Booting, Refreshed

LEMMA ValidIsSame == IsValidWorkSpace(work') => Same'
BY DEF IsValidWorkSpace, Same, IsCopied

LEMMA FlashStays ==
  ASSUME Same, UNCHANGED flash
  PROVE  /\ Same' /\ Contents' = Contents /\ Delivered' = Delivered
BY DEF Same, Contents, Pending, Unfinished, LastRecord, Delivered

-----------------------------------------------------------------------------
(* Each step of the driver, and what is read.                              *)

LEMMA SameReading ==
  ASSUME TypeInv, TypeInv', DriverInv, DriverInv',
         ReadFrom(target, work, spare) = ReadFrom(target', work', spare')
  PROVE  Contents' = Contents
BY ContentsIs, ContentsWillBe DEF DriverInv

(* The flash and the points of the driver, before a step.                  *)
LEMMA FactsAtHand ==
  ASSUME TypeInv, DriverInv, DataInv
  PROVE  /\ FlashInv /\ PointInv(pc) /\ FlushInv(pc) /\ Same /\ DataAt(pc)
         /\ work \in Blocks /\ spare \in Blocks /\ work.queue \in Queues
         /\ Tidy(work.queue)
         /\ ~InSpare(work.queue) => PendingOf(work) = None
         /\ InSpare(work.queue) /\ IsValidWorkSpace(work) =>
              PendingOf(work) = Record(work.queue).target
         /\ \A v : ~IsCopied(work, Block(v))
BY BlocksAtHand, PlainBlocks DEF DriverInv, DataInv, FlashInv, PendingOf, IsCopied

LEMMA StartReclaimData ==
  ASSUME TypeInv, DriverInv, DataInv, FtwReclaimWorkSpace
  PROVE  Kept
<1>1. PICK p \in BOOLEAN :
        /\ p => pc = "reclaim"
        /\ ~p => pc = "format"
        /\ StartReclaim(p)
  BY DEF FtwReclaimWorkSpace, At
<1>2. PICK q : image' = [header |-> p => work.header, valid |-> FALSE, invalid |-> FALSE,
                         queue |-> q, data |-> work.data]
  BY <1>1 DEF StartReclaim
<1>3. pc' = "reclaimErase" /\ UNCHANGED flash
  BY <1>1 DEF StartReclaim, Goto
<1>4. /\ Same
      /\ p => work.header = TRUE
      /\ IsCopied(work, spare) => spare.data = work.data
  <2>1. work.header \in BOOLEAN
    BY FactsAtHand DEF Blocks
  <2> QED BY <1>1, <2>1 DEF DataInv, DataAt, Reclaiming
<1>5. image'.data = work.data /\ image'.invalid = FALSE /\ image'.header = TRUE
  <2>1. (p => work.header) = TRUE
    BY <1>4
  <2> QED BY <1>2, <2>1
<1>6. Same' /\ Contents' = Contents
  BY <1>3, <1>4, FlashStays
<1>7. DataAt("reclaimErase")'
  BY <1>3, <1>4, <1>5 DEF DataAt, Flushing, Ending
<1> QED BY <1>3, <1>6, <1>7 DEF Kept, DataInv

(* The spare block is written, and no more, while nothing is pending.      *)
LEMMA SpareWritten ==
  ASSUME TypeInv, TypeInv', DriverInv, DriverInv', DataInv, ~InSpare(work.queue),
         NEW b, WriteSpare(b),
         IsCopied(work, spare) => spare.data = work.data,
         IsCopied(work, b) => b.data = work.data
  PROVE  /\ Same' /\ Contents' = Contents
         /\ spare' = b /\ work' = work /\ target' = target /\ swap' = swap
         /\ ~InSpare(work'.queue)
<1>1. FlashInv /\ Same /\ PendingOf(work) = None /\ ~swap
  BY FactsAtHand, NothingPending
<1>2. spare' = b /\ work' = work /\ target' = target /\ swap' = swap
  BY <1>1 DEF WriteSpare
<1>3. ReadFrom(target, work, spare) = ReadFrom(target', work', spare')
  BY <1>1, <1>2, SpareIsFree
<1>4. Same'
  BY <1>1, <1>2 DEF Same
<1> QED BY <1>2, <1>3, <1>4, SameReading

LEMMA ReclaimEraseData ==
  ASSUME TypeInv, TypeInv', DriverInv, DriverInv', DataInv, ReclaimErase
  PROVE  Kept
<1>1. /\ pc = "reclaimErase" /\ WriteSpare(Block(Erased)) /\ pc' = "reclaimWrite"
      /\ image' = image
  BY DEF ReclaimErase, At, Goto
<1>2. /\ ~InSpare(work.queue) /\ DataAt(pc) /\ ~IsCopied(work, Block(Erased))
      /\ IsCopied(work, spare) => spare.data = work.data
  BY <1>1, FactsAtHand DEF PointInv, Clearing, Reclaiming, Copying, DataAt
<1>3. Same' /\ Contents' = Contents /\ spare' = Block(Erased) /\ work' = work
  BY <1>1, <1>2, SpareWritten
<1>4. DataAt("reclaimWrite")'
  BY <1>1, <1>2, <1>3 DEF DataAt, Flushing, Ending
<1> QED BY <1>1, <1>3, <1>4 DEF Kept, DataInv

LEMMA ReclaimWriteData ==
  ASSUME TypeInv, TypeInv', DriverInv, DriverInv', DataInv, ReclaimWrite
  PROVE  Kept
<1>1. pc = "reclaimWrite" /\ WriteSpare(image) /\ pc' = "reclaimValid"
  BY DEF ReclaimWrite, At, Goto
<1>2. /\ ~InSpare(work.queue) /\ DataAt(pc)
      /\ IsCopied(work, spare) => spare.data = work.data
      /\ image.header /\ ~image.invalid /\ image.data = work.data
  BY <1>1, FactsAtHand DEF PointInv, Clearing, Reclaiming, Copying, DataAt
<1>3. Same' /\ Contents' = Contents /\ spare' = image /\ work' = work
  BY <1>1, <1>2, SpareWritten
<1>4. DataAt("reclaimValid")'
  BY <1>2, <1>3 DEF DataAt, Flushing, Ending
<1> QED BY <1>1, <1>3, <1>4 DEF Kept, DataInv

LEMMA ReclaimValidData ==
  ASSUME TypeInv, TypeInv', DriverInv, DriverInv', DataInv, ReclaimValid
  PROVE  Kept
<1> DEFINE b == [spare EXCEPT !.valid = TRUE]
<1>1. pc = "reclaimValid" /\ WriteSpare(b) /\ pc' = "reclaimInvalid"
  BY DEF ReclaimValid, At, Goto
<1>2. /\ ~InSpare(work.queue) /\ DataAt(pc) /\ spare \in Blocks
      /\ spare.header /\ ~spare.invalid /\ spare.data = work.data
  BY <1>1, FactsAtHand DEF PointInv, Clearing, Reclaiming, Copying, DataAt
<1>3. IsValidWorkSpace(b) /\ b.data = spare.data
  BY <1>2, BlockParts
<1> HIDE DEF b
<1>4. Same' /\ Contents' = Contents /\ spare' = b /\ work' = work
  BY <1>1, <1>2, <1>3, SpareWritten
<1>5. DataAt("reclaimInvalid")'
  BY <1>2, <1>3, <1>4 DEF DataAt, Flushing, Ending, IsValidWorkSpace
<1> QED BY <1>1, <1>4, <1>5 DEF Kept, DataInv

(* The working block is written, and no more.                              *)
LEMMA WorkWritten ==
  ASSUME TypeInv, TypeInv', DriverInv, DriverInv', NEW b, WriteWork(b),
         WorkIsSpare(work, spare), WorkIsSpare(b, spare)
  PROVE  Contents' = Contents /\ work' = b /\ spare' = spare /\ target' = target
<1>1. work' = b /\ spare' = spare /\ target' = target
  BY DEF WriteWork
<1> QED BY <1>1, WorkIsFree, SameReading

LEMMA ReclaimInvalidData ==
  ASSUME TypeInv, TypeInv', DriverInv, DriverInv', DataInv, ReclaimInvalid
  PROVE  Kept
<1> DEFINE b == [work EXCEPT !.invalid = TRUE]
<1>1. pc = "reclaimInvalid" /\ WriteWork(b) /\ pc' = "flushWork"
  BY DEF ReclaimInvalid, At, Call
<1>2. /\ PendingOf(work) = None /\ work \in Blocks /\ spare.data = work.data
      /\ IsValidWorkSpace(spare) /\ Same
  BY <1>1, FactsAtHand DEF PointInv, Clearing, Reclaiming, Copying, DataAt
<1>3. ~IsValidWorkSpace(b) /\ b.header = work.header /\ b.queue = work.queue /\ b.data = work.data
  BY <1>2, BlockParts DEF Blocks
<1>4. WorkIsSpare(work, spare) /\ WorkIsSpare(b, spare)
  BY <1>2, <1>3 DEF WorkIsSpare, IsCopied, PendingOf
<1> HIDE DEF b
<1>5. Contents' = Contents /\ work' = b /\ spare' = spare
  BY <1>1, <1>4, WorkWritten
<1>6. Same'
  BY <1>2, <1>3, <1>5 DEF Same
<1>7. DataAt("flushWork")'
  BY <1>2, <1>3, <1>5 DEF DataAt, Reclaiming, Copying, Flushing, Ending
<1> QED BY <1>1, <1>5, <1>6, <1>7 DEF Kept, DataInv

-----------------------------------------------------------------------------
(* The flush to the working block, and what comes after it.                *)

LEMMA ReturnsSilent ==
  ASSUME TypeInv, DriverInv, Return, pc \notin Outer
  PROVE  /\ pc' = Top /\ MayCall(pc', pc)
         /\ pc' \notin Ending \/ Delivered' \/ ~InSpare(work'.queue) => DataAt(pc)'
<1>1. pc' = Top /\ MayCall(pc', pc)
  BY ReturnStack DEF DriverInv
<1>2. pc' \in Callers
  BY <1>1 DEF MayCall, Callers, Refreshed
<1> QED BY <1>1, <1>2, CallersAreSilent, SilentPoints DEF Delivered

LEMMA FlushSpareValidData ==
  ASSUME TypeInv, TypeInv', DriverInv, DriverInv', DataInv, FlushSpareValid
  PROVE  Kept
<1> DEFINE b == [spare EXCEPT !.valid = TRUE]
<1>1. pc = "flushWork" /\ WriteSpare(b) /\ pc' = "workInvalid"
  BY DEF FlushSpareValid, At, Goto
<1>2. /\ ~swap /\ spare \in Blocks /\ IsValidWorkSpace(spare) /\ Same
      /\ InSpare(work.queue) \/ ~IsValidWorkSpace(work)
  BY <1>1, FactsAtHand DEF PointInv, MaySwap, Booting, DataAt, Flushing
<1>3. IsValidWorkSpace(b) /\ b.data = spare.data
  BY <1>2, BlockParts DEF IsValidWorkSpace
<1> HIDE DEF b
<1>4. spare' = b /\ work' = work /\ target' = target
  BY <1>1, <1>2 DEF WriteSpare
<1>5. ReadFrom(target, work, spare) = ReadFrom(target', work', spare')
  BY <1>2, <1>3, <1>4 DEF ReadFrom, IsCopied
<1>6. Same'
  BY <1>2, <1>3, <1>4 DEF Same, IsCopied
<1>7. DataAt("workInvalid")'
  BY <1>2, <1>3, <1>4 DEF DataAt, Reclaiming, Copying, Ending
<1> QED BY <1>1, <1>5, <1>6, <1>7, SameReading DEF Kept, DataInv

LEMMA FlushWorkInvalidData ==
  ASSUME TypeInv, TypeInv', DriverInv, DriverInv', DataInv, FlushWorkInvalid
  PROVE  Kept
<1> DEFINE b == [work EXCEPT !.invalid = TRUE]
<1>1. pc = "workInvalid" /\ WriteWork(b) /\ pc' = "workErase"
  BY DEF FlushWorkInvalid, At, Goto
<1>2. /\ work \in Blocks /\ IsValidWorkSpace(spare) /\ Same
      /\ InSpare(work.queue) \/ ~IsValidWorkSpace(work)
      /\ InSpare(work.queue) => Record(work.queue).target = WorkTarget
  BY <1>1, FactsAtHand DEF FlushInv, DataAt, Flushing, Erasing
<1>3. ~IsValidWorkSpace(b) /\ b.header = work.header /\ b.queue = work.queue /\ b.data = work.data
  BY <1>2, BlockParts DEF Blocks
<1>4. WorkIsSpare(work, spare) /\ WorkIsSpare(b, spare)
  BY <1>2, <1>3 DEF WorkIsSpare, IsCopied, PendingOf
<1> HIDE DEF b
<1>5. Contents' = Contents /\ work' = b /\ spare' = spare
  BY <1>1, <1>4, WorkWritten
<1>6. Same'
  BY <1>2, <1>3, <1>5 DEF Same, IsCopied
<1>7. DataAt("workErase")'
  BY <1>2, <1>3, <1>5 DEF DataAt, Reclaiming, Copying, Flushing, Ending
<1> QED BY <1>1, <1>5, <1>6, <1>7 DEF Kept, DataInv

LEMMA FlushWorkEraseData ==
  ASSUME TypeInv, TypeInv', DriverInv, DriverInv', DataInv, FlushWorkErase
  PROVE  Kept
<1>1. pc = "workErase" /\ WriteWork(Block(Erased)) /\ pc' = "workWrite"
  BY DEF FlushWorkErase, At, Goto
<1>2. IsValidWorkSpace(spare) /\ ~IsValidWorkSpace(work)
  BY <1>1, FactsAtHand DEF DataAt, Flushing
<1>3. ~IsValidWorkSpace(Block(Erased)) /\ Block(Erased).queue = Empty
  BY PlainBlocks
<1>4. WorkIsSpare(work, spare) /\ WorkIsSpare(Block(Erased), spare)
  BY <1>2, <1>3 DEF WorkIsSpare, IsCopied, PendingOf
<1>5. Contents' = Contents /\ work' = Block(Erased) /\ spare' = spare
  BY <1>1, <1>4, WorkWritten
<1>6. Same'
  BY <1>3, <1>5 DEF Same
<1>7. DataAt("workWrite")'
  BY <1>2, <1>3, <1>5 DEF DataAt, Reclaiming, Copying, Flushing, Ending
<1> QED BY <1>1, <1>5, <1>6, <1>7 DEF Kept, DataInv

LEMMA FlushWorkWriteData ==
  ASSUME TypeInv, TypeInv', DriverInv, DriverInv', DataInv, FlushWorkWrite
  PROVE  Kept
<1> DEFINE b == [spare EXCEPT !.header = TRUE, !.valid = FALSE, !.invalid = FALSE]
<1>1. pc = "workWrite" /\ WriteWork(b) /\ pc' = "workValid"
  BY DEF FlushWorkWrite, At, Goto
<1>2. IsValidWorkSpace(spare) /\ ~IsValidWorkSpace(work) /\ spare \in Blocks
  BY <1>1, FactsAtHand DEF DataAt, Flushing
<1>3. ~IsValidWorkSpace(b) /\ b.header /\ b.data = spare.data
  BY <1>2 DEF Blocks, IsValidWorkSpace
<1>4. WorkIsSpare(work, spare) /\ WorkIsSpare(b, spare)
  BY <1>2, <1>3 DEF WorkIsSpare, IsCopied, PendingOf
<1> HIDE DEF b
<1>5. Contents' = Contents /\ work' = b /\ spare' = spare
  BY <1>1, <1>4, WorkWritten
<1>6. Same'
  BY <1>3, <1>5 DEF Same
<1>7. DataAt("workValid")'
  BY <1>2, <1>3, <1>5 DEF DataAt, Reclaiming, Copying, Flushing, Ending
<1> QED BY <1>1, <1>5, <1>6, <1>7 DEF Kept, DataInv

LEMMA FlushWorkValidData ==
  ASSUME TypeInv, TypeInv', DriverInv, DriverInv', DataInv, FlushWorkValid
  PROVE  Kept
<1> DEFINE b == [work EXCEPT !.valid = TRUE]
<1>1. pc = "workValid" /\ WriteWork(b) /\ Return
  BY DEF FlushWorkValid, At
<1>2. /\ IsValidWorkSpace(spare) /\ ~IsValidWorkSpace(work) /\ work \in Blocks
      /\ work.data = spare.data /\ work.queue = spare.queue /\ work.header /\ ~work.invalid
      /\ Keeps(spare)
  BY <1>1, FactsAtHand DEF DataAt, FlushInv, Flushing, FlashInv
<1>3. IsValidWorkSpace(b) /\ b.data = spare.data /\ b.queue = spare.queue
  BY <1>2, BlockParts
<1>4. InSpare(b.queue) => Record(b.queue).target = WorkTarget
  BY <1>2, <1>3 DEF Keeps
<1>5. WorkIsSpare(work, spare) /\ WorkIsSpare(b, spare)
  BY <1>2, <1>3, <1>4 DEF WorkIsSpare, IsCopied, PendingOf
<1> HIDE DEF b
<1>6. Contents' = Contents /\ work' = b /\ spare' = spare
  BY <1>1, <1>5, WorkWritten
<1>7. Delivered'
  BY <1>3, <1>4, <1>6 DEF Delivered, HomeOf
<1>8. DataAt(pc)'
  BY <1>1, <1>7, ReturnsSilent DEF Outer
<1> QED BY <1>3, <1>6, <1>8, ValidIsSame DEF Kept, DataInv

(* The spare block is written while the work space is valid.               *)
LEMMA SpareWrittenIdly ==
  ASSUME TypeInv, TypeInv', DriverInv, DriverInv', DataInv, pc \in Clearing \cap Settled,
         NEW b, WriteSpare(b)
  PROVE  /\ Same' /\ Contents' = Contents /\ spare' = b /\ work' = work
         /\ ~InSpare(work'.queue)
<1>1. ~InSpare(work.queue) /\ IsValidWorkSpace(work)
  BY FactsAtHand DEF PointInv
<1> QED BY <1>1, SpareWritten DEF IsCopied

LEMMA RestoreData ==
  ASSUME TypeInv, TypeInv', DriverInv, DriverInv', DataInv,
         RestoreErase \/ RestoreWrite \/ RestartEraseSpare
  PROVE  Kept
<1>1. /\ pc \in {"restoreErase", "restoreWrite", "eraseSpare"} /\ \E b : WriteSpare(b)
      /\ pc' = "restoreWrite" \/ Return
  BY DEF RestoreErase, RestoreWrite, RestartEraseSpare, At, Goto
<1>2. Same' /\ Contents' = Contents /\ ~InSpare(work'.queue)
  BY <1>1, SpareWrittenIdly DEF Clearing, Settled, Restoring
<1>3. CASE pc' = "restoreWrite"
  BY <1>2, <1>3 DEF Kept, DataInv, DataAt, Reclaiming, Copying, Flushing, Ending
<1>4. CASE Return
  <2>1. DataAt(pc)'
    BY <1>1, <1>2, <1>4, ReturnsSilent DEF Outer
  <2> QED BY <1>2, <2>1 DEF Kept, DataInv
<1> QED BY <1>1, <1>3, <1>4

(* Decisions: the flash stays as it is.                                    *)
LEMMA DecisionData ==
  ASSUME TypeInv, DataInv, UNCHANGED flash,
         pc' \in Silent, pc' \in Ending => Delivered
  PROVE  Kept
BY FlashStays, SilentPoints DEF Kept, DataInv

LEMMA ReturnData ==
  ASSUME TypeInv, DriverInv, DataInv, UNCHANGED flash, Return, pc \notin Outer,
         pc' \in Ending => Delivered
  PROVE  Kept
BY FlashStays, ReturnsSilent DEF Kept, DataInv

-----------------------------------------------------------------------------
(* The queue, and FtwAllocate and FtwWrite up to the commit.               *)

LEMMA QueueWritten ==
  ASSUME TypeInv, TypeInv', DriverInv, DriverInv', DataInv, IsValidWorkSpace(work),
         NEW q, WriteQueue(q), ~InSpare(q), ~InSpare(work.queue) \/ Delivered
  PROVE  Same' /\ Contents' = Contents /\ spare' = spare /\ target' = target /\ ~InSpare(work'.queue)
<1> DEFINE b == [work EXCEPT !.queue = q]
<1>1. work' = b /\ spare' = spare /\ target' = target
  BY DEF WriteQueue, WriteWork
<1>2. IsValidWorkSpace(b) /\ b.queue = q /\ b.data = work.data
  BY FactsAtHand, BlockParts
<1> HIDE DEF b
<1>3. PendingOf(b) = None
  BY <1>2 DEF PendingOf
<1>4. PendingOf(b) = PendingOf(work) \/ HomeOf(target, work, PendingOf(work)) = spare.data
  BY <1>3, FactsAtHand DEF Delivered
<1>5. ReadFrom(target, work, spare) = ReadFrom(target', work', spare')
  BY <1>1, <1>2, <1>3, <1>4, PendingArrives
<1>6. Same'
  BY <1>1, <1>2, ValidIsSame
<1> QED BY <1>1, <1>2, <1>5, <1>6, SameReading

LEMMA PlainSteps ==
  ASSUME Same', Contents' = Contents, pc' \in Silent, pc' \notin Ending \/ ~InSpare(work'.queue)
  PROVE  Kept
BY SilentPoints DEF Kept, DataInv, Delivered

LEMMA AllocateData ==
  ASSUME TypeInv, TypeInv', DriverInv, DriverInv', DataInv, Allocate
  PROVE  Kept
<1>1. /\ pc = "allocate" /\ UNCHANGED flash
      /\ Return \/ Call("reclaim", "allocHeader") \/ Goto("allocHeader")
  BY DEF Allocate, At
<1>2. IsValidWorkSpace(work) /\ Same
  BY <1>1, FactsAtHand DEF PointInv, Settled, Allocating
<1>3. CASE Return
  <2>1. pc' \notin Ending
    BY <1>1, <1>3, ReturnsSilent
       DEF MayCall, Ending, Outer, Allocating, Writing, Storing, Restoring, Delivering, Flushing,
           Booting, Reclaiming, Copying
  <2> QED BY <1>1, <1>3, <2>1, ReturnData DEF Outer
<1>4. CASE Call("reclaim", "allocHeader")
  <2>1. Same' /\ Contents' = Contents /\ pc' = "reclaim"
    BY <1>1, <1>2, <1>4, FlashStays DEF Call
  <2>2. DataAt("reclaim")'
    BY <1>1, <1>2 DEF DataAt, IsCopied, IsValidWorkSpace, Flushing, Ending
  <2> QED BY <2>1, <2>2 DEF Kept, DataInv
<1>5. CASE Goto("allocHeader")
  <2>1. pc' \in Silent /\ pc' \notin Ending
    BY <1>5 DEF Goto, Ending, Silent, Labels, Allocating, Reclaiming, Copying, Flushing
  <2> QED BY <1>1, <2>1, DecisionData
<1> QED BY <1>1, <1>3, <1>4, <1>5

LEMMA QueueStepsData ==
  ASSUME TypeInv, TypeInv', DriverInv, DriverInv', DataInv, AllocateHeader \/ WriteRecord
  PROVE  Kept
<1>1. /\ pc \in {"allocHeader", "writeRecord"} /\ pc' \in {"allocWrites", "writeErase"}
      /\ \E q : WriteQueue(q)
  BY DEF AllocateHeader, WriteRecord, At, Goto
<1>2. PICK q : WriteQueue(q)
  BY <1>1
<1>3. ~InSpare(work.queue) /\ IsValidWorkSpace(work) /\ work \in Blocks
  BY <1>1, FactsAtHand DEF PointInv, Settled, Clearing, Allocating, Writing
<1>4. ~InSpare(q)
  <2>1. ~InSpare(work'.queue)
    BY <1>1 DEF DriverInv, PointInv, Clearing, Storing
  <2> QED BY <1>2, <1>3, <2>1, BlockParts DEF WriteQueue, WriteWork
<1>5. pc' \in Silent
  BY <1>1 DEF Silent, Labels, Allocating, Writing, Storing, Reclaiming, Copying, Flushing
<1> QED BY <1>2, <1>3, <1>4, <1>5, QueueWritten, PlainSteps

LEMMA AllocateWritesData ==
  ASSUME TypeInv, TypeInv', DriverInv, DriverInv', DataInv, AllocateWrites
  PROVE  Kept
<1>1. /\ pc = "allocWrites" /\ Return
      /\ WriteQueue(UpdateFvState(work.queue, offset, WRITES_ALLOCATED))
  BY DEF AllocateWrites, At
<1>2. /\ IsValidWorkSpace(work) /\ ~InSpare(work.queue) /\ work.queue \in Queues
      /\ offset = hdr /\ Open(work.queue, hdr) /\ work.queue[hdr + 1] = Blank
  BY <1>1, FactsAtHand DEF PointInv, Settled, Clearing, Allocating
<1>3. PICK q \in Queues : q = UpdateFvState(work.queue, hdr, WRITES_ALLOCATED)
  BY <1>2, BlocksAtHand, ProgramOK DEF WRITES_ALLOCATED
<1>4. ~InSpare(q)
  BY <1>2, <1>3, HeaderFlagged, OpenFacts DEF InSpare, Blank
<1>5. Same' /\ Contents' = Contents /\ ~InSpare(work'.queue)
  BY <1>1, <1>2, <1>3, <1>4, QueueWritten
<1>6. DataAt(pc)'
  BY <1>1, <1>5, ReturnsSilent DEF Outer
<1> QED BY <1>5, <1>6 DEF Kept, DataInv

LEMMA WriteChecksData ==
  ASSUME TypeInv, DriverInv, DataInv, WriteChecks
  PROVE  Kept
<1>1. /\ pc = "write" /\ UNCHANGED flash
      /\ Return \/ Call("allocate", "write") \/ Goto("writeRecord")
  BY DEF WriteChecks, At
<1>2. CASE Return
  <2>1. pc' \notin Ending
    BY <1>1, <1>2, ReturnsSilent
       DEF MayCall, Ending, Outer, Allocating, Restoring, Delivering, Flushing, Booting,
           Reclaiming, Copying
  <2> QED BY <1>1, <1>2, <2>1, ReturnData DEF Outer
<1>3. CASE Call("allocate", "write") \/ Goto("writeRecord")
  <2>1. pc' \in Silent /\ pc' \notin Ending
    BY <1>3 DEF Call, Goto, Ending, Silent, Labels, Allocating, Writing, Reclaiming, Copying, Flushing
  <2> QED BY <1>1, <2>1, DecisionData
<1> QED BY <1>1, <1>2, <1>3

LEMMA WriteSpareData ==
  ASSUME TypeInv, TypeInv', DriverInv, DriverInv', DataInv, WriteErase \/ WriteSpareBlock
  PROVE  Kept
<1>1. /\ pc \in {"writeErase", "writeSpare"} /\ pc' \in {"writeSpare", "spareCompleted"}
      /\ \E b : WriteSpare(b)
  BY DEF WriteErase, WriteSpareBlock, At, Goto
<1>2. Same' /\ Contents' = Contents
  BY <1>1, SpareWrittenIdly DEF Clearing, Settled, Storing, Writing
<1>3. pc' \in Silent /\ pc' \notin Ending
  BY <1>1 DEF Ending, Silent, Labels, Writing, Storing, Reclaiming, Copying, Flushing
<1> QED BY <1>2, <1>3, PlainSteps

-----------------------------------------------------------------------------
(* The commit: SPARE_COMPLETED is written, and the data in the spare block *)
(* becomes what is read.                                                   *)
LEMMA SpareCompletedData ==
  ASSUME TypeInv, TypeInv', DriverInv, DriverInv', DataInv, SpareCompleted
  PROVE  /\ DataInv' /\ args.target \in Target /\ args.value \in Value
         /\ Contents' = [Contents EXCEPT ![args.target] = args.value]
<1>1. /\ pc = "spareCompleted" /\ pc' = "writeTarget" /\ UNCHANGED ram
      /\ WriteQueue(UpdateFvState(work.queue, rec, SPARE_COMPLETED))
  BY DEF SpareCompleted, At, Call
<1>2. /\ IsValidWorkSpace(work) /\ Placed /\ work.queue \in Queues /\ work \in Blocks
      /\ Open(work.queue, hdr) /\ work.queue[hdr + 1].target = args.target
      /\ ~InSpare(work.queue) /\ spare.data = args.value
  BY <1>1, FactsAtHand DEF PointInv, Settled, Working, Writing, Storing, Clearing
<1>3. args.target \in Target /\ args.value \in Value
  BY <1>1, WriteArgs DEF Writing, Storing
<1>4. PICK q \in Queues : q = UpdateFvState(work.queue, hdr + 1, SPARE_COMPLETED)
  BY <1>2, OpenFacts, ProgramOK DEF SPARE_COMPLETED
<1>5. /\ IsValidWorkSpace(work') /\ work'.data = work.data /\ work'.queue = q
      /\ spare' = spare /\ target' = target
  <2>1. work' = [work EXCEPT !.queue = q] /\ spare' = spare /\ target' = target
    BY <1>1, <1>2, <1>4 DEF WriteQueue, WriteWork, Placed
  <2>2. /\ [work EXCEPT !.queue = q].queue = q /\ [work EXCEPT !.queue = q].data = work.data
        /\ IsValidWorkSpace([work EXCEPT !.queue = q])
    BY <1>2, BlockParts
  <2> QED BY <2>1, <2>2
<1>6. InSpare(work'.queue) /\ Open(work'.queue, hdr)
  BY <1>1 DEF DriverInv, PointInv, Delivering
<1>7. Record(work'.queue).target = args.target
  <2>1. q[hdr + 1].target = work.queue[hdr + 1].target
    BY <1>2, <1>3, <1>4, RecordFlagged DEF SPARE_COMPLETED, DEST_COMPLETED
  <2>2. Record(q) = q[hdr + 1]
    BY <1>5, <1>6, OpenFacts
  <2> QED BY <1>2, <1>5, <2>1, <2>2
<1>8. PendingOf(work) = None /\ PendingOf(work') = args.target
  BY <1>2, <1>5, <1>6, <1>7 DEF PendingOf
<1>9. /\ Contents = ReadFrom(target, work, spare)
      /\ Contents' = ReadFrom(target, work', spare)
  BY <1>5, ContentsIs, ContentsWillBe DEF DriverInv
<1>10. Contents' = [Contents EXCEPT ![args.target] = args.value]
  <2>1. DOMAIN Contents = Target
    BY <1>9 DEF ReadFrom
  <2>2. \A t \in Target :
          ReadFrom(target, work', spare)[t] =
            IF t = args.target THEN args.value ELSE ReadFrom(target, work, spare)[t]
    BY <1>2, <1>5, <1>8, FtwAssumption DEF ReadFrom, HomeOf, IsCopied
  <2>3. ReadFrom(target, work', spare) =
          [t \in Target |-> ReadFrom(target, work', spare)[t]]
    BY DEF ReadFrom
  <2> HIDE DEF ReadFrom
  <2> QED BY <1>9, <2>1, <2>2, <2>3
<1>11. Same'
  BY <1>5, ValidIsSame
<1>12. DataAt(pc)'
  <2>1. pc' \in Silent /\ pc' \notin Ending
    BY <1>1 DEF Ending, Silent, Labels, Delivering, Reclaiming, Copying, Flushing
  <2> QED BY <2>1, SilentPoints
<1> QED BY <1>3, <1>10, <1>11, <1>12 DEF DataInv

-----------------------------------------------------------------------------
(* The data goes to its target while it is read from the spare block.      *)

LEMMA FlushToWorkData ==
  ASSUME TypeInv, TypeInv', DriverInv, DriverInv', DataInv, FlushToWork
  PROVE  Kept
<1>1. PICK q : WriteSpare([spare EXCEPT !.queue = q])
  BY DEF FlushToWork
<1>2. /\ pc = "writeTarget" /\ pc' = "flushWork"
      /\ Cell(work.queue, rec).target = WorkTarget
  BY DEF FlushToWork, At, Call
<1>3. /\ IsValidWorkSpace(work) /\ InSpare(work.queue) /\ spare \in Blocks /\ ~swap
      /\ Record(work.queue).target = WorkTarget /\ FlashInv /\ Same
  BY <1>2, AtTarget, FactsAtHand, FtwAssumption
<1>4. IsValidWorkSpace(spare)
  BY <1>3 DEF FlashInv, SpareHolds
<1>5. /\ work' = work /\ target' = target
      /\ spare'.data = spare.data /\ IsValidWorkSpace(spare')
  <2>1. spare' = [spare EXCEPT !.queue = q] /\ work' = work /\ target' = target
    BY <1>1, <1>3 DEF WriteSpare
  <2>2. /\ [spare EXCEPT !.queue = q].data = spare.data
        /\ IsValidWorkSpace([spare EXCEPT !.queue = q])
    BY <1>3, <1>4, BlockParts
  <2> QED BY <2>1, <2>2
<1>6. ReadFrom(target, work, spare) = ReadFrom(target', work', spare')
  BY <1>4, <1>5 DEF ReadFrom, IsCopied
<1>7. DataAt("flushWork")'
  BY <1>3, <1>5 DEF DataAt, Reclaiming, Copying, Ending
<1> QED BY <1>2, <1>3, <1>5, <1>6, <1>7, SameReading, ValidIsSame DEF Kept, DataInv

(* A target is written that the record names.                              *)
LEMMA TargetWritten ==
  ASSUME TypeInv, TypeInv', DriverInv, DriverInv', DataInv,
         IsValidWorkSpace(work), InSpare(work.queue), NEW t, t = Record(work.queue).target,
         NEW v, target' = [target EXCEPT ![t] = v], work' = work, spare' = spare
  PROVE  Same' /\ Contents' = Contents
<1>1. PendingOf(work) = t
  BY DEF PendingOf
<1>2. \A u \in Target : u \notin {t, WorkTarget} => target'[u] = target[u]
  BY BlocksAtHand DEF FlashOK
<1>3. PICK tg : tg = target'
  OBVIOUS
<1>4. \A u \in Target : u \notin {PendingOf(work), WorkTarget} => tg[u] = target[u]
  BY <1>1, <1>2, <1>3
<1>5. ReadFrom(target, work, spare) = ReadFrom(tg, work, spare)
  BY <1>4, TargetIsFree
<1>6. ReadFrom(target, work, spare) = ReadFrom(target', work', spare')
  BY <1>3, <1>5
<1> QED BY <1>6, SameReading, ValidIsSame

LEMMA FlushToTargetData ==
  ASSUME TypeInv, TypeInv', DriverInv, DriverInv', DataInv, FlushToTarget
  PROVE  Kept
<1>1. /\ pc = "writeTarget" /\ pc' = "targetWrite"
      /\ WriteTarget(Cell(work.queue, rec).target, Erased)
  BY DEF FlushToTarget, At, Goto
<1>2. /\ IsValidWorkSpace(work) /\ InSpare(work.queue)
      /\ Cell(work.queue, rec) = Record(work.queue)
  BY <1>1, AtTarget
<1>3. Same' /\ Contents' = Contents
  BY <1>1, <1>2, TargetWritten DEF WriteTarget
<1>4. pc' \in Silent /\ pc' \notin Ending
  BY <1>1 DEF Ending, Silent, Labels, Delivering, Reclaiming, Copying, Flushing
<1> QED BY <1>3, <1>4, PlainSteps

LEMMA FlushTargetWriteData ==
  ASSUME TypeInv, TypeInv', DriverInv, DriverInv', DataInv, FlushTargetWrite
  PROVE  Kept
<1> DEFINE t == Record(work.queue).target
<1>1. /\ pc = "targetWrite" /\ pc' = "destCompleted"
      /\ WriteTarget(Cell(work.queue, rec).target, spare.data)
  BY DEF FlushTargetWrite, At, Goto
<1>2. /\ IsValidWorkSpace(work) /\ InSpare(work.queue) /\ work.queue \in Queues
      /\ Placed /\ Open(work.queue, hdr)
      /\ work.queue[hdr + 1].target \notin {WorkTarget, BootTarget}
  BY <1>1, FactsAtHand DEF PointInv, Settled, Working, Delivering
<1>3. Cell(work.queue, rec).target = t /\ t \in Target /\ t # WorkTarget
  BY <1>2, InSpareFacts DEF Placed
<1>4. target' = [target EXCEPT ![t] = spare.data] /\ work' = work /\ spare' = spare
  BY <1>1, <1>3 DEF WriteTarget
<1>5. Same' /\ Contents' = Contents
  BY <1>2, <1>4, TargetWritten
<1>6. Delivered'
  <2>1. t \in DOMAIN target
    BY <1>3, BlocksAtHand DEF FlashOK
  <2>2. target'[t] = spare.data
    BY <1>4, <2>1
  <2> QED BY <1>3, <1>4, <2>2 DEF Delivered, HomeOf
<1>7. pc' \in Silent
  BY <1>1 DEF Silent, Labels, Delivering, Reclaiming, Copying, Flushing
<1> QED BY <1>5, <1>6, <1>7, SilentPoints DEF Kept, DataInv

LEMMA BootData ==
  ASSUME TypeInv, TypeInv', DriverInv, DriverInv', DataInv,
         FlushToBoot \/ FlushSpareBlockToBootBlock \/ FlushBootErase \/ FlushBootWrite
  PROVE  Kept
<1>1. CASE FlushToBoot
  <2>1. UNCHANGED flash /\ pc' = "bootBlock"
    BY <1>1 DEF FlushToBoot, Call
  <2>2. pc' \in Silent /\ pc' \notin Ending
    BY <2>1 DEF Ending, Silent, Labels, Booting, Reclaiming, Copying, Flushing
  <2> QED BY <2>1, <2>2, DecisionData
<1>2. CASE FlushSpareBlockToBootBlock
  <2>1. pc' = "bootErase" /\ image' = spare /\ UNCHANGED <<target, spare, work>>
    BY <1>2 DEF FlushSpareBlockToBootBlock, Goto
  <2>2. Same' /\ Contents' = Contents
    BY <2>1, SameReading DEF DataInv, Same
  <2>3. DataAt("bootErase")'
    BY <2>1 DEF DataAt, Reclaiming, Copying, Flushing, Ending
  <2> QED BY <2>1, <2>2, <2>3 DEF Kept, DataInv
<1>3. ASSUME NEW b, WriteSpare(b), pc \in {"bootErase", "bootWrite"}
      PROVE  /\ Same' /\ Contents' = Contents /\ work' = work /\ spare' = spare
             /\ target' = [target EXCEPT ![BootTarget] = b.data] /\ BootTarget \in DOMAIN target
             /\ image.data = spare.data
  <2>1. /\ swap /\ IsValidWorkSpace(work) /\ InSpare(work.queue)
        /\ Record(work.queue).target = BootTarget /\ BootTarget \in DOMAIN target
        /\ image.data = spare.data
    BY <1>3, AtBoot, FactsAtHand DEF PointInv, Booting, DataAt
  <2>2. /\ target' = [target EXCEPT ![BootTarget] = b.data]
        /\ work' = work /\ spare' = spare
    BY <1>3, <2>1 DEF WriteSpare
  <2> QED BY <2>1, <2>2, TargetWritten
<1>4. CASE FlushBootErase
  <2>1. pc = "bootErase" /\ pc' = "bootWrite" /\ image' = image /\ WriteSpare(Block(Erased))
    BY <1>4 DEF FlushBootErase, At, Goto
  <2>2. Same' /\ Contents' = Contents /\ spare' = spare /\ image.data = spare.data
    BY <1>3, <2>1
  <2>3. DataAt("bootWrite")'
    BY <2>1, <2>2 DEF DataAt, Reclaiming, Copying, Flushing, Ending
  <2> QED BY <2>1, <2>2, <2>3 DEF Kept, DataInv
<1>5. CASE FlushBootWrite
  <2>1. pc = "bootWrite" /\ pc' = "bootUnswap" /\ WriteSpare(image)
    BY <1>5 DEF FlushBootWrite, At, Goto
  <2>2. /\ Same' /\ Contents' = Contents /\ spare' = spare
        /\ target'[BootTarget] = spare.data
    BY <1>3, <2>1
  <2>3. DataAt("bootUnswap")'
    BY <2>1, <2>2 DEF DataAt, Reclaiming, Copying, Flushing, Ending
  <2> QED BY <2>1, <2>2, <2>3 DEF Kept, DataInv
<1> QED BY <1>1, <1>2, <1>4, <1>5

LEMMA FlushBootUnswapData ==
  ASSUME TypeInv, TypeInv', DriverInv, DriverInv', DataInv, FlushBootUnswap
  PROVE  Kept
<1>1. pc = "bootUnswap" /\ Return /\ UNCHANGED <<target, spare, work>>
  BY DEF FlushBootUnswap, At
<1>2. /\ Record(work.queue).target = BootTarget /\ BootTarget \in DOMAIN target
      /\ target[BootTarget] = spare.data /\ Same
  BY <1>1, AtBoot, FactsAtHand DEF Booting, DataAt
<1>3. Delivered'
  BY <1>1, <1>2, BlocksAtHand DEF Delivered, HomeOf, FlashOK
<1>4. Same' /\ Contents' = Contents
  BY <1>1, <1>2, SameReading DEF Same
<1>5. DataAt(pc)'
  BY <1>1, <1>3, ReturnsSilent DEF Outer
<1> QED BY <1>4, <1>5 DEF Kept, DataInv

-----------------------------------------------------------------------------
(* The end of a write, and the decisions.                                  *)

LEMMA DestCompletedData ==
  ASSUME TypeInv, TypeInv', DriverInv, DriverInv', DataInv, DestCompleted
  PROVE  Kept
<1>1. /\ pc = "destCompleted" /\ (Goto("complete") \/ Return)
      /\ WriteQueue(UpdateFvState(work.queue, rec, DEST_COMPLETED))
  BY DEF DestCompleted, At
<1>2. /\ IsValidWorkSpace(work) /\ Placed /\ work.queue \in Queues
      /\ Open(work.queue, hdr) /\ InSpare(work.queue) /\ Delivered
  BY <1>1, FactsAtHand DEF PointInv, Settled, Working, Delivering, DataAt, Ending
<1>3. rec = hdr + 1 /\ rec \in Nat
  BY <1>2, BlocksAtHand DEF Placed
<1>4. PICK q \in Queues : q = UpdateFvState(work.queue, hdr + 1, DEST_COMPLETED)
  BY <1>2, <1>3, ProgramOK DEF DEST_COMPLETED
<1>5. Open(q, hdr) /\ q[hdr + 1].flags = work.queue[hdr + 1].flags \cup {DEST_COMPLETED}
  BY <1>2, <1>4, InSpareFacts, RecordFlagged
<1>6. ~InSpare(q)
  BY <1>5, OpenFacts DEF InSpare
<1>7. Same' /\ Contents' = Contents /\ ~InSpare(work'.queue)
  BY <1>1, <1>2, <1>3, <1>4, <1>6, QueueWritten
<1>8. DataAt(pc)'
  <2>1. CASE Goto("complete")
    BY <1>7, <2>1, SilentPoints
       DEF Goto, Delivered, Silent, Labels, Delivering, Reclaiming, Copying, Flushing
  <2>2. CASE Return
    BY <1>1, <1>7, <2>2, ReturnsSilent DEF Outer
  <2> QED BY <1>1, <2>1, <2>2
<1> QED BY <1>7, <1>8 DEF Kept, DataInv

LEMMA WritesCompletedData ==
  ASSUME TypeInv, TypeInv', DriverInv, DriverInv', DataInv, WritesCompleted
  PROVE  Kept
<1>1. /\ pc = "complete" /\ Return
      /\ WriteQueue(UpdateFvState(work.queue, hdr, WRITES_COMPLETED))
  BY DEF WritesCompleted, At
<1>2. /\ IsValidWorkSpace(work) /\ work.queue \in Queues /\ Open(work.queue, hdr) /\ Delivered
  BY <1>1, FactsAtHand DEF PointInv, Settled, Delivering, DataAt, Ending
<1>3. PICK q \in Queues : q = UpdateFvState(work.queue, hdr, WRITES_COMPLETED)
  BY <1>2, BlocksAtHand, ProgramOK DEF WRITES_COMPLETED
<1>4. ~InSpare(q)
  BY <1>2, <1>3, HeaderCompleted, FreeFacts
<1>5. Same' /\ Contents' = Contents /\ ~InSpare(work'.queue)
  BY <1>1, <1>2, <1>3, <1>4, QueueWritten
<1>6. DataAt(pc)'
  BY <1>1, <1>5, ReturnsSilent DEF Outer
<1> QED BY <1>5, <1>6 DEF Kept, DataInv

LEMMA RestartData ==
  ASSUME TypeInv, DriverInv, DataInv, Restart
  PROVE  Kept
<1>1. pc = "restart" /\ UNCHANGED flash /\ FlashInv /\ Placed
  BY FactsAtHand DEF Restart, At, PointInv, Working
<1>2. (Return /\ ~InSpare(work.queue)) \/ Call("writeTarget", "eraseSpare")
  BY <1>1, PlacedFacts DEF Restart
<1>3. CASE Return /\ ~InSpare(work.queue)
  BY <1>1, <1>3, ReturnData DEF Delivered, Outer
<1>4. CASE Call("writeTarget", "eraseSpare")
  BY <1>1, <1>4, DecisionData
     DEF Call, Ending, Silent, Labels, Delivering, Reclaiming, Copying, Flushing
<1> QED BY <1>2, <1>3, <1>4

LEMMA AbortData ==
  ASSUME TypeInv, DriverInv, DataInv, Abort
  PROVE  Kept
<1>1. pc = "abort" /\ UNCHANGED flash /\ Delivered /\ (Return \/ Goto("complete"))
  BY FactsAtHand DEF Abort, At, DataAt, Ending
<1>2. CASE Return
  BY <1>1, <1>2, ReturnData DEF Outer
<1>3. CASE Goto("complete")
  BY <1>1, <1>3, DecisionData DEF Goto, Silent, Labels, Delivering, Reclaiming, Copying, Flushing
<1> QED BY <1>1, <1>2, <1>3

LEMMA GetLastWriteData ==
  ASSUME TypeInv, DriverInv, DataInv, GetLastWrite
  PROVE  Kept
<1>1. pc = "getLastWrite" /\ UNCHANGED flash /\ FlashInv /\ Placed
  BY FactsAtHand DEF GetLastWrite, At, PointInv, Working
<1>2. Return \/ (pc' = "abort" /\ ~InSpare(work.queue))
  BY <1>1, PlacedFacts DEF GetLastWrite, LastRecordCompleted, FirstRecordNotStarted
<1>3. CASE Return
  <2>1. pc' = "done"
    BY <1>1, <1>3, ReturnsSilent
       DEF MayCall, Outer, Allocating, Writing, Storing, Delivering, Flushing, Booting,
           Restoring, Reclaiming, Copying
  <2> QED BY <1>1, <1>3, <2>1, ReturnData DEF Ending, Outer
<1>4. CASE pc' = "abort" /\ ~InSpare(work.queue)
  BY <1>1, <1>4, DecisionData DEF Delivered, Silent, Labels, Reclaiming, Copying, Flushing
<1> QED BY <1>2, <1>3, <1>4

(* A reclaim is asked for when the queue is full, and all its writes are   *)
(* complete: the data in the spare block is that of the working block.     *)
LEMMA RefreshData ==
  ASSUME TypeInv, DriverInv, DataInv, UNCHANGED flash,
         NEW l \in Silent, NEW r, Refresh(l, r), l \in Ending => Delivered
  PROVE  Kept
<1> DEFINE h == GetLastWriteHeader(work.queue)
<1>1. CASE h + 2 > Size
  <2>1. pc' = "reclaim"
    BY <1>1 DEF Refresh
  <2>2. ~InSpare(work.queue)
    <3>1. Free(work.queue, h) /\ work.queue \in Queues
      BY <1>1, FactsAtHand, WorkQueueFacts
    <3> QED BY <3>1, FreeFacts
  <2>3. work.queue # Empty
    BY <1>1, EmptyIsFree, SizeIsNat DEF Free
  <2>4. work.header /\ (IsCopied(work, spare) => spare.data = work.data)
    BY <2>2, <2>3 DEF DataInv, Same
  <2>5. DataAt("reclaim")'
    BY <2>4 DEF DataAt, Flushing, Ending, IsCopied, IsValidWorkSpace
  <2> QED BY <2>1, <2>5, FlashStays DEF Kept, DataInv
<1>2. CASE ~(h + 2 > Size)
  <2>1. pc' = l
    BY <1>2 DEF Refresh
  <2> QED BY <2>1, DecisionData
<1> QED BY <1>1, <1>2

LEMMA RefreshedAreSilent ==
  /\ {"initWorkSpace", "initFirst", "allocate", "write", "restart", "abort", "getLastWrite",
      "initLast", "initTail", "initRestart", "initDone", "idle", "off", "done", "bootBlock"}
       \subseteq Silent
  /\ {"initWorkSpace", "initFirst", "allocate", "write", "restart", "getLastWrite",
      "initLast", "initTail", "initRestart", "initDone", "idle", "off", "done", "bootBlock"}
       \cap Ending = {}
BY DEF Ending, Silent, Labels, Outer, Allocating, Writing, Storing, Booting, Delivering,
       Reclaiming, Copying, Flushing

-----------------------------------------------------------------------------
(* InitFtwProtocol.  Data that is in the spare block alone is given up     *)
(* when a queue reads as completed to its end though it is torn, and when  *)
(* the block it is for has no protocol.                                    *)
Recoverable == Missing = {} /\ ~TornOverruns

LEMMA InitDecisionsData ==
  ASSUME TypeInv, DriverInv, DataInv, Recoverable, InitRefresh \/ InitAbort \/ InitTail
  PROVE  Kept
<1>1. CASE InitRefresh
  <2>1. UNCHANGED flash /\ Refresh("initWorkSpace", <<>>)
    BY <1>1 DEF InitRefresh, Recoverable
  <2> QED BY <2>1, RefreshData, RefreshedAreSilent
<1>2. CASE InitAbort
  <2>1. /\ UNCHANGED flash
        /\ \/ /\ pc \in {"initAbort", "initAbortLast"}
              /\ \E r : Refresh("abort", r)
           \/ Refresh("initFirst", <<>>)
    BY <1>2 DEF InitAbort, At
  <2>2. pc \in {"initAbort", "initAbortLast"} => Delivered
    BY FactsAtHand DEF DataAt, Ending
  <2> QED BY <2>1, <2>2, RefreshData, RefreshedAreSilent
<1>3. CASE InitTail
  <2>1. UNCHANGED flash /\ pc = "initTail"
    BY <1>3 DEF InitTail, At
  <2>2. CASE pc' = "initRestart"
    BY <2>1, <2>2, DecisionData, RefreshedAreSilent
  <2>3. CASE pc' = "reclaim"
    <3>1. IsValidWorkSpace(work)
      BY <2>1, FactsAtHand DEF PointInv, Settled
    <3>2. DataAt("reclaim")'
      BY <2>1, <3>1 DEF DataAt, IsCopied, IsValidWorkSpace, Flushing, Ending
    <3> QED BY <2>1, <2>3, <3>2, FlashStays DEF Kept, DataInv
  <2> QED BY <1>3, <2>2, <2>3 DEF InitTail, Goto, Call
<1> QED BY <1>1, <1>2, <1>3

LEMMA InitWorkSpaceData ==
  ASSUME TypeInv, DriverInv, DataInv, InitWorkSpace
  PROVE  Kept
<1>1. UNCHANGED flash
  BY DEF InitWorkSpace
<1>2. \/ pc' = "initFirst"
      \/ ~IsValidWorkSpace(work) /\ IsValidWorkSpace(spare) /\ pc' = "flushWork"
      \/ ~IsValidWorkSpace(spare) /\ pc' = "format"
  BY DEF InitWorkSpace, Goto, Call
<1>3. CASE pc' = "initFirst"
  BY <1>1, <1>3, DecisionData, RefreshedAreSilent
<1>4. CASE ~IsValidWorkSpace(work) /\ IsValidWorkSpace(spare) /\ pc' = "flushWork"
  <2>1. DataAt("flushWork")'
    BY <1>1, <1>4 DEF DataAt, Reclaiming, Copying, Flushing, Ending, IsValidWorkSpace
  <2> QED BY <1>1, <1>4, <2>1, FlashStays DEF Kept, DataInv
<1>5. CASE ~IsValidWorkSpace(spare) /\ pc' = "format"
  <2>1. DataAt("format")'
    BY <1>1, <1>5 DEF DataAt, Flushing, Ending, IsCopied, IsValidWorkSpace
  <2> QED BY <1>1, <1>5, <2>1, FlashStays DEF Kept, DataInv
<1> QED BY <1>2, <1>3, <1>4, <1>5

LEMMA InitFirstData ==
  ASSUME TypeInv, DriverInv, DataInv, InitFirst
  PROVE  Kept
<1>1. UNCHANGED flash /\ FlashInv /\ Placed
  BY FactsAtHand DEF InitFirst, At, PointInv, Working
<1>2. CASE FirstRecordNotStarted /\ Refresh("abort", <<"initLast">>)
  <2>1. Delivered
    BY <1>1, <1>2, PlacedFacts DEF FirstRecordNotStarted, Delivered
  <2> QED BY <1>1, <1>2, <2>1, RefreshData, RefreshedAreSilent
<1>3. CASE pc' = "initLast"
  BY <1>1, <1>3, DecisionData, RefreshedAreSilent
<1> QED BY <1>2, <1>3 DEF InitFirst, Goto

LEMMA InitLastData ==
  ASSUME TypeInv, DriverInv, DataInv, InitLast
  PROVE  Kept
<1>1. UNCHANGED flash /\ FlashInv /\ (Placed \/ Past)
  BY FactsAtHand DEF InitLast, At, PointInv
<1>2. CASE LastRecordCompleted /\ Refresh("abort", <<"initTail">>)
  <2>1. Placed
    BY <1>1, <1>2 DEF LastRecordCompleted, Past
  <2>2. Delivered
    BY <1>1, <1>2, <2>1, PlacedFacts DEF LastRecordCompleted, Delivered
  <2> QED BY <1>1, <1>2, <2>2, RefreshData, RefreshedAreSilent
<1>3. CASE pc' = "initTail"
  BY <1>1, <1>3, DecisionData, RefreshedAreSilent
<1> QED BY <1>2, <1>3 DEF InitLast, Goto

LEMMA InitRestartData ==
  ASSUME TypeInv, DriverInv, DataInv, Recoverable, InitRestart
  PROVE  Kept
<1> DEFINE isBoot  == Has(work.queue, rec, BOOT_BLOCK_UPDATE)
           pending == /\ ~Has(work.queue, hdr, WRITES_COMPLETED)
                      /\ Has(work.queue, rec, SPARE_COMPLETED)
<1>1. UNCHANGED flash /\ FlashInv /\ (Placed \/ Past) /\ work.queue \in Queues
  BY FactsAtHand DEF InitRestart, At, PointInv
<1>2. \/ pc' \in {"initDone", "bootBlock"}
      \/ Refresh("restart", <<"initAbortLast">>)
      \/ pending /\ isBoot /\ BootTarget = None
  BY DEF InitRestart, Goto, Call, Recoverable
<1>3. ~(pending /\ isBoot /\ BootTarget = None)
  <2>1. SUFFICES ASSUME pending, isBoot, BootTarget = None PROVE FALSE
    OBVIOUS
  <2>2. Placed /\ Cell(work.queue, rec) = Record(work.queue) /\ RecordOK(Record(work.queue))
    BY <1>1, <2>1, WorkQueueFacts DEF Past, Placed
  <2>3. RecordOK(Cell(work.queue, rec)) /\ Cell(work.queue, rec) # Blank
    BY <2>1, <2>2 DEF Has, Blank
  <2> QED BY <2>1, <2>3, FtwAssumption DEF RecordOK, Has
<1> HIDE DEF pending, isBoot
<1>4. CASE pc' \in {"initDone", "bootBlock"}
  BY <1>1, <1>4, DecisionData, RefreshedAreSilent
<1>5. CASE Refresh("restart", <<"initAbortLast">>)
  BY <1>1, <1>5, RefreshData, RefreshedAreSilent
<1> QED BY <1>2, <1>3, <1>4, <1>5

(* The services.                                                           *)
LEMMA RequestData ==
  ASSUME TypeInv, DriverInv, DataInv, Request
  PROVE  Kept
<1>1. ASSUME NEW l \in {"allocate", "write", "restart", "abort", "getLastWrite"},
             NEW t, NEW v, NEW n, Service(l, t, v, n), l = "abort" => Delivered
      PROVE  Kept
  <2>1. UNCHANGED flash /\ Refresh(l, <<"done">>)
    BY <1>1 DEF Service
  <2> QED BY <1>1, <2>1, RefreshData, RefreshedAreSilent
<1>2. ~Unfinished => Delivered
  BY FactsAtHand, UnfinishedIsInSpare DEF Delivered
<1> QED BY <1>1, <1>2
        DEF Request, FtwAllocate, FtwWrite, FtwRestart, FtwAbort, FtwGetLastWrite

(* Failures.                                                               *)
LEMMA InterruptedData ==
  ASSUME TypeInv, TypeInv', DriverInv, DriverInv', DataInv, Interrupted
  PROVE  Same' /\ Contents' = Contents
<1>1. FlashInv /\ PointInv(pc) /\ DataAt(pc) /\ Same
  BY FactsAtHand
<1>2. CASE UNCHANGED flash
  BY <1>1, <1>2, FlashStays
<1>3. CASE pc \in SpareWrites /\ WriteSpare(Block(Torn)) /\ swap
  <2>1. IsValidWorkSpace(work) /\ InSpare(work.queue) /\ Record(work.queue).target = BootTarget
    BY <1>1, <1>3 DEF FlashInv, Swapped
  <2>2. PICK v : target' = [target EXCEPT ![BootTarget] = v] /\ work' = work /\ spare' = spare
    BY <1>3 DEF WriteSpare
  <2> QED BY <2>1, <2>2, TargetWritten
<1>4. CASE pc \in SpareWrites /\ WriteSpare(Block(Torn)) /\ ~swap
  <2>1. pc \in Reclaiming \cup Settled /\ pc \in Clearing
    BY <1>1, <1>4 DEF SpareWrites, PointInv, Clearing, Settled, Reclaiming, Copying, Restoring,
                      Writing, Storing
  <2>2. ~InSpare(work.queue) /\ (IsCopied(work, spare) => spare.data = work.data)
    BY <1>1, <2>1 DEF PointInv, DataAt, IsCopied
  <2> QED BY <1>4, <2>2, FactsAtHand, SpareWritten
<1>5. CASE pc \in {"workErase", "workWrite"} /\ WriteWork(Block(Torn))
  <2>1. IsValidWorkSpace(spare) /\ ~IsValidWorkSpace(work)
    BY <1>1, <1>5 DEF DataAt, Flushing
  <2>2. ~IsValidWorkSpace(Block(Torn)) /\ Block(Torn).queue = Empty
    BY PlainBlocks
  <2>3. WorkIsSpare(work, spare) /\ WorkIsSpare(Block(Torn), spare)
    BY <2>1, <2>2 DEF WorkIsSpare, IsCopied, PendingOf
  <2>4. Contents' = Contents /\ work' = Block(Torn)
    BY <1>5, <2>3, WorkWritten
  <2> QED BY <2>2, <2>4 DEF Same
<1>6. CASE /\ pc \in {"targetWrite", "writeTarget"}
           /\ WriteTarget(Cell(work.queue, rec).target, Torn)
  <2>1. /\ IsValidWorkSpace(work) /\ InSpare(work.queue) /\ Placed
    BY <1>1, <1>6 DEF PointInv, Settled, Working, Delivering
  <2>2. Cell(work.queue, rec) = Record(work.queue)
    BY <1>1, <2>1, PlacedFacts
  <2> QED BY <1>6, <2>1, <2>2, TargetWritten DEF WriteTarget
<1> QED BY <1>2, <1>3, <1>4, <1>5, <1>6 DEF Interrupted, At

LEMMA FailuresData ==
  ASSUME TypeInv, TypeInv', DriverInv, DriverInv', DataInv, PowerFailure \/ DeviceError
  PROVE  Kept
<1>1. Interrupted /\ pc' \in {"off", "done"}
  BY DEF PowerFailure, DeviceError
<1> QED BY <1>1, InterruptedData, RefreshedAreSilent, PlainSteps

LEMMA DoneData ==
  ASSUME TypeInv, DriverInv, DataInv, Done
  PROVE  Kept
<1>1. UNCHANGED flash /\ pc' = "idle"
  BY DEF Done, Goto
<1> QED BY <1>1, DecisionData, RefreshedAreSilent

(* Every step but the commit leaves what is read as it is.                 *)
LEMMA StepsKeepData ==
  ASSUME Recoverable, TypeInv, TypeInv', DriverInv, DriverInv', DataInv, Next, ~SpareCompleted
  PROVE  Kept
<1>1. CASE FtwReclaimWorkSpace \/ ReclaimErase \/ ReclaimWrite \/ ReclaimValid \/ ReclaimInvalid
  BY <1>1, StartReclaimData, ReclaimEraseData, ReclaimWriteData, ReclaimValidData,
     ReclaimInvalidData
<1>2. CASE \/ FlushSpareValid \/ FlushWorkInvalid \/ FlushWorkErase \/ FlushWorkWrite
           \/ FlushWorkValid
  BY <1>2, FlushSpareValidData, FlushWorkInvalidData, FlushWorkEraseData, FlushWorkWriteData,
     FlushWorkValidData
<1>3. CASE \/ RestoreErase \/ RestoreWrite \/ RestartEraseSpare
           \/ Allocate \/ AllocateHeader \/ AllocateWrites
  BY <1>3, RestoreData, AllocateData, QueueStepsData, AllocateWritesData
<1>4. CASE WriteChecks \/ WriteRecord \/ WriteErase \/ WriteSpareBlock
  BY <1>4, WriteChecksData, QueueStepsData, WriteSpareData
<1>5. CASE FlushToWork \/ FlushToBoot \/ FlushToTarget \/ FlushTargetWrite
  BY <1>5, FlushToWorkData, BootData, FlushToTargetData, FlushTargetWriteData
<1>6. CASE FlushSpareBlockToBootBlock \/ FlushBootErase \/ FlushBootWrite \/ FlushBootUnswap
  BY <1>6, BootData, FlushBootUnswapData
<1>7. CASE DestCompleted \/ WritesCompleted \/ Restart \/ Abort \/ GetLastWrite
  BY <1>7, DestCompletedData, WritesCompletedData, RestartData, AbortData, GetLastWriteData
<1>8. CASE \/ InitRefresh \/ InitWorkSpace \/ InitAbort \/ InitFirst \/ InitLast \/ InitTail
           \/ InitRestart
  BY <1>8, InitDecisionsData, InitWorkSpaceData, InitFirstData, InitLastData, InitRestartData
<1>9. CASE Done \/ Request \/ PowerFailure \/ DeviceError
  BY <1>9, DoneData, RequestData, FailuresData
<1> QED BY <1>1, <1>2, <1>3, <1>4, <1>5, <1>6, <1>7, <1>8, <1>9 DEF Next, DriverStep

-----------------------------------------------------------------------------
(* The request is that of the FtwWrite in progress, until the commit.      *)

Asked == IF WriteBegun THEN [target |-> args.target, value |-> args.value] ELSE None

LEMMA BegunIs ==
  /\ WriteBegun <=> pc \in Writing \/ \E i \in DOMAIN ret : ret[i] = "write"
  /\ WriteBegun' <=> pc' \in Writing \/ \E i \in DOMAIN ret' : ret'[i] = "write"
BY DEF WriteBegun, Writing, Storing

(* What jumps, calls and returns make of the request.                      *)
AskedStays == WriteBegun' => WriteBegun /\ args' = args

LEMMA JumpAsked ==
  ASSUME args' = args, ret' = ret, pc' \in Writing => pc \in Writing
  PROVE  AskedStays
BY BegunIs DEF AskedStays

LEMMA CallAsked ==
  ASSUME TypeInv, args' = args, NEW c, ret' = Append(ret, c),
         c = "write" \/ pc' \in Writing => pc \in Writing
  PROVE  AskedStays
<1>1. ret \in Seq(Labels)
  BY StackFacts
<1>2. \A i \in DOMAIN ret' : ret'[i] = c \/ (i \in DOMAIN ret /\ ret'[i] = ret[i])
  BY <1>1
<1> QED BY <1>2, BegunIs DEF AskedStays

LEMMA ReturnAsked ==
  ASSUME TypeInv, args' = args, Return, pc \notin Outer
  PROVE  AskedStays
<1>1. /\ ret \in Seq(Labels) /\ ret # <<>> /\ Len(ret) \in 1 .. Len(ret) /\ Len(ret) \in Nat
      /\ pc' = ret[Len(ret)] /\ ret' = SubSeq(ret, 1, Len(ret) - 1)
  BY StackFacts DEF Return
<1>2. ret[Len(ret)] \in Callers
  BY <1>1, FramesCall DEF TypeInv
<1>3. pc' \in Writing => ret[Len(ret)] = "write"
  BY <1>1, <1>2 DEF Callers, Refreshed, Writing, Storing
<1>4. \A i \in DOMAIN ret' : i \in DOMAIN ret /\ ret'[i] = ret[i]
  BY <1>1
<1> QED BY <1>1, <1>3, <1>4, BegunIs DEF AskedStays

LEMMA NothingAsked ==
  ASSUME pc' \notin Writing,
         \/ ret' = <<>>
         \/ \E c : c # "write" /\ ret' = <<c>>
         \/ \E c, l : c # "write" /\ l # "write" /\ ret' = Append(<<c>>, l)
  PROVE  ~WriteBegun'
<1>1. CASE ret' = <<>>
  BY <1>1, BegunIs
<1>2. ASSUME NEW c, c # "write", ret' = <<c>>
      PROVE  ~WriteBegun'
  <2>1. \A i \in DOMAIN ret' : ret'[i] = c
    BY <1>2
  <2> QED BY <1>2, <2>1, BegunIs
<1>3. ASSUME NEW c, NEW l, c # "write", l # "write", ret' = Append(<<c>>, l)
      PROVE  ~WriteBegun'
  <2>1. ret' \in Seq({c, l}) /\ Len(ret') = 2 /\ ret'[1] = c /\ ret'[2] = l
    <3>1. <<c>> \in Seq({c, l}) /\ l \in {c, l} /\ Len(<<c>>) = 1 /\ <<c>>[1] = c
      OBVIOUS
    <3> QED BY <1>3, <3>1, AppendProperties
  <2>2. \A i \in DOMAIN ret' : ret'[i] \in {c, l}
    BY <2>1
  <2> QED BY <1>3, <2>2, BegunIs
<1> QED BY <1>1, <1>2, <1>3

LEMMA RefreshAsked ==
  ASSUME NEW l, l \notin Writing, NEW r, Refresh(l, r), r = <<>> \/ \E c : c # "write" /\ r = <<c>>
  PROVE  ~WriteBegun'
<1>1. /\ pc' \in {l, "reclaim"}
      /\ ret' = r \/ ret' = Append(r, l)
  BY DEF Refresh
<1>2. l # "write" /\ pc' \notin Writing
  BY <1>1 DEF Writing, Storing
<1>3. Append(<<>>, l) = <<l>>
  OBVIOUS
<1> QED BY <1>1, <1>2, <1>3, NothingAsked

LEMMA JumpsAsked ==
  ASSUME TypeInv,
         \/ FtwReclaimWorkSpace \/ ReclaimErase \/ ReclaimWrite \/ ReclaimValid
         \/ FlushSpareValid \/ FlushWorkInvalid \/ FlushWorkErase \/ FlushWorkWrite
         \/ RestoreErase \/ AllocateHeader \/ WriteRecord \/ WriteErase \/ WriteSpareBlock
         \/ FlushToTarget \/ FlushTargetWrite
         \/ FlushSpareBlockToBootBlock \/ FlushBootErase \/ FlushBootWrite
  PROVE  AskedStays
<1>1. args' = args /\ ret' = ret /\ (pc' \in Writing => pc \in Writing)
  BY DEF FtwReclaimWorkSpace, StartReclaim, ReclaimErase, ReclaimWrite, ReclaimValid,
         FlushSpareValid, FlushWorkInvalid, FlushWorkErase, FlushWorkWrite, RestoreErase,
         AllocateHeader, WriteRecord, WriteErase, WriteSpareBlock, FlushToTarget,
         FlushTargetWrite, FlushSpareBlockToBootBlock, FlushBootErase, FlushBootWrite,
         At, Goto, Writing, Storing
<1> QED BY <1>1, JumpAsked

LEMMA CallsAsked ==
  ASSUME TypeInv, ReclaimInvalid \/ FlushToWork \/ FlushToBoot
  PROVE  AskedStays
<1>1. /\ args' = args /\ pc' \in {"flushWork", "bootBlock"}
      /\ \E c \in {"restoreErase", "destCompleted"} : ret' = Append(ret, c)
  BY DEF ReclaimInvalid, FlushToWork, FlushToBoot, Call
<1> QED BY <1>1, CallAsked DEF Writing, Storing

LEMMA ReturnsAsked ==
  ASSUME TypeInv,
         \/ FlushWorkValid \/ RestoreWrite \/ AllocateWrites \/ FlushBootUnswap
         \/ WritesCompleted \/ RestartEraseSpare
  PROVE  AskedStays
<1>1. args' = args /\ Return /\ pc \notin Outer
  BY DEF FlushWorkValid, RestoreWrite, AllocateWrites, FlushBootUnswap, WritesCompleted,
         RestartEraseSpare, At, Outer
<1> QED BY <1>1, ReturnAsked

LEMMA ChecksAsked ==
  ASSUME TypeInv, Allocate \/ WriteChecks \/ DestCompleted \/ Restart \/ Abort \/ GetLastWrite
  PROVE  AskedStays
<1>1. args' = args /\ pc \notin Outer
  BY DEF Allocate, WriteChecks, DestCompleted, Restart, Abort, GetLastWrite, At, Outer
<1>2. \/ Return
      \/ ret' = ret /\ (pc' \in Writing => pc \in Writing)
      \/ /\ pc' \in {"reclaim", "allocate", "writeTarget"}
         /\ \E c \in {"allocHeader", "write", "eraseSpare"} :
              ret' = Append(ret, c) /\ (c = "write" => pc = "write")
  BY DEF Allocate, WriteChecks, DestCompleted, Restart, Abort, GetLastWrite, At, Goto, Call,
         Writing, Storing
<1> QED BY <1>1, <1>2, ReturnAsked, JumpAsked, CallAsked DEF Writing, Storing

LEMMA InitAsked ==
  ASSUME TypeInv,
         \/ InitRefresh \/ InitWorkSpace \/ InitAbort \/ InitFirst \/ InitLast \/ InitTail
         \/ InitRestart \/ Done
  PROVE  ~WriteBegun'
<1>1. ret = <<>>
  BY StackFacts DEF InitRefresh, InitWorkSpace, InitAbort, InitFirst, InitLast, InitTail,
                    InitRestart, Done, At, Outer
<1>2. ASSUME NEW l, NEW c, Call(l, c), l \notin Writing, c # "write" PROVE ~WriteBegun'
  BY <1>1, <1>2, NothingAsked DEF Call
<1>3. ASSUME NEW l, Goto(l), l \notin Writing PROVE ~WriteBegun'
  BY <1>1, <1>3, NothingAsked DEF Goto
<1>4. ASSUME NEW l \in {"initWorkSpace", "initFirst", "abort", "restart"},
             NEW c \in {"initAgain", "initDone", "initLast", "initTail", "initAbortLast"},
             Refresh(l, <<>>) \/ Refresh(l, <<c>>)
      PROVE  ~WriteBegun'
  BY <1>4, RefreshAsked DEF Writing, Storing
<1>5. CASE InitRefresh \/ InitWorkSpace \/ InitAbort
  BY <1>2, <1>3, <1>4, <1>5 DEF InitRefresh, InitWorkSpace, InitAbort, Writing, Storing
<1>6. CASE InitFirst \/ InitLast \/ InitTail
  BY <1>2, <1>3, <1>4, <1>6 DEF InitFirst, InitLast, InitTail, Writing, Storing
<1>7. CASE InitRestart \/ Done
  BY <1>2, <1>3, <1>4, <1>7 DEF InitRestart, Done, Writing, Storing
<1> QED BY <1>5, <1>6, <1>7

LEMMA DriverAsked ==
  ASSUME TypeInv, DriverStep, ~SpareCompleted
  PROVE  AskedStays
<1>1. CASE \/ FtwReclaimWorkSpace \/ ReclaimErase \/ ReclaimWrite \/ ReclaimValid
           \/ FlushSpareValid \/ FlushWorkInvalid \/ FlushWorkErase \/ FlushWorkWrite
           \/ RestoreErase \/ AllocateHeader \/ WriteRecord \/ WriteErase \/ WriteSpareBlock
           \/ FlushToTarget \/ FlushTargetWrite
           \/ FlushSpareBlockToBootBlock \/ FlushBootErase \/ FlushBootWrite
  BY <1>1, JumpsAsked
<1>2. CASE ReclaimInvalid \/ FlushToWork \/ FlushToBoot
  BY <1>2, CallsAsked
<1>3. CASE \/ FlushWorkValid \/ RestoreWrite \/ AllocateWrites \/ FlushBootUnswap
           \/ WritesCompleted \/ RestartEraseSpare
  BY <1>3, ReturnsAsked
<1>4. CASE Allocate \/ WriteChecks \/ DestCompleted \/ Restart \/ Abort \/ GetLastWrite
  BY <1>4, ChecksAsked
<1>5. CASE \/ InitRefresh \/ InitWorkSpace \/ InitAbort \/ InitFirst \/ InitLast \/ InitTail
           \/ InitRestart \/ Done
  BY <1>5, InitAsked DEF AskedStays
<1> QED BY <1>1, <1>2, <1>3, <1>4, <1>5 DEF DriverStep

-----------------------------------------------------------------------------
LEMMA CommitAsked ==
  ASSUME TypeInv, SpareCompleted
  PROVE  WriteBegun /\ ~WriteBegun'
<1>1. pc = "spareCompleted" /\ pc' = "writeTarget" /\ ret' = Append(ret, "restoreErase")
  BY DEF SpareCompleted, At, Call
<1>2. ret \in Seq(Labels) /\ Chained(ret, pc)
  BY DEF TypeInv, Chained
<1>3. \A i \in 1 .. Len(ret) : ret[i] # "write"
  <2>1. SUFFICES ASSUME NEW i \in 1 .. Len(ret) PROVE ret[i] # "write"
    OBVIOUS
  <2>2. Rank(ret[i]) < Rank(pc)
    BY <1>2, FramesCall
  <2> QED BY <1>1, <2>2 DEF Rank, Outer, Writing, Storing
<1>4. \A i \in DOMAIN ret' : ret'[i] # "write"
  <2>1. \A i \in DOMAIN ret' : i \in 1 .. Len(ret) + 1
    BY <1>1, <1>2
  <2>2. \A i \in 1 .. Len(ret) + 1 :
          ret'[i] = IF i = Len(ret) + 1 THEN "restoreErase" ELSE ret[i]
    BY <1>1, <1>2
  <2> QED BY <1>2, <1>3, <2>1, <2>2
<1> QED BY <1>1, <1>4, BegunIs DEF Writing, Storing

LEMMA RequestAsked ==
  ASSUME TypeInv, Request
  PROVE  /\ Asked = None
         /\ Asked' \in [target : Target, value : Value] \cup {None}
<1>1. pc = "idle" /\ ret = <<>>
  BY StackFacts DEF Request, FtwAllocate, FtwWrite, FtwRestart, FtwAbort, FtwGetLastWrite,
                    Service, Idle, At, Outer
<1>2. Asked = None
  BY <1>1, BegunIs DEF Asked, Writing, Storing
<1>3. ASSUME NEW t \in Target, NEW v \in Value, FtwWrite(t, v)
      PROVE  Asked' \in [target : Target, value : Value] \cup {None}
  <2>1. args'.target = t /\ args'.value = v
    BY <1>3 DEF FtwWrite, Service
  <2> QED BY <2>1 DEF Asked
<1>4. ASSUME NEW l \in {"allocate", "restart", "abort", "getLastWrite"},
             NEW n, Service(l, None, None, n)
      PROVE  Asked' = None
  <2>1. Refresh(l, <<"done">>)
    BY <1>4 DEF Service
  <2> QED BY <2>1, RefreshAsked DEF Asked, Writing, Storing
<1> QED BY <1>2, <1>3, <1>4 DEF Request, FtwAllocate, FtwRestart, FtwAbort, FtwGetLastWrite

LEMMA FailuresAsked ==
  ASSUME PowerFailure \/ DeviceError
  PROVE  ~WriteBegun'
<1>1. pc' \in {"off", "done"} /\ ret' = <<>>
  BY DEF PowerFailure, DeviceError
<1> QED BY <1>1, NothingAsked DEF Writing, Storing

(* Every step is a step of BlockUpdate, or changes nothing of it.          *)
LEMMA StepsAreUpdates ==
  ASSUME Recoverable, TypeInv, TypeInv', DriverInv, DriverInv', DataInv, [Next]_vars
  PROVE  /\ DataInv'
         /\ [\/ \E r \in [target : Target, value : Value] :
                  Asked = None /\ Asked' = r /\ Contents' = Contents
             \/ /\ Asked # None /\ Asked' = None
                /\ Contents' = [Contents EXCEPT ![Asked.target] = Asked.value]
             \/ Asked # None /\ Asked' = None /\ Contents' = Contents]_<<Contents, Asked>>
<1>1. CASE SpareCompleted
  <2>1. Asked = [target |-> args.target, value |-> args.value] /\ Asked' = None
    BY <1>1, CommitAsked DEF Asked
  <2>2. /\ DataInv' /\ args.target \in Target /\ args.value \in Value
        /\ Contents' = [Contents EXCEPT ![args.target] = args.value]
    BY <1>1, SpareCompletedData
  <2>3. Asked # None
    BY <2>1, <2>2, NoneIsNoRequest
  <2> QED BY <2>1, <2>2, <2>3
<1>2. CASE DriverStep /\ ~SpareCompleted
  <2>1. DataInv' /\ Contents' = Contents
    BY <1>2, StepsKeepData DEF Kept, Next
  <2>2. Asked' \in {Asked, None}
    BY <1>2, DriverAsked DEF AskedStays, Asked
  <2> QED BY <2>1, <2>2
<1>3. CASE PowerFailure \/ DeviceError
  <2>1. DataInv' /\ Contents' = Contents
    BY <1>3, FailuresData DEF Kept
  <2>2. Asked' = None
    BY <1>3, FailuresAsked DEF Asked
  <2> QED BY <2>1, <2>2
<1>4. CASE Request
  <2>1. DataInv' /\ Contents' = Contents
    BY <1>4, RequestData DEF Kept
  <2> QED BY <1>4, <2>1, RequestAsked
<1>5. CASE UNCHANGED vars
  <2>1. UNCHANGED flash /\ pc' = pc /\ ret' = ret /\ args' = args /\ image' = image
    BY <1>5 DEF vars
  <2>2. Same' /\ Contents' = Contents /\ DataAt(pc)'
    BY <2>1, FlashStays DEF DataInv, DataAt, Delivered, HomeOf
  <2>3. Asked' = Asked
    BY <2>1 DEF Asked, WriteBegun
  <2> QED BY <2>2, <2>3 DEF DataInv
<1> QED BY <1>1, <1>2, <1>3, <1>4, <1>5 DEF Next

LEMMA DataAtStart == Init => DataInv /\ Contents \in [Target -> Value] /\ Asked = None
<1> SUFFICES ASSUME Init PROVE DataInv /\ Contents \in [Target -> Value] /\ Asked = None
  OBVIOUS
<1>1. PICK v \in Value : work = Block(v)
  BY DEF Init
<1>2. /\ pc = "off" /\ ret = <<>> /\ spare = Block(Erased)
      /\ target \in [Target \ {WorkTarget} -> Value]
  BY DEF Init
<1>3. /\ work.queue = Empty /\ work.data = v /\ ~IsValidWorkSpace(work)
      /\ ~IsValidWorkSpace(spare)
  BY <1>1, <1>2, PlainBlocks
<1>4. DataInv
  BY <1>2, <1>3 DEF DataInv, Same, DataAt, IsCopied, Reclaiming, Copying, Flushing, Ending
<1>5. Contents = [t \in Target |-> IF t = WorkTarget THEN v ELSE target[t]]
  <2>1. \A t \in Target : Pending # t
    BY <1>3, FtwAssumption DEF Pending
  <2> QED BY <1>3, <2>1 DEF Contents
<1>6. Contents \in [Target -> Value]
  BY <1>2, <1>5
<1>7. Asked = None
  BY <1>2, BegunIs DEF Asked, Writing, Storing
<1> QED BY <1>4, <1>6, <1>7

(* The driver implements BlockUpdate: whatever fails, and wherever, a      *)
(* block is what it was or what the write in progress makes of it, as a    *)
(* whole; no other block changes, and no failure takes an update back.     *)
THEOREM UpdatesImplementBlockUpdate == SingleWrites /\ Recoverable => (Spec => UpdatesAreAtomic)
<1> SUFFICES ASSUME SingleWrites, Recoverable PROVE Spec => UpdatesAreAtomic
  OBVIOUS
<1>1. Init => DataInv /\ Updates!Init
  BY DataAtStart DEF Updates!Init, Asked
<1>2. /\ TypeInv /\ TypeInv' /\ DriverInv /\ DriverInv' /\ DataInv /\ [Next]_vars
      => DataInv' /\ [Updates!Next]_(Updates!vars)
  BY StepsAreUpdates
     DEF Asked, Updates!Next, Updates!Request, Updates!Requests, Updates!Commit, Updates!Drop,
         Updates!vars
<1> QED BY <1>1, <1>2, InvIsKept, PTL DEF Spec, UpdatesAreAtomic, Updates!Spec

-----------------------------------------------------------------------------
(* A series of writes, for any number of writes and whatever the flash     *)
(* does, when no caller updates the block the queue is in.                 *)

(* What the walk finds in a queue with a series begun: a header announces  *)
(* its records, no name of a block lies in the header's cell or behind the *)
(* last record, and a record is named when the one before it is done.      *)
Series(q, h) ==
  /\ \A p \in 0 .. Size - 1 : q[p].writes # 0 => HEADER_ALLOCATED \in q[p].flags
  /\ HEADER_ALLOCATED \in q[Size - 1].flags => q[Size - 1].target # None
  /\ \A p \in 0 .. Size - 1 : (p = h \/ p > h + Cell(q, h).writes) => q[p].target = None
  /\ \A i \in 1 .. Cell(q, h).writes - 1 :
       Cell(q, h + i + 1).target # None => Has(q, h + i, DEST_COMPLETED)

InOrder(q) == Series(q, GetLastWriteHeader(q))

(* The queue's last header is its first cell. *)
Leads(q) == WRITES_COMPLETED \notin q[0].flags

LEMMA CellIs ==
  ASSUME NEW q \in Queues
  PROVE  /\ \A p \in 0 .. Size - 1 : Cell(q, p) = q[p] /\ p < Size /\ p \in Nat
         /\ \A p \in Nat : p < Size => p \in 0 .. Size - 1
         /\ \A p \in Nat : p >= Size => Cell(q, p) = Blank
         /\ Blank.flags = {} /\ Blank.writes = 0 /\ Blank.target = None
  BY SizeIsNat DEF Cell, Blank

LEMMA BlankIs == Blank.flags = {} /\ Blank.writes = 0 /\ Blank.target = None
  BY DEF Blank

LEMMA LeadsIs ==
  ASSUME NEW q \in Queues, Leads(q)
  PROVE  GetLastWriteHeader(q) = 0
<1>1. PICK f : /\ GetLastWriteHeader(q) = f[0]
               /\ \A p \in 0 .. Size : f[p] = IF Completed(q, p) THEN f[NextHeader(q, p)] ELSE p
  BY HeaderByWalk
<1>2. ~Completed(q, 0)
  BY SizeIsNat DEF Leads, Completed, Has, Cell
<1> QED BY <1>1, <1>2, SizeIsNat

(* Without room for a write, the last header is not allocated. *)
LEMMA NoRoomNoHeader ==
  ASSUME NEW q \in Queues, InOrder(q), GetLastWriteHeader(q) + 2 > Size
  PROVE  ~Has(q, GetLastWriteHeader(q), HEADER_ALLOCATED) /\ Preserved(q) = Empty
<1> DEFINE h == GetLastWriteHeader(q)
<1>1. h \in 0 .. Size
  BY LastHeaderOK
<1> HIDE DEF h
<1>2. CASE h = Size
  <2>1. ~Has(q, h, HEADER_ALLOCATED)
    BY <1>2, SizeIsNat, CellIs DEF Has
  <2> QED BY <2>1 DEF h, Preserved
<1>3. CASE h = Size - 1
  <2>1. h \in 0 .. Size - 1
    BY <1>3, SizeIsNat
  <2>2. q[Size - 1].target = None
    BY <1>3, <2>1 DEF InOrder, Series, h
  <2>3. HEADER_ALLOCATED \notin q[Size - 1].flags
    BY <2>2 DEF InOrder, Series
  <2>4. ~Has(q, h, HEADER_ALLOCATED)
    BY <1>3, <2>1, <2>3, CellIs DEF Has
  <2> QED BY <2>4 DEF h, Preserved
<1>4. h = Size \/ h = Size - 1
  BY <1>1, SizeIsNat DEF h
<1> QED BY <1>2, <1>3, <1>4

LEMMA EmptyInOrder ==
  /\ Empty \in Queues /\ InOrder(Empty) /\ Leads(Empty) /\ GetLastWriteHeader(Empty) = 0
  /\ GetLastWriteRecord(Empty, 0) = 1
<1>1. Empty \in Queues /\ GetLastWriteHeader(Empty) = 0
  BY EmptyIsFree, BlocksOK DEF Free
<1>2. \A p \in 0 .. Size - 1 : Empty[p] = Blank
  BY DEF Empty
<1>3. \A p \in Nat : Cell(Empty, p) = Blank
  BY <1>2, SizeIsNat DEF Cell
<1>4. Size - 1 \in 0 .. Size - 1 /\ 0 \in 0 .. Size - 1
  BY SizeIsNat
<1>5. InOrder(Empty)
  BY <1>1, <1>2, <1>3, <1>4, BlankIs, SizeIsNat DEF InOrder, Series
<1>6. GetLastWriteRecord(Empty, 0) = 1
  <2>1. Cell(Empty, 0).writes = 0 /\ 0 + 1 = 1
    BY <1>3, BlankIs
  <2> QED BY <2>1 DEF GetLastWriteRecord
<1>7. Leads(Empty)
  BY <1>2, <1>4, BlankIs DEF Leads
<1> QED BY <1>1, <1>5, <1>6, <1>7

LEMMA PreservedInOrder ==
  ASSUME NEW q \in Queues, InOrder(q)
  PROVE  InOrder(Preserved(q)) /\ Leads(Preserved(q)) /\ Preserved(q) \in Queues
<1> DEFINE h == GetLastWriteHeader(q)
           r == Preserved(q)
           w == Cell(q, h).writes
<1>1. h \in 0 .. Size /\ h \in Nat /\ ~Completed(q, h) /\ r \in Queues
  BY LastHeaderOK, PreservedOK, SizeIsNat
<1>2. CASE ~Has(q, h, HEADER_ALLOCATED)
  BY <1>2, EmptyInOrder DEF Preserved
<1>3. CASE Has(q, h, HEADER_ALLOCATED)
  <2>1. h < Size
    BY <1>1, <1>3, CellIs, SizeIsNat DEF Has
  <2>2. h \in 0 .. Size - 1 /\ Cell(q, h) = q[h] /\ w \in Nat
    BY <1>1, <2>1, CellIs, CellsOK, SizeIsNat
  <2>3. \A p \in 0 .. Size - 1 : r[p] = IF p <= w THEN Cell(q, h + p) ELSE Blank
    BY <1>3 DEF Preserved
  <2> HIDE DEF r
  <2>4. 0 \in 0 .. Size - 1 /\ Size - 1 \in 0 .. Size - 1
    BY SizeIsNat
  <2>5. r[0] = q[h]
    <3>1. h + 0 = h /\ 0 <= w
      BY <1>1, <2>2
    <3> QED BY <2>2, <2>3, <2>4, <3>1
  <2>6. Leads(r)
    BY <1>1, <2>1, <2>2, <2>5 DEF Leads, Completed, Has
  <2>7. GetLastWriteHeader(r) = 0
    BY <1>1, <2>6, LeadsIs DEF r
  <2>8. Cell(r, 0).writes = w
    BY <1>1, <2>2, <2>4, <2>5, CellIs DEF r
  <2> HIDE DEF w, h
  <2>9. \A p \in 0 .. Size - 1 : r[p] = Blank \/ (h + p \in 0 .. Size - 1 /\ r[p] = q[h + p] /\ p <= w)
    <3>1. ASSUME NEW p \in 0 .. Size - 1
          PROVE  r[p] = Blank \/ (h + p \in 0 .. Size - 1 /\ r[p] = q[h + p] /\ p <= w)
      <4>1. h + p \in Nat
        BY <1>1, <3>1
      <4>2. CASE h + p < Size /\ p <= w
        BY <2>3, <4>1, <4>2, CellIs
      <4>3. CASE h + p >= Size
        BY <2>3, <4>1, <4>3, CellIs
      <4>4. CASE ~(p <= w)
        BY <2>3, <4>4
      <4> QED BY <4>1, <4>2, <4>3, <4>4, SizeIsNat
    <3> QED BY <3>1
  <2>10. \A p \in 0 .. Size - 1 : r[p].writes # 0 => HEADER_ALLOCATED \in r[p].flags
    BY <2>9, CellIs DEF InOrder, Series
  <2>11. HEADER_ALLOCATED \in r[Size - 1].flags => r[Size - 1].target # None
    <3>1. h + (Size - 1) \in 0 .. Size - 1 => h + (Size - 1) = Size - 1
      BY <1>1, SizeIsNat
    <3> QED BY <2>4, <2>9, <3>1, CellIs DEF InOrder, Series
  <2>12. \A p \in 0 .. Size - 1 : (p = 0 \/ p > 0 + w) => r[p].target = None
    <3>1. q[h].target = None
      BY <2>2 DEF InOrder, Series, h
    <3>2. \A p \in 0 .. Size - 1 : p > 0 + w => ~(p <= w)
      BY <2>2
    <3> QED BY <2>5, <2>9, <3>1, <3>2, CellIs
  <2>13. \A i \in 1 .. w - 1 : Cell(r, 0 + i + 1).target # None => Has(r, 0 + i, DEST_COMPLETED)
    <3>1. SUFFICES ASSUME NEW i \in 1 .. w - 1, Cell(r, 0 + i + 1).target # None
                   PROVE  Has(r, 0 + i, DEST_COMPLETED)
      OBVIOUS
    <3>2. /\ i \in Nat /\ 0 + i = i /\ 0 + i + 1 = i + 1 /\ i + 1 \in Nat /\ i + 1 <= w /\ i <= w
          /\ h + (i + 1) = h + i + 1 /\ h + i \in Nat
      BY <1>1, <2>2
    <3>3. i + 1 \in 0 .. Size - 1
      BY <1>1, <3>1, <3>2, CellIs, SizeIsNat
    <3>4. /\ h + i + 1 \in 0 .. Size - 1 /\ r[i + 1] = q[h + i + 1]
          /\ i \in 0 .. Size - 1 /\ h + i \in 0 .. Size - 1
      <4>1. r[i + 1] # Blank
        BY <1>1, <3>1, <3>2, <3>3, CellIs
      <4>2. h + (i + 1) \in 0 .. Size - 1 /\ r[i + 1] = q[h + (i + 1)]
        BY <2>9, <3>3, <4>1
      <4> QED BY <1>1, <3>2, <3>3, <4>2, SizeIsNat
    <3>5. Cell(q, h + i + 1).target # None
      BY <1>1, <3>1, <3>2, <3>3, <3>4, CellIs
    <3>6. Has(q, h + i, DEST_COMPLETED)
      BY <3>1, <3>5 DEF InOrder, Series, h, w
    <3>7. r[i] = q[h + i]
      BY <2>3, <3>2, <3>4, CellIs
    <3> QED BY <1>1, <3>2, <3>4, <3>6, <3>7, CellIs DEF Has
  <2>14. InOrder(r)
    BY <2>7, <2>8, <2>10, <2>11, <2>12, <2>13 DEF InOrder, Series
  <2> QED BY <1>1, <2>6, <2>14 DEF r
<1> QED BY <1>2, <1>3

(* A flag more, other than of a header allocated, leaves the series in order. *)
LEMMA FlagKeepsOrder ==
  ASSUME NEW q \in Queues, InOrder(q), NEW p \in Nat, NEW f \in {2, 4},
         NEW q2, q2 = UpdateFvState(q, p, f)
  PROVE  /\ q2 \in Queues /\ InOrder(q2)
         /\ \A b : \A x \in Nat : Has(q, x, b) => Has(q2, x, b)
         /\ f = 2 => /\ GetLastWriteHeader(q2) = GetLastWriteHeader(q)
                     /\ Leads(q) => Leads(q2)
<1> DEFINE h == GetLastWriteHeader(q)
           h2 == GetLastWriteHeader(q2)
<1>1. q2 \in Queues
  BY ProgramOK
<1>2. h \in 0 .. Size /\ h \in Nat /\ ~Completed(q, h) /\ h2 \in 0 .. Size /\ h2 \in Nat
  BY <1>1, LastHeaderOK, SizeIsNat
<1> HIDE DEF h2
<1>3. CASE p >= Size
  <2>1. q2 = [x \in 0 .. Size - 1 |-> q[x]]
    BY <1>3, SizeIsNat DEF UpdateFvState, Program, Queues
  <2>2. q2 = q
    BY <2>1 DEF Queues
  <2> QED BY <1>1, <2>2
<1>4. CASE p < Size
  <2>1. p \in 0 .. Size - 1
    BY <1>4, CellIs
  <2>2. /\ q2[p] = [flags |-> q[p].flags \cup {f}, writes |-> q[p].writes, target |-> q[p].target]
        /\ \A x \in 0 .. Size - 1 : x # p => q2[x] = q[x]
    BY <2>1, ProgramAt
  <2>3. /\ q2[p].writes = q[p].writes /\ q2[p].target = q[p].target
        /\ q2[p].flags = q[p].flags \cup {f}
    BY <2>2
  <2>4. ASSUME NEW x \in 0 .. Size - 1
        PROVE  /\ q2[x].writes = q[x].writes /\ q2[x].target = q[x].target
               /\ q[x].flags \subseteq q2[x].flags
               /\ HEADER_ALLOCATED \in q2[x].flags <=> HEADER_ALLOCATED \in q[x].flags
               /\ (f = 2 \/ x # p) => (WRITES_COMPLETED \in q2[x].flags <=> WRITES_COMPLETED \in q[x].flags)
    <3>1. CASE x = p
      BY <2>3, <3>1 DEF HEADER_ALLOCATED, WRITES_COMPLETED
    <3>2. CASE x # p
      BY <2>2, <3>2
    <3> QED BY <3>1, <3>2
  <2>5. ASSUME NEW x \in Nat
        PROVE  /\ Cell(q, x).flags \subseteq Cell(q2, x).flags
               /\ Cell(q2, x).writes = Cell(q, x).writes
               /\ Cell(q2, x).target = Cell(q, x).target
    BY <2>4, CellIs DEF Cell
  <2>6. /\ \A x \in 0 .. Size - 1 : q2[x].writes # 0 => HEADER_ALLOCATED \in q2[x].flags
        /\ HEADER_ALLOCATED \in q2[Size - 1].flags => q2[Size - 1].target # None
    <3>1. Size - 1 \in 0 .. Size - 1
      BY SizeIsNat
    <3> QED BY <2>4, <3>1 DEF InOrder, Series
  <2>7. Series(q2, h)
    <3>1. Cell(q2, h).writes = Cell(q, h).writes /\ Cell(q, h).writes \in Nat
      BY <1>2, <2>5, CellsOK
    <3>2. \A x \in 0 .. Size - 1 : (x = h \/ x > h + Cell(q2, h).writes) => q2[x].target = None
      BY <2>4, <3>1 DEF InOrder, Series
    <3>3. ASSUME NEW i \in 1 .. Cell(q2, h).writes - 1, Cell(q2, h + i + 1).target # None
          PROVE  Has(q2, h + i, DEST_COMPLETED)
      <4>1. h + i + 1 \in Nat /\ h + i \in Nat
        BY <1>2, <3>1
      <4>2. Has(q, h + i, DEST_COMPLETED)
        BY <2>5, <3>1, <3>3, <4>1 DEF InOrder, Series
      <4> QED BY <2>5, <4>1, <4>2 DEF Has
    <3> HIDE DEF h
    <3> QED BY <2>6, <3>2, <3>3 DEF Series
  <2>8. \A x \in 0 .. Size : x < h /\ Completed(q, x) =>
                             Completed(q2, x) /\ q2[x].writes = q[x].writes
    <3>1. \A x \in 0 .. Size : x < h => x \in 0 .. Size - 1 /\ x \in Nat
      BY <1>2, SizeIsNat
    <3> QED BY <2>4, <2>5, <3>1 DEF Completed, Has
  <2>9. \A b : \A x \in Nat : Has(q, x, b) => Has(q2, x, b)
    BY <2>5 DEF Has
  <2>10. CASE f = 2 \/ p # h
    <3>1. ~Completed(q2, h)
      <4>1. h < Size => h \in 0 .. Size - 1
        BY <1>2, CellIs
      <4> QED BY <1>1, <1>2, <2>4, <2>10, <4>1, CellIs DEF Completed, Has
    <3>2. h2 = h
      BY <1>1, <2>8, <3>1, WalkReaches DEF h2
    <3>3. f = 2 /\ Leads(q) => Leads(q2)
      <4>1. 0 \in 0 .. Size - 1
        BY SizeIsNat
      <4> QED BY <2>4, <4>1 DEF Leads
    <3> QED BY <1>1, <2>9, <2>7, <3>2, <3>3 DEF InOrder, h2
  <2>11. CASE f = 4 /\ p = h
    <3>1. Completed(q2, h)
      <4>1. f \in q2[p].flags /\ Cell(q2, h) = q2[p] /\ h < Size
        BY <1>1, <2>1, <2>3, <2>11, CellIs
      <4> QED BY <2>11, <4>1 DEF Completed, Has, WRITES_COMPLETED
    <3>2. h2 >= NextHeader(q2, h) /\ Cell(q2, h).writes = Cell(q, h).writes
          /\ Cell(q, h).writes \in Nat /\ q2[h].writes = q[h].writes /\ q[h].writes = Cell(q, h).writes
      BY <1>1, <1>2, <2>1, <2>3, <2>5, <2>8, <2>11, <3>1, WalkReaches, CellsOK, CellIs DEF h2
    <3>3. h2 = Size \/ h2 > h + Cell(q, h).writes
      BY <1>2, <3>2, SizeIsNat DEF NextHeader, FTW_WRITE_TOTAL_SIZE
    <3>4. \A x \in 0 .. Size - 1 : x >= h2 => x > h + Cell(q, h).writes
      BY <1>2, <3>2, <3>3, SizeIsNat
    <3>5. \A x \in 0 .. Size - 1 : x >= h2 => q2[x].target = None
      BY <2>4, <3>4 DEF InOrder, Series
    <3>6. \A x \in 0 .. Size - 1 : (x = h2 \/ x > h2 + Cell(q2, h2).writes) => q2[x].target = None
      <4>1. Cell(q2, h2).writes \in Nat
        BY <1>1, <1>2, CellsOK
      <4>2. \A x \in 0 .. Size - 1 : (x = h2 \/ x > h2 + Cell(q2, h2).writes) => x >= h2
        BY <1>2, <4>1
      <4> QED BY <3>5, <4>2
    <3>7. \A i \in 1 .. Cell(q2, h2).writes - 1 : Cell(q2, h2 + i + 1).target = None
      <4>1. ASSUME NEW i \in 1 .. Cell(q2, h2).writes - 1
            PROVE  Cell(q2, h2 + i + 1).target = None
        <5>1. Cell(q2, h2).writes \in Nat
          BY <1>1, <1>2, CellsOK
        <5>2. h2 + i + 1 \in Nat /\ h2 + i + 1 >= h2
          BY <1>2, <5>1
        <5> QED BY <1>1, <3>5, <5>2, CellIs, SizeIsNat
      <4> QED BY <4>1
    <3>8. Series(q2, h2)
      BY <2>6, <3>6, <3>7 DEF Series
    <3> QED BY <1>1, <2>9, <2>11, <3>8 DEF InOrder, h2
  <2> QED BY <2>10, <2>11
<1> QED BY <1>3, <1>4, SizeIsNat

(* Of what is programmed in a queue: one cell is written, and of its flags *)
(* none goes.                                                              *)
Programmed(q, q2, p, f, w, t) ==
  /\ q2[p].flags = q[p].flags \cup f /\ q2[p].writes = w /\ q2[p].target = t
  /\ \A x \in 0 .. Size - 1 : x # p => q2[x] = q[x]
  /\ \A x \in Nat : x # p => Cell(q2, x) = Cell(q, x)
  /\ \A b : \A x \in Nat : Has(q, x, b) => Has(q2, x, b)

LEMMA ProgrammedIs ==
  ASSUME NEW q \in Queues, NEW p \in 0 .. Size - 1, NEW f, NEW w, NEW t,
         NEW q2 \in Queues, q2 = Program(q, p, f, w, t)
  PROVE  Programmed(q, q2, p, f, w, t)
<1>1. /\ q2[p] = [flags |-> q[p].flags \cup f, writes |-> w, target |-> t]
      /\ \A x \in 0 .. Size - 1 : x # p => q2[x] = q[x]
  BY ProgramAt
<1>2. q2[p].flags = q[p].flags \cup f /\ q2[p].writes = w /\ q2[p].target = t
  BY <1>1
<1>3. \A x \in Nat : x # p => Cell(q2, x) = Cell(q, x)
  BY <1>1, CellIs DEF Cell
<1>4. Cell(q, p).flags \subseteq Cell(q2, p).flags
  BY <1>2, CellIs
<1>5. \A b : \A x \in Nat : Has(q, x, b) => Has(q2, x, b)
  BY <1>3, <1>4 DEF Has
<1> QED BY <1>1, <1>2, <1>3, <1>5 DEF Programmed

(* A new header, at the last header or behind it. *)
HeaderFits(q, p) ==
  /\ p + 2 <= Size /\ GetLastWriteHeader(q) <= p
  /\ p = GetLastWriteHeader(q) => ~Has(q, p, HEADER_ALLOCATED)

LEMMA HeaderKeepsOrder ==
  ASSUME NEW q \in Queues, InOrder(q), NEW p \in 0 .. Size - 1, HeaderFits(q, p),
         NEW n, NEW q2 \in Queues, Programmed(q, q2, p, {HEADER_ALLOCATED}, n, None)
  PROVE  /\ InOrder(q2) /\ GetLastWriteHeader(q2) = GetLastWriteHeader(q)
         /\ \A b : \A x \in Nat : Has(q, x, b) => Has(q2, x, b)
<1> DEFINE h == GetLastWriteHeader(q)
<1>1. h <= p /\ p # Size - 1 /\ (p = h => ~Has(q, h, HEADER_ALLOCATED))
  BY SizeIsNat DEF HeaderFits
<1>2. h \in 0 .. Size /\ h \in Nat /\ ~Completed(q, h) /\ Series(q, h)
  BY LastHeaderOK, SizeIsNat DEF InOrder
<1>0. GetLastWriteHeader(q) = h
  OBVIOUS
<1> HIDE DEF h
<1>3. p \in Nat /\ p < Size /\ Size - 1 \in 0 .. Size - 1
  BY SizeIsNat
<1>4. /\ q2[p].flags = q[p].flags \cup {HEADER_ALLOCATED} /\ q2[p].writes = n /\ q2[p].target = None
      /\ \A x \in 0 .. Size - 1 : x # p => q2[x] = q[x]
      /\ \A x \in Nat : x # p => Cell(q2, x) = Cell(q, x)
      /\ \A b : \A x \in Nat : Has(q, x, b) => Has(q2, x, b)
  BY DEF Programmed
<1>5. h < Size
  BY <1>1, <1>2, <1>3, SizeIsNat
<1>6. Cell(q, p) = q[p] /\ Cell(q2, p) = q2[p]
  BY <1>3, CellIs
<1>7. GetLastWriteHeader(q2) = h
  <2>1. \A x \in 0 .. Size - 1 : x < h => q2[x] = q[x]
    BY <1>1, <1>2, <1>3, <1>4
  <2>2. ~Has(q, h, WRITES_COMPLETED)
    BY <1>2, <1>5 DEF Completed
  <2>3. ~Has(q2, h, WRITES_COMPLETED)
    <3>1. CASE p = h
      BY <1>4, <1>6, <2>2, <3>1 DEF Has, HEADER_ALLOCATED, WRITES_COMPLETED
    <3>2. CASE p # h
      BY <1>2, <1>4, <2>2, <3>2 DEF Has
    <3> QED BY <3>1, <3>2
  <2> QED BY <1>0, <2>1, <2>3, SameHeader
<1>8. \A x \in 0 .. Size - 1 : q2[x].target # None => x # p /\ q2[x] = q[x] /\ q[x].target # None
  BY <1>4
<1>9. CASE p = h
  <2>1. q[h].writes = 0
    <3>1. HEADER_ALLOCATED \notin q[h].flags
      BY <1>1, <1>6, <1>9 DEF Has
    <3> QED BY <1>2, <1>3, <1>9, <3>1 DEF Series
  <2>2. \A x \in 0 .. Size - 1 : x >= h => q2[x].target = None
    <3>1. \A x \in 0 .. Size - 1 : x >= h => x = h \/ x > h + Cell(q, h).writes
      BY <1>2, <1>6, <1>9, <2>1
    <3> QED BY <1>2, <1>8, <3>1 DEF Series
  <2>3. ASSUME NEW i \in 1 .. Cell(q2, h).writes - 1
        PROVE  Cell(q2, h + i + 1).target = None
    <3>1. Cell(q2, h).writes \in Nat
      BY <1>2, CellsOK
    <3> DEFINE x == h + i + 1
    <3>2. x \in Nat /\ x >= h
      BY <1>2, <3>1
    <3> HIDE DEF x
    <3>3. Cell(q2, x).target = None
      BY <2>2, <3>2, CellIs, SizeIsNat
    <3> QED BY <3>3 DEF x
  <2>4. \A x \in 0 .. Size - 1 : (x = h \/ x > h + Cell(q2, h).writes) => q2[x].target = None
    <3>1. Cell(q2, h).writes \in Nat
      BY <1>2, CellsOK
    <3>2. \A x \in 0 .. Size - 1 : (x = h \/ x > h + Cell(q2, h).writes) => x >= h
      BY <1>2, <3>1
    <3> QED BY <2>2, <3>2
  <2>5. Series(q2, h)
    <3>1. \A x \in 0 .. Size - 1 : q2[x].writes # 0 => HEADER_ALLOCATED \in q2[x].flags
      BY <1>2, <1>4 DEF Series
    <3>2. HEADER_ALLOCATED \in q2[Size - 1].flags => q2[Size - 1].target # None
      BY <1>1, <1>2, <1>3, <1>4 DEF Series
    <3> QED BY <2>3, <2>4, <3>1, <3>2 DEF Series
  <2> QED BY <1>0, <1>4, <1>7, <2>5 DEF InOrder
<1>10. CASE h < p
  <2>1. Cell(q2, h) = Cell(q, h) /\ h # p /\ Cell(q, h).writes \in Nat
    BY <1>2, <1>4, <1>10, CellsOK
  <2>2. \A x \in 0 .. Size - 1 : (x = h \/ x > h + Cell(q2, h).writes) => q2[x].target = None
    BY <1>2, <1>8, <2>1 DEF Series
  <2>3. ASSUME NEW i \in 1 .. Cell(q2, h).writes - 1, Cell(q2, h + i + 1).target # None
        PROVE  Has(q2, h + i, DEST_COMPLETED)
    <3>1. h + i + 1 \in Nat /\ h + i \in Nat
      BY <1>2, <2>1
    <3>2. h + i + 1 # p
      BY <1>4, <1>6, <2>3
    <3>3. Cell(q, h + i + 1).target # None
      BY <1>4, <2>3, <3>1, <3>2
    <3>4. Has(q, h + i, DEST_COMPLETED)
      BY <1>2, <2>1, <3>3 DEF Series
    <3> QED BY <1>4, <3>1, <3>4
  <2>4. Series(q2, h)
    <3>1. \A x \in 0 .. Size - 1 : q2[x].writes # 0 => HEADER_ALLOCATED \in q2[x].flags
      BY <1>2, <1>4 DEF Series
    <3>2. HEADER_ALLOCATED \in q2[Size - 1].flags => q2[Size - 1].target # None
      BY <1>1, <1>2, <1>3, <1>4 DEF Series
    <3> QED BY <2>2, <2>3, <3>1, <3>2 DEF Series
  <2> QED BY <1>0, <1>4, <1>7, <2>4 DEF InOrder
<1> QED BY <1>1, <1>2, <1>3, <1>9, <1>10

(* A new record, when the ones before it are done. *)
LEMMA RecordKeepsOrder ==
  ASSUME NEW q \in Queues, InOrder(q), NEW h \in Nat, h = GetLastWriteHeader(q), NEW r \in Nat, h < r,
         r - h <= Cell(q, h).writes, \A i \in 1 .. r - h - 1 : Has(q, h + i, DEST_COMPLETED),
         NEW f, NEW t, t # None, NEW q2 \in Queues,
         IF r < Size THEN Programmed(q, q2, r, f, 0, t) ELSE q2 = q
  PROVE  InOrder(q2)
<1>2. h \in 0 .. Size /\ h \in Nat /\ ~Completed(q, h) /\ Cell(q, h).writes \in Nat
  BY LastHeaderOK, SizeIsNat, CellsOK
<1>3. CASE ~(r < Size)
  BY <1>3
<1>4. CASE r < Size
  <2>1. r \in 0 .. Size - 1 /\ Size - 1 \in 0 .. Size - 1
    BY <1>4, SizeIsNat
  <2>2. /\ q2[r].writes = 0 /\ q2[r].target = t
        /\ \A x \in 0 .. Size - 1 : x # r => q2[x] = q[x]
        /\ \A x \in Nat : x # r => Cell(q2, x) = Cell(q, x)
        /\ \A b : \A x \in Nat : Has(q, x, b) => Has(q2, x, b)
    BY <1>4 DEF Programmed
  <2>3. Cell(q2, h) = Cell(q, h) /\ h # r
    BY <1>2, <2>2
  <2>4. GetLastWriteHeader(q2) = h
    <3>1. \A x \in 0 .. Size - 1 : x < h => q2[x] = q[x]
      BY <1>2, <2>2
    <3>2. ~Has(q2, h, WRITES_COMPLETED)
      BY <1>2, <1>4, <2>3, SizeIsNat DEF Completed, Has
    <3> QED BY <3>1, <3>2, SameHeader
  <2>5. \A x \in 0 .. Size - 1 : (x = h \/ x > h + Cell(q2, h).writes) => q2[x].target = None
    <3>1. \A x \in 0 .. Size - 1 : (x = h \/ x > h + Cell(q, h).writes) => x # r
      BY <1>2
    <3> QED BY <2>2, <2>3, <3>1 DEF InOrder, Series
  <2>6. ASSUME NEW i \in 1 .. Cell(q2, h).writes - 1, Cell(q2, h + i + 1).target # None
        PROVE  Has(q2, h + i, DEST_COMPLETED)
    <3>1. h + i + 1 \in Nat /\ h + i \in Nat /\ i \in 1 .. Cell(q, h).writes - 1
      BY <1>2, <2>3
    <3>2. Has(q, h + i, DEST_COMPLETED)
      <4>1. CASE h + i + 1 = r
        <5>1. i \in 1 .. r - h - 1
          BY <1>2, <3>1, <4>1
        <5> QED BY <5>1
      <4>2. CASE h + i + 1 # r
        <5>1. Cell(q, h + i + 1).target # None
          BY <2>2, <2>6, <3>1, <4>2
        <5> QED BY <3>1, <5>1 DEF InOrder, Series
      <4> QED BY <4>1, <4>2
    <3> QED BY <2>2, <3>1, <3>2
  <2>7. Series(q2, h)
    <3>1. HEADER_ALLOCATED \in q2[Size - 1].flags => q2[Size - 1].target # None
      BY <1>2, <2>1, <2>2 DEF InOrder, Series
    <3>2. \A x \in 0 .. Size - 1 : q2[x].writes # 0 => HEADER_ALLOCATED \in q2[x].flags
      BY <2>2 DEF InOrder, Series
    <3> QED BY <2>5, <2>6, <3>1, <3>2 DEF Series
  <2> QED BY <2>4, <2>7 DEF InOrder
<1> QED BY <1>3, <1>4

(* The points on the stack of calls; those that allocate or write after a  *)
(* reclaim, and the routines these wait for.                               *)
Frames  == {ret[i] : i \in 1 .. Len(ret)}
Served  == {"allocHeader", "allocate", "write"}
Waiting == Frames \cap Served # {}
Inner   == Allocating \cup Reclaiming \cup Restoring \cup Flushing

Sound(q) == InOrder(q) /\ Leads(q)

(* Every queue in the flash and in memory is in order; one that can get    *)
(* back to the working block is led by its first cell.                     *)
QueuesInOrder ==
  /\ InOrder(work.queue) /\ Sound(spare.queue)
  /\ image # None => Sound(image.queue)
  /\ spareBuffer # None => Sound(spareBuffer.queue)

(* The driver knows the last header, and the records it is past are done. *)
Found ==
  /\ hdr = GetLastWriteHeader(work.queue) /\ hdr + 2 <= Size /\ hdr < rec
  /\ \A i \in 1 .. rec - hdr - 1 : Has(work.queue, hdr + i, DEST_COMPLETED)

(* The inductive invariant.  Besides the queues: while an allocation or a  *)
(* write waits, the driver reclaims an empty queue and nothing is being    *)
(* delivered; FtwWrite allocates for one write, and what it has found of   *)
(* the last header stays so until the record is programmed.                *)
SeriesInv ==
  /\ QueuesInOrder
  /\ Waiting => pc \in Inner /\ "destCompleted" \notin Frames
  /\ (pc \in Writing \/ "write" \in Frames) => args.writes = 1
  /\ "allocHeader" \in Frames => 0 < offset /\ offset + 2 <= Size /\ "write" \notin Frames
  /\ pc = "allocHeader" => HeaderFits(work.queue, offset) /\ ("write" \in Frames => offset = hdr)
  /\ (pc \in {"allocate", "write", "writeRecord"} \/ (pc \in Allocating /\ "write" \in Frames)) => Found
  /\ pc = "writeRecord" => rec - hdr <= Cell(work.queue, hdr).writes
  /\ (Waiting /\ pc = "reclaim") =>
       ~Has(work.queue, GetLastWriteHeader(work.queue), HEADER_ALLOCATED)
  /\ (Waiting /\ pc \in Copying \cup Flushing \cup Restoring) => hdr = 0 /\ rec = 1
  /\ (pc = "workValid" \/ (Waiting /\ pc \in Restoring)) => Leads(work.queue)

(* The points at which SeriesInv only speaks of the queues. *)
Plain == Labels \ (Allocating \cup Writing \cup {"workValid"})

LEMMA PlainPoints ==
  ASSUME QueuesInOrder', ~Waiting', pc' \in Plain
  PROVE  SeriesInv'
<1>1. "allocHeader" \notin Frames' /\ "write" \notin Frames'
  BY DEF Waiting, Served
<1>2. pc' \notin Allocating /\ pc' \notin Writing /\ pc' # "workValid" /\ pc' # "allocHeader"
      /\ pc' \notin {"allocate", "write", "writeRecord"}
  BY DEF Plain, Allocating, Writing
<1> QED BY <1>1, <1>2 DEF SeriesInv

(* The frames of the stack. *)
LEMMA FramesRank ==
  ASSUME TypeInv
  PROVE  \A x \in Frames : x \in Callers /\ Rank(x) < Rank(pc)
  BY FramesCall DEF TypeInv, Frames

LEMMA FramesGo ==
  ASSUME NEW m, Goto(m)
  PROVE  Frames' = Frames /\ (Waiting' <=> Waiting) /\ pc' = m
  BY DEF Goto, Frames, Waiting

LEMMA FramesCalled ==
  ASSUME TypeInv, NEW m, NEW c \in Labels, Call(m, c)
  PROVE  Frames' = Frames \cup {c} /\ pc' = m
<1>1. ret \in Seq(Labels) /\ ret' = Append(ret, c) /\ pc' = m
  BY DEF Call, TypeInv, Chained
<1>2. /\ Len(ret) \in Nat /\ Len(ret') = Len(ret) + 1
      /\ \A i \in 1 .. Len(ret) : ret'[i] = ret[i]
      /\ ret'[Len(ret) + 1] = c
  BY <1>1, AppendProperties, LenProperties
<1>3. \A i : i \in 1 .. Len(ret') <=> i \in 1 .. Len(ret) \/ i = Len(ret) + 1
  BY <1>2
<1> QED BY <1>1, <1>2, <1>3 DEF Frames

LEMMA FramesReturn ==
  ASSUME TypeInv, Return, pc \notin Outer
  PROVE  /\ pc' \in Frames /\ Frames' \subseteq Frames /\ MayCall(pc', pc)
         /\ pc' \in Callers /\ Rank(pc') < Rank(pc)
         /\ \A x \in Frames' : Rank(x) < Rank(pc')
<1> DEFINE s == SubSeq(ret, 1, Len(ret) - 1)
<1>1. /\ Len(ret) \in 1 .. Len(ret) /\ MayCall(ret[Len(ret)], pc)
      /\ Chained(s, ret[Len(ret)])
      /\ \A i \in 1 .. Len(s) : s[i] = ret[i] /\ i \in 1 .. Len(ret)
  BY ReturnRule DEF TypeInv
<1>2. pc' = ret[Len(ret)] /\ ret' = s
  BY DEF Return
<1> HIDE DEF s
<1>3. pc' \in Frames /\ Frames' \subseteq Frames
  BY <1>1, <1>2 DEF Frames
<1>4. \A x \in Frames' : Rank(x) < Rank(pc')
  BY <1>1, <1>2 DEF Frames, Chained
<1> QED BY <1>1, <1>2, <1>3, <1>4, FramesRank

LEMMA FramesShort ==
  /\ ret' = <<>> => Frames' = {}
  /\ \A c : ret' = <<c>> => Frames' = {c}
  /\ \A l : ret' = Append(<<>>, l) => Frames' = {l}
  /\ \A c, l : ret' = Append(<<c>>, l) => Frames' = {c, l}
<1>1. ret' = <<>> => Frames' = {}
  <2>1. ret' = <<>> => Len(ret') = 0
    OBVIOUS
  <2> QED BY <2>1 DEF Frames
<1>2. ASSUME NEW c, ret' = <<c>>
      PROVE  Frames' = {c}
  <2>1. Len(ret') = 1 /\ ret'[1] = c
    BY <1>2
  <2> QED BY <2>1 DEF Frames
<1>3. ASSUME NEW l, ret' = Append(<<>>, l)
      PROVE  Frames' = {l}
  <2>1. ret' = <<l>>
    BY <1>3
  <2> QED BY <1>2, <2>1
<1>4. ASSUME NEW c, NEW l, ret' = Append(<<c>>, l)
      PROVE  Frames' = {c, l}
  <2>1. Len(ret') = 2 /\ ret'[1] = c /\ ret'[2] = l
    <3>1. <<c>> \in Seq({c, l}) /\ l \in {c, l} /\ Len(<<c>>) = 1 /\ <<c>>[1] = c
      OBVIOUS
    <3> QED BY <1>4, <3>1, AppendProperties
  <2>2. \A i : i \in 1 .. Len(ret') <=> i \in {1, 2}
    BY <2>1
  <2> QED BY <2>1, <2>2 DEF Frames
<1> QED BY <1>1, <1>2, <1>3, <1>4

LEMMA QueuesKept ==
  ASSUME QueuesInOrder, image' \in {image, spare, None}, spareBuffer' \in {spareBuffer, spare, None},
         \/ \E b : WriteSpare(b) /\ Sound(b.queue)
         \/ \E b : WriteWork(b) /\ InOrder(b.queue)
         \/ work' = work /\ spare' = spare
  PROVE  QueuesInOrder'
<1>1. /\ image' # None => Sound(image'.queue)
      /\ spareBuffer' # None => Sound(spareBuffer'.queue)
  BY DEF QueuesInOrder
<1>2. CASE \E b : WriteSpare(b) /\ Sound(b.queue)
  BY <1>1, <1>2 DEF QueuesInOrder, WriteSpare
<1>3. CASE \E b : WriteWork(b) /\ InOrder(b.queue)
  BY <1>1, <1>3 DEF QueuesInOrder, WriteWork
<1>4. CASE work' = work /\ spare' = spare
  BY <1>1, <1>4 DEF QueuesInOrder
<1> QED BY <1>2, <1>3, <1>4

LEMMA PlainStep ==
  ASSUME TypeInv, SeriesInv, pc \notin Inner, QueuesInOrder',
         \/ \E m \in Plain : Goto(m)
         \/ Return /\ pc \notin Outer
         \/ \E m \in Plain, c \in Labels \ Served : Call(m, c)
  PROVE  SeriesInv'
<1>1. ~Waiting
  BY DEF SeriesInv
<1>2. CASE \E m \in Plain : Goto(m)
  BY <1>1, <1>2, FramesGo, PlainPoints
<1>3. CASE Return /\ pc \notin Outer
  <2>1. pc' \in Frames /\ Frames' \subseteq Frames /\ pc' \in Callers
    BY <1>3, FramesReturn
  <2>2. ~Waiting' /\ pc' \notin Served
    BY <1>1, <2>1 DEF Waiting
  <2>3. pc' \in Plain
    BY <2>1, <2>2 DEF Callers, Refreshed, Served, Plain, Labels, Outer, Allocating, Writing, Storing,
                      Restoring, Delivering
  <2> QED BY <2>2, <2>3, PlainPoints
<1>4. ASSUME NEW m \in Plain, NEW c \in Labels \ Served, Call(m, c)
      PROVE  SeriesInv'
  <2>1. Frames' = Frames \cup {c} /\ pc' = m
    BY <1>4, FramesCalled
  <2>2. ~Waiting'
    BY <1>1, <2>1 DEF Waiting
  <2> QED BY <2>1, <2>2, PlainPoints
<1> QED BY <1>2, <1>3, <1>4

LEMMA PlainLabels ==
  /\ {"writeTarget", "flushWork", "bootBlock", "targetWrite", "destCompleted", "bootErase",
      "bootWrite", "bootUnswap", "complete", "abort", "idle", "done", "off", "reclaim", "format",
      "restart", "getLastWrite"} \subseteq Plain
  /\ Outer \subseteq Plain
  /\ Inner \cap {"writeTarget", "targetWrite", "destCompleted", "bootBlock", "bootErase",
                 "bootWrite", "bootUnswap", "complete", "restart", "eraseSpare", "abort",
                 "getLastWrite", "spareCompleted", "writeErase", "writeSpare", "write",
                 "writeRecord"} = {}
  /\ Inner \cap Outer = {}
  /\ {"restoreErase", "destCompleted", "eraseSpare", "initAbort", "initFirst", "initRestart",
      "initAbortLast", "initWorkSpace"} \subseteq Labels \ Served
  BY DEF Plain, Inner, Served, Labels, Outer, Allocating, Writing, Storing, Reclaiming, Copying,
         Restoring, Flushing, Delivering, Booting

LEMMA EmptyBlocks ==
  \A v : Block(v).queue = Empty /\ InOrder(Block(v).queue) /\ Sound(Block(v).queue)
  BY EmptyInOrder DEF Block, Sound

LEMMA SpareKept ==
  ASSUME TypeInv, QueuesInOrder
  PROVE  /\ Sound([spare EXCEPT !.valid = TRUE].queue)
         /\ Sound([spare EXCEPT !.queue = UpdateFvState(@, rec, SPARE_COMPLETED)].queue)
         /\ InOrder([spare EXCEPT !.header = TRUE, !.valid = FALSE, !.invalid = FALSE].queue)
         /\ [spare EXCEPT !.header = TRUE, !.valid = FALSE, !.invalid = FALSE].queue = spare.queue
         /\ InOrder([work EXCEPT !.valid = TRUE].queue) /\ [work EXCEPT !.valid = TRUE].queue = work.queue
         /\ InOrder([work EXCEPT !.invalid = TRUE].queue) /\ [work EXCEPT !.invalid = TRUE].queue = work.queue
<1>1. spare \in Blocks /\ work \in Blocks /\ spare.queue \in Queues /\ rec \in Nat
  BY BlocksAtHand
<1>2. /\ [spare EXCEPT !.valid = TRUE].queue = spare.queue
      /\ [spare EXCEPT !.header = TRUE, !.valid = FALSE, !.invalid = FALSE].queue = spare.queue
      /\ [spare EXCEPT !.queue = UpdateFvState(@, rec, SPARE_COMPLETED)].queue
           = UpdateFvState(spare.queue, rec, SPARE_COMPLETED)
      /\ [work EXCEPT !.valid = TRUE].queue = work.queue
      /\ [work EXCEPT !.invalid = TRUE].queue = work.queue
  BY <1>1 DEF Blocks
<1>3. Sound(UpdateFvState(spare.queue, rec, SPARE_COMPLETED))
  <2>1. SPARE_COMPLETED = 2 /\ 2 \in {2, 4}
    BY DEF SPARE_COMPLETED
  <2> QED BY <1>1, <2>1, FlagKeepsOrder DEF Sound, QueuesInOrder
<1> QED BY <1>2, <1>3 DEF QueuesInOrder, Sound

LEMMA FlagWritten ==
  ASSUME TypeInv, QueuesInOrder, NEW p \in Nat, NEW f \in {2, 4},
         WriteQueue(UpdateFvState(work.queue, p, f)), UNCHANGED ram
  PROVE  QueuesInOrder' /\ work'.queue = UpdateFvState(work.queue, p, f)
<1>1. work \in Blocks /\ work.queue \in Queues
  BY BlocksAtHand
<1> DEFINE b == [work EXCEPT !.queue = UpdateFvState(work.queue, p, f)]
<1>2. b.queue = UpdateFvState(work.queue, p, f) /\ WriteWork(b)
  BY <1>1, BlockParts DEF WriteQueue
<1>3. InOrder(b.queue)
  BY <1>1, <1>2, FlagKeepsOrder DEF QueuesInOrder
<1>4. work' = b
  BY <1>2 DEF WriteWork
<1> HIDE DEF b
<1>5. image' = image /\ spareBuffer' = spareBuffer
  OBVIOUS
<1> QED BY <1>2, <1>3, <1>4, <1>5, QueuesKept

LEMMA FlagValues == SPARE_COMPLETED \in {2, 4} /\ DEST_COMPLETED \in {2, 4}
                    /\ WRITES_COMPLETED \in {2, 4} /\ WRITES_ALLOCATED = 2
  BY DEF SPARE_COMPLETED, DEST_COMPLETED, WRITES_COMPLETED, WRITES_ALLOCATED

LEMMA OutsideNotOuter ==
  Outer \cap {"writeTarget", "targetWrite", "destCompleted", "bootBlock", "bootErase",
              "bootWrite", "bootUnswap", "complete", "restart", "eraseSpare", "abort",
              "getLastWrite", "workValid", "restoreWrite", "allocate", "allocWrites", "write"} = {}
  BY DEF Outer

LEMMA DeliveringSeries ==
  ASSUME TypeInv, SeriesInv,
         \/ SpareCompleted \/ FlushToWork \/ FlushToBoot \/ FlushToTarget \/ FlushTargetWrite
         \/ FlushSpareBlockToBootBlock \/ FlushBootErase \/ FlushBootWrite \/ FlushBootUnswap
         \/ DestCompleted \/ WritesCompleted
  PROVE  SeriesInv'
<1>0. QueuesInOrder /\ rec \in Nat /\ hdr \in Nat
  BY BlocksAtHand DEF SeriesInv
<1>1. CASE SpareCompleted
  <2>1. QueuesInOrder'
    BY <1>0, <1>1, FlagWritten, FlagValues DEF SpareCompleted
  <2> QED BY <1>1, <2>1, PlainStep, PlainLabels DEF SpareCompleted, At
<1>2. CASE FlushToWork
  <2>1. QueuesInOrder'
    BY <1>0, <1>2, SpareKept, QueuesKept DEF FlushToWork
  <2> QED BY <1>2, <2>1, PlainStep, PlainLabels DEF FlushToWork, At
<1>3. CASE FlushToBoot
  <2>1. QueuesInOrder'
    BY <1>0, <1>3, QueuesKept DEF FlushToBoot
  <2> QED BY <1>3, <2>1, PlainStep, PlainLabels DEF FlushToBoot, At
<1>4. CASE FlushToTarget
  <2>1. QueuesInOrder'
    BY <1>0, <1>4, QueuesKept DEF FlushToTarget, WriteTarget
  <2> QED BY <1>4, <2>1, PlainStep, PlainLabels DEF FlushToTarget, At
<1>5. CASE FlushTargetWrite
  <2>1. QueuesInOrder'
    BY <1>0, <1>5, QueuesKept DEF FlushTargetWrite, WriteTarget
  <2> QED BY <1>5, <2>1, PlainStep, PlainLabels DEF FlushTargetWrite, At
<1>6. CASE FlushSpareBlockToBootBlock
  <2>1. QueuesInOrder'
    BY <1>0, <1>6, QueuesKept DEF FlushSpareBlockToBootBlock
  <2> QED BY <1>6, <2>1, PlainStep, PlainLabels DEF FlushSpareBlockToBootBlock, At
<1>7. CASE FlushBootErase
  <2>1. QueuesInOrder'
    BY <1>0, <1>7, EmptyBlocks, QueuesKept DEF FlushBootErase
  <2> QED BY <1>7, <2>1, PlainStep, PlainLabels DEF FlushBootErase, At
<1>8. CASE FlushBootWrite
  <2>1. pc = "bootWrite" /\ WriteSpare(image) /\ image' = None /\ spareBuffer' = spareBuffer
    BY <1>8 DEF FlushBootWrite, At
  <2>2. image # None
    BY <2>1, BlocksAtHand, FindsAt, NoneIsNoBlock
  <2>3. QueuesInOrder'
    BY <1>0, <2>1, <2>2, QueuesKept DEF QueuesInOrder
  <2> QED BY <1>8, <2>1, <2>3, PlainStep, PlainLabels DEF FlushBootWrite
<1>9. CASE FlushBootUnswap
  <2>1. QueuesInOrder'
    BY <1>0, <1>9, QueuesKept DEF FlushBootUnswap
  <2> QED BY <1>9, <2>1, PlainStep, PlainLabels, OutsideNotOuter DEF FlushBootUnswap, At
<1>10. CASE DestCompleted
  <2>1. QueuesInOrder'
    BY <1>0, <1>10, FlagWritten, FlagValues DEF DestCompleted
  <2>2. pc = "destCompleted" /\ (Goto("complete") \/ Return)
    BY <1>10 DEF DestCompleted, At
  <2> QED BY <2>1, <2>2, PlainStep, PlainLabels, OutsideNotOuter
<1>11. CASE WritesCompleted
  <2>1. QueuesInOrder'
    BY <1>0, <1>11, FlagWritten, FlagValues DEF WritesCompleted
  <2> QED BY <1>11, <2>1, PlainStep, PlainLabels, OutsideNotOuter DEF WritesCompleted, At
<1> QED BY <1>1, <1>2, <1>3, <1>4, <1>5, <1>6, <1>7, <1>8, <1>9, <1>10, <1>11

LEMMA DecisionsSeries ==
  ASSUME TypeInv, SeriesInv, Restart \/ RestartEraseSpare \/ Abort \/ GetLastWrite
  PROVE  SeriesInv'
<1>0. QueuesInOrder
  BY DEF SeriesInv
<1>1. CASE Restart
  <2>1. QueuesInOrder'
    BY <1>0, <1>1, QueuesKept DEF Restart
  <2>2. pc = "restart" /\ (Return \/ Call("writeTarget", "eraseSpare"))
    BY <1>1 DEF Restart, At
  <2> QED BY <2>1, <2>2, PlainStep, PlainLabels, OutsideNotOuter
<1>2. CASE RestartEraseSpare
  <2>1. QueuesInOrder'
    BY <1>0, <1>2, EmptyBlocks, QueuesKept DEF RestartEraseSpare
  <2> QED BY <1>2, <2>1, PlainStep, PlainLabels, OutsideNotOuter DEF RestartEraseSpare, At
<1>3. CASE Abort
  <2>1. QueuesInOrder'
    BY <1>0, <1>3, QueuesKept DEF Abort
  <2>2. pc = "abort" /\ (Return \/ Goto("complete"))
    BY <1>3 DEF Abort, At
  <2> QED BY <2>1, <2>2, PlainStep, PlainLabels, OutsideNotOuter
<1>4. CASE GetLastWrite
  <2>1. QueuesInOrder'
    BY <1>0, <1>4, QueuesKept DEF GetLastWrite
  <2>2. pc = "getLastWrite" /\ (Return \/ Goto("abort"))
    BY <1>4 DEF GetLastWrite, At, Goto
  <2> QED BY <2>1, <2>2, PlainStep, PlainLabels, OutsideNotOuter
<1> QED BY <1>1, <1>2, <1>3, <1>4

LEMMA RefreshPlain ==
  ASSUME TypeInv, SeriesInv, UNCHANGED <<flash, image, spareBuffer>>,
         NEW l \in {"abort", "restart", "getLastWrite", "initWorkSpace", "initFirst"}, NEW r,
         r = <<>> \/ \E c \in Outer : r = <<c>>, Refresh(l, r)
  PROVE  SeriesInv'
<1>1. QueuesInOrder'
  BY QueuesKept DEF SeriesInv
<1>2. l \in Plain /\ l \notin Served /\ Outer \cap Served = {}
  BY PlainLabels DEF Served, Outer
<1>3. (pc' = "reclaim" /\ ret' = Append(r, l)) \/ (pc' = l /\ ret' = r)
  BY DEF Refresh
<1>4. pc' \in Plain
  BY <1>2, <1>3, PlainLabels
<1>5. CASE r = <<>>
  <2>1. Frames' = {} \/ Frames' = {l}
    BY <1>3, <1>5, FramesShort
  <2> QED BY <1>1, <1>2, <1>4, <2>1, PlainPoints DEF Waiting
<1>6. ASSUME NEW c \in Outer, r = <<c>>
      PROVE  SeriesInv'
  <2>1. Frames' = {c} \/ Frames' = {c, l}
    BY <1>3, <1>6, FramesShort
  <2> QED BY <1>1, <1>2, <1>4, <2>1, PlainPoints DEF Waiting
<1> QED BY <1>5, <1>6

LEMMA InitSeries ==
  ASSUME TypeInv, SeriesInv,
         \/ InitRefresh \/ InitWorkSpace \/ InitAbort \/ InitFirst \/ InitLast \/ InitTail
         \/ InitRestart
  PROVE  SeriesInv'
<1> DEFINE R == \E l \in {"abort", "restart", "initWorkSpace", "initFirst"} :
                  \E r : Refresh(l, r) /\ (r = <<>> \/ \E c \in Outer : r = <<c>>)
           J == \E m \in Plain : Goto(m)
           C == \E m \in Plain, c \in Labels \ Served : Call(m, c)
<1>1. UNCHANGED <<flash, image, spareBuffer>> /\ pc \in Outer
  BY DEF InitRefresh, InitWorkSpace, InitAbort, InitFirst, InitLast, InitTail, InitRestart, At,
         Outer
<1>2. R \/ J \/ C
  <2>0. {"initWorkSpace", "initFirst", "initLast", "initTail", "initRestart", "initDone",
         "initAgain", "initAbortLast"} \subseteq Outer
    BY DEF Outer
  <2>1. CASE InitRefresh
    <3>1. CASE Refresh("initWorkSpace", <<>>)
      BY <3>1
    <3>2. CASE Call("reclaim", "initWorkSpace")
      BY <3>2, PlainLabels
    <3> QED BY <2>1, <3>1, <3>2 DEF InitRefresh
  <2>2. CASE InitWorkSpace
    <3>1. CASE Goto("initFirst")
      BY <2>0, <3>1, PlainLabels
    <3>2. CASE Call("flushWork", "initAbort")
      BY <3>2, PlainLabels
    <3>3. CASE Call("format", "initFirst")
      BY <3>3, PlainLabels
    <3> QED BY <2>2, <3>1, <3>2, <3>3 DEF InitWorkSpace
  <2>3. CASE InitAbort
    BY <2>0, <2>3 DEF InitAbort
  <2>4. CASE InitFirst
    BY <2>0, <2>4, PlainLabels DEF InitFirst
  <2>5. CASE InitLast
    BY <2>0, <2>5, PlainLabels DEF InitLast
  <2>6. CASE InitTail
    <3>1. CASE Goto("initRestart")
      BY <2>0, <3>1, PlainLabels
    <3>2. CASE Call("reclaim", "initRestart")
      BY <3>2, PlainLabels
    <3> QED BY <2>6, <3>1, <3>2 DEF InitTail
  <2>7. CASE InitRestart
    <3>1. \/ Goto("initDone") \/ Call("bootBlock", "initAbortLast")
          \/ Refresh("abort", <<"initDone">>) \/ Refresh("restart", <<"initAbortLast">>)
      BY <2>7 DEF InitRestart
    <3>2. CASE Goto("initDone")
      BY <2>0, <3>2, PlainLabels
    <3>3. CASE Call("bootBlock", "initAbortLast")
      BY <3>3, PlainLabels
    <3> QED BY <2>0, <3>1, <3>2, <3>3
  <2> QED BY <2>1, <2>2, <2>3, <2>4, <2>5, <2>6, <2>7
<1>3. CASE R
  BY <1>1, <1>3, RefreshPlain
<1>4. CASE J \/ C
  <2>1. QueuesInOrder'
    BY <1>1, QueuesKept DEF SeriesInv
  <2>2. pc \notin Inner
    BY <1>1, PlainLabels
  <2> QED BY <1>4, <2>1, <2>2, PlainStep
<1> QED BY <1>2, <1>3, <1>4

(* What the driver has found after it has refreshed the work space. *)
LEMMA RecordsBefore ==
  ASSUME NEW q \in Queues, NEW h \in Nat
  PROVE  \A i \in 1 .. GetLastWriteRecord(q, h) - h - 1 : Has(q, h + i, DEST_COMPLETED)
<1> DEFINE w == Cell(q, h).writes
           open == {i \in 1 .. w : ~Has(q, h + i, DEST_COMPLETED)}
<1>1. w \in Nat
  BY CellsOK
<1>2. open # {} => Min(open) \in open /\ \A y \in open : Min(open) <= y
  <2>1. open \subseteq Nat
    BY <1>1
  <2> HIDE DEF open
  <2>2. open # {} => \E x \in open : \A y \in open : x <= y
    BY <2>1, LeastOf
  <2> QED BY <2>1, <2>2 DEF Min
<1>3. GetLastWriteRecord(q, h) =
        IF w = 0 THEN h + 1 ELSE h + (IF open = {} THEN w ELSE Min(open))
  BY DEF GetLastWriteRecord
<1>4. ASSUME NEW i \in 1 .. w, ~Has(q, h + i, DEST_COMPLETED)
      PROVE  i \in open
  BY <1>4
<1>5. open \subseteq 1 .. w
  OBVIOUS
<1> DEFINE m == Min(open)
<1> HIDE DEF open, w, m
<1>6. CASE w = 0
  <2>1. GetLastWriteRecord(q, h) - h - 1 = 0
    BY <1>3, <1>6
  <2> QED BY <2>1
<1>7. CASE w # 0 /\ open = {}
  <2>1. GetLastWriteRecord(q, h) - h - 1 = w - 1
    BY <1>1, <1>3, <1>7
  <2>2. \A i \in 1 .. w - 1 : i \in 1 .. w
    BY <1>1
  <2> QED BY <1>4, <1>7, <2>1, <2>2
<1>8. CASE w # 0 /\ open # {}
  <2>1. m \in 1 .. w /\ \A y \in open : m <= y
    BY <1>2, <1>5, <1>8 DEF m
  <2>2. GetLastWriteRecord(q, h) = h + m
    BY <1>3, <1>8 DEF m
  <2>3. GetLastWriteRecord(q, h) - h - 1 = m - 1
    BY <1>1, <2>1, <2>2
  <2>4. \A i \in 1 .. m - 1 : i \in 1 .. w /\ ~(m <= i)
    BY <1>1, <2>1
  <2> QED BY <1>4, <2>1, <2>3, <2>4
<1> QED BY <1>6, <1>7, <1>8

LEMMA LocateFinds ==
  ASSUME TypeInv, work' = work, Locate(work.queue), GetLastWriteHeader(work.queue) + 2 <= Size
  PROVE  Found'
<1> DEFINE q == work.queue
           h == GetLastWriteHeader(q)
<1>1. q \in Queues /\ h \in Nat
  BY BlocksAtHand, LastHeaderOK, SizeIsNat
<1>2. hdr' = h /\ rec' = GetLastWriteRecord(q, h) /\ work'.queue = q /\ h + 2 <= Size
  BY DEF Locate
<1> HIDE DEF h, q
<1>3. h < rec' /\ \A i \in 1 .. rec' - h - 1 : Has(q, h + i, DEST_COMPLETED)
  BY <1>1, <1>2, RecordsBefore, LastRecordOK
<1>4. h = GetLastWriteHeader(q)
  BY DEF h
<1> QED BY <1>2, <1>3, <1>4 DEF Found

LEMMA ServicesSeries ==
  ASSUME TypeInv, SeriesInv, Request
  PROVE  SeriesInv'
<1>1. ASSUME NEW l \in {"allocate", "write"}, NEW t, NEW v, NEW n, Service(l, t, v, n),
             l = "write" => n = 1
      PROVE  SeriesInv'
  <2>1. /\ args' = [target |-> t, value |-> v, writes |-> n]
        /\ Refresh(l, <<"done">>) /\ UNCHANGED <<flash, offset, image, spareBuffer>>
    BY <1>1 DEF Service
  <2>2. QueuesInOrder' /\ args'.writes = n
    BY <2>1, QueuesKept DEF SeriesInv
  <2>3. work.queue \in Queues /\ InOrder(work.queue) /\ GetLastWriteHeader(work.queue) \in Nat
    BY BlocksAtHand, LastHeaderOK, SizeIsNat DEF SeriesInv, QueuesInOrder
  <2>4. CASE GetLastWriteHeader(work.queue) + 2 > Size
    <3>1. pc' = "reclaim" /\ ret' = Append(<<"done">>, l)
      BY <2>1, <2>4 DEF Refresh
    <3>2. Frames' = {"done", l}
      BY <3>1, FramesShort
    <3>3. ~Has(work'.queue, GetLastWriteHeader(work'.queue), HEADER_ALLOCATED)
      BY <2>1, <2>3, <2>4, NoRoomNoHeader
    <3> QED BY <1>1, <2>2, <3>1, <3>2, <3>3
            DEF SeriesInv, Inner, Reclaiming, Copying, Flushing, Restoring, Allocating, Writing, Storing
  <2>5. CASE ~(GetLastWriteHeader(work.queue) + 2 > Size)
    <3>1. pc' = l /\ ret' = <<"done">> /\ Locate(work.queue)
      BY <2>1, <2>5 DEF Refresh
    <3>2. Frames' = {"done"} /\ ~Waiting'
      BY <3>1, FramesShort DEF Waiting, Served
    <3>3. GetLastWriteHeader(work.queue) + 2 <= Size
      BY <2>3, <2>5, SizeIsNat
    <3>4. Found'
      BY <2>1, <3>1, <3>3, LocateFinds
    <3> QED BY <1>1, <2>2, <3>1, <3>2, <3>4 DEF SeriesInv, Allocating, Writing, Storing
  <2> QED BY <2>4, <2>5
<1>2. ASSUME NEW l \in {"restart", "abort", "getLastWrite"}, Service(l, None, None, 0)
      PROVE  SeriesInv'
  BY <1>2, RefreshPlain DEF Service, Outer
<1>3. ASSUME NEW n \in Counts, FtwAllocate(n) PROVE SeriesInv'
  BY <1>1, <1>3 DEF FtwAllocate
<1>4. ASSUME NEW t \in Target, NEW v \in Value, FtwWrite(t, v) PROVE SeriesInv'
  BY <1>1, <1>4 DEF FtwWrite
<1>5. CASE FtwRestart \/ FtwAbort \/ FtwGetLastWrite
  BY <1>2, <1>5 DEF FtwRestart, FtwAbort, FtwGetLastWrite
<1> QED BY <1>3, <1>4, <1>5 DEF Request

LEMMA FailuresSeries ==
  ASSUME TypeInv, SeriesInv, Done \/ PowerFailure \/ DeviceError
  PROVE  SeriesInv'
<1>0. QueuesInOrder
  BY DEF SeriesInv
<1>1. CASE Done
  <2>1. QueuesInOrder'
    BY <1>0, <1>1, QueuesKept DEF Done, Forget
  <2>2. pc \in Outer /\ Goto("idle")
    BY <1>1 DEF Done, At, Outer
  <2>3. pc \notin Inner
    BY <2>2, PlainLabels
  <2> QED BY <2>1, <2>2, <2>3, PlainStep, PlainLabels
<1>2. ASSUME Interrupted, image' \in {image, None}, spareBuffer' \in {spareBuffer, None},
             ret' = <<>>, pc' \in Outer
      PROVE  SeriesInv'
  <2>1. QueuesInOrder'
    <3>1. CASE UNCHANGED flash \/ \E t, v : WriteTarget(t, v)
      BY <1>0, <1>2, <3>1, QueuesKept DEF WriteTarget
    <3>2. CASE WriteSpare(Block(Torn)) \/ WriteWork(Block(Torn))
      BY <1>0, <1>2, <3>2, EmptyBlocks, QueuesKept
    <3> QED BY <1>2, <3>1, <3>2 DEF Interrupted
  <2>2. Frames' = {} /\ pc' \in Plain
    BY <1>2, FramesShort, PlainLabels
  <2> QED BY <2>1, <2>2, PlainPoints DEF Waiting
<1>3. CASE PowerFailure
  BY <1>2, <1>3 DEF PowerFailure, Forget, Outer
<1>4. CASE DeviceError
  BY <1>2, <1>4 DEF DeviceError, Outer
<1> QED BY <1>1, <1>3, <1>4

-----------------------------------------------------------------------------
(* A reclaim that is part of an allocation or of a write finds nothing to  *)
(* preserve; the driver goes on with the empty queue.                      *)
Emptying == Copying \cup Flushing \cup Restoring

LEMMA ReclaimStep ==
  ASSUME TypeInv, SeriesInv, QueuesInOrder', pc \in Emptying, pc' \in Emptying,
         UNCHANGED <<hdr, rec, args, offset>>,
         Frames' = Frames \/ Frames' = Frames \cup {"restoreErase"},
         (pc' = "workValid" \/ (Waiting' /\ pc' \in Restoring)) => Leads(work'.queue)
  PROVE  SeriesInv'
<1>1. /\ Waiting' <=> Waiting
      /\ "write" \in Frames' <=> "write" \in Frames
      /\ "allocHeader" \in Frames' <=> "allocHeader" \in Frames
      /\ "destCompleted" \in Frames' <=> "destCompleted" \in Frames
  BY DEF Waiting, Served
<1>2. /\ pc' \notin Allocating /\ pc' \notin Writing
      /\ pc' \notin {"allocHeader", "allocate", "write", "writeRecord", "reclaim"}
      /\ pc' \in Inner /\ pc' \in Copying \cup Flushing \cup Restoring
      /\ pc \in Copying \cup Flushing \cup Restoring
  BY DEF Emptying, Inner, Allocating, Writing, Storing, Copying, Reclaiming, Flushing, Restoring
<1> QED BY <1>1, <1>2 DEF SeriesInv

LEMMA StartReclaimSeries ==
  ASSUME TypeInv, SeriesInv, FtwReclaimWorkSpace
  PROVE  SeriesInv'
<1>1. PICK preserve \in BOOLEAN :
        /\ StartReclaim(preserve)
        /\ pc = IF preserve THEN "reclaim" ELSE "format"
  BY DEF FtwReclaimWorkSpace, At
<1> DEFINE q == IF preserve THEN Preserved(work.queue) ELSE Empty
<1>2. work.queue \in Queues /\ InOrder(work.queue) /\ QueuesInOrder
  BY BlocksAtHand DEF SeriesInv, QueuesInOrder
<1>3. Sound(q)
  BY <1>2, PreservedInOrder, EmptyInOrder DEF Sound
<1>4. Waiting => q = Empty
  <2>1. CASE preserve /\ Waiting
    <3>1. ~Has(work.queue, GetLastWriteHeader(work.queue), HEADER_ALLOCATED)
      BY <1>1, <2>1 DEF SeriesInv
    <3> QED BY <2>1, <3>1 DEF Preserved
  <2> QED BY <2>1
<1>5. /\ image' = [header |-> preserve => work.header, valid |-> FALSE,
                   invalid |-> FALSE, queue |-> q, data |-> work.data]
      /\ hdr' = GetLastWriteHeader(q) /\ rec' = GetLastWriteRecord(q, GetLastWriteHeader(q))
      /\ spareBuffer' = spare /\ UNCHANGED <<flash, args, offset>> /\ Goto("reclaimErase")
  BY <1>1 DEF StartReclaim, Locate
<1> HIDE DEF q
<1>6. Waiting => hdr' = 0 /\ rec' = 1
  BY <1>4, <1>5, EmptyInOrder
<1>7. QueuesInOrder'
  <2>1. image'.queue = q
    BY <1>5
  <2> QED BY <1>2, <1>3, <1>5, <2>1 DEF QueuesInOrder
<1>8. Frames' = Frames /\ (Waiting' <=> Waiting) /\ pc' = "reclaimErase"
  BY <1>5, FramesGo
<1>9. UNCHANGED <<args, offset>>
  BY <1>5
<1> QED BY <1>6, <1>7, <1>8, <1>9
        DEF SeriesInv, Inner, Allocating, Writing, Storing, Copying, Reclaiming, Flushing, Restoring

LEMMA ClearingPoints ==
  /\ {"reclaimErase", "reclaimWrite", "reclaimValid", "reclaimInvalid", "flushWork", "workInvalid",
      "workErase", "workWrite", "workValid", "restoreErase", "restoreWrite"} \subseteq Emptying
  /\ {"reclaimErase", "reclaimWrite", "reclaimValid", "reclaimInvalid", "flushWork", "workInvalid",
      "workErase", "workWrite", "workValid"} \cap Restoring = {}
  /\ {"restoreErase", "restoreWrite"} \subseteq Restoring
  BY DEF Emptying, Copying, Flushing, Restoring

LEMMA ReclaimSeries ==
  ASSUME TypeInv, SeriesInv,
         \/ ReclaimErase \/ ReclaimWrite \/ ReclaimValid \/ ReclaimInvalid
         \/ FlushSpareValid \/ FlushWorkInvalid \/ FlushWorkErase \/ FlushWorkWrite \/ RestoreErase
  PROVE  SeriesInv'
<1>0. QueuesInOrder /\ "restoreErase" \in Labels
  BY PlainLabels DEF SeriesInv
<1>1. CASE ReclaimErase
  <2>1. QueuesInOrder'
    BY <1>0, <1>1, EmptyBlocks, QueuesKept DEF ReclaimErase
  <2> QED BY <1>1, <2>1, FramesGo, ReclaimStep, ClearingPoints DEF ReclaimErase, At
<1>2. CASE ReclaimWrite
  <2>1. pc = "reclaimWrite" /\ WriteSpare(image) /\ image' = None /\ spareBuffer' = spareBuffer
    BY <1>2 DEF ReclaimWrite, At
  <2>2. image # None
    BY <2>1, BlocksAtHand, FindsAt, NoneIsNoBlock
  <2>3. QueuesInOrder'
    BY <1>0, <2>1, <2>2, QueuesKept DEF QueuesInOrder
  <2> QED BY <1>2, <2>1, <2>3, FramesGo, ReclaimStep, ClearingPoints DEF ReclaimWrite
<1>3. CASE ReclaimValid
  <2>1. QueuesInOrder'
    BY <1>0, <1>3, SpareKept, QueuesKept DEF ReclaimValid
  <2> QED BY <1>3, <2>1, FramesGo, ReclaimStep, ClearingPoints DEF ReclaimValid, At
<1>4. CASE ReclaimInvalid
  <2>1. QueuesInOrder'
    BY <1>0, <1>4, SpareKept, QueuesKept DEF ReclaimInvalid
  <2>2. Frames' = Frames \cup {"restoreErase"} /\ pc' = "flushWork"
    BY <1>0, <1>4, FramesCalled DEF ReclaimInvalid
  <2> QED BY <1>4, <2>1, <2>2, ReclaimStep, ClearingPoints DEF ReclaimInvalid, At
<1>5. CASE FlushSpareValid
  <2>1. QueuesInOrder'
    BY <1>0, <1>5, SpareKept, QueuesKept DEF FlushSpareValid
  <2> QED BY <1>5, <2>1, FramesGo, ReclaimStep, ClearingPoints DEF FlushSpareValid, At
<1>6. CASE FlushWorkInvalid
  <2>1. QueuesInOrder'
    BY <1>0, <1>6, SpareKept, QueuesKept DEF FlushWorkInvalid
  <2> QED BY <1>6, <2>1, FramesGo, ReclaimStep, ClearingPoints DEF FlushWorkInvalid, At
<1>7. CASE FlushWorkErase
  <2>1. QueuesInOrder'
    BY <1>0, <1>7, EmptyBlocks, QueuesKept DEF FlushWorkErase
  <2> QED BY <1>7, <2>1, FramesGo, ReclaimStep, ClearingPoints DEF FlushWorkErase, At
<1>8. CASE FlushWorkWrite
  <2>1. QueuesInOrder'
    BY <1>0, <1>8, SpareKept, QueuesKept DEF FlushWorkWrite
  <2>2. work'.queue = spare.queue
    BY <1>0, <1>8, SpareKept DEF FlushWorkWrite, WriteWork
  <2>3. Leads(work'.queue)
    BY <1>0, <2>2 DEF QueuesInOrder, Sound
  <2> QED BY <1>8, <2>1, <2>3, FramesGo, ReclaimStep, ClearingPoints DEF FlushWorkWrite, At
<1>9. CASE RestoreErase
  <2>1. QueuesInOrder'
    BY <1>0, <1>9, EmptyBlocks, QueuesKept DEF RestoreErase
  <2>2. pc = "restoreErase" /\ work' = work /\ Goto("restoreWrite")
    BY <1>9 DEF RestoreErase, At, WriteSpare
  <2>3. Waiting' => Leads(work'.queue)
    BY <2>2, FramesGo, ClearingPoints DEF SeriesInv
  <2> QED BY <1>9, <2>1, <2>2, <2>3, FramesGo, ReclaimStep, ClearingPoints DEF RestoreErase
<1> QED BY <1>1, <1>2, <1>3, <1>4, <1>5, <1>6, <1>7, <1>8, <1>9

LEMMA ServedRanks ==
  /\ Rank("write") = 1 /\ Rank("allocate") = 2 /\ Rank("allocHeader") = 2
  /\ Rank("allocWrites") = 2 /\ Rank("destCompleted") = 4
  /\ \A l \in Writing : Rank(l) = 1
  /\ \A l \in {"done", "initWorkSpace", "initFirst", "initRestart", "initAbort"} : Rank(l) = 0
  /\ \A l \in {"restart", "abort", "getLastWrite"} : Rank(l) = 1
  BY DEF Rank, Outer, Allocating, Writing, Storing, Reclaiming, Restoring, Copying, Delivering

(* Below a point of rank one no allocation and no write waits. *)
LEMMA NothingWaits ==
  ASSUME NEW S, \A x \in S : Rank(x) < 1
  PROVE  S \cap Served = {}
  BY ServedRanks DEF Served

LEMMA FlushWorkValidSeries ==
  ASSUME TypeInv, SeriesInv, FlushWorkValid
  PROVE  SeriesInv'
<1>1. pc = "workValid" /\ WriteWork([work EXCEPT !.valid = TRUE]) /\ Return /\ UNCHANGED ram
  BY DEF FlushWorkValid, At
<1>2. QueuesInOrder' /\ work'.queue = work.queue
  <2>1. QueuesInOrder
    BY DEF SeriesInv
  <2>2. work' = [work EXCEPT !.valid = TRUE]
    BY <1>1 DEF WriteWork
  <2> QED BY <1>1, <2>1, <2>2, SpareKept, QueuesKept
<1>3. /\ pc' \in Frames /\ Frames' \subseteq Frames /\ MayCall(pc', "workValid")
      /\ \A x \in Frames' : Rank(x) < Rank(pc')
  BY <1>1, FramesReturn, OutsideNotOuter
<1>4. pc' \in {"restoreErase", "destCompleted", "initAbort"}
  BY <1>3 DEF MayCall, Allocating, Writing, Storing, Restoring, Reclaiming, Copying, Delivering,
              Booting
<1>5. pc' \in Plain
  BY <1>4 DEF Plain, Labels, Outer, Allocating, Writing, Storing, Restoring, Delivering
<1>6. CASE ~Waiting'
  BY <1>2, <1>5, <1>6, PlainPoints
<1>7. CASE Waiting'
  <2>1. Waiting /\ "destCompleted" \notin Frames
    BY <1>3, <1>7 DEF Waiting, SeriesInv
  <2>2. pc' = "restoreErase"
    <3>1. pc' # "initAbort"
      <4>1. \A x \in Frames' : Rank(x) < Rank(pc') /\ Rank(x) \in 0 .. 5
        BY <1>3, RankIsNat
      <4>2. Rank("initAbort") = 0
        BY ServedRanks
      <4>3. Frames' # {}
        BY <1>7 DEF Waiting
      <4> QED BY <4>1, <4>2, <4>3
    <3> QED BY <1>3, <1>4, <2>1, <3>1
  <2>3. Leads(work'.queue) /\ hdr' = 0 /\ rec' = 1
    BY <1>1, <1>2, <2>1 DEF SeriesInv, Flushing
  <2>4. /\ pc' \in Restoring /\ pc' \in Inner /\ pc' \notin Writing /\ pc' \notin Allocating
        /\ UNCHANGED <<args, offset>>
    BY <1>1, <2>2 DEF Inner, Restoring, Writing, Allocating, Storing
  <2> QED BY <1>2, <1>3, <2>1, <2>2, <2>3, <2>4 DEF SeriesInv
<1> QED BY <1>6, <1>7

LEMMA RestoreWriteSeries ==
  ASSUME TypeInv, SeriesInv, RestoreWrite
  PROVE  SeriesInv'
<1>1. /\ pc = "restoreWrite" /\ WriteSpare(spareBuffer) /\ Return
      /\ spareBuffer' = None /\ UNCHANGED <<hdr, rec, args, offset, image>> /\ work' = work
  BY DEF RestoreWrite, At, WriteSpare
<1>2. QueuesInOrder'
  <2>1. spareBuffer # None
    BY <1>1, BlocksAtHand, FindsAt, NoneIsNoBlock
  <2>2. QueuesInOrder
    BY DEF SeriesInv
  <2> QED BY <1>1, <2>1, <2>2, QueuesKept DEF QueuesInOrder
<1>3. /\ pc' \in Frames /\ Frames' \subseteq Frames /\ MayCall(pc', "restoreWrite")
      /\ \A x \in Frames' : Rank(x) < Rank(pc')
  BY <1>1, FramesReturn, OutsideNotOuter
<1>4. pc' \in {"done"} \cup Refreshed
  BY <1>3 DEF MayCall, Allocating, Writing, Storing, Delivering, Flushing, Booting
<1>5. CASE pc' \notin Served
  <2>1. Rank(pc') \in 0 .. 1
    BY <1>4, <1>5, ServedRanks DEF Refreshed, Served
  <2>2. \A x \in Frames' : Rank(x) < 1
    BY <1>3, <2>1, RankIsNat
  <2>3. ~Waiting'
    BY <2>2, NothingWaits DEF Waiting
  <2>4. pc' \in Plain
    BY <1>4, <1>5 DEF Plain, Refreshed, Served, Labels, Outer, Allocating, Writing, Storing
  <2> QED BY <1>2, <2>3, <2>4, PlainPoints
<1>6. CASE pc' \in Served
  <2>1. Waiting
    BY <1>3, <1>6 DEF Waiting
  <2>2. Leads(work.queue) /\ hdr = 0 /\ rec = 1 /\ "destCompleted" \notin Frames
    BY <1>1, <2>1 DEF SeriesInv, Restoring
  <2>3. GetLastWriteHeader(work.queue) = 0
    BY <2>2, BlocksAtHand, LeadsIs
  <2>4. Found'
    <3>1. hdr' = 0 /\ rec' = 1 /\ work' = work
      BY <1>1, <2>2
    <3>2. 0 + 2 <= Size /\ \A i \in 1 .. 1 - 0 - 1 : FALSE
      BY SizeIsNat
    <3> QED BY <2>3, <3>1, <3>2 DEF Found
  <2>5. "allocate" \notin Frames' /\ "allocHeader" \notin Frames'
    <3>1. Rank(pc') \in 1 .. 2
      BY <1>6, ServedRanks DEF Served
    <3>2. \A x \in Frames' : Rank(x) < 2
      BY <1>3, <3>1, RankIsNat
    <3> QED BY <3>2, ServedRanks
  <2>6. pc' # "workValid" /\ pc' \notin Restoring \cup Copying \cup Flushing \cup {"reclaim", "writeRecord"}
    BY <1>6 DEF Served, Restoring, Copying, Flushing
  <2>7. "write" \in Frames' => pc' \in Inner
    <3>1. pc' = "write" => "write" \notin Frames'
      BY <1>3, ServedRanks
    <3> QED BY <1>6, <3>1 DEF Served, Inner, Allocating
  <2>8. pc' = "write" \/ "write" \in Frames' => args'.writes = 1
    BY <1>1, <1>3 DEF SeriesInv
  <2>9. pc' = "allocHeader" => HeaderFits(work'.queue, offset') /\ "write" \notin Frames'
    <3> SUFFICES ASSUME pc' = "allocHeader"
                 PROVE  HeaderFits(work'.queue, offset') /\ "write" \notin Frames'
      OBVIOUS
    <3>1. 0 < offset /\ offset + 2 <= Size /\ "write" \notin Frames
      BY <1>3 DEF SeriesInv
    <3>2. offset \in Nat /\ offset' = offset /\ work'.queue = work.queue
      BY <1>1, BlocksAtHand
    <3>3. 0 <= offset /\ offset # 0
      BY <3>1, <3>2
    <3> QED BY <1>3, <2>3, <3>1, <3>2, <3>3 DEF HeaderFits
  <2>10. pc' \in Writing => pc' = "write"
    BY <1>6 DEF Served, Writing, Storing
  <2>11. Waiting' => "write" \in Frames' /\ "destCompleted" \notin Frames'
    BY <1>3, <2>2, <2>5 DEF Waiting, Served
  <2> QED BY <1>2, <2>4, <2>5, <2>6, <2>7, <2>8, <2>9, <2>10, <2>11 DEF SeriesInv
<1> QED BY <1>5, <1>6

(* The end of FtwAllocate: the service is done, or FtwWrite goes on. *)
LEMMA AllocatingReturns ==
  ASSUME TypeInv, SeriesInv, pc \in Allocating, Return, QueuesInOrder', args' = args,
         "write" \in Frames => Found'
  PROVE  SeriesInv'
<1>1. pc \notin Outer
  BY DEF Allocating, Outer
<1>2. /\ pc' \in Frames /\ Frames' \subseteq Frames /\ MayCall(pc', pc)
      /\ \A x \in Frames' : Rank(x) < Rank(pc')
  BY <1>1, FramesReturn
<1>3. pc' \in {"done", "write"}
  BY <1>2 DEF MayCall, Refreshed, Allocating, Reclaiming, Copying, Restoring, Delivering, Flushing,
              Booting
<1>4. ~Waiting' /\ "allocHeader" \notin Frames' /\ "write" \notin Frames'
  <2>1. Rank(pc') \in 0 .. 1
    BY <1>3, ServedRanks
  <2>2. \A x \in Frames' : Rank(x) < 1
    BY <1>2, <2>1, RankIsNat
  <2>3. ~Waiting'
    BY <2>2, NothingWaits DEF Waiting
  <2> QED BY <2>3 DEF Waiting, Served
<1>5. CASE pc' = "done"
  BY <1>4, <1>5, PlainPoints, PlainLabels
<1>6. CASE pc' = "write"
  <2>1. args'.writes = 1 /\ Found'
    BY <1>2, <1>6 DEF SeriesInv
  <2>2. pc' \notin Allocating
    BY <1>6 DEF Allocating
  <2> QED BY <1>4, <1>6, <2>1, <2>2 DEF SeriesInv
<1> QED BY <1>3, <1>5, <1>6

LEMMA AllocateSeries ==
  ASSUME TypeInv, SeriesInv, Allocate
  PROVE  SeriesInv'
<1>1. /\ pc = "allocate" /\ offset' = hdr
      /\ UNCHANGED <<flash, hdr, rec, args, image, spareBuffer>> /\ work'.queue = work.queue
  BY DEF Allocate, At
<1>2. QueuesInOrder'
  BY <1>1, QueuesKept DEF SeriesInv
<1>3. Found /\ Found'
  <2>1. Found
    BY <1>1 DEF SeriesInv
  <2> QED BY <1>1, <2>1 DEF Found
<1>4. /\ hdr \in Nat /\ work.queue \in Queues /\ hdr = GetLastWriteHeader(work.queue)
      /\ hdr + 2 <= Size /\ args.writes \in Nat
  <2>1. args \in Args
    BY <1>1, BlocksAtHand, FindsAt DEF Allocating
  <2>2. args.writes \in Nat
    <3>1. Counts \cup {0, 1} \subseteq Nat
      BY FtwAssumption
    <3>2. args.writes \in Counts \cup {0, 1}
      BY <2>1 DEF Args
    <3> QED BY <3>1, <3>2
  <2> QED BY <1>3, <2>2, BlocksAtHand DEF Found
<1>5. \A x \in Frames : Rank(x) < 2
  BY <1>1, FramesRank, ServedRanks
<1>6. "allocate" \notin Frames /\ "allocHeader" \notin Frames /\ "destCompleted" \notin Frames
  BY <1>5, ServedRanks
<1>7. CASE Return
  BY <1>1, <1>2, <1>3, <1>7, AllocatingReturns DEF Allocating
<1>8. CASE /\ Goto("allocHeader")
           /\ ~Has(work.queue, hdr, HEADER_ALLOCATED)
  <2>1. HeaderFits(work'.queue, offset') /\ offset' = hdr'
    BY <1>1, <1>4, <1>8 DEF HeaderFits
  <2>2. Frames' = Frames /\ pc' = "allocHeader"
    BY <1>8, FramesGo
  <2>3. "write" \in Frames => args'.writes = 1
    BY <1>1 DEF SeriesInv
  <2> QED BY <1>2, <1>3, <1>6, <2>1, <2>2, <2>3
          DEF SeriesInv, Inner, Allocating, Writing, Storing, Restoring, Copying, Flushing
<1>9. CASE /\ Call("reclaim", "allocHeader")
           /\ ~Has(work.queue, hdr, HEADER_ALLOCATED)
           /\ FTW_WRITE_TOTAL_SIZE(args.writes) <= Size
           /\ hdr + FTW_WRITE_TOTAL_SIZE(args.writes) > Size
  <2>1. args.writes # 1 /\ 0 < hdr
    BY <1>4, <1>9, SizeIsNat DEF FTW_WRITE_TOTAL_SIZE
  <2>2. "write" \notin Frames
    BY <2>1 DEF SeriesInv
  <2>3. Frames' = Frames \cup {"allocHeader"} /\ pc' = "reclaim"
    <3>1. "allocHeader" \in Labels
      BY DEF Labels, Allocating
    <3> QED BY <1>9, <3>1, FramesCalled
  <2>4. 0 < offset' /\ offset' + 2 <= Size
    BY <1>1, <1>4, <2>1
  <2>5. ~Has(work'.queue, GetLastWriteHeader(work'.queue), HEADER_ALLOCATED)
    BY <1>1, <1>4, <1>9
  <2> QED BY <1>2, <1>6, <2>2, <2>3, <2>4, <2>5
          DEF SeriesInv, Inner, Allocating, Writing, Storing, Restoring, Reclaiming, Copying, Flushing
<1> DEFINE total == FTW_WRITE_TOTAL_SIZE(args.writes)
<1>10. total \in Nat /\ Size \in Nat
  BY <1>4, SizeIsNat DEF FTW_WRITE_TOTAL_SIZE
<1>11. \/ Return
       \/ Goto("allocHeader") /\ ~Has(work.queue, hdr, HEADER_ALLOCATED)
       \/ /\ Call("reclaim", "allocHeader") /\ ~Has(work.queue, hdr, HEADER_ALLOCATED)
          /\ ~(total > Size) /\ hdr + total > Size
  BY DEF Allocate
<1> QED BY <1>7, <1>8, <1>9, <1>10, <1>11

LEMMA TypeInvQueue == TypeInv' => work'.queue \in Queues
<1>1. TypeInv' => work' \in Blocks
  BY DEF TypeInv, FlashOK
<1> QED BY <1>1, BlocksOK

LEMMA FlagsKeepFound ==
  ASSUME TypeInv, UNCHANGED <<hdr, rec>>,
         GetLastWriteHeader(work'.queue) = GetLastWriteHeader(work.queue),
         \A f : \A x \in Nat : Has(work.queue, x, f) => Has(work'.queue, x, f)
  PROVE  Found => Found'
<1>1. hdr \in Nat /\ rec \in Nat
  BY BlocksAtHand
<1>2. \A i \in 1 .. rec - hdr - 1 : hdr + i \in Nat
  BY <1>1
<1> QED BY <1>1, <1>2 DEF Found

LEMMA AllocateHeaderSeries ==
  ASSUME TypeInv, TypeInv', SeriesInv, AllocateHeader
  PROVE  SeriesInv'
<1> DEFINE q  == work.queue
           q2 == Program(work.queue, offset, {HEADER_ALLOCATED}, args.writes, None)
           b  == [work EXCEPT !.queue = q2]
<1>1. /\ pc = "allocHeader" /\ WriteWork(b) /\ Goto("allocWrites") /\ UNCHANGED ram
  BY DEF AllocateHeader, At, WriteQueue
<1>2. work' = b /\ b.queue = q2 /\ q \in Queues /\ offset \in Nat /\ q2 \in Queues
  BY <1>1, BlocksAtHand, BlockParts, TypeInvQueue DEF WriteWork
<1>3. HeaderFits(q, offset) /\ InOrder(q) /\ QueuesInOrder
  BY <1>1 DEF SeriesInv, QueuesInOrder
<1>4. offset \in 0 .. Size - 1
  BY <1>2, <1>3, SizeIsNat DEF HeaderFits
<1>5. Programmed(q, q2, offset, {HEADER_ALLOCATED}, args.writes, None)
  BY <1>2, <1>4, ProgrammedIs
<1> HIDE DEF q2, b, q
<1>6. /\ InOrder(q2) /\ GetLastWriteHeader(q2) = GetLastWriteHeader(q)
      /\ \A f : \A x \in Nat : Has(q, x, f) => Has(q2, x, f)
  BY <1>2, <1>3, <1>4, <1>5, HeaderKeepsOrder
<1>7. QueuesInOrder'
  BY <1>1, <1>2, <1>3, <1>6, QueuesKept
<1>8. Frames' = Frames /\ pc' = "allocWrites" /\ (Waiting' <=> Waiting)
  BY <1>1, FramesGo
<1>9. "write" \in Frames => args.writes = 1 /\ Found
  BY <1>1 DEF SeriesInv, Allocating
<1>10. Found => Found'
  BY <1>1, <1>2, <1>6, FlagsKeepFound DEF q
<1>11. "allocHeader" \notin Frames
  BY <1>1, FramesRank, ServedRanks
<1>12. Waiting => "destCompleted" \notin Frames
  BY DEF SeriesInv
<1>13. UNCHANGED args
  BY <1>1
<1> QED BY <1>7, <1>8, <1>9, <1>10, <1>11, <1>12, <1>13
        DEF SeriesInv, Inner, Allocating, Writing, Storing, Restoring, Copying, Flushing

LEMMA AllocateWritesSeries ==
  ASSUME TypeInv, TypeInv', SeriesInv, AllocateWrites
  PROVE  SeriesInv'
<1>1. /\ pc = "allocWrites" /\ WriteQueue(UpdateFvState(work.queue, offset, WRITES_ALLOCATED))
      /\ Return /\ UNCHANGED ram
  BY DEF AllocateWrites, At
<1>2. offset \in Nat /\ QueuesInOrder /\ work.queue \in Queues /\ InOrder(work.queue)
      /\ work'.queue \in Queues
  BY BlocksAtHand, TypeInvQueue DEF SeriesInv, QueuesInOrder
<1>3. QueuesInOrder' /\ work'.queue = UpdateFvState(work.queue, offset, 2)
  BY <1>1, <1>2, FlagWritten, FlagValues
<1> DEFINE q == work.queue
           q2 == work'.queue
<1>4. 2 \in {2, 4}
  OBVIOUS
<1>5. /\ GetLastWriteHeader(q2) = GetLastWriteHeader(q)
      /\ \A f : \A x \in Nat : Has(q, x, f) => Has(q2, x, f)
  BY <1>2, <1>3, <1>4, FlagKeepsOrder
<1>6. Found => Found'
  BY <1>1, <1>5, FlagsKeepFound
<1>7. "write" \in Frames => Found
  BY <1>1 DEF SeriesInv, Allocating
<1> QED BY <1>1, <1>3, <1>6, <1>7, AllocatingReturns DEF Allocating

LEMMA NothingWaitsInWrite ==
  ASSUME TypeInv, pc \in Writing
  PROVE  ~Waiting /\ "allocHeader" \notin Frames /\ "write" \notin Frames
<1>1. \A x \in Frames : Rank(x) < 1
  BY FramesRank, ServedRanks
<1>2. ~Waiting
  BY <1>1, NothingWaits DEF Waiting
<1> QED BY <1>2 DEF Waiting, Served

(* FtwWrite, from the record on, keeps its one write. *)
LEMMA StoringPoints ==
  ASSUME TypeInv, SeriesInv, QueuesInOrder', pc \in Writing, args' = args,
         NEW m \in Storing, Goto(m)
  PROVE  SeriesInv'
<1>1. Frames' = Frames /\ (Waiting' <=> Waiting) /\ pc' = m
  BY FramesGo
<1>2. ~Waiting /\ "allocHeader" \notin Frames /\ "write" \notin Frames
  BY NothingWaitsInWrite
<1>3. args'.writes = 1
  BY DEF SeriesInv
<1>4. pc' \notin Allocating \cup {"workValid", "write", "writeRecord", "allocHeader", "allocate"}
  BY <1>1 DEF Storing, Allocating
<1> QED BY <1>1, <1>2, <1>3, <1>4 DEF SeriesInv

LEMMA WriteChecksSeries ==
  ASSUME TypeInv, SeriesInv, WriteChecks
  PROVE  SeriesInv'
<1>1. pc = "write" /\ UNCHANGED <<flash, ram>> /\ pc \in Writing /\ work' = work
  BY DEF WriteChecks, At, Writing
<1>2. QueuesInOrder'
  BY <1>1, QueuesKept DEF SeriesInv
<1>3. ~Waiting /\ "allocHeader" \notin Frames /\ "write" \notin Frames
  BY <1>1, NothingWaitsInWrite
<1>4. args'.writes = 1 /\ Found'
  <2>1. args.writes = 1 /\ Found
    BY <1>1 DEF SeriesInv, Writing
  <2> QED BY <1>1, <2>1 DEF Found
<1>5. CASE Return
  BY <1>1, <1>2, <1>5, PlainStep, PlainLabels, OutsideNotOuter
<1>6. CASE Call("allocate", "write")
  <2>1. Frames' = Frames \cup {"write"} /\ pc' = "allocate"
    <3>1. "write" \in Labels
      BY DEF Labels, Writing
    <3> QED BY <1>6, <3>1, FramesCalled
  <2>2. "destCompleted" \notin Frames'
    BY <1>1, <2>1, FramesRank, ServedRanks
  <2> QED BY <1>2, <1>3, <1>4, <2>1, <2>2
          DEF SeriesInv, Inner, Allocating, Restoring, Copying, Flushing
<1>7. CASE Goto("writeRecord") /\ ~(rec - hdr > Cell(work.queue, hdr).writes)
  <2>1. Frames' = Frames /\ (Waiting' <=> Waiting) /\ pc' = "writeRecord"
    BY <1>7, FramesGo
  <2>2. rec' - hdr' <= Cell(work'.queue, hdr').writes
    <3>1. hdr \in Nat /\ rec \in Nat /\ Cell(work.queue, hdr).writes \in Nat
      BY BlocksAtHand, CellsOK
    <3> QED BY <1>1, <1>7, <3>1
  <2> QED BY <1>2, <1>3, <1>4, <2>1, <2>2 DEF SeriesInv, Allocating
<1> QED BY <1>5, <1>6, <1>7 DEF WriteChecks

LEMMA WriteRecordSeries ==
  ASSUME TypeInv, TypeInv', SeriesInv, WriteRecord
  PROVE  SeriesInv'
<1> DEFINE f  == IF args.target = BootTarget THEN {BOOT_BLOCK_UPDATE} ELSE {}
           q  == work.queue
           q2 == Program(q, rec, f, 0, args.target)
           b  == [work EXCEPT !.queue = q2]
<1>1. /\ pc = "writeRecord" /\ WriteWork(b) /\ Goto("writeErase")
      /\ spareBuffer' = spare /\ UNCHANGED <<hdr, rec, args, offset, image>>
  BY DEF WriteRecord, At, WriteQueue
<1>2. /\ work' = b /\ b.queue = q2 /\ q \in Queues /\ q2 \in Queues
      /\ rec \in Nat /\ hdr \in Nat
  BY <1>1, BlocksAtHand, BlockParts, TypeInvQueue DEF WriteWork
<1>3. Found /\ rec - hdr <= Cell(q, hdr).writes /\ InOrder(q) /\ QueuesInOrder
  BY <1>1 DEF SeriesInv, QueuesInOrder
<1>4. args.target # None
  BY <1>1, BlocksAtHand, FindsAt
<1>5. IF rec < Size THEN Programmed(q, q2, rec, f, 0, args.target) ELSE q2 = q
  <2>1. CASE rec < Size
    <3>1. rec \in 0 .. Size - 1
      BY <1>2, <2>1, SizeIsNat
    <3> QED BY <1>2, <2>1, <3>1, ProgrammedIs
  <2>2. CASE ~(rec < Size)
    <3>1. q = [x \in 0 .. Size - 1 |-> q[x]] /\ DOMAIN q = 0 .. Size - 1
      BY <1>2 DEF Queues
    <3>2. \A x \in 0 .. Size - 1 : x # rec
      BY <1>2, <2>2, SizeIsNat
    <3>3. q2 = [x \in 0 .. Size - 1 |-> q[x]]
      BY <3>1, <3>2 DEF Program
    <3> QED BY <2>2, <3>1, <3>3
  <2> QED BY <2>1, <2>2
<1>6. hdr = GetLastWriteHeader(q) /\ hdr < rec
      /\ \A i \in 1 .. rec - hdr - 1 : Has(q, hdr + i, DEST_COMPLETED)
  BY <1>3 DEF Found
<1> HIDE DEF f, q, q2, b
<1>7. InOrder(q2)
  BY <1>2, <1>3, <1>4, <1>5, <1>6, RecordKeepsOrder
<1>8. QueuesInOrder'
  BY <1>1, <1>2, <1>3, <1>7, QueuesKept
<1> QED BY <1>1, <1>8, StoringPoints DEF Writing, Storing

LEMMA StoringSeries ==
  ASSUME WorkTarget = None, TypeInv, SeriesInv, WriteErase \/ WriteSpareBlock
  PROVE  SeriesInv'
<1>0. QueuesInOrder
  BY DEF SeriesInv
<1>1. CASE WriteErase
  <2>1. QueuesInOrder'
    BY <1>0, <1>1, EmptyBlocks, QueuesKept DEF WriteErase
  <2> QED BY <1>1, <2>1, StoringPoints DEF WriteErase, At, Writing, Storing
<1>2. CASE WriteSpareBlock
  <2>1. pc = "writeSpare" /\ WriteSpare(NewContents) /\ Goto("spareCompleted") /\ UNCHANGED ram
    BY <1>2 DEF WriteSpareBlock, At
  <2>2. args.target # None
    BY <2>1, BlocksAtHand, FindsAt DEF Storing
  <2>3. NewContents = Block(args.value)
    BY <2>2 DEF NewContents
  <2>4. QueuesInOrder'
    BY <1>0, <2>1, <2>3, EmptyBlocks, QueuesKept
  <2> QED BY <2>1, <2>4, StoringPoints DEF Writing, Storing
<1> QED BY <1>1, <1>2

LEMMA SeriesAtStart == Init => SeriesInv
<1> SUFFICES ASSUME Init PROVE SeriesInv
  OBVIOUS
<1>1. QueuesInOrder
  <2>1. PICK v \in Value : work = Block(v)
    BY DEF Init
  <2>2. spare = Block(Erased) /\ image = None /\ spareBuffer = None
    BY DEF Init
  <2> QED BY <2>1, <2>2, EmptyBlocks DEF QueuesInOrder
<1>2. Frames = {} /\ pc = "off"
  <2>1. ret = <<>> /\ pc = "off"
    BY DEF Init
  <2>2. Len(ret) = 0
    BY <2>1
  <2> QED BY <2>1, <2>2 DEF Frames
<1> QED BY <1>1, <1>2
        DEF SeriesInv, Waiting, Writing, Storing, Allocating, Restoring

LEMMA StepsKeepSeries ==
  ASSUME WorkTarget = None, TypeInv, TypeInv', SeriesInv, [Next]_vars
  PROVE  SeriesInv'
<1>1. CASE UNCHANGED vars
  BY <1>1 DEF vars, SeriesInv, QueuesInOrder, Frames, Waiting, Found
<1>2. CASE Request
  BY <1>2, ServicesSeries
<1>3. CASE Done \/ PowerFailure \/ DeviceError
  BY <1>3, FailuresSeries
<1>4. CASE \/ FtwReclaimWorkSpace \/ ReclaimErase \/ ReclaimWrite \/ ReclaimValid \/ ReclaimInvalid
           \/ FlushSpareValid \/ FlushWorkInvalid \/ FlushWorkErase \/ FlushWorkWrite
           \/ FlushWorkValid \/ RestoreErase \/ RestoreWrite
  BY <1>4, StartReclaimSeries, ReclaimSeries, FlushWorkValidSeries, RestoreWriteSeries
<1>5. CASE \/ Allocate \/ AllocateHeader \/ AllocateWrites
           \/ WriteChecks \/ WriteRecord \/ WriteErase \/ WriteSpareBlock
  BY <1>5, AllocateSeries, AllocateHeaderSeries, AllocateWritesSeries, WriteChecksSeries,
     WriteRecordSeries, StoringSeries
<1>6. CASE \/ SpareCompleted \/ FlushToWork \/ FlushToBoot \/ FlushToTarget \/ FlushTargetWrite
           \/ FlushSpareBlockToBootBlock \/ FlushBootErase \/ FlushBootWrite \/ FlushBootUnswap
           \/ DestCompleted \/ WritesCompleted
  BY <1>6, DeliveringSeries
<1>7. CASE \/ Restart \/ RestartEraseSpare \/ Abort \/ GetLastWrite
  BY <1>7, DecisionsSeries
<1>8. CASE \/ InitRefresh \/ InitWorkSpace \/ InitAbort \/ InitFirst \/ InitLast \/ InitTail
           \/ InitRestart
  BY <1>8, InitSeries
<1> QED BY <1>1, <1>2, <1>3, <1>4, <1>5, <1>6, <1>7, <1>8 DEF Next, DriverStep

(* However many writes a series announces and whenever power fails or an   *)
(* operation on the flash does, FtwWrite begins the record of one write    *)
(* only when the record before it has reached its target.                  *)
THEOREM SeriesKeepTheirOrder == WorkTarget = None => (Spec => []SeriesInOrder)
<1> SUFFICES ASSUME WorkTarget = None PROVE Spec => []SeriesInOrder
  OBVIOUS
<1>1. Init => TypeInv /\ SeriesInv
  BY TypesAtStart, SeriesAtStart
<1>2. TypeInv /\ SeriesInv /\ [Next]_vars => (TypeInv /\ SeriesInv)'
  BY StepsKeepTypes, StepsKeepSeries
<1>3. TypeInv /\ SeriesInv => SeriesInOrder
  BY DEF SeriesInv, QueuesInOrder, InOrder, Series, SeriesInOrder
<1> QED BY <1>1, <1>2, <1>3, PTL DEF Spec
=============================================================================
