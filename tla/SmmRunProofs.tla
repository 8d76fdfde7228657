---------------------------- MODULE SmmRunProofs ----------------------------
(***************************************************************************)
(* Proofs about SmmRendezvous: the processors that checked in follow the   *)
(* BSP through a run, for any number of processors, every mode and every   *)
(* interleaving, also where time-outs end at the worst moment: nothing     *)
(* here but the theorem on normal mode code assumes ~Stalls.               *)
(*                                                                         *)
(* The argument: the statement the BSP is at (Phase) determines where the  *)
(* other counted processors may be and which signals they have (InStep);   *)
(* Counter counts the processors checked in until it is locked, apCount    *)
(* counts them from then on, and the BSP's own semaphore counts those that *)
(* have answered in the present round (CountsAgree).  When it has taken    *)
(* apCount signals, all of them have answered, since a subset of a finite  *)
(* set with as many elements is the whole set.                             *)
(***************************************************************************)
EXTENDS SmmRendezvousProofs, FiniteSetTheorems

(* The statement of the BSP, if there is one.                              *)
Phase == IF BspIndex # None /\ pc[BspIndex] \in BspLabels THEN pc[BspIndex] ELSE "none"

(* The phases in which counted processors still come to the BSP.           *)
Gathering ==
  IF Gathers THEN {"clear", "arriving", "ipi", "arrivingAgain", "sync", "lock", "gather"}
  ELSE {"clear", "acquire", "handlers", "startWait", "sync", "lock", "present"}

HandlingPhases == {"handlers", "startWait"}

(* The phases in which the counter is locked; in the first of them the BSP *)
(* waits until those it counted have come.                                 *)
LockingPhases == {"gather", "present"}

LockedPhases ==
  {"backup", "backedUp", "program", "programmed", "quit", "released", "restore", "restored",
   "dismiss", "dismissed", "reset"} \cup IF Gathers THEN {"acquire", "handlers", "startWait"} ELSE {}

InsidePhases ==
  BspLabels \ {"inside", "released", "restore", "restored", "dismiss", "dismissed", "reset"}

CountedLabels == {"elect", "wait", "waitAgain", "giveUp"} \cup ApLabels \cup BspLabels

PresentLabels ==
  (ApLabels \ {"flag", "left"}) \cup (BspLabels \ {"inside", "clear", "dismissed", "reset"})

(* Where an AP is once it has answered in the round of a phase.            *)
Answered(p) ==
  IF Gathers /\ p \in Gathering THEN {"saveMtrrs", "idle"}
  ELSE IF p = "backedUp" THEN {"loadMtrrs"}
  ELSE IF p = "programmed" THEN {"idle"}
  ELSE IF p = "released" THEN {"restoreMtrrs", "ready"}
  ELSE IF p = "restored" THEN {"ready"} ELSE {}

Members(f, L) == {d \in CPU : f[d] \in L}

(* Which phases there are in which mode.                                   *)
PhaseReached ==
  /\ Phase \in {"arriving", "ipi", "arrivingAgain", "gather"} => Gathers
  /\ Phase = "present" => ~Gathers
  /\ Phase \in {"backup", "backedUp", "program", "programmed", "restore", "restored"} => needMtrrs

(* In phase p a processor at statement l has r signals and is busy or not. *)
InStep(p, l, r, busy) ==
  /\ l \in {"elect", "wait", "waitAgain", "giveUp"} => p \in {"none", "inside"} \cup Gathering
  /\ l = "flag" => p \in Gathering
  /\ l = "arrived" => Gathers /\ p \in Gathering
  /\ l = "saveMtrrs" =>
       /\ needMtrrs
       /\ \/ r = 0 /\ p \in Gathering \cup {"backup"}
          \/ r = 1 /\ p = "backedUp"
  /\ l = "loadMtrrs" =>
       /\ needMtrrs
       /\ \/ r = 0 /\ p \in {"backedUp", "program"}
          \/ r = 1 /\ p = "programmed"
  /\ l = "idle" =>
       \/ r = 0 /\ ~busy /\ p \in {"programmed", "acquire", "handlers", "startWait", "quit"}
       \/ r = 0 /\ ~busy /\ ~needMtrrs /\ p \in Gathering
       \/ r = 1 /\ busy /\ p \in HandlingPhases
       \/ r = 1 /\ ~busy /\ p = "released"
  /\ l = "woken" =>
       /\ r = 0
       /\ IF busy THEN p \in HandlingPhases ELSE p = "released"
  /\ l = "ran" => r = 0 /\ busy /\ p \in HandlingPhases
  /\ l = "restoreMtrrs" =>
       /\ needMtrrs
       /\ \/ r = 0 /\ p \in {"released", "restore"}
          \/ r = 1 /\ p = "restored"
  /\ l = "ready" =>
       \/ r = 0 /\ p \in {"restored", "dismiss"}
       \/ r = 0 /\ ~needMtrrs /\ p = "released"
       \/ r = 1 /\ p = "dismissed"
  /\ l = "left" => r = 0 /\ p = "dismissed"

(* A processor outside the rounds has no signal, and one that has checked  *)
(* in and was sent no procedure is not busy.                               *)
Quiet(l, r, busy) ==
  /\ l \notin BspLabels \cup {"saveMtrrs", "loadMtrrs", "idle", "restoreMtrrs", "ready"} => r = 0
  /\ l \in {"elect", "wait", "waitAgain", "giveUp", "inside", "clear", "arriving", "ipi",
            "arrivingAgain", "gather", "backup", "backedUp", "program", "programmed", "acquire"}
           \cup (ApLabels \ {"idle", "woken", "ran"}) => ~busy
  /\ Gathers /\ l \in {"sync", "lock"} => ~busy

AllInStep ==
  \A d \in CPU : InStep(Phase, pc[d], Run[d], Busy[d]) /\ Quiet(pc[d], Run[d], Busy[d])

Settled ==
  /\ InsideSmm <=> Phase \in InsidePhases
  /\ \A d \in CPU : Present[d] <=> pc[d] \in PresentLabels
  /\ \A d \in CPU : pc[d] \in ApLabels \ {"flag"} => bspIndex[d] = BspIndex
  /\ scheduled = {d \in CPU : InsideSmm /\ Busy[d] /\ pc[d] \in {"idle", "woken"}}

(* A processor that gives up after the counter was locked makes room for   *)
(* another one to check in.                                                *)
CountsAgree ==
  LET counted == Cardinality(Members(pc, CountedLabels)) IN
  /\ Phase \notin LockingPhases \cup LockedPhases => Counter = counted
  /\ Phase \in LockingPhases =>
       counted <= apCount[BspIndex] + 1 /\ Counter = Locked + counted - (apCount[BspIndex] + 1)
  /\ Phase \in LockedPhases => Counter = Locked
  /\ Phase \in LockedPhases \ {"dismissed", "reset"} => apCount[BspIndex] + 1 = counted
  /\ Phase = "dismissed" => apCount[BspIndex] + 1 = counted + Run[BspIndex]
  /\ Phase \notin {"none", "dismissed"} => Run[BspIndex] = Cardinality(Members(pc, Answered(Phase)))

Rendezvous == PhaseReached /\ AllInStep /\ Settled /\ CountsAgree

RunInv == TypeOK /\ OneBsp /\ Rendezvous

USE DEF env, mode, flags, elect, entry, local, proc

-----------------------------------------------------------------------------
(* Sets of processors.                                                     *)

LEMMA MembersFinite ==
  ASSUME NEW f, NEW L
  PROVE  /\ Members(f, L) \in SUBSET CPU
         /\ IsFiniteSet(Members(f, L))
         /\ Cardinality(Members(f, L)) \in Nat
<1>1. Members(f, L) \in SUBSET CPU
  BY DEF Members
<1> QED BY <1>1, CpuAssumption, FS_Subset, FS_CardinalityType

(* A step of c moves nobody else.                                          *)
LEMMA MembersKept ==
  ASSUME TypeOK, NEW c \in CPU, NEW from, NEW to, Step(c, from, to), NEW L, from \in L <=> to \in L
  PROVE  Members(pc', L) = Members(pc, L)
BY DEF Members, Step, TypeOK

LEMMA MembersJoined ==
  ASSUME TypeOK, NEW c \in CPU, NEW from, NEW to, Step(c, from, to), NEW L, from \notin L, to \in L
  PROVE  Cardinality(Members(pc', L)) = Cardinality(Members(pc, L)) + 1
<1>1. Members(pc', L) = Members(pc, L) \cup {c} /\ c \notin Members(pc, L)
  BY DEF Members, Step, TypeOK
<1>2. IsFiniteSet(Members(pc, L))
  BY MembersFinite
<1>3. Cardinality(Members(pc, L) \cup {c}) = Cardinality(Members(pc, L)) + 1
  BY <1>1, <1>2, FS_AddElement
<1> QED BY <1>1, <1>3

LEMMA MembersLeft ==
  ASSUME TypeOK, NEW c \in CPU, NEW from, NEW to, Step(c, from, to), NEW L, from \in L, to \notin L
  PROVE  Cardinality(Members(pc', L)) = Cardinality(Members(pc, L)) - 1
<1>1. Members(pc', L) = Members(pc, L) \ {c} /\ c \in Members(pc, L)
  BY DEF Members, Step, TypeOK
<1>2. IsFiniteSet(Members(pc, L))
  BY MembersFinite
<1>3. Cardinality(Members(pc, L) \ {c}) = Cardinality(Members(pc, L)) - 1
  BY <1>1, <1>2, FS_RemoveElement
<1> QED BY <1>1, <1>3

LEMMA MembersNone ==
  ASSUME NEW f, NEW L, \A d \in CPU : f[d] \notin L
  PROVE  Cardinality(Members(f, L)) = 0
<1>1. Members(f, L) = {}
  BY DEF Members
<1> QED BY <1>1, FS_EmptySet

-----------------------------------------------------------------------------
(* A step of a processor that is not the BSP.                              *)

LEMMA FollowerPhase ==
  ASSUME TypeOK, NEW c \in CPU, NEW from, NEW to, Step(c, from, to),
         from \notin BspLabels, to \notin BspLabels, UNCHANGED BspIndex
  PROVE  Phase' = Phase
BY NoneAssumption DEF Phase, Step, TypeOK

LEMMA FollowerInStep ==
  ASSUME RunInv, NEW c \in CPU, NEW from, NEW to, Step(c, from, to),
         from \notin BspLabels, to \notin BspLabels, UNCHANGED <<BspIndex, mode>>,
         \A d \in CPU \ {c} : /\ Busy'[d] = Busy[d]
                              /\ pc[d] \notin BspLabels => Run'[d] = Run[d],
         InStep(Phase, to, Run'[c], Busy'[c]), Quiet(to, Run'[c], Busy'[c])
  PROVE  PhaseReached' /\ AllInStep'
<1>1. Phase' = Phase
  BY FollowerPhase DEF RunInv, Rendezvous
<1>2. PhaseReached'
  BY <1>1 DEF RunInv, Rendezvous, PhaseReached, Gathers
<1>3. ASSUME NEW d \in CPU
      PROVE  (InStep(Phase, pc[d], Run[d], Busy[d]) /\ Quiet(pc[d], Run[d], Busy[d]))'
  <2>1. CASE d = c
    <3>1. pc'[d] = to
      BY <2>1 DEF RunInv, TypeOK, Step
    <3> QED BY <1>1, <2>1, <3>1 DEF InStep, Quiet, Gathering, Gathers
  <2>2. CASE d # c
    <3>1. pc'[d] = pc[d] /\ Busy'[d] = Busy[d]
      BY <2>2 DEF RunInv, TypeOK, Step
    <3>2. InStep(Phase, pc[d], Run[d], Busy[d]) /\ Quiet(pc[d], Run[d], Busy[d])
      BY DEF RunInv, Rendezvous, AllInStep
    <3>3. CASE pc[d] \notin BspLabels
      <4>1. Run'[d] = Run[d]
        BY <2>2, <3>3
      <4> QED BY <1>1, <3>1, <3>2, <4>1 DEF InStep, Quiet, Gathering, Gathers
    <3>4. CASE pc[d] \in BspLabels
      BY <1>1, <3>1, <3>2, <3>4 DEF InStep, Quiet, Gathers, BspLabels
    <3> QED BY <3>3, <3>4
  <2> QED BY <2>1, <2>2
<1> QED BY <1>2, <1>3 DEF AllInStep

LEMMA FollowerSettled ==
  ASSUME RunInv, NEW c \in CPU, NEW from, NEW to, Step(c, from, to),
         from \notin BspLabels, to \notin BspLabels,
         UNCHANGED <<BspIndex, mode, InsideSmm, Present, bspIndex, scheduled>>,
         \A d \in CPU \ {c} : Busy'[d] = Busy[d],
         from \in PresentLabels <=> to \in PresentLabels,
         to \in ApLabels \ {"flag"} => from \in ApLabels \ {"flag"},
         InsideSmm => (Busy[c] /\ from \in {"idle", "woken"} <=> Busy'[c] /\ to \in {"idle", "woken"})
  PROVE  Settled'
<1>1. Phase' = Phase
  BY FollowerPhase DEF RunInv, Rendezvous
<1>2. \A d \in CPU : pc'[d] = IF d = c THEN to ELSE pc[d]
  BY DEF RunInv, TypeOK, Step
<1>3. pc[c] = from
  BY DEF Step
<1>4. (InsideSmm <=> Phase \in InsidePhases)'
  BY <1>1 DEF RunInv, Rendezvous, Settled
<1>5. \A d \in CPU : Present'[d] <=> pc'[d] \in PresentLabels
  BY <1>2, <1>3 DEF RunInv, Rendezvous, Settled
<1>6. \A d \in CPU : pc'[d] \in ApLabels \ {"flag"} => bspIndex'[d] = BspIndex'
  BY <1>2, <1>3 DEF RunInv, Rendezvous, Settled
<1>7. scheduled' = {d \in CPU : InsideSmm' /\ Busy'[d] /\ pc'[d] \in {"idle", "woken"}}
  BY <1>2, <1>3 DEF RunInv, Rendezvous, Settled
<1> QED BY <1>4, <1>5, <1>6, <1>7 DEF Settled

LEMMA FollowerCounts ==
  ASSUME RunInv, NEW c \in CPU, NEW from, NEW to, Step(c, from, to),
         from \notin BspLabels, to \notin BspLabels,
         UNCHANGED <<BspIndex, mode, Counter, apCount>>,
         Phase # "none" => Run'[BspIndex] = Run[BspIndex],
         from \in CountedLabels <=> to \in CountedLabels,
         from \in Answered(Phase) <=> to \in Answered(Phase)
  PROVE  CountsAgree'
<1>1. Phase' = Phase
  BY FollowerPhase DEF RunInv, Rendezvous
<1>3. Members(pc', CountedLabels) = Members(pc, CountedLabels)
  BY MembersKept DEF RunInv, Rendezvous
<1>4. Members(pc', Answered(Phase)) = Members(pc, Answered(Phase))
  BY MembersKept DEF RunInv, Rendezvous
<1>5. Answered(Phase)' = Answered(Phase)
  BY <1>1 DEF Answered, Gathering, Gathers
<1>6. LockedPhases' = LockedPhases
  BY DEF LockedPhases, Gathers
<1> QED BY <1>1, <1>3, <1>4, <1>5, <1>6 DEF RunInv, Rendezvous, CountsAgree

(* A processor that has not checked in or has left.                        *)
LEMMA OutsideStep ==
  ASSUME RunInv, NEW c \in CPU, NEW from, NEW to, Step(c, from, to),
         from \notin CountedLabels, to \notin CountedLabels,
         UNCHANGED <<BspIndex, mode, InsideSmm, Present, bspIndex, scheduled, Busy, Run, Counter,
                     apCount>>
  PROVE  Rendezvous'
<1>1. /\ from \notin BspLabels /\ to \notin BspLabels
      /\ from \notin PresentLabels /\ to \notin PresentLabels
      /\ from \notin Answered(Phase) /\ to \notin Answered(Phase)
      /\ from \notin {"idle", "woken"} /\ to \notin {"idle", "woken"} /\ to \notin ApLabels
  BY DEF CountedLabels, PresentLabels, Answered, ApLabels
<1>2. InStep(Phase, to, Run'[c], Busy'[c])
  BY <1>1 DEF InStep, CountedLabels, ApLabels
<1>3. Run[c] = 0
  <2>1. Quiet(from, Run[c], Busy[c])
    BY DEF RunInv, Rendezvous, AllInStep, Step
  <2> QED BY <1>1, <2>1 DEF Quiet, CountedLabels, ApLabels
<1>4. Quiet(to, Run'[c], Busy'[c])
  BY <1>1, <1>3 DEF Quiet, CountedLabels, ApLabels, BspLabels
<1>5. PhaseReached' /\ AllInStep'
  BY <1>1, <1>2, <1>4, FollowerInStep
<1>6. Settled'
  BY <1>1, FollowerSettled
<1>7. CountsAgree'
  BY <1>1, FollowerCounts
<1> QED BY <1>5, <1>6, <1>7 DEF Rendezvous

(* A processor that has checked in and waits for a BSP.                    *)
LEMMA WaitingStep ==
  ASSUME RunInv, NEW c \in CPU, NEW from \in {"elect", "wait", "waitAgain", "giveUp"},
         NEW to \in {"elect", "wait", "waitAgain", "giveUp"}, Step(c, from, to),
         UNCHANGED <<BspIndex, mode, InsideSmm, Present, bspIndex, scheduled, Busy, Run, Counter,
                     apCount>>
  PROVE  Rendezvous'
<1>1. /\ from \notin BspLabels /\ to \notin BspLabels
      /\ from \in CountedLabels /\ to \in CountedLabels
      /\ from \notin PresentLabels /\ to \notin PresentLabels
      /\ from \notin Answered(Phase) /\ to \notin Answered(Phase)
      /\ from \notin {"idle", "woken"} /\ to \notin {"idle", "woken"} /\ to \notin ApLabels
  BY DEF CountedLabels, PresentLabels, Answered, ApLabels, BspLabels
<1>2. InStep(Phase, from, Run[c], Busy[c]) /\ Quiet(from, Run[c], Busy[c])
  BY DEF RunInv, Rendezvous, AllInStep, Step
<1>3. InStep(Phase, to, Run'[c], Busy'[c])
  BY <1>1, <1>2 DEF InStep
<1>4. Quiet(to, Run'[c], Busy'[c])
  BY <1>1, <1>2 DEF Quiet
<1>5. PhaseReached' /\ AllInStep'
  BY <1>1, <1>3, <1>4, FollowerInStep
<1>6. Settled'
  BY <1>1, FollowerSettled
<1>7. CountsAgree'
  BY <1>1, FollowerCounts
<1> QED BY <1>5, <1>6, <1>7 DEF Rendezvous

(* An AP answers the BSP.                                                  *)
LEMMA AnswerStep ==
  ASSUME RunInv, NEW c \in CPU, NEW from \in ApLabels \ {"flag", "left"},
         NEW to \in ApLabels \ {"flag", "left"}, Step(c, from, to), NEW r,
         Run' = [d \in CPU |-> IF d = c THEN r ELSE IF d = BspIndex THEN Released(Run[d]) ELSE Run[d]],
         UNCHANGED <<BspIndex, mode, InsideSmm, Present, bspIndex, scheduled, Busy, Counter, apCount>>,
         from \notin Answered(Phase), to \in Answered(Phase), Phase \notin {"none", "dismissed"},
         InsideSmm => ~Busy[c], InStep(Phase, to, r, Busy[c]), Quiet(to, r, Busy[c])
  PROVE  Rendezvous'
<1>1. /\ from \notin BspLabels /\ to \notin BspLabels
      /\ from \in CountedLabels /\ to \in CountedLabels
      /\ from \in PresentLabels /\ to \in PresentLabels
  BY DEF CountedLabels, PresentLabels, ApLabels, BspLabels
<1>2. BspIndex \in CPU /\ pc[BspIndex] \in BspLabels /\ BspIndex # c /\ pc[c] = from
  BY <1>1, NoneAssumption DEF RunInv, TypeOK, Phase, Step
<1>3. PhaseReached' /\ AllInStep'
  <2>1. \A d \in CPU \ {c} : /\ Busy'[d] = Busy[d]
                             /\ pc[d] \notin BspLabels => Run'[d] = Run[d]
    BY <1>2
  <2>2. InStep(Phase, to, Run'[c], Busy'[c]) /\ Quiet(to, Run'[c], Busy'[c])
    OBVIOUS
  <2> QED BY <1>1, <2>1, <2>2, FollowerInStep
<1>4. Settled'
  BY <1>1, FollowerSettled
<1>5. CountsAgree'
  <2>1. Phase' = Phase
    BY <1>1, FollowerPhase DEF RunInv
  <2>2. Members(pc', CountedLabels) = Members(pc, CountedLabels)
    BY <1>1, MembersKept DEF RunInv
  <2>3. Cardinality(Members(pc', Answered(Phase))) = Cardinality(Members(pc, Answered(Phase))) + 1
    BY MembersJoined DEF RunInv
  <2>4. Answered(Phase)' = Answered(Phase)
    BY <2>1 DEF Answered, Gathering, Gathers
  <2>5. LockedPhases' = LockedPhases
    BY DEF LockedPhases, Gathers
  <2>6. Run'[BspIndex] = Run[BspIndex] + 1
    BY <1>2 DEF RunInv, TypeOK, Released, Locked
  <2> QED BY <2>1, <2>2, <2>3, <2>4, <2>5, <2>6 DEF RunInv, Rendezvous, CountsAgree
<1> QED BY <1>3, <1>4, <1>5 DEF Rendezvous

-----------------------------------------------------------------------------
(* What every processor does before it follows the BSP or becomes it.      *)

LEMMA CheckInFollowed ==
  ASSUME RunInv, NEW c \in CPU, CheckIn(c)
  PROVE  Rendezvous'
<1>1. Counter \in Int /\ pc[c] = "checkIn"
  BY DEF RunInv, TypeOK, CheckIn, Step
<1>2. CASE Counter = Locked
  <2>1. Step(c, "checkIn", "drain")
    BY <1>2 DEF CheckIn, Released
  <2> QED BY <1>2, <2>1, OutsideStep DEF CheckIn, Released, CountedLabels, ApLabels, BspLabels
<1>3. CASE Counter # Locked
  <2> DEFINE to == IF bspInProgress[c] THEN "wait" ELSE "elect"
  <2> HIDE DEF to
  <2>1. Step(c, "checkIn", to) /\ Counter' = Counter + 1 /\ Busy' = [Busy EXCEPT ![c] = FALSE]
    BY <1>1, <1>3 DEF CheckIn, Released, Locked, to
  <2>2. to \in {"wait", "elect"}
    BY DEF to
  <2>3. "checkIn" \notin CountedLabels /\ "checkIn" \notin BspLabels /\ to \notin BspLabels
        /\ to \in CountedLabels
    BY <2>2 DEF CountedLabels, ApLabels, BspLabels
  <2>4. Phase \notin LockedPhases
    BY <1>3 DEF RunInv, Rendezvous, CountsAgree
  <2>5. Phase \in {"none", "inside"} \cup Gathering
    BY <2>4 DEF RunInv, Rendezvous, PhaseReached, Phase, LockedPhases, Gathering, BspLabels, Gathers
  <2>6. Busy' \in [CPU -> BOOLEAN] /\ Busy'[c] = FALSE /\ \A d \in CPU \ {c} : Busy'[d] = Busy[d]
    BY <2>1 DEF RunInv, TypeOK
  <2>7. Run[c] = 0 /\ Run' = Run
    BY <1>1 DEF RunInv, Rendezvous, AllInStep, Quiet, BspLabels, CheckIn
  <2>8. PhaseReached' /\ AllInStep'
    <3>1. InStep(Phase, to, Run'[c], Busy'[c])
      BY <2>2, <2>5 DEF InStep
    <3>2. Quiet(to, Run'[c], Busy'[c])
      BY <2>2, <2>6, <2>7 DEF Quiet
    <3> QED BY <2>1, <2>3, <2>6, <2>7, <3>1, <3>2, FollowerInStep DEF CheckIn
  <2>9. Settled'
    <3>1. "checkIn" \notin PresentLabels /\ to \notin PresentLabels /\ to \notin ApLabels
      BY <2>2 DEF PresentLabels, ApLabels, BspLabels
    <3> QED BY <2>1, <2>2, <2>3, <2>6, <3>1, FollowerSettled DEF CheckIn
  <2>10. CountsAgree'
    <3>1. Phase' = Phase
      BY <2>1, <2>3, FollowerPhase DEF RunInv, CheckIn
    <3>2. Cardinality(Members(pc', CountedLabels)) = Cardinality(Members(pc, CountedLabels)) + 1
      BY <2>1, <2>3, MembersJoined DEF RunInv
    <3>3. Members(pc', Answered(Phase)) = Members(pc, Answered(Phase))
      <4>1. "checkIn" \notin Answered(Phase) /\ to \notin Answered(Phase)
        BY <2>2 DEF Answered
      <4> QED BY <2>1, <4>1, MembersKept DEF RunInv
    <3>4. Answered(Phase)' = Answered(Phase) /\ LockedPhases' = LockedPhases
      BY <3>1 DEF Answered, Gathering, LockedPhases, Gathers, CheckIn
    <3>5. UNCHANGED <<BspIndex, apCount, Run>>
      BY DEF CheckIn
    <3>6. "dismissed" \in LockedPhases
      BY DEF LockedPhases
    <3>7. /\ Cardinality(Members(pc, CountedLabels)) \in Nat
          /\ Phase # "none" => apCount[BspIndex] \in Int
      BY MembersFinite DEF RunInv, TypeOK, Phase
    <3>8. Phase = "none" => Phase \notin LockingPhases
      BY DEF LockingPhases
    <3> QED BY <1>1, <1>3, <2>1, <2>4, <3>1, <3>2, <3>3, <3>4, <3>5, <3>6, <3>7, <3>8
         DEF RunInv, Rendezvous, CountsAgree, Locked
  <2> QED BY <2>8, <2>9, <2>10 DEF Rendezvous
<1> QED BY <1>2, <1>3

LEMMA ElectedFollowed ==
  ASSUME RunInv, NEW c \in CPU, ElectBsp(c)
  PROVE  Rendezvous'
<1>1. CASE BspIndex' # c
  <2>1. Step(c, "elect", "wait") /\ UNCHANGED BspIndex
    BY <1>1 DEF ElectBsp, Step, At
  <2> QED BY <2>1, WaitingStep DEF ElectBsp
<1>2. CASE BspIndex' = c
  <2>1. Step(c, "elect", "inside")
    BY <1>2 DEF ElectBsp, Step, At
  <2>2. Phase = "none" /\ Phase' = "inside"
    BY <1>2, <2>1, NoneAssumption DEF ElectBsp, Phase, Step, RunInv, TypeOK, BspLabels
  <2>3. \A d \in CPU : pc'[d] = IF d = c THEN "inside" ELSE pc[d]
    BY <2>1 DEF Step, RunInv, TypeOK
  <2>4. UNCHANGED <<mode, Counter, InsideSmm, Run, Present, bspIndex, apCount, Busy, scheduled>>
    BY DEF ElectBsp
  <2>5. PhaseReached'
    BY <2>2 DEF PhaseReached
  <2>6. ASSUME NEW d \in CPU
        PROVE  (InStep(Phase, pc[d], Run[d], Busy[d]) /\ Quiet(pc[d], Run[d], Busy[d]))'
    <3>1. InStep(Phase, pc[d], Run[d], Busy[d]) /\ Quiet(pc[d], Run[d], Busy[d])
      BY DEF RunInv, Rendezvous, AllInStep
    <3>2. CASE d = c
      BY <2>1, <2>2, <2>3, <2>4, <3>1, <3>2 DEF InStep, Quiet, Step, BspLabels, ApLabels, Gathers
    <3>3. CASE d # c
      BY <2>2, <2>3, <2>4, <3>1, <3>3 DEF InStep, Quiet, Gathering, HandlingPhases, Gathers
    <3> QED BY <3>2, <3>3
  <2>7. Settled'
    <3>1. InsideSmm' = FALSE /\ Phase' \notin InsidePhases
      BY <2>2, <2>4 DEF RunInv, Rendezvous, Settled, InsidePhases, BspLabels, TypeOK
    <3>2. \A d \in CPU : pc[d] \notin ApLabels
      <4>1. \A d \in CPU : InStep("none", pc[d], Run[d], Busy[d])
        BY <2>2 DEF RunInv, Rendezvous, AllInStep
      <4> QED BY <4>1 DEF InStep, Gathering, HandlingPhases, ApLabels
    <3>3. \A d \in CPU : pc'[d] \notin ApLabels
      BY <2>3, <3>2 DEF ApLabels
    <3>4. "elect" \notin PresentLabels /\ "inside" \notin PresentLabels
      BY DEF PresentLabels, ApLabels, BspLabels
    <3>5. \A d \in CPU : Present'[d] <=> pc'[d] \in PresentLabels
      BY <2>1, <2>3, <2>4, <3>4 DEF RunInv, Rendezvous, Settled, Step
    <3>6. scheduled' = {}
      BY <2>4, <3>1 DEF RunInv, Rendezvous, Settled
    <3> QED BY <3>1, <3>3, <3>5, <3>6 DEF Settled
  <2>8. CountsAgree'
    <3>1. Members(pc', CountedLabels) = Members(pc, CountedLabels)
      BY <2>1, MembersKept DEF RunInv, CountedLabels, BspLabels
    <3>2. Answered(Phase)' = {}
      BY <2>2 DEF Answered, Gathering
    <3>3. Cardinality(Members(pc', {})) = 0
      BY MembersNone
    <3>4. Run'[BspIndex'] = 0
      BY <1>2, <2>1, <2>4 DEF RunInv, Rendezvous, AllInStep, Quiet, Step, BspLabels
    <3>5. /\ Phase \notin LockingPhases \cup LockedPhases
          /\ Phase' \notin LockingPhases \cup LockedPhases'
          /\ Phase' \notin LockedPhases' \ {"dismissed", "reset"}
      BY <2>2 DEF LockingPhases, LockedPhases
    <3> QED BY <2>2, <2>4, <3>1, <3>2, <3>3, <3>4, <3>5 DEF RunInv, Rendezvous, CountsAgree
  <2> QED BY <2>5, <2>6, <2>7, <2>8 DEF Rendezvous, AllInStep
<1> QED BY <1>1, <1>2

-----------------------------------------------------------------------------
(* APHandler.                                                              *)

LEMMA BspIsInsideFollowed ==
  ASSUME RunInv, NEW c \in CPU, BspIsInside(c)
  PROVE  Rendezvous'
<1> DEFINE from == pc[c]
<1>1. from \in {"wait", "waitAgain"} /\ Step(c, from, "flag")
  BY DEF BspIsInside, Step
<1> HIDE DEF from
<1>2. /\ from \notin BspLabels /\ "flag" \notin BspLabels
      /\ from \in CountedLabels /\ "flag" \in CountedLabels
      /\ from \notin PresentLabels /\ "flag" \notin PresentLabels
      /\ from \notin Answered(Phase) /\ "flag" \notin Answered(Phase)
  BY <1>1 DEF CountedLabels, PresentLabels, Answered, ApLabels, BspLabels
<1>3. InStep(Phase, from, Run[c], Busy[c]) /\ Quiet(from, Run[c], Busy[c])
  BY <1>1 DEF RunInv, Rendezvous, AllInStep, Step
<1>4. Phase \in Gathering
  BY <1>1, <1>3 DEF InStep, BspIsInside, RunInv, Rendezvous, Settled, InsidePhases, BspLabels
<1>5. UNCHANGED <<BspIndex, mode, InsideSmm, Present, bspIndex, scheduled, Busy, Run, Counter, apCount>>
  BY DEF BspIsInside
<1>6. PhaseReached' /\ AllInStep'
  <2>1. InStep(Phase, "flag", Run'[c], Busy'[c])
    BY <1>4 DEF InStep
  <2>2. Quiet("flag", Run'[c], Busy'[c])
    BY <1>1, <1>3, <1>5 DEF Quiet, ApLabels, BspLabels
  <2> QED BY <1>1, <1>2, <1>5, <2>1, <2>2, FollowerInStep
<1>7. Settled'
  BY <1>1, <1>2, <1>5, FollowerSettled
<1>8. CountsAgree'
  BY <1>1, <1>2, <1>5, FollowerCounts
<1> QED BY <1>6, <1>7, <1>8 DEF Rendezvous

LEMMA GiveUpFollowed ==
  ASSUME RunInv, NEW c \in CPU, GiveUp(c)
  PROVE  Rendezvous'
<1>1. Step(c, "giveUp", "drain") /\ Counter' = Counter - 1 /\ Counter \in Int
  BY DEF GiveUp, RunInv, TypeOK
<1>2. /\ "giveUp" \notin BspLabels /\ "drain" \notin BspLabels
      /\ "giveUp" \in CountedLabels /\ "drain" \notin CountedLabels
      /\ "giveUp" \notin PresentLabels /\ "drain" \notin PresentLabels
      /\ "giveUp" \notin Answered(Phase) /\ "drain" \notin Answered(Phase)
      /\ "drain" \notin ApLabels
  BY DEF CountedLabels, PresentLabels, Answered, ApLabels, BspLabels
<1>3. InStep(Phase, "giveUp", Run[c], Busy[c]) /\ Quiet("giveUp", Run[c], Busy[c])
  BY <1>1 DEF RunInv, Rendezvous, AllInStep, Step
<1>4. UNCHANGED <<BspIndex, mode, InsideSmm, Present, bspIndex, scheduled, Busy, Run, apCount>>
  BY DEF GiveUp
<1>5. PhaseReached' /\ AllInStep'
  <2>1. InStep(Phase, "drain", Run'[c], Busy'[c])
    BY DEF InStep
  <2>2. Quiet("drain", Run'[c], Busy'[c])
    BY <1>3, <1>4 DEF Quiet, ApLabels, BspLabels
  <2> QED BY <1>1, <1>2, <1>4, <2>1, <2>2, FollowerInStep
<1>6. Settled'
  BY <1>1, <1>2, <1>4, FollowerSettled
<1>7. CountsAgree'
  <2>1. Phase' = Phase
    BY <1>1, <1>2, <1>4, FollowerPhase DEF RunInv
  <2>2. Phase \notin LockedPhases
    BY <1>3 DEF InStep, Gathering, LockedPhases
  <2>3. Cardinality(Members(pc', CountedLabels)) = Cardinality(Members(pc, CountedLabels)) - 1
    BY <1>1, <1>2, MembersLeft DEF RunInv
  <2>4. Members(pc', Answered(Phase)) = Members(pc, Answered(Phase))
    BY <1>1, <1>2, MembersKept DEF RunInv
  <2>5. Answered(Phase)' = Answered(Phase) /\ LockedPhases' = LockedPhases
    BY <1>4, <2>1 DEF Answered, Gathering, LockedPhases, Gathers
  <2>6. "dismissed" \in LockedPhases
    BY DEF LockedPhases
  <2>7. Cardinality(Members(pc, CountedLabels)) \in Nat /\ (apCount[BspIndex] \in Int \/ Phase = "none")
    BY MembersFinite DEF RunInv, TypeOK, Phase
  <2>8. Phase = "none" => Phase \notin LockingPhases
    BY DEF LockingPhases
  <2> QED BY <1>1, <1>4, <2>1, <2>2, <2>3, <2>4, <2>5, <2>6, <2>7, <2>8
       DEF RunInv, Rendezvous, CountsAgree, Locked
<1> QED BY <1>5, <1>6, <1>7 DEF Rendezvous

(* Where there is an AP, there is a BSP that it follows.                   *)
LEMMA BspThere ==
  ASSUME RunInv, NEW c \in CPU, pc[c] \in ApLabels
  PROVE  /\ Phase # "none" /\ Phase = pc[BspIndex] /\ Phase \in BspLabels
         /\ BspIndex \in CPU /\ BspIndex # c
         /\ pc[c] # "flag" => bspIndex[c] = BspIndex
<1>1. InStep(Phase, pc[c], Run[c], Busy[c])
  BY DEF RunInv, Rendezvous, AllInStep
<1>2. Phase # "none"
  BY <1>1 DEF InStep, Gathering, HandlingPhases, ApLabels
<1>3. pc[c] \notin BspLabels
  BY DEF ApLabels, BspLabels
<1> QED BY <1>2, <1>3, NoneAssumption DEF RunInv, TypeOK, Phase, Rendezvous, Settled

LEMMA MarkPresenceFollowed ==
  ASSUME RunInv, NEW c \in CPU, MarkPresence(c)
  PROVE  Rendezvous'
<1> DEFINE to == IF Gathers THEN "arrived" ELSE "idle"
<1>1. Step(c, "flag", to) /\ to \in {"arrived", "idle"} /\ pc[c] = "flag"
  BY DEF MarkPresence, Step
<1>2. (to = "arrived") <=> Gathers
  OBVIOUS
<1> HIDE DEF to
<1>3. /\ "flag" \notin BspLabels /\ to \notin BspLabels
      /\ "flag" \in CountedLabels /\ to \in CountedLabels
      /\ "flag" \notin PresentLabels /\ to \in PresentLabels
      /\ "flag" \in ApLabels
  BY <1>1 DEF CountedLabels, PresentLabels, ApLabels, BspLabels
<1>4. InStep(Phase, "flag", Run[c], Busy[c]) /\ Quiet("flag", Run[c], Busy[c])
  BY <1>1 DEF RunInv, Rendezvous, AllInStep
<1>5. Phase \in Gathering /\ Run[c] = 0 /\ ~Busy[c]
  BY <1>4 DEF InStep, Quiet, ApLabels, BspLabels
<1>6. "flag" \notin Answered(Phase) /\ to \notin Answered(Phase)
  BY <1>1, <1>2, <1>5 DEF Answered, Gathering
<1>7. /\ UNCHANGED <<BspIndex, mode, InsideSmm, scheduled, Busy, Run, Counter, apCount>>
      /\ bspIndex' = [bspIndex EXCEPT ![c] = BspIndex]
      /\ Present' = [Present EXCEPT ![c] = TRUE]
  BY DEF MarkPresence
<1>8. Phase' = Phase
  BY <1>1, <1>3, <1>7, FollowerPhase DEF RunInv
<1>9. PhaseReached' /\ AllInStep'
  <2>1. InStep(Phase, to, Run'[c], Busy'[c])
    BY <1>1, <1>2, <1>5, <1>7 DEF InStep, Gathers
  <2>2. Quiet(to, Run'[c], Busy'[c])
    BY <1>1, <1>5, <1>7 DEF Quiet, ApLabels, BspLabels
  <2> QED BY <1>1, <1>3, <1>7, <2>1, <2>2, FollowerInStep
<1>10. Settled'
  <2>1. \A d \in CPU : pc'[d] = IF d = c THEN to ELSE pc[d]
    BY <1>1 DEF Step, RunInv, TypeOK
  <2>2. (InsideSmm <=> Phase \in InsidePhases)'
    BY <1>7, <1>8 DEF RunInv, Rendezvous, Settled
  <2>3. \A d \in CPU : Present'[d] <=> pc'[d] \in PresentLabels
    BY <1>3, <1>7, <2>1 DEF RunInv, Rendezvous, Settled, TypeOK
  <2>4. \A d \in CPU : pc'[d] \in ApLabels \ {"flag"} => bspIndex'[d] = BspIndex'
    BY <1>7, <2>1 DEF RunInv, Rendezvous, Settled, TypeOK
  <2>5. scheduled' = {d \in CPU : InsideSmm' /\ Busy'[d] /\ pc'[d] \in {"idle", "woken"}}
    BY <1>1, <1>5, <1>7, <2>1 DEF RunInv, Rendezvous, Settled
  <2> QED BY <2>2, <2>3, <2>4, <2>5 DEF Settled
<1>11. CountsAgree'
  BY <1>1, <1>3, <1>6, <1>7, FollowerCounts
<1> QED BY <1>9, <1>10, <1>11 DEF Rendezvous

LEMMA NotifyArrivalFollowed ==
  ASSUME RunInv, NEW c \in CPU, NotifyArrival(c)
  PROVE  Rendezvous'
<1> DEFINE to == IF needMtrrs THEN "saveMtrrs" ELSE "idle"
<1>1. Step(c, "arrived", to) /\ to \in {"saveMtrrs", "idle"} /\ pc[c] = "arrived"
  BY DEF NotifyArrival, Step
<1>2. (to = "saveMtrrs") <=> needMtrrs
  OBVIOUS
<1> HIDE DEF to
<1>3. InStep(Phase, "arrived", Run[c], Busy[c]) /\ Quiet("arrived", Run[c], Busy[c])
  BY <1>1 DEF RunInv, Rendezvous, AllInStep
<1>4. Gathers /\ Phase \in Gathering /\ Run[c] = 0 /\ ~Busy[c]
  BY <1>3 DEF InStep, Quiet, ApLabels, BspLabels
<1>5. "arrived" \notin Answered(Phase) /\ to \in Answered(Phase)
  BY <1>1, <1>4 DEF Answered
<1>6. bspIndex[c] = BspIndex /\ Phase # "none" /\ BspIndex # c
  BY <1>1, BspThere DEF ApLabels
<1>7. Run' = [d \in CPU |-> IF d = c THEN 0 ELSE IF d = BspIndex THEN Released(Run[d]) ELSE Run[d]]
  BY <1>4, <1>6 DEF NotifyArrival, Answer, RunInv, TypeOK
<1>8. InStep(Phase, to, 0, Busy[c]) /\ Quiet(to, 0, Busy[c])
  BY <1>1, <1>2, <1>4 DEF InStep, Quiet, ApLabels, BspLabels
<1>9. Phase # "dismissed"
  BY <1>4 DEF Gathering
<1> QED BY <1>1, <1>4, <1>5, <1>6, <1>7, <1>8, <1>9, AnswerStep DEF NotifyArrival, ApLabels

LEMMA NotifyExitFollowed ==
  ASSUME RunInv, NEW c \in CPU, NotifyExit(c)
  PROVE  Rendezvous'
<1> DEFINE to == IF needMtrrs THEN "restoreMtrrs" ELSE "ready"
<1>1. Step(c, "woken", to) /\ to \in {"restoreMtrrs", "ready"} /\ pc[c] = "woken"
  BY DEF NotifyExit, Step
<1>2. (to = "restoreMtrrs") <=> needMtrrs
  OBVIOUS
<1> HIDE DEF to
<1>3. InStep(Phase, "woken", Run[c], Busy[c])
  BY <1>1 DEF RunInv, Rendezvous, AllInStep
<1>4. Phase = "released" /\ Run[c] = 0 /\ ~Busy[c]
  BY <1>3 DEF InStep, HandlingPhases, NotifyExit, RunInv, Rendezvous, Settled, InsidePhases, BspLabels
<1>5. "woken" \notin Answered(Phase) /\ to \in Answered(Phase)
  BY <1>1, <1>4 DEF Answered, Gathering
<1>6. bspIndex[c] = BspIndex /\ BspIndex # c
  BY <1>1, BspThere DEF ApLabels
<1>7. Run' = [d \in CPU |-> IF d = c THEN 0 ELSE IF d = BspIndex THEN Released(Run[d]) ELSE Run[d]]
  BY <1>4, <1>6 DEF NotifyExit, Answer, RunInv, TypeOK
<1>8. InStep(Phase, to, 0, Busy[c]) /\ Quiet(to, 0, Busy[c])
  BY <1>1, <1>2, <1>4 DEF InStep, Quiet, ApLabels, BspLabels
<1> QED BY <1>1, <1>4, <1>5, <1>6, <1>7, <1>8, AnswerStep DEF NotifyExit, ApLabels

(* The AP's part in a round of MTRRs.                                      *)
LEMMA ApMtrrsFollowed ==
  ASSUME RunInv, NEW c \in CPU, NEW from, NEW to, NEW settings, ApMtrrs(c, from, to, settings),
         <<from, to>> \in {<<"saveMtrrs", "loadMtrrs">>, <<"loadMtrrs", "idle">>,
                           <<"restoreMtrrs", "ready">>}
  PROVE  Rendezvous'
<1>1. Step(c, from, to) /\ pc[c] = from /\ Run[c] # 0
  BY DEF ApMtrrs, TakeAndAnswer, Step
<1>2. InStep(Phase, from, Run[c], Busy[c]) /\ Quiet(from, Run[c], Busy[c])
  BY <1>1 DEF RunInv, Rendezvous, AllInStep
<1>3. /\ from = "saveMtrrs" => Phase = "backedUp"
      /\ from = "loadMtrrs" => Phase = "programmed"
      /\ from = "restoreMtrrs" => Phase = "restored"
      /\ needMtrrs /\ Run[c] = 1 /\ ~Busy[c]
  BY <1>1, <1>2 DEF InStep, Quiet, ApLabels
<1>4. from \notin Answered(Phase) /\ to \in Answered(Phase)
  BY <1>3 DEF Answered, Gathering
<1>5. bspIndex[c] = BspIndex /\ BspIndex # c
  BY <1>1, BspThere DEF ApLabels
<1>6. Run' = [d \in CPU |-> IF d = c THEN 0 ELSE IF d = BspIndex THEN Released(Run[d]) ELSE Run[d]]
  BY <1>3, <1>5 DEF ApMtrrs, TakeAndAnswer, RunInv, TypeOK
<1>7. InStep(Phase, to, 0, Busy[c]) /\ Quiet(to, 0, Busy[c])
  BY <1>3 DEF InStep, Quiet, ApLabels, BspLabels
<1> QED BY <1>1, <1>3, <1>4, <1>5, <1>6, <1>7, AnswerStep DEF ApMtrrs, ApLabels

(* An AP waits for a procedure or for the end, and runs the procedure.     *)
LEMMA WakeUpFollowed ==
  ASSUME RunInv, NEW c \in CPU, WakeUp(c)
  PROVE  Rendezvous'
<1>1. Step(c, "idle", "woken") /\ pc[c] = "idle" /\ Run[c] # 0
  BY DEF WakeUp, Step
<1>2. /\ "idle" \notin BspLabels /\ "woken" \notin BspLabels
      /\ "idle" \in CountedLabels /\ "woken" \in CountedLabels
      /\ "idle" \in PresentLabels /\ "woken" \in PresentLabels
      /\ "idle" \in ApLabels
  BY DEF CountedLabels, PresentLabels, ApLabels, BspLabels
<1>3. InStep(Phase, "idle", Run[c], Busy[c])
  BY <1>1 DEF RunInv, Rendezvous, AllInStep
<1>4. Run[c] = 1 /\ IF Busy[c] THEN Phase \in HandlingPhases ELSE Phase = "released"
  BY <1>1, <1>3 DEF InStep
<1>5. "idle" \notin Answered(Phase) /\ "woken" \notin Answered(Phase)
  BY <1>4 DEF Answered, HandlingPhases, Gathering
<1>6. /\ UNCHANGED <<BspIndex, mode, InsideSmm, Present, bspIndex, scheduled, Busy, Counter, apCount>>
      /\ Run'[c] = 0 /\ \A d \in CPU \ {c} : Run'[d] = Run[d]
  BY <1>4 DEF WakeUp, RunInv, TypeOK
<1>7. BspIndex \in CPU /\ BspIndex # c
  BY <1>1, <1>2, BspThere
<1>8. PhaseReached' /\ AllInStep'
  <2>1. InStep(Phase, "woken", Run'[c], Busy'[c])
    BY <1>4, <1>6 DEF InStep
  <2>2. Quiet("woken", Run'[c], Busy'[c])
    BY <1>6 DEF Quiet, ApLabels, BspLabels
  <2> QED BY <1>1, <1>2, <1>6, <2>1, <2>2, FollowerInStep
<1>9. Settled'
  BY <1>1, <1>2, <1>6, FollowerSettled
<1>10. CountsAgree'
  BY <1>1, <1>2, <1>5, <1>6, <1>7, FollowerCounts
<1> QED BY <1>8, <1>9, <1>10 DEF Rendezvous

LEMMA RunProcedureFollowed ==
  ASSUME RunInv, NEW c \in CPU, RunProcedure(c)
  PROVE  Rendezvous'
<1>1. Step(c, "woken", "ran") /\ pc[c] = "woken"
  BY DEF RunProcedure, Step
<1>2. /\ "woken" \notin BspLabels /\ "ran" \notin BspLabels
      /\ "woken" \in CountedLabels /\ "ran" \in CountedLabels
      /\ "woken" \in PresentLabels /\ "ran" \in PresentLabels
      /\ "woken" \notin Answered(Phase) /\ "ran" \notin Answered(Phase)
  BY DEF CountedLabels, PresentLabels, Answered, ApLabels, BspLabels
<1>3. InStep(Phase, "woken", Run[c], Busy[c])
  BY <1>1 DEF RunInv, Rendezvous, AllInStep
<1>4. Run[c] = 0 /\ Busy[c] /\ Phase \in HandlingPhases
  BY <1>3 DEF InStep, RunProcedure, RunInv, Rendezvous, Settled, InsidePhases, BspLabels
<1>5. /\ UNCHANGED <<BspIndex, mode, InsideSmm, Present, bspIndex, Run, Busy, Counter, apCount>>
      /\ scheduled' = scheduled \ {c}
  BY DEF RunProcedure
<1>6. PhaseReached' /\ AllInStep'
  <2>1. InStep(Phase, "ran", Run'[c], Busy'[c])
    BY <1>4, <1>5 DEF InStep
  <2>2. Quiet("ran", Run'[c], Busy'[c])
    BY <1>4, <1>5 DEF Quiet, ApLabels, BspLabels
  <2> QED BY <1>1, <1>2, <1>5, <2>1, <2>2, FollowerInStep
<1>7. Settled'
  <2>1. \A d \in CPU : pc'[d] = IF d = c THEN "ran" ELSE pc[d]
    BY <1>1 DEF Step, RunInv, TypeOK
  <2>2. Phase' = Phase
    BY <1>1, <1>2, <1>5, FollowerPhase DEF RunInv
  <2>3. \A d \in CPU : Present'[d] <=> pc'[d] \in PresentLabels
    BY <1>1, <1>2, <1>5, <2>1 DEF RunInv, Rendezvous, Settled
  <2>4. \A d \in CPU : pc'[d] \in ApLabels \ {"flag"} => bspIndex'[d] = BspIndex'
    BY <1>1, <1>5, <2>1 DEF RunInv, Rendezvous, Settled, ApLabels
  <2>5. scheduled' = {d \in CPU : InsideSmm' /\ Busy'[d] /\ pc'[d] \in {"idle", "woken"}}
    BY <1>5, <2>1 DEF RunInv, Rendezvous, Settled
  <2> QED BY <1>5, <2>2, <2>3, <2>4, <2>5 DEF Settled, RunInv, Rendezvous
<1>8. CountsAgree'
  BY <1>1, <1>2, <1>5, FollowerCounts
<1> QED BY <1>6, <1>7, <1>8 DEF Rendezvous

LEMMA ReleaseBusyFollowed ==
  ASSUME RunInv, NEW c \in CPU, ReleaseBusy(c)
  PROVE  Rendezvous'
<1>1. Step(c, "ran", "idle") /\ pc[c] = "ran"
  BY DEF ReleaseBusy, Step
<1>2. /\ "ran" \notin BspLabels /\ "idle" \notin BspLabels
      /\ "ran" \in CountedLabels /\ "idle" \in CountedLabels
      /\ "ran" \in PresentLabels /\ "idle" \in PresentLabels
      /\ "ran" \in ApLabels
  BY DEF CountedLabels, PresentLabels, ApLabels, BspLabels
<1>3. InStep(Phase, "ran", Run[c], Busy[c])
  BY <1>1 DEF RunInv, Rendezvous, AllInStep
<1>4. Run[c] = 0 /\ Phase \in HandlingPhases
  BY <1>3 DEF InStep
<1>5. "ran" \notin Answered(Phase) /\ "idle" \notin Answered(Phase)
  BY <1>4 DEF Answered, HandlingPhases, Gathering
<1>6. /\ UNCHANGED <<BspIndex, mode, InsideSmm, Present, bspIndex, scheduled, Run, Counter, apCount>>
      /\ Busy'[c] = FALSE /\ \A d \in CPU \ {c} : Busy'[d] = Busy[d]
  BY DEF ReleaseBusy, RunInv, TypeOK
<1>7. PhaseReached' /\ AllInStep'
  <2>1. InStep(Phase, "idle", Run'[c], Busy'[c])
    BY <1>4, <1>6 DEF InStep, HandlingPhases
  <2>2. Quiet("idle", Run'[c], Busy'[c])
    BY <1>6 DEF Quiet, ApLabels, BspLabels
  <2> QED BY <1>1, <1>2, <1>6, <2>1, <2>2, FollowerInStep
<1>8. Settled'
  BY <1>1, <1>2, <1>6, FollowerSettled
<1>9. CountsAgree'
  BY <1>1, <1>2, <1>5, <1>6, FollowerCounts
<1> QED BY <1>7, <1>8, <1>9 DEF Rendezvous

(* An AP leaves the rendezvous with the last signal.                       *)
LEMMA ResetStatesFollowed ==
  ASSUME RunInv, NEW c \in CPU, ResetStates(c)
  PROVE  Rendezvous'
<1>1. Step(c, "ready", "left") /\ pc[c] = "ready" /\ Run[c] # 0
  BY DEF ResetStates, Step
<1>2. /\ "ready" \notin BspLabels /\ "left" \notin BspLabels
      /\ "ready" \in CountedLabels /\ "left" \in CountedLabels
      /\ "ready" \in PresentLabels /\ "left" \notin PresentLabels
      /\ "ready" \in ApLabels \ {"flag"}
  BY DEF CountedLabels, PresentLabels, ApLabels, BspLabels
<1>3. InStep(Phase, "ready", Run[c], Busy[c]) /\ Quiet("ready", Run[c], Busy[c])
  BY <1>1 DEF RunInv, Rendezvous, AllInStep
<1>4. Run[c] = 1 /\ Phase = "dismissed" /\ ~Busy[c]
  BY <1>1, <1>3 DEF InStep, Quiet, ApLabels
<1>5. "ready" \notin Answered(Phase) /\ "left" \notin Answered(Phase)
  BY <1>4 DEF Answered, Gathering
<1>6. /\ UNCHANGED <<BspIndex, mode, InsideSmm, bspIndex, scheduled, Busy, Counter, apCount>>
      /\ Run'[c] = 0 /\ \A d \in CPU \ {c} : Run'[d] = Run[d]
      /\ Present' = [Present EXCEPT ![c] = FALSE]
  BY <1>4 DEF ResetStates, RunInv, TypeOK
<1>7. BspIndex \in CPU /\ BspIndex # c
  BY <1>1, <1>2, BspThere
<1>8. PhaseReached' /\ AllInStep'
  <2>1. InStep(Phase, "left", Run'[c], Busy'[c])
    BY <1>4, <1>6 DEF InStep
  <2>2. Quiet("left", Run'[c], Busy'[c])
    BY <1>4, <1>6 DEF Quiet, ApLabels, BspLabels
  <2> QED BY <1>1, <1>2, <1>6, <2>1, <2>2, FollowerInStep
<1>9. Settled'
  <2>1. \A d \in CPU : pc'[d] = IF d = c THEN "left" ELSE pc[d]
    BY <1>1 DEF Step, RunInv, TypeOK
  <2>2. Phase' = Phase
    BY <1>1, <1>2, <1>6, FollowerPhase DEF RunInv
  <2>3. \A d \in CPU : Present'[d] <=> pc'[d] \in PresentLabels
    BY <1>2, <1>6, <2>1 DEF RunInv, Rendezvous, Settled, TypeOK
  <2>4. \A d \in CPU : pc'[d] \in ApLabels \ {"flag"} => bspIndex'[d] = BspIndex'
    BY <1>1, <1>2, <1>6, <2>1 DEF RunInv, Rendezvous, Settled
  <2>5. scheduled' = {d \in CPU : InsideSmm' /\ Busy'[d] /\ pc'[d] \in {"idle", "woken"}}
    BY <1>1, <1>6, <2>1 DEF RunInv, Rendezvous, Settled
  <2> QED BY <1>6, <2>2, <2>3, <2>4, <2>5 DEF Settled, RunInv, Rendezvous
<1>10. CountsAgree'
  BY <1>1, <1>2, <1>5, <1>6, <1>7, FollowerCounts
<1> QED BY <1>8, <1>9, <1>10 DEF Rendezvous

LEMMA NotifyLeftFollowed ==
  ASSUME RunInv, NEW c \in CPU, NotifyLeft(c)
  PROVE  Rendezvous'
<1>1. Step(c, "left", "drain") /\ pc[c] = "left"
  BY DEF NotifyLeft, Step
<1>2. /\ "left" \notin BspLabels /\ "drain" \notin BspLabels
      /\ "left" \in CountedLabels /\ "drain" \notin CountedLabels
      /\ "left" \notin PresentLabels /\ "drain" \notin PresentLabels
      /\ "left" \in ApLabels \ {"flag"} /\ "drain" \notin ApLabels
  BY DEF CountedLabels, PresentLabels, ApLabels, BspLabels
<1>3. InStep(Phase, "left", Run[c], Busy[c])
  BY <1>1 DEF RunInv, Rendezvous, AllInStep
<1>4. Run[c] = 0 /\ Phase = "dismissed"
  BY <1>3 DEF InStep
<1>5. /\ BspIndex \in CPU /\ BspIndex # c /\ bspIndex[c] = BspIndex
      /\ pc[BspIndex] \in BspLabels
  BY <1>1, <1>2, BspThere
<1>6. /\ UNCHANGED <<BspIndex, mode, InsideSmm, Present, scheduled, Busy, Counter, apCount>>
      /\ Run'[BspIndex] = Run[BspIndex] + 1
      /\ \A d \in CPU \ {BspIndex} : Run'[d] = Run[d]
      /\ bspIndex' = [bspIndex EXCEPT ![c] = None]
  BY <1>5 DEF NotifyLeft, Answer, RunInv, TypeOK, Released, Locked
<1>7. Phase' = Phase
  BY <1>1, <1>2, <1>6, FollowerPhase DEF RunInv
<1>8. PhaseReached' /\ AllInStep'
  <2>1. InStep(Phase, "drain", Run'[c], Busy'[c])
    BY DEF InStep
  <2>2. Quiet("drain", Run'[c], Busy'[c])
    BY <1>4, <1>5, <1>6 DEF Quiet, ApLabels, BspLabels
  <2>3. \A d \in CPU \ {c} : Busy'[d] = Busy[d] /\ (pc[d] \notin BspLabels => Run'[d] = Run[d])
    BY <1>5, <1>6
  <2> QED BY <1>1, <1>2, <1>6, <2>1, <2>2, <2>3, FollowerInStep
<1>9. Settled'
  <2>1. \A d \in CPU : pc'[d] = IF d = c THEN "drain" ELSE pc[d]
    BY <1>1 DEF Step, RunInv, TypeOK
  <2>2. \A d \in CPU : Present'[d] <=> pc'[d] \in PresentLabels
    BY <1>1, <1>2, <1>6, <2>1 DEF RunInv, Rendezvous, Settled
  <2>3. \A d \in CPU : pc'[d] \in ApLabels \ {"flag"} => bspIndex'[d] = BspIndex'
    BY <1>2, <1>6, <2>1 DEF RunInv, Rendezvous, Settled, TypeOK
  <2>4. scheduled' = {d \in CPU : InsideSmm' /\ Busy'[d] /\ pc'[d] \in {"idle", "woken"}}
    BY <1>1, <1>6, <2>1 DEF RunInv, Rendezvous, Settled
  <2> QED BY <1>6, <1>7, <2>2, <2>3, <2>4 DEF Settled, RunInv, Rendezvous
<1>10. CountsAgree'
  <2>1. Cardinality(Members(pc', CountedLabels)) = Cardinality(Members(pc, CountedLabels)) - 1
    BY <1>1, <1>2, MembersLeft DEF RunInv
  <2>2. Cardinality(Members(pc, CountedLabels)) \in Nat /\ Run[BspIndex] \in Nat
    BY <1>5, MembersFinite DEF RunInv, TypeOK
  <2>3. Phase \in LockedPhases /\ Phase' \in LockedPhases' /\ Phase \notin LockingPhases
    BY <1>4, <1>7 DEF LockedPhases, LockingPhases
  <2> QED BY <1>4, <1>6, <1>7, <2>1, <2>2, <2>3 DEF RunInv, Rendezvous, CountsAgree
<1> QED BY <1>8, <1>9, <1>10 DEF Rendezvous

-----------------------------------------------------------------------------
(* A step of the BSP.                                                      *)

LEMMA BspPhase ==
  ASSUME TypeOK, OneBsp, NEW b \in CPU, NEW from \in BspLabels, NEW to \in BspLabels,
         Step(b, from, to), UNCHANGED BspIndex
  PROVE  /\ BspIndex = b /\ Phase = from /\ Phase' = to
         /\ pc[b] = from /\ pc'[b] = to
         /\ \A d \in CPU \ {b} : pc'[d] = pc[d] /\ pc[d] \notin BspLabels
BY NoneAssumption DEF OneBsp, Phase, Step, TypeOK

LEMMA BspInStep ==
  ASSUME RunInv, NEW b \in CPU, NEW from \in BspLabels, NEW to \in BspLabels,
         Step(b, from, to), UNCHANGED <<BspIndex, mode>>,
         to \in {"arriving", "ipi", "arrivingAgain", "gather"} => Gathers,
         to = "present" => ~Gathers,
         to \in {"backup", "backedUp", "program", "programmed", "restore", "restored"} => needMtrrs,
         \A d \in CPU \ {b} :
           InStep(from, pc[d], Run[d], Busy[d]) /\ Quiet(pc[d], Run[d], Busy[d]) =>
           InStep(to, pc[d], Run'[d], Busy'[d]) /\ Quiet(pc[d], Run'[d], Busy'[d]),
         Quiet(to, Run'[b], Busy'[b])
  PROVE  PhaseReached' /\ AllInStep'
<1>1. /\ BspIndex = b /\ Phase = from /\ Phase' = to /\ pc[b] = from /\ pc'[b] = to
      /\ \A d \in CPU \ {b} : pc'[d] = pc[d] /\ pc[d] \notin BspLabels
  BY BspPhase DEF RunInv
<1>2. PhaseReached'
  BY <1>1 DEF PhaseReached, Gathers
<1>3. ASSUME NEW d \in CPU
      PROVE  (InStep(Phase, pc[d], Run[d], Busy[d]) /\ Quiet(pc[d], Run[d], Busy[d]))'
  <2>1. CASE d = b
    <3>1. InStep(Phase, pc[d], Run[d], Busy[d])'
      BY <1>1, <2>1 DEF InStep, BspLabels
    <3>2. Quiet(pc[d], Run[d], Busy[d])'
      BY <1>1, <2>1 DEF Quiet, Gathers
    <3> QED BY <3>1, <3>2
  <2>2. CASE d # b
    <3>1. InStep(to, pc[d], Run'[d], Busy'[d]) /\ Quiet(pc[d], Run'[d], Busy'[d])
      BY <1>1, <2>2 DEF RunInv, Rendezvous, AllInStep
    <3> QED BY <1>1, <2>2, <3>1 DEF InStep, Quiet, Gathering, Gathers
  <2> QED BY <2>1, <2>2
<1> QED BY <1>2, <1>3 DEF AllInStep

LEMMA BspSettled ==
  ASSUME RunInv, NEW b \in CPU, NEW from \in BspLabels, NEW to \in BspLabels,
         Step(b, from, to), UNCHANGED <<BspIndex, mode, bspIndex, scheduled>>,
         InsideSmm' <=> to \in InsidePhases,
         Present'[b] <=> to \in PresentLabels,
         \A d \in CPU \ {b} : Present'[d] = Present[d] /\ Busy'[d] = Busy[d],
         \/ InsideSmm' <=> InsideSmm
         \/ \A d \in CPU \ {b} : ~(Busy[d] /\ pc[d] \in {"idle", "woken"})
  PROVE  Settled'
<1>1. /\ BspIndex = b /\ Phase = from /\ Phase' = to /\ pc[b] = from /\ pc'[b] = to
      /\ \A d \in CPU \ {b} : pc'[d] = pc[d] /\ pc[d] \notin BspLabels
  BY BspPhase DEF RunInv
<1>2. from \notin ApLabels /\ to \notin ApLabels /\ {"idle", "woken"} \subseteq ApLabels
  BY DEF ApLabels, BspLabels
<1>3. \A d \in CPU : Present'[d] <=> pc'[d] \in PresentLabels
  BY <1>1 DEF RunInv, Rendezvous, Settled
<1>4. \A d \in CPU : pc'[d] \in ApLabels \ {"flag"} => bspIndex'[d] = BspIndex'
  BY <1>1, <1>2 DEF RunInv, Rendezvous, Settled
<1>5. scheduled' = {d \in CPU : InsideSmm' /\ Busy'[d] /\ pc'[d] \in {"idle", "woken"}}
  BY <1>1, <1>2 DEF RunInv, Rendezvous, Settled
<1> QED BY <1>1, <1>3, <1>4, <1>5 DEF Settled

(* The BSP's steps move no AP.                                             *)
LEMMA BspMembers ==
  ASSUME RunInv, NEW b \in CPU, NEW from \in BspLabels, NEW to \in BspLabels, Step(b, from, to)
  PROVE  /\ Members(pc', CountedLabels) = Members(pc, CountedLabels)
         /\ \A p : Members(pc', Answered(p)) = Members(pc, Answered(p))
<1>1. from \in CountedLabels /\ to \in CountedLabels
  BY DEF CountedLabels
<1>2. \A p : from \notin Answered(p) /\ to \notin Answered(p)
  BY DEF Answered, BspLabels
<1>3. ASSUME NEW p
      PROVE  Members(pc', Answered(p)) = Members(pc, Answered(p))
  BY <1>2, MembersKept DEF RunInv
<1> QED BY <1>1, <1>3, MembersKept DEF RunInv

(* The phases before the counter is locked and those after.                *)
LEMMA BspCounts ==
  ASSUME RunInv, NEW b \in CPU, NEW from \in BspLabels, NEW to \in BspLabels,
         Step(b, from, to), UNCHANGED <<BspIndex, mode, Counter, apCount>>,
         \/ from \notin LockingPhases \cup LockedPhases /\ to \notin LockingPhases \cup LockedPhases
         \/ /\ from \in LockedPhases \ {"dismissed", "reset"}
            /\ to \in LockedPhases \ {"dismissed", "reset"},
         Run'[b] = Cardinality(Members(pc, Answered(to)))
  PROVE  CountsAgree'
<1>1. BspIndex = b /\ Phase = from /\ Phase' = to
  BY BspPhase DEF RunInv
<1>2. Members(pc', CountedLabels) = Members(pc, CountedLabels)
  BY BspMembers
<1>3. Members(pc', Answered(to)) = Members(pc, Answered(to))
  BY BspMembers
<1>4. Answered(Phase)' = Answered(to) /\ LockedPhases' = LockedPhases
  BY <1>1 DEF Answered, Gathering, LockedPhases, Gathers
<1>5. LockingPhases \cap LockedPhases = {} /\ "dismissed" \in LockedPhases
  BY DEF LockingPhases, LockedPhases
<1> QED BY <1>1, <1>2, <1>3, <1>4, <1>5 DEF RunInv, Rendezvous, CountsAgree

(* The BSP has taken a signal of each AP it counted.                       *)
LEMMA AllAnswered ==
  ASSUME RunInv, NEW b \in CPU, NEW from \in BspLabels, pc[b] = from, Run[b] >= apCount[b],
         from \in {"gather", "backedUp", "programmed", "released", "restored"}
  PROVE  /\ Run[b] = apCount[b]
         /\ apCount[b] + 1 = Cardinality(Members(pc, CountedLabels))
         /\ \A d \in CPU \ {b} : pc[d] \in CountedLabels => pc[d] \in Answered(from)
<1> DEFINE S == Members(pc, CountedLabels)
           T == Members(pc, Answered(from)) \cup {b}
<1>1. BspIndex = b /\ Phase = from
  BY NoneAssumption DEF RunInv, OneBsp, Phase
<1>2. Run[b] = Cardinality(Members(pc, Answered(from)))
  BY <1>1 DEF RunInv, Rendezvous, CountsAgree
<1>3. Cardinality(S) <= apCount[b] + 1
  BY <1>1, MembersFinite DEF RunInv, Rendezvous, CountsAgree, LockingPhases, LockedPhases, TypeOK
<1>4. IsFiniteSet(S) /\ IsFiniteSet(Members(pc, Answered(from)))
  BY MembersFinite
<1>5. Answered(from) \subseteq ApLabels /\ ApLabels \subseteq CountedLabels /\ from \in CountedLabels
  BY DEF Answered, ApLabels, CountedLabels
<1>6. from \notin Answered(from)
  BY DEF Answered, BspLabels
<1>7. T \in SUBSET S
  BY <1>5 DEF Members
<1>8. Cardinality(T) = Run[b] + 1
  <2>1. b \notin Members(pc, Answered(from))
    BY <1>6 DEF Members
  <2> QED BY <1>2, <1>4, <2>1, FS_AddElement
<1>9. Cardinality(T) <= Cardinality(S) /\ (Cardinality(S) = Cardinality(T) => S = T)
  BY <1>4, <1>7, FS_Subset
<1>10. Cardinality(S) \in Nat /\ Run[b] \in Nat /\ apCount[b] \in Int
  BY MembersFinite DEF RunInv, TypeOK
<1>11. Run[b] = apCount[b] /\ Cardinality(S) = apCount[b] + 1 /\ S = T
  BY <1>3, <1>8, <1>9, <1>10
<1>12. \A d \in CPU \ {b} : pc[d] \in CountedLabels => pc[d] \in Answered(from)
  BY <1>11 DEF Members
<1> QED BY <1>11, <1>12

-----------------------------------------------------------------------------
(* BSPHandler before the counter is locked.                                *)

(* Steps that send and take no signals.                                    *)
LEMMA BspQuietStep ==
  ASSUME RunInv, NEW b \in CPU, NEW from \in BspLabels, NEW to \in BspLabels, Step(b, from, to),
         UNCHANGED <<BspIndex, mode, Counter, apCount, Run, InsideSmm, Present, bspIndex, scheduled>>,
         \A d \in CPU \ {b} : Busy'[d] = Busy[d],
         to \in {"arriving", "ipi", "arrivingAgain", "gather"} => Gathers,
         to = "present" => ~Gathers,
         to \in {"backup", "backedUp", "program", "programmed", "restore", "restored"} => needMtrrs,
         \A d \in CPU \ {b} : InStep(from, pc[d], Run[d], Busy[d]) => InStep(to, pc[d], Run[d], Busy[d]),
         Quiet(to, Run[b], Busy'[b]),
         \/ from \notin LockingPhases \cup LockedPhases /\ to \notin LockingPhases \cup LockedPhases
         \/ /\ from \in LockedPhases \ {"dismissed", "reset"}
            /\ to \in LockedPhases \ {"dismissed", "reset"},
         Answered(to) = Answered(from),
         from \in InsidePhases <=> to \in InsidePhases,
         from \in PresentLabels <=> to \in PresentLabels
  PROVE  Rendezvous'
<1>1. BspIndex = b /\ Phase = from /\ pc[b] = from
  BY BspPhase DEF RunInv
<1>2. PhaseReached' /\ AllInStep'
  BY BspInStep
<1>3. Settled'
  <2>1. InsideSmm' <=> to \in InsidePhases
    BY <1>1 DEF RunInv, Rendezvous, Settled
  <2>2. Present'[b] <=> to \in PresentLabels
    BY <1>1 DEF RunInv, Rendezvous, Settled
  <2> QED BY <2>1, <2>2, BspSettled
<1>4. CountsAgree'
  <2>1. from # "none" /\ from # "dismissed"
    BY DEF BspLabels, LockedPhases
  <2>2. Run'[b] = Cardinality(Members(pc, Answered(to)))
    BY <1>1, <2>1 DEF RunInv, Rendezvous, CountsAgree
  <2> QED BY <2>2, BspCounts
<1> QED BY <1>2, <1>3, <1>4 DEF Rendezvous

LEMMA FlagPresenceFollowed ==
  ASSUME RunInv, NEW b \in CPU, FlagPresence(b)
  PROVE  Rendezvous'
<1>1. /\ Step(b, "inside", "clear") /\ pc[b] = "inside"
      /\ "inside" \in BspLabels /\ "clear" \in BspLabels
      /\ "inside" \notin PresentLabels /\ "clear" \notin PresentLabels
      /\ "clear" \in InsidePhases
  BY DEF FlagPresence, Step, BspLabels, PresentLabels, ApLabels, InsidePhases
<1>2. /\ UNCHANGED <<BspIndex, mode, Counter, apCount, Run, Present, bspIndex, scheduled, Busy>>
      /\ InsideSmm' = TRUE
  BY DEF FlagPresence
<1>3. BspIndex = b /\ Phase = "inside"
  BY <1>1, <1>2, BspPhase DEF RunInv
<1>4. ASSUME NEW d \in CPU, d # b
      PROVE  InStep("inside", pc[d], Run[d], Busy[d]) /\ pc[d] \notin BspLabels
  BY <1>1, <1>2, <1>3, <1>4, BspPhase DEF RunInv, Rendezvous, AllInStep
<1>5. ~Busy[b] /\ Run[b] = 0
  <2>1. Answered("inside") = {}
    BY DEF Answered, Gathering
  <2>2. Run[b] = 0
    BY <1>3, <2>1, MembersNone DEF RunInv, Rendezvous, CountsAgree
  <2> QED BY <1>1, <2>2 DEF RunInv, Rendezvous, AllInStep, Quiet
<1>6. PhaseReached' /\ AllInStep'
  <2>1. \A d \in CPU \ {b} : InStep("inside", pc[d], Run[d], Busy[d]) => InStep("clear", pc[d], Run[d], Busy[d])
    BY DEF InStep, Gathering, HandlingPhases
  <2>2. Quiet("clear", Run'[b], Busy'[b])
    BY <1>2, <1>5 DEF Quiet, BspLabels
  <2> QED BY <1>1, <1>2, <2>1, <2>2, BspInStep
<1>7. Settled'
  <2>1. \A d \in CPU \ {b} : ~(Busy[d] /\ pc[d] \in {"idle", "woken"})
    BY <1>4 DEF InStep, Gathering, HandlingPhases
  <2>2. Present'[b] <=> "clear" \in PresentLabels
    BY <1>1, <1>2 DEF RunInv, Rendezvous, Settled
  <2> QED BY <1>1, <1>2, <2>1, <2>2, BspSettled
<1>8. CountsAgree'
  <2>1. \A d \in CPU : pc[d] \notin Answered("clear")
    BY <1>1, <1>4 DEF InStep, Gathering, HandlingPhases, Answered
  <2>2. Run'[b] = Cardinality(Members(pc, Answered("clear")))
    BY <1>2, <1>5, <2>1, MembersNone
  <2>3. "inside" \notin LockingPhases \cup LockedPhases /\ "clear" \notin LockingPhases \cup LockedPhases
    BY DEF LockingPhases, LockedPhases
  <2> QED BY <1>1, <1>2, <2>2, <2>3, BspCounts
<1> QED BY <1>6, <1>7, <1>8 DEF Rendezvous

LEMMA ClearFollowed ==
  ASSUME RunInv, NEW b \in CPU, ClearTopLevelSmiStatus(b)
  PROVE  Rendezvous'
<1> DEFINE to == IF Gathers THEN "arriving" ELSE "acquire"
<1>1. /\ Step(b, "clear", to) /\ pc[b] = "clear" /\ to \in {"arriving", "acquire"}
      /\ "clear" \in BspLabels /\ to \in BspLabels /\ to \in PresentLabels /\ to \in InsidePhases
      /\ "clear" \in InsidePhases
  BY DEF ClearTopLevelSmiStatus, Step, BspLabels, PresentLabels, ApLabels, InsidePhases
<1>2. (to = "arriving") <=> Gathers
  OBVIOUS
<1> HIDE DEF to
<1>3. /\ UNCHANGED <<BspIndex, mode, Counter, apCount, Run, InsideSmm, bspIndex, scheduled, Busy>>
      /\ Present' = [Present EXCEPT ![b] = TRUE]
  BY DEF ClearTopLevelSmiStatus
<1>4. BspIndex = b /\ Phase = "clear"
  BY <1>1, <1>3, BspPhase DEF RunInv
<1>5. ~Busy[b]
  BY <1>1 DEF RunInv, Rendezvous, AllInStep, Quiet
<1>6. PhaseReached' /\ AllInStep'
  <2>1. \A d \in CPU \ {b} : InStep("clear", pc[d], Run[d], Busy[d]) => InStep(to, pc[d], Run[d], Busy[d])
    BY <1>1, <1>2 DEF InStep, Gathering, HandlingPhases
  <2>2. Quiet(to, Run'[b], Busy'[b])
    BY <1>1, <1>3, <1>5 DEF Quiet, BspLabels
  <2> QED BY <1>1, <1>2, <1>3, <2>1, <2>2, BspInStep
<1>7. Settled'
  <2>1. InsideSmm' <=> to \in InsidePhases
    BY <1>1, <1>3, <1>4 DEF RunInv, Rendezvous, Settled
  <2>2. Present'[b] <=> to \in PresentLabels
    BY <1>1, <1>3 DEF RunInv, TypeOK
  <2>3. \A d \in CPU \ {b} : Present'[d] = Present[d] /\ Busy'[d] = Busy[d]
    BY <1>3 DEF RunInv, TypeOK
  <2>4. InsideSmm' <=> InsideSmm
    BY <1>3
  <2> QED BY <1>1, <1>3, <2>1, <2>2, <2>3, <2>4, BspSettled
<1>8. CountsAgree'
  <2>1. Answered(to) = Answered("clear")
    BY <1>1, <1>2 DEF Answered, Gathering
  <2>2. Run'[b] = Cardinality(Members(pc, Answered(to)))
    BY <1>3, <1>4, <2>1 DEF RunInv, Rendezvous, CountsAgree
  <2>3. "clear" \notin LockingPhases \cup LockedPhases /\ to \notin LockingPhases \cup LockedPhases
    BY <1>1, <1>2 DEF LockingPhases, LockedPhases
  <2> QED BY <1>1, <1>3, <2>2, <2>3, BspCounts
<1> QED BY <1>6, <1>7, <1>8 DEF Rendezvous

(* From one wait for the APs to the lock.                                  *)
LEMMA ArrivingFollowed ==
  ASSUME RunInv, NEW b \in CPU, NEW from, NEW to, Step(b, from, to),
         <<from, to>> \in {<<"arriving", "ipi">>, <<"ipi", "arrivingAgain">>, <<"ipi", "sync">>,
                           <<"arrivingAgain", "sync">>, <<"sync", "lock">>},
         UNCHANGED <<BspIndex, mode, Counter, apCount, Run, InsideSmm, Present, bspIndex, scheduled, Busy>>
  PROVE  Rendezvous'
<1>1. /\ from \in BspLabels /\ to \in BspLabels
      /\ from \in InsidePhases <=> to \in InsidePhases
      /\ from \in PresentLabels <=> to \in PresentLabels
  BY DEF BspLabels, PresentLabels, ApLabels, InsidePhases
<1>2. Phase = from /\ pc[b] = from
  BY <1>1, BspPhase DEF RunInv
<1>3. Gathers \/ from = "sync"
  BY <1>2 DEF RunInv, Rendezvous, PhaseReached
<1>4. \A d \in CPU \ {b} : InStep(from, pc[d], Run[d], Busy[d]) => InStep(to, pc[d], Run[d], Busy[d])
  BY <1>3 DEF InStep, Gathering, HandlingPhases
<1>5. Quiet(to, Run[b], Busy'[b])
  <2>1. Quiet(from, Run[b], Busy[b])
    BY <1>2 DEF RunInv, Rendezvous, AllInStep
  <2> QED BY <1>3, <2>1 DEF Quiet, BspLabels, ApLabels
<1>6. from \notin LockingPhases \cup LockedPhases /\ to \notin LockingPhases \cup LockedPhases
  BY DEF LockingPhases, LockedPhases
<1>7. Answered(to) = Answered(from)
  BY <1>3 DEF Answered, Gathering
<1> QED BY <1>1, <1>3, <1>4, <1>5, <1>6, <1>7, BspQuietStep

LEMMA LockdownFollowed ==
  ASSUME RunInv, NEW b \in CPU, LockdownSemaphore(b)
  PROVE  Rendezvous'
<1> DEFINE to == IF Gathers THEN "gather" ELSE "present"
<1>1. /\ Step(b, "lock", to) /\ pc[b] = "lock" /\ to \in {"gather", "present"}
      /\ "lock" \in BspLabels /\ to \in BspLabels
      /\ "lock" \in PresentLabels /\ to \in PresentLabels
      /\ "lock" \in InsidePhases /\ to \in InsidePhases
  BY DEF LockdownSemaphore, Step, BspLabels, PresentLabels, ApLabels, InsidePhases
<1>2. (to = "gather") <=> Gathers
  OBVIOUS
<1> HIDE DEF to
<1>3. /\ UNCHANGED <<BspIndex, mode, Run, InsideSmm, Present, bspIndex, scheduled, Busy>>
      /\ Counter' = Locked /\ apCount' = [apCount EXCEPT ![b] = Counter - 1]
  BY DEF LockdownSemaphore
<1>4. BspIndex = b /\ Phase = "lock" /\ Phase' = to
  BY <1>1, <1>3, BspPhase DEF RunInv
<1>5. PhaseReached' /\ AllInStep'
  <2>1. \A d \in CPU \ {b} : InStep("lock", pc[d], Run[d], Busy[d]) => InStep(to, pc[d], Run[d], Busy[d])
    BY <1>1, <1>2 DEF InStep, Gathering, HandlingPhases
  <2>2. Quiet(to, Run'[b], Busy'[b])
    <3>1. Quiet("lock", Run[b], Busy[b])
      BY <1>1 DEF RunInv, Rendezvous, AllInStep
    <3> QED BY <1>1, <1>2, <1>3, <3>1 DEF Quiet, BspLabels, ApLabels
  <2> QED BY <1>1, <1>2, <1>3, <2>1, <2>2, BspInStep
<1>6. Settled'
  <2>1. InsideSmm' <=> to \in InsidePhases
    BY <1>1, <1>3, <1>4 DEF RunInv, Rendezvous, Settled
  <2>2. Present'[b] <=> to \in PresentLabels
    BY <1>1, <1>3 DEF RunInv, Rendezvous, Settled
  <2> QED BY <1>1, <1>3, <2>1, <2>2, BspSettled
<1>7. CountsAgree'
  <2>1. Answered(to) = Answered("lock")
    BY <1>1, <1>2 DEF Answered, Gathering
  <2>2. Answered(Phase)' = Answered("lock") /\ LockedPhases' = LockedPhases
    BY <1>3, <1>4, <2>1 DEF Answered, Gathering, LockedPhases, Gathers
  <2>3. "lock" \notin LockingPhases \cup LockedPhases /\ to \in LockingPhases /\ to \notin LockedPhases
    BY <1>1 DEF LockingPhases, LockedPhases
  <2>4. Counter = Cardinality(Members(pc, CountedLabels)) /\ Counter \in Nat
    BY <1>4, <2>3, MembersFinite DEF RunInv, Rendezvous, CountsAgree
  <2>5. apCount'[b] = Counter - 1
    BY <1>3 DEF RunInv, TypeOK
  <2>6. Run[b] = Cardinality(Members(pc, Answered("lock")))
    BY <1>4 DEF RunInv, Rendezvous, CountsAgree
  <2>7. /\ Members(pc', CountedLabels) = Members(pc, CountedLabels)
        /\ Members(pc', Answered("lock")) = Members(pc, Answered("lock"))
    BY <1>1, BspMembers
  <2>8. "dismissed" \in LockedPhases /\ to # "none"
    BY <1>1 DEF LockedPhases
  <2> QED BY <1>3, <1>4, <2>2, <2>3, <2>4, <2>5, <2>6, <2>7, <2>8 DEF CountsAgree, Locked
<1> QED BY <1>5, <1>6, <1>7 DEF Rendezvous

-----------------------------------------------------------------------------
(* BSPHandler once the counter is locked.                                  *)

(* The BSP takes the signals of a round.                                   *)
LEMMA RoundOverFollowed ==
  ASSUME RunInv, NEW b \in CPU, NEW from, NEW to, WaitForAllAPs(b, from, to),
         <<from, to>> \in {<<"gather", IF needMtrrs THEN "backup" ELSE "acquire">>,
                           <<"backedUp", "program">>, <<"programmed", "acquire">>,
                           <<"released", IF needMtrrs THEN "restore" ELSE "dismiss">>,
                           <<"restored", "dismiss">>}
  PROVE  Rendezvous'
<1>1. /\ from \in BspLabels /\ to \in BspLabels
      /\ from \in InsidePhases <=> to \in InsidePhases
      /\ from \in PresentLabels /\ to \in PresentLabels
  BY DEF BspLabels, PresentLabels, ApLabels, InsidePhases
<1>2. /\ Step(b, from, to) /\ pc[b] = from /\ Run[b] >= apCount[b]
      /\ UNCHANGED <<BspIndex, mode, Counter, InsideSmm, Present, bspIndex, scheduled, Busy, apCount>>
      /\ Run' = [Run EXCEPT ![b] = Run[b] - apCount[b]]
  BY DEF WaitForAllAPs, Step
<1>3. BspIndex = b /\ Phase = from /\ Phase' = to
  BY <1>1, <1>2, BspPhase DEF RunInv
<1>4. /\ from \in {"backedUp", "programmed", "restored"} => needMtrrs
      /\ from = "gather" => Gathers
  BY <1>3 DEF RunInv, Rendezvous, PhaseReached
<1>5. from \in {"gather", "backedUp", "programmed", "released", "restored"}
  OBVIOUS
<1>6. /\ Run[b] = apCount[b]
      /\ apCount[b] + 1 = Cardinality(Members(pc, CountedLabels))
      /\ \A d \in CPU \ {b} : pc[d] \in CountedLabels => pc[d] \in Answered(from)
  BY <1>1, <1>2, <1>5, AllAnswered
<1>7. Run'[b] = 0 /\ \A d \in CPU \ {b} : Run'[d] = Run[d]
  BY <1>2, <1>6 DEF RunInv, TypeOK
<1>8. PhaseReached' /\ AllInStep'
  <2>1. ASSUME NEW d \in CPU \ {b}, InStep(from, pc[d], Run[d], Busy[d])
        PROVE  InStep(to, pc[d], Run'[d], Busy'[d])
    <3>1. UNCHANGED <<Run[d], Busy[d]>>
      BY <1>2, <1>7
    <3>2. CASE pc[d] \notin CountedLabels
      BY <3>2 DEF InStep, CountedLabels, ApLabels
    <3>3. CASE pc[d] \in CountedLabels
      <4>1. pc[d] \in Answered(from)
        BY <1>6, <3>3
      <4>2. CASE from = "gather"
        BY <1>4, <2>1, <3>1, <4>1, <4>2 DEF InStep, Answered, Gathering, HandlingPhases
      <4>3. CASE from = "released"
        BY <1>4, <2>1, <3>1, <4>1, <4>3 DEF InStep, Answered, Gathering, HandlingPhases
      <4>4. CASE from \in {"backedUp", "programmed", "restored"}
        BY <1>4, <2>1, <3>1, <4>1, <4>4 DEF InStep, Answered, Gathering, HandlingPhases
      <4> QED BY <1>5, <4>2, <4>3, <4>4
    <3> QED BY <3>2, <3>3
  <2>2. Quiet(to, Run'[b], Busy'[b])
    <3>1. Quiet(from, Run[b], Busy[b])
      BY <1>2 DEF RunInv, Rendezvous, AllInStep
    <3> QED BY <1>1, <1>2, <3>1 DEF Quiet, BspLabels, ApLabels
  <2>3. \A d \in CPU \ {b} : Quiet(pc[d], Run[d], Busy[d]) => Quiet(pc[d], Run'[d], Busy'[d])
    BY <1>2, <1>7
  <2> QED BY <1>1, <1>2, <1>4, <2>1, <2>2, <2>3, BspInStep
<1>9. Settled'
  <2>1. InsideSmm' <=> to \in InsidePhases
    BY <1>1, <1>2, <1>3 DEF RunInv, Rendezvous, Settled
  <2>2. Present'[b] <=> to \in PresentLabels
    BY <1>1, <1>2, <1>3 DEF RunInv, Rendezvous, Settled
  <2> QED BY <1>1, <1>2, <2>1, <2>2, BspSettled
<1>10. CountsAgree'
  <2>1. Answered(to) = {}
    BY DEF Answered, Gathering
  <2>2. Answered(Phase)' = {} /\ LockedPhases' = LockedPhases
    BY <1>2, <1>3, <2>1 DEF Answered, Gathering, LockedPhases, Gathers
  <2>3. Cardinality(Members(pc', {})) = 0
    BY MembersNone
  <2>4. Members(pc', CountedLabels) = Members(pc, CountedLabels)
    BY <1>1, <1>2, BspMembers
  <2>5. Counter = Locked
    <3>1. from \in LockingPhases \cup LockedPhases
      BY DEF LockingPhases, LockedPhases
    <3> QED BY <1>3, <1>6, <3>1, MembersFinite DEF RunInv, Rendezvous, CountsAgree, Locked
  <2>6. to \in LockedPhases \ {"dismissed", "reset"} /\ to \notin LockingPhases
    <3>1. to = "acquire" => Gathers
      BY <1>4 DEF Gathers
    <3>2. to \in {"backup", "acquire", "program", "restore", "dismiss"}
      OBVIOUS
    <3> QED BY <3>1, <3>2 DEF LockingPhases, LockedPhases
  <2> QED BY <1>2, <1>3, <1>6, <1>7, <2>2, <2>3, <2>4, <2>5, <2>6 DEF CountsAgree
<1> QED BY <1>8, <1>9, <1>10 DEF Rendezvous

(* The BSP signals the APs in a round of MTRRs.                            *)
LEMMA MtrrRoundFollowed ==
  ASSUME RunInv, NEW b \in CPU, NEW from, NEW to, NEW settings, MtrrRound(b, from, to, settings),
         <<from, to>> \in {<<"backup", "backedUp">>, <<"program", "programmed">>,
                           <<"restore", "restored">>}
  PROVE  Rendezvous'
<1>1. /\ from \in BspLabels /\ to \in BspLabels
      /\ from \in InsidePhases <=> to \in InsidePhases
      /\ from \in PresentLabels /\ to \in PresentLabels
  BY DEF BspLabels, PresentLabels, ApLabels, InsidePhases
<1>2. /\ Step(b, from, to) /\ pc[b] = from
      /\ UNCHANGED <<BspIndex, mode, Counter, InsideSmm, Present, bspIndex, scheduled, Busy, apCount>>
      /\ Run' = [d \in CPU |-> IF d # b /\ Present[d] THEN Released(Run[d]) ELSE Run[d]]
  BY DEF MtrrRound, ReleaseAllAPs, Step
<1>3. BspIndex = b /\ Phase = from /\ Phase' = to
  BY <1>1, <1>2, BspPhase DEF RunInv
<1>4. needMtrrs
  BY <1>3 DEF RunInv, Rendezvous, PhaseReached
<1>5. ASSUME NEW d \in CPU \ {b}
      PROVE  /\ InStep(from, pc[d], Run[d], Busy[d]) /\ Quiet(pc[d], Run[d], Busy[d])
             /\ Present[d] <=> pc[d] \in PresentLabels
             /\ pc[d] \notin BspLabels
             /\ Run'[d] = IF Present[d] THEN Run[d] + 1 ELSE Run[d]
             /\ Busy'[d] = Busy[d]
  <2>1. Run'[d] = IF Present[d] THEN Run[d] + 1 ELSE Run[d]
    BY <1>2 DEF RunInv, TypeOK, Released, Locked
  <2>2. pc[d] \notin BspLabels
    BY <1>3 DEF RunInv, OneBsp
  <2> QED BY <1>2, <1>3, <2>1, <2>2 DEF RunInv, Rendezvous, AllInStep, Settled
<1>6. PhaseReached' /\ AllInStep'
  <2>1. ASSUME NEW d \in CPU \ {b}
        PROVE  InStep(to, pc[d], Run'[d], Busy'[d]) /\ Quiet(pc[d], Run'[d], Busy'[d])
    <3>1. CASE pc[d] \in PresentLabels
      BY <1>5, <3>1 DEF InStep, Quiet, Gathering, HandlingPhases, PresentLabels, ApLabels
    <3>2. CASE pc[d] \notin PresentLabels
      BY <1>5, <3>2 DEF InStep, Gathering, PresentLabels, ApLabels, HandlingPhases
    <3> QED BY <3>1, <3>2
  <2>2. Quiet(to, Run'[b], Busy'[b])
    <3>1. Quiet(from, Run[b], Busy[b])
      BY <1>2 DEF RunInv, Rendezvous, AllInStep
    <3> QED BY <1>1, <1>2, <3>1 DEF Quiet, BspLabels, ApLabels
  <2> QED BY <1>1, <1>2, <1>4, <2>1, <2>2, BspInStep
<1>7. Settled'
  <2>1. InsideSmm' <=> to \in InsidePhases
    BY <1>1, <1>2, <1>3 DEF RunInv, Rendezvous, Settled
  <2>2. Present'[b] <=> to \in PresentLabels
    BY <1>1, <1>2, <1>3 DEF RunInv, Rendezvous, Settled
  <2> QED BY <1>1, <1>2, <2>1, <2>2, BspSettled
<1>8. CountsAgree'
  <2>1. \A d \in CPU : pc[d] \notin Answered(to)
    <3>1. pc[b] \notin Answered(to)
      BY <1>1, <1>2 DEF Answered, BspLabels
    <3>2. \A d \in CPU \ {b} : pc[d] \notin Answered(to)
      BY <1>5 DEF InStep, Answered, Gathering, HandlingPhases
    <3> QED BY <3>1, <3>2
  <2>2. Answered(from) = {}
    BY DEF Answered, Gathering
  <2>3. Run[b] = 0
    <3>1. from # "none" /\ from # "dismissed"
      OBVIOUS
    <3> QED BY <1>3, <2>2, <3>1, MembersNone DEF RunInv, Rendezvous, CountsAgree
  <2>4. Run'[b] = Cardinality(Members(pc, Answered(to)))
    BY <1>2, <2>1, <2>3, MembersNone
  <2>5. from \in LockedPhases \ {"dismissed", "reset"} /\ to \in LockedPhases \ {"dismissed", "reset"}
    BY DEF LockedPhases
  <2> QED BY <1>1, <1>2, <2>4, <2>5, BspCounts
<1> QED BY <1>6, <1>7, <1>8 DEF Rendezvous

(* The BSP and the SMI handlers.                                           *)
LEMMA AcquireBusyFollowed ==
  ASSUME RunInv, NEW b \in CPU, AcquireBusy(b)
  PROVE  Rendezvous'
<1>1. /\ Step(b, "acquire", "handlers") /\ pc[b] = "acquire"
      /\ "acquire" \in BspLabels /\ "handlers" \in BspLabels
      /\ "acquire" \in PresentLabels /\ "handlers" \in PresentLabels
      /\ "acquire" \in InsidePhases /\ "handlers" \in InsidePhases
  BY DEF AcquireBusy, Step, BspLabels, PresentLabels, ApLabels, InsidePhases
<1>2. /\ UNCHANGED <<BspIndex, mode, Counter, apCount, Run, InsideSmm, Present, bspIndex, scheduled>>
      /\ \A d \in CPU \ {b} : Busy'[d] = Busy[d]
  BY DEF AcquireBusy, RunInv, TypeOK
<1>3. \A d \in CPU \ {b} : InStep("acquire", pc[d], Run[d], Busy[d]) => InStep("handlers", pc[d], Run[d], Busy[d])
  BY DEF InStep, Gathering, HandlingPhases
<1>4. Quiet("handlers", Run[b], Busy'[b])
  BY DEF Quiet, BspLabels, ApLabels
<1>5. \/ "acquire" \notin LockingPhases \cup LockedPhases /\ "handlers" \notin LockingPhases \cup LockedPhases
      \/ /\ "acquire" \in LockedPhases \ {"dismissed", "reset"}
         /\ "handlers" \in LockedPhases \ {"dismissed", "reset"}
  BY DEF LockingPhases, LockedPhases
<1>6. Answered("handlers") = Answered("acquire")
  BY DEF Answered, Gathering
<1> QED BY <1>1, <1>2, <1>3, <1>4, <1>5, <1>6, BspQuietStep

LEMMA StartupDoneFollowed ==
  ASSUME RunInv, NEW b \in CPU, StartupDone(b)
  PROVE  Rendezvous'
<1>1. /\ Step(b, "startWait", "handlers") /\ pc[b] = "startWait"
      /\ "startWait" \in BspLabels /\ "handlers" \in BspLabels
      /\ "startWait" \in PresentLabels /\ "handlers" \in PresentLabels
      /\ "startWait" \in InsidePhases /\ "handlers" \in InsidePhases
  BY DEF StartupDone, Step, BspLabels, PresentLabels, ApLabels, InsidePhases
<1>2. UNCHANGED <<BspIndex, mode, Counter, apCount, Run, InsideSmm, Present, bspIndex, scheduled, Busy>>
  BY DEF StartupDone
<1>3. \A d \in CPU \ {b} : InStep("startWait", pc[d], Run[d], Busy[d]) => InStep("handlers", pc[d], Run[d], Busy[d])
  BY DEF InStep, Gathering, HandlingPhases
<1>4. Quiet("handlers", Run[b], Busy'[b])
  BY DEF Quiet, BspLabels, ApLabels
<1>5. \/ "startWait" \notin LockingPhases \cup LockedPhases /\ "handlers" \notin LockingPhases \cup LockedPhases
      \/ /\ "startWait" \in LockedPhases \ {"dismissed", "reset"}
         /\ "handlers" \in LockedPhases \ {"dismissed", "reset"}
  BY DEF LockingPhases, LockedPhases
<1>6. Answered("handlers") = Answered("startWait")
  BY DEF Answered, Gathering
<1> QED BY <1>1, <1>2, <1>3, <1>4, <1>5, <1>6, BspQuietStep

(* Nobody the BSP waits for is busy, so that whoever is present is idle.   *)
LEMMA EndHandlersFollowed ==
  ASSUME RunInv, NEW b \in CPU, EndHandlers(b)
  PROVE  Rendezvous'
<1> DEFINE to == IF Gathers THEN "quit" ELSE "sync"
<1>1. /\ Step(b, "handlers", to) /\ pc[b] = "handlers" /\ to \in {"quit", "sync"}
      /\ "handlers" \in BspLabels /\ to \in BspLabels
      /\ "handlers" \in PresentLabels /\ to \in PresentLabels
      /\ "handlers" \in InsidePhases /\ to \in InsidePhases
  BY DEF EndHandlers, Step, BspLabels, PresentLabels, ApLabels, InsidePhases
<1>2. (to = "quit") <=> Gathers
  OBVIOUS
<1> HIDE DEF to
<1>3. /\ UNCHANGED <<BspIndex, mode, Counter, apCount, Run, InsideSmm, Present, bspIndex, scheduled, Busy>>
      /\ \A d \in CPU \ {b} : Present[d] => ~Busy[d]
  BY DEF EndHandlers
<1>4. ASSUME NEW d \in CPU \ {b}, InStep("handlers", pc[d], Run[d], Busy[d])
      PROVE  InStep(to, pc[d], Run[d], Busy[d])
  <2>1. pc[d] \in {"idle", "woken", "ran"} => ~Busy[d]
    <3>1. {"idle", "woken", "ran"} \subseteq PresentLabels
      BY DEF PresentLabels, ApLabels
    <3> QED BY <1>3, <3>1 DEF RunInv, Rendezvous, Settled
  <2>2. CASE Gathers
    <3>1. to = "quit"
      BY <1>2, <2>2
    <3> QED BY <1>4, <2>1, <2>2, <3>1 DEF InStep, Gathering, HandlingPhases
  <2>3. CASE ~Gathers
    <3>1. to = "sync" /\ ~needMtrrs
      BY <1>1, <1>2, <2>3 DEF Gathers
    <3> QED BY <1>4, <2>1, <2>3, <3>1 DEF InStep, Gathering, HandlingPhases
  <2> QED BY <2>2, <2>3
<1>5. Quiet(to, Run[b], Busy'[b])
  BY <1>1, <1>2 DEF Quiet, BspLabels, ApLabels
<1>6. \/ "handlers" \notin LockingPhases \cup LockedPhases /\ to \notin LockingPhases \cup LockedPhases
      \/ /\ "handlers" \in LockedPhases \ {"dismissed", "reset"}
         /\ to \in LockedPhases \ {"dismissed", "reset"}
  BY <1>1, <1>2 DEF LockingPhases, LockedPhases
<1>7. Answered(to) = Answered("handlers")
  BY <1>1, <1>2 DEF Answered, Gathering
<1> QED BY <1>1, <1>3, <1>4, <1>5, <1>6, <1>7, BspQuietStep

LEMMA StartupThisApFollowed ==
  ASSUME RunInv, NEW b \in CPU, NEW a \in CPU, NEW blocking \in BOOLEAN, StartupThisAp(b, a, blocking)
  PROVE  Rendezvous'
<1> DEFINE to == IF blocking THEN "startWait" ELSE "handlers"
<1>1. /\ Step(b, "handlers", to) /\ pc[b] = "handlers" /\ to \in HandlingPhases
      /\ "handlers" \in BspLabels /\ to \in BspLabels
      /\ "handlers" \in PresentLabels /\ to \in PresentLabels
      /\ "handlers" \in InsidePhases /\ to \in InsidePhases
  BY DEF StartupThisAp, Step, BspLabels, PresentLabels, ApLabels, InsidePhases, HandlingPhases
<1> HIDE DEF to
<1>2. /\ UNCHANGED <<BspIndex, mode, Counter, apCount, InsideSmm, Present, bspIndex>>
      /\ a # b /\ Present[a] /\ ~Busy[a]
      /\ Run' = [Run EXCEPT ![a] = Released(@)] /\ Busy' = [Busy EXCEPT ![a] = TRUE]
      /\ scheduled' = scheduled \cup {a}
  BY DEF StartupThisAp
<1>3. /\ BspIndex = b /\ Phase = "handlers" /\ Phase' = to /\ pc'[b] = to
      /\ \A d \in CPU \ {b} : pc'[d] = pc[d] /\ pc[d] \notin BspLabels
  BY <1>1, <1>2, BspPhase DEF RunInv
<1>4. pc[a] = "idle" /\ Run[a] = 0
  <2>1. InStep("handlers", pc[a], Run[a], Busy[a]) /\ pc[a] \in PresentLabels /\ pc[a] \notin BspLabels
    BY <1>2, <1>3 DEF RunInv, Rendezvous, AllInStep, Settled
  <2>2. pc[a] \in ApLabels \ {"flag", "left"}
    BY <2>1 DEF PresentLabels
  <2>3. Gathers \/ ~needMtrrs
    BY DEF Gathers
  <2> QED BY <1>2, <2>1, <2>2, <2>3 DEF InStep, Gathering, HandlingPhases, ApLabels
<1>5. /\ Run'[a] = 1 /\ \A d \in CPU \ {a} : Run'[d] = Run[d]
      /\ Busy'[a] /\ \A d \in CPU \ {a} : Busy'[d] = Busy[d]
  BY <1>2, <1>4 DEF RunInv, TypeOK, Released, Locked
<1>6. PhaseReached' /\ AllInStep'
  <2>1. ASSUME NEW d \in CPU \ {b}, InStep("handlers", pc[d], Run[d], Busy[d]),
               Quiet(pc[d], Run[d], Busy[d])
        PROVE  InStep(to, pc[d], Run'[d], Busy'[d]) /\ Quiet(pc[d], Run'[d], Busy'[d])
    <3>1. CASE d = a
      BY <1>1, <1>4, <1>5, <3>1 DEF InStep, Quiet, HandlingPhases, ApLabels, BspLabels
    <3>2. CASE d # a
      <4>1. UNCHANGED <<Run[d], Busy[d]>>
        BY <1>5, <3>2
      <4>2. InStep(to, pc[d], Run[d], Busy[d])
        BY <1>1, <2>1 DEF InStep, Gathering, HandlingPhases
      <4> QED BY <2>1, <4>1, <4>2
    <3> QED BY <3>1, <3>2
  <2>2. Quiet(to, Run'[b], Busy'[b])
    BY <1>1 DEF Quiet, BspLabels, ApLabels, HandlingPhases
  <2>3. to \in {"startWait", "handlers"}
    BY <1>1 DEF HandlingPhases
  <2> QED BY <1>1, <1>2, <2>1, <2>2, <2>3, BspInStep
<1>7. Settled'
  <2>1. InsideSmm' <=> Phase' \in InsidePhases
    BY <1>1, <1>2, <1>3 DEF RunInv, Rendezvous, Settled
  <2>2. InsideSmm'
    BY <1>1, <1>3, <2>1
  <2>3. \A d \in CPU : Present'[d] <=> pc'[d] \in PresentLabels
    BY <1>1, <1>2, <1>3 DEF RunInv, Rendezvous, Settled
  <2>4. \A d \in CPU : pc'[d] \in ApLabels \ {"flag"} => bspIndex'[d] = BspIndex'
    <3>1. to \notin ApLabels
      BY <1>1 DEF ApLabels, BspLabels
    <3> QED BY <1>2, <1>3, <3>1 DEF RunInv, Rendezvous, Settled
  <2>5. scheduled' = {d \in CPU : InsideSmm' /\ Busy'[d] /\ pc'[d] \in {"idle", "woken"}}
    <3>1. \A d \in CPU : pc'[d] \in {"idle", "woken"} <=> pc[d] \in {"idle", "woken"}
      BY <1>1, <1>3 DEF BspLabels
    <3>2. scheduled = {d \in CPU : InsideSmm /\ Busy[d] /\ pc[d] \in {"idle", "woken"}}
      BY DEF RunInv, Rendezvous, Settled
    <3> QED BY <1>2, <1>4, <1>5, <2>2, <3>1, <3>2
  <2> QED BY <2>1, <2>3, <2>4, <2>5 DEF Settled
<1>8. CountsAgree'
  <2>1. Answered(to) = Answered("handlers")
    BY <1>1 DEF Answered, Gathering, HandlingPhases
  <2>2. Run'[b] = Cardinality(Members(pc, Answered(to)))
    BY <1>2, <1>3, <1>5, <2>1 DEF RunInv, Rendezvous, CountsAgree
  <2>3. \/ "handlers" \notin LockingPhases \cup LockedPhases /\ to \notin LockingPhases \cup LockedPhases
        \/ /\ "handlers" \in LockedPhases \ {"dismissed", "reset"}
           /\ to \in LockedPhases \ {"dismissed", "reset"}
    BY <1>1 DEF LockingPhases, LockedPhases, HandlingPhases
  <2> QED BY <1>1, <1>2, <2>2, <2>3, BspCounts
<1> QED BY <1>6, <1>7, <1>8 DEF Rendezvous

(* Where the APs come after the SMI handlers, the BSP waits until those it *)
(* counted are present.                                                    *)
LEMMA AllPresentFollowed ==
  ASSUME RunInv, NEW b \in CPU, AllPresent(b)
  PROVE  Rendezvous'
<1>1. /\ Step(b, "present", "quit") /\ pc[b] = "present"
      /\ "present" \in BspLabels /\ "quit" \in BspLabels
      /\ "present" \in PresentLabels /\ "quit" \in PresentLabels
      /\ "present" \in InsidePhases /\ "quit" \in InsidePhases
  BY DEF AllPresent, Step, BspLabels, PresentLabels, ApLabels, InsidePhases
<1>2. /\ UNCHANGED <<BspIndex, mode, Counter, apCount, Run, InsideSmm, Present, bspIndex, scheduled, Busy>>
      /\ Cardinality({d \in CPU : Present[d]}) > apCount[b]
  BY DEF AllPresent
<1>3. BspIndex = b /\ Phase = "present" /\ Phase' = "quit"
  BY <1>1, <1>2, BspPhase DEF RunInv
<1>4. ~Gathers /\ ~needMtrrs
  BY <1>3 DEF RunInv, Rendezvous, PhaseReached, Gathers
<1>5. /\ \A d \in CPU : pc[d] \in CountedLabels => pc[d] \in PresentLabels
      /\ Cardinality(Members(pc, CountedLabels)) = apCount[b] + 1
      /\ Counter = Locked
  <2> DEFINE S == Members(pc, CountedLabels)
             T == Members(pc, PresentLabels)
  <2>1. T \in SUBSET S
    BY DEF Members, PresentLabels, CountedLabels
  <2>2. {d \in CPU : Present[d]} = T
    BY DEF RunInv, Rendezvous, Settled, Members
  <2>3. "present" \in LockingPhases
    BY DEF LockingPhases
  <2>4. Cardinality(S) <= apCount[b] + 1 /\ Counter = Locked + Cardinality(S) - (apCount[b] + 1)
    BY <1>3, <2>3 DEF RunInv, Rendezvous, CountsAgree
  <2>5. /\ IsFiniteSet(S) /\ Cardinality(S) \in Nat /\ Cardinality(T) \in Nat /\ apCount[b] \in Int
        /\ Cardinality(T) <= Cardinality(S) /\ (Cardinality(S) = Cardinality(T) => S = T)
    BY <2>1, MembersFinite, FS_Subset DEF RunInv, TypeOK
  <2>6. Cardinality(T) > apCount[b]
    BY <1>2, <2>2
  <2>7. Cardinality(S) = apCount[b] + 1 /\ Cardinality(S) = Cardinality(T)
    BY <2>4, <2>5, <2>6
  <2>8. S = T
    BY <2>5, <2>7
  <2>9. \A d \in CPU : pc[d] \in CountedLabels => pc[d] \in PresentLabels
    BY <2>8 DEF Members
  <2>10. Counter = Locked
    <3>1. Locked \in Int
      BY DEF Locked
    <3> QED BY <2>4, <2>5, <2>7, <3>1
  <2> QED BY <2>7, <2>9, <2>10
<1>6. PhaseReached' /\ AllInStep'
  <2>1. ASSUME NEW d \in CPU \ {b}, InStep("present", pc[d], Run[d], Busy[d])
        PROVE  InStep("quit", pc[d], Run[d], Busy[d])
    <3>1. pc[d] \notin BspLabels
      BY <1>1, <1>2, BspPhase DEF RunInv
    <3>2. CASE pc[d] \notin CountedLabels
      BY <3>2 DEF InStep, CountedLabels, ApLabels
    <3>3. CASE pc[d] \in PresentLabels
      BY <1>4, <2>1, <3>1, <3>3 DEF InStep, PresentLabels, ApLabels, Gathering, HandlingPhases
    <3> QED BY <1>5, <3>2, <3>3
  <2>2. Quiet("quit", Run'[b], Busy'[b])
    BY DEF Quiet, BspLabels, ApLabels
  <2> QED BY <1>1, <1>2, <2>1, <2>2, BspInStep
<1>7. Settled'
  <2>1. InsideSmm' <=> "quit" \in InsidePhases
    BY <1>1, <1>2, <1>3 DEF RunInv, Rendezvous, Settled
  <2>2. Present'[b] <=> "quit" \in PresentLabels
    BY <1>1, <1>2, <1>3 DEF RunInv, Rendezvous, Settled
  <2> QED BY <1>1, <1>2, <2>1, <2>2, BspSettled
<1>8. CountsAgree'
  <2>1. Answered("present") = {} /\ Answered("quit") = {}
    BY <1>4 DEF Answered
  <2>2. Answered(Phase)' = {} /\ LockedPhases' = LockedPhases
    BY <1>2, <1>3 DEF Answered, Gathering, LockedPhases, Gathers
  <2>3. Cardinality(Members(pc', {})) = 0 /\ Cardinality(Members(pc, {})) = 0
    BY MembersNone
  <2>4. Members(pc', CountedLabels) = Members(pc, CountedLabels)
    BY <1>1, BspMembers
  <2>5. Run[b] = 0
    BY <1>3, <2>1, <2>3 DEF RunInv, Rendezvous, CountsAgree
  <2>6. "quit" \in LockedPhases /\ "quit" \notin LockingPhases
    BY DEF LockingPhases, LockedPhases
  <2> QED BY <1>2, <1>3, <1>5, <2>2, <2>3, <2>4, <2>5, <2>6 DEF CountsAgree
<1> QED BY <1>6, <1>7, <1>8 DEF Rendezvous

(* The BSP signals the APs to exit, and to reset their states.             *)
LEMMA SignalAll ==
  ASSUME RunInv, NEW b \in CPU, BspIndex = b, pc[b] \in BspLabels, ReleaseAllAPs(b)
  PROVE  /\ Run'[b] = Run[b]
         /\ \A d \in CPU \ {b} :
              /\ InStep(pc[b], pc[d], Run[d], Busy[d]) /\ Quiet(pc[d], Run[d], Busy[d])
              /\ Run'[d] = IF pc[d] \in PresentLabels THEN Run[d] + 1 ELSE Run[d]
              /\ pc[d] \notin BspLabels
<1>1. Phase = pc[b]
  BY NoneAssumption DEF Phase
<1>2. Run' = [d \in CPU |-> IF d # b /\ Present[d] THEN Run[d] + 1 ELSE Run[d]]
  BY DEF ReleaseAllAPs, RunInv, TypeOK, Released, Locked
<1>3. \A d \in CPU : Present[d] <=> pc[d] \in PresentLabels
  BY DEF RunInv, Rendezvous, Settled
<1>4. ASSUME NEW d \in CPU \ {b}
      PROVE  /\ InStep(pc[b], pc[d], Run[d], Busy[d]) /\ Quiet(pc[d], Run[d], Busy[d])
             /\ Run'[d] = IF pc[d] \in PresentLabels THEN Run[d] + 1 ELSE Run[d]
             /\ pc[d] \notin BspLabels
  <2>1. InStep(pc[b], pc[d], Run[d], Busy[d]) /\ Quiet(pc[d], Run[d], Busy[d])
    BY <1>1 DEF RunInv, Rendezvous, AllInStep
  <2>2. Run'[d] = IF pc[d] \in PresentLabels THEN Run[d] + 1 ELSE Run[d]
    BY <1>2, <1>3
  <2>3. pc[d] \notin BspLabels
    BY DEF RunInv, OneBsp
  <2> QED BY <2>1, <2>2, <2>3
<1> QED BY <1>2, <1>4

LEMMA QuitFollowed ==
  ASSUME RunInv, NEW b \in CPU, QuitSmm(b)
  PROVE  Rendezvous'
<1>1. /\ Step(b, "quit", "released") /\ pc[b] = "quit"
      /\ "quit" \in BspLabels /\ "released" \in BspLabels
      /\ "quit" \in PresentLabels /\ "released" \in PresentLabels
      /\ "released" \notin InsidePhases
  BY DEF QuitSmm, Step, BspLabels, PresentLabels, ApLabels, InsidePhases
<1>2. /\ UNCHANGED <<BspIndex, mode, Counter, apCount, Present, bspIndex, scheduled, Busy>>
      /\ ReleaseAllAPs(b) /\ InsideSmm' = FALSE
  BY DEF QuitSmm
<1>3. BspIndex = b /\ Phase = "quit"
  BY <1>1, <1>2, BspPhase DEF RunInv
<1>4. /\ Run'[b] = Run[b]
      /\ \A d \in CPU \ {b} :
           /\ InStep("quit", pc[d], Run[d], Busy[d]) /\ Quiet(pc[d], Run[d], Busy[d])
           /\ Run'[d] = IF pc[d] \in PresentLabels THEN Run[d] + 1 ELSE Run[d]
           /\ pc[d] \notin BspLabels
  BY <1>1, <1>2, <1>3, SignalAll
<1>5. PhaseReached' /\ AllInStep'
  <2>1. ASSUME NEW d \in CPU \ {b}
        PROVE  InStep("released", pc[d], Run'[d], Busy'[d]) /\ Quiet(pc[d], Run'[d], Busy'[d])
    <3>1. UNCHANGED Busy[d]
      BY <1>2
    <3>2. CASE pc[d] \in PresentLabels
      BY <1>4, <3>1, <3>2 DEF InStep, Quiet, Gathering, HandlingPhases, PresentLabels, ApLabels
    <3>3. CASE pc[d] \notin PresentLabels
      BY <1>4, <3>1, <3>3 DEF InStep, Gathering, PresentLabels, ApLabels, HandlingPhases
    <3> QED BY <3>2, <3>3
  <2>2. Quiet("released", Run'[b], Busy'[b])
    BY DEF Quiet, BspLabels, ApLabels
  <2> QED BY <1>1, <1>2, <2>1, <2>2, BspInStep
<1>6. Settled'
  <2>1. \A d \in CPU \ {b} : ~(Busy[d] /\ pc[d] \in {"idle", "woken"})
    BY <1>4 DEF InStep, Gathering, HandlingPhases
  <2>2. Present'[b] <=> "released" \in PresentLabels
    BY <1>1, <1>2 DEF RunInv, Rendezvous, Settled
  <2> QED BY <1>1, <1>2, <2>1, <2>2, BspSettled
<1>7. CountsAgree'
  <2>1. \A d \in CPU : pc[d] \notin Answered("released")
    <3>1. pc[b] \notin Answered("released")
      BY <1>1 DEF Answered, BspLabels
    <3>2. \A d \in CPU \ {b} : pc[d] \notin Answered("released")
      BY <1>4 DEF InStep, Answered, Gathering, HandlingPhases
    <3> QED BY <3>1, <3>2
  <2>2. Answered("quit") = {}
    BY DEF Answered, Gathering
  <2>3. Run[b] = 0
    BY <1>3, <2>2, MembersNone DEF RunInv, Rendezvous, CountsAgree
  <2>4. Run'[b] = Cardinality(Members(pc, Answered("released")))
    BY <1>4, <2>1, <2>3, MembersNone
  <2>5. "quit" \in LockedPhases \ {"dismissed", "reset"} /\ "released" \in LockedPhases \ {"dismissed", "reset"}
    BY DEF LockedPhases
  <2> QED BY <1>1, <1>2, <2>4, <2>5, BspCounts
<1> QED BY <1>5, <1>6, <1>7 DEF Rendezvous

LEMMA DismissFollowed ==
  ASSUME RunInv, NEW b \in CPU, Dismiss(b)
  PROVE  Rendezvous'
<1>1. /\ Step(b, "dismiss", "dismissed") /\ pc[b] = "dismiss"
      /\ "dismiss" \in BspLabels /\ "dismissed" \in BspLabels /\ "dismissed" \notin PresentLabels
      /\ "dismiss" \notin InsidePhases /\ "dismissed" \notin InsidePhases
  BY DEF Dismiss, Step, BspLabels, PresentLabels, ApLabels, InsidePhases
<1>2. /\ UNCHANGED <<BspIndex, mode, InsideSmm, Counter, apCount, bspIndex, scheduled, Busy>>
      /\ ReleaseAllAPs(b) /\ Present' = [Present EXCEPT ![b] = FALSE]
  BY DEF Dismiss
<1>3. BspIndex = b /\ Phase = "dismiss" /\ Phase' = "dismissed"
  BY <1>1, <1>2, BspPhase DEF RunInv
<1>4. /\ Run'[b] = Run[b]
      /\ \A d \in CPU \ {b} :
           /\ InStep("dismiss", pc[d], Run[d], Busy[d]) /\ Quiet(pc[d], Run[d], Busy[d])
           /\ Run'[d] = IF pc[d] \in PresentLabels THEN Run[d] + 1 ELSE Run[d]
           /\ pc[d] \notin BspLabels
  BY <1>1, <1>2, <1>3, SignalAll
<1>5. PhaseReached' /\ AllInStep'
  <2>1. ASSUME NEW d \in CPU \ {b}
        PROVE  InStep("dismissed", pc[d], Run'[d], Busy'[d]) /\ Quiet(pc[d], Run'[d], Busy'[d])
    <3>1. UNCHANGED Busy[d]
      BY <1>2
    <3>2. CASE pc[d] \in PresentLabels
      BY <1>4, <3>1, <3>2 DEF InStep, Quiet, Gathering, HandlingPhases, PresentLabels, ApLabels
    <3>3. CASE pc[d] \notin PresentLabels
      BY <1>4, <3>1, <3>3 DEF InStep, Gathering, PresentLabels, ApLabels, HandlingPhases
    <3> QED BY <3>2, <3>3
  <2>2. Quiet("dismissed", Run'[b], Busy'[b])
    BY DEF Quiet, BspLabels, ApLabels
  <2> QED BY <1>1, <1>2, <2>1, <2>2, BspInStep
<1>6. Settled'
  <2>1. InsideSmm' <=> "dismissed" \in InsidePhases
    BY <1>1, <1>2, <1>3 DEF RunInv, Rendezvous, Settled
  <2>2. (Present'[b] <=> "dismissed" \in PresentLabels) /\ \A d \in CPU \ {b} : Present'[d] = Present[d]
    BY <1>1, <1>2 DEF RunInv, TypeOK
  <2>3. InsideSmm' <=> InsideSmm
    BY <1>2
  <2> QED BY <1>1, <1>2, <2>1, <2>2, <2>3, BspSettled
<1>7. CountsAgree'
  <2>1. Answered("dismiss") = {}
    BY DEF Answered, Gathering
  <2>2. Run'[b] = 0
    BY <1>3, <1>4, <2>1, MembersNone DEF RunInv, Rendezvous, CountsAgree
  <2>3. /\ "dismiss" \in LockedPhases \ {"dismissed", "reset"} /\ "dismissed" \in LockedPhases
        /\ "dismissed" \notin LockingPhases /\ LockedPhases' = LockedPhases
    BY <1>2 DEF LockedPhases, LockingPhases, Gathers
  <2>4. Counter = Locked /\ apCount[b] + 1 = Cardinality(Members(pc, CountedLabels))
    BY <1>3, <2>3 DEF RunInv, Rendezvous, CountsAgree
  <2>5. Members(pc', CountedLabels) = Members(pc, CountedLabels)
    BY <1>1, BspMembers
  <2>6. Cardinality(Members(pc, CountedLabels)) \in Nat
    BY MembersFinite
  <2> QED BY <1>2, <1>3, <2>2, <2>3, <2>4, <2>5, <2>6 DEF CountsAgree
<1> QED BY <1>5, <1>6, <1>7 DEF Rendezvous

(* The last of the APs has left: the BSP is the only processor counted.    *)
LEMMA AllLeftFollowed ==
  ASSUME RunInv, NEW b \in CPU, WaitForAllAPs(b, "dismissed", "reset")
  PROVE  Rendezvous'
<1>1. /\ Step(b, "dismissed", "reset") /\ pc[b] = "dismissed"
      /\ "dismissed" \in BspLabels /\ "reset" \in BspLabels
      /\ "dismissed" \notin PresentLabels /\ "reset" \notin PresentLabels
      /\ "dismissed" \notin InsidePhases /\ "reset" \notin InsidePhases
  BY DEF WaitForAllAPs, Step, BspLabels, PresentLabels, ApLabels, InsidePhases
<1>2. /\ UNCHANGED <<BspIndex, mode, Counter, InsideSmm, Present, bspIndex, scheduled, Busy, apCount>>
      /\ Run[b] >= apCount[b]
      /\ Run' = [Run EXCEPT ![b] = Run[b] - apCount[b]]
  BY DEF WaitForAllAPs
<1>3. BspIndex = b /\ Phase = "dismissed" /\ Phase' = "reset"
  BY <1>1, <1>2, BspPhase DEF RunInv
<1>4. /\ Run[b] = apCount[b] /\ Members(pc, CountedLabels) = {b}
  <2> DEFINE S == Members(pc, CountedLabels)
  <2>1. IsFiniteSet(S) /\ Cardinality(S) \in Nat
    BY MembersFinite
  <2>2. "dismissed" \in LockedPhases
    BY DEF LockedPhases
  <2>3. apCount[b] + 1 = Cardinality(S) + Run[b]
    BY <1>3 DEF RunInv, Rendezvous, CountsAgree
  <2>4. {b} \in SUBSET S
    BY <1>1 DEF Members, CountedLabels
  <2>5. Cardinality({b}) = 1
    BY FS_Singleton
  <2>6. Cardinality({b}) <= Cardinality(S) /\ (Cardinality(S) = Cardinality({b}) => S = {b})
    BY <2>1, <2>4, FS_Subset
  <2>7. Run[b] \in Nat /\ apCount[b] \in Int
    BY DEF RunInv, TypeOK
  <2>8. Cardinality(S) = 1 /\ Run[b] = apCount[b]
    BY <1>2, <2>1, <2>3, <2>5, <2>6, <2>7
  <2> QED BY <2>5, <2>6, <2>8
<1>5. Run'[b] = 0 /\ \A d \in CPU \ {b} : Run'[d] = Run[d]
  BY <1>2, <1>4 DEF RunInv, TypeOK
<1>6. \A d \in CPU \ {b} : pc[d] \notin CountedLabels
  BY <1>4 DEF Members
<1>7. PhaseReached' /\ AllInStep'
  <2>1. ASSUME NEW d \in CPU \ {b}, Quiet(pc[d], Run[d], Busy[d])
        PROVE  InStep("reset", pc[d], Run'[d], Busy'[d]) /\ Quiet(pc[d], Run'[d], Busy'[d])
    <3>1. InStep("reset", pc[d], Run'[d], Busy'[d])
      BY <1>6 DEF InStep, CountedLabels, ApLabels
    <3> QED BY <1>2, <1>5, <2>1, <3>1
  <2>2. Quiet("reset", Run'[b], Busy'[b])
    BY DEF Quiet, BspLabels, ApLabels
  <2> QED BY <1>1, <1>2, <2>1, <2>2, BspInStep
<1>8. Settled'
  <2>1. InsideSmm' <=> "reset" \in InsidePhases
    BY <1>1, <1>2, <1>3 DEF RunInv, Rendezvous, Settled
  <2>2. Present'[b] <=> "reset" \in PresentLabels
    BY <1>1, <1>2, <1>3 DEF RunInv, Rendezvous, Settled
  <2> QED BY <1>1, <1>2, <2>1, <2>2, BspSettled
<1>9. CountsAgree'
  <2>1. Answered(Phase)' = {} /\ LockedPhases' = LockedPhases
    BY <1>2, <1>3 DEF Answered, Gathering, LockedPhases, Gathers
  <2>2. Cardinality(Members(pc', {})) = 0
    BY MembersNone
  <2>3. "dismissed" \in LockedPhases /\ "reset" \in LockedPhases /\ "reset" \notin LockingPhases
    BY DEF LockingPhases, LockedPhases
  <2>4. Counter = Locked
    BY <1>3, <2>3 DEF RunInv, Rendezvous, CountsAgree
  <2> QED BY <1>2, <1>3, <1>5, <2>1, <2>2, <2>3, <2>4 DEF CountsAgree
<1> QED BY <1>7, <1>8, <1>9 DEF Rendezvous

(* The counter is unlocked when nobody is left to be counted.              *)
LEMMA ResetFollowed ==
  ASSUME RunInv, NEW b \in CPU, ResetCounter(b)
  PROVE  Rendezvous'
<1>1. /\ pc[b] = "reset" /\ pc' = [pc EXCEPT ![b] = "resync"] /\ "reset" \in BspLabels
      /\ UNCHANGED <<mode, InsideSmm, Run, Present, bspIndex, scheduled, Busy>> /\ Counter' = 0
  BY DEF ResetCounter, Step, BspLabels
<1>2. BspIndex = b /\ Phase = "reset"
  BY <1>1, NoneAssumption DEF RunInv, OneBsp, Phase
<1>3. ASSUME NEW d \in CPU
      PROVE  pc'[d] = IF d = b THEN "resync" ELSE pc[d]
  BY <1>1 DEF RunInv, TypeOK
<1>4. ASSUME NEW d \in CPU \ {b}
      PROVE  pc[d] \notin CountedLabels
  <2>1. pc[d] \notin BspLabels
    BY <1>2 DEF RunInv, OneBsp
  <2>2. InStep("reset", pc[d], Run[d], Busy[d])
    BY <1>2 DEF RunInv, Rendezvous, AllInStep
  <2> QED BY <2>1, <2>2 DEF InStep, CountedLabels, ApLabels, Gathering, HandlingPhases
<1>5. \A d \in CPU : pc'[d] \notin CountedLabels
  <2>1. "resync" \notin CountedLabels
    BY DEF CountedLabels, ApLabels, BspLabels
  <2> QED BY <1>3, <1>4, <2>1
<1>6. BspLabels \subseteq CountedLabels /\ ApLabels \subseteq CountedLabels
  BY DEF CountedLabels
<1>7. Phase' = "none"
  <2>1. BspIndex' \in CPU \cup {None}
    BY DEF ResetCounter, RunInv, TypeOK
  <2> QED BY <1>5, <1>6, <2>1 DEF Phase
<1>8. Run[b] = 0
  <2>1. Answered("reset") = {}
    BY DEF Answered, Gathering
  <2> QED BY <1>2, <2>1, MembersNone DEF RunInv, Rendezvous, CountsAgree
<1>9. PhaseReached'
  BY <1>7 DEF PhaseReached
<1>10. AllInStep'
  <2>1. ASSUME NEW d \in CPU
        PROVE  (InStep(Phase, pc[d], Run[d], Busy[d]) /\ Quiet(pc[d], Run[d], Busy[d]))'
    <3>1. InStep(Phase, pc[d], Run[d], Busy[d])'
      BY <1>5 DEF InStep, CountedLabels, ApLabels
    <3>2. CASE d = b
      <4>1. pc'[d] = "resync" /\ Run'[d] = 0
        BY <1>1, <1>3, <1>8, <3>2
      <4> QED BY <3>1, <4>1 DEF Quiet, ApLabels, BspLabels
    <3>3. CASE d # b
      <4>1. Quiet(pc[d], Run[d], Busy[d])
        BY DEF RunInv, Rendezvous, AllInStep
      <4>2. pc'[d] = pc[d] /\ UNCHANGED <<Run[d], Busy[d]>>
        BY <1>1, <1>3, <3>3
      <4>3. Quiet(pc[d], Run[d], Busy[d])'
        BY <1>1, <4>1, <4>2 DEF Quiet, Gathers
      <4> QED BY <3>1, <4>3
    <3> QED BY <3>2, <3>3
  <2> QED BY <2>1 DEF AllInStep
<1>11. Settled'
  <2>1. ~InsideSmm' /\ Phase' \notin InsidePhases'
    <3>1. "reset" \notin InsidePhases /\ "none" \notin InsidePhases
      BY DEF InsidePhases, BspLabels
    <3> QED BY <1>1, <1>2, <1>7, <3>1 DEF RunInv, Rendezvous, Settled
  <2>2. \A d \in CPU : Present'[d] <=> pc'[d] \in PresentLabels
    <3>1. "reset" \notin PresentLabels /\ "resync" \notin PresentLabels
      BY DEF PresentLabels, ApLabels, BspLabels
    <3> QED BY <1>1, <1>3, <3>1 DEF RunInv, Rendezvous, Settled
  <2>3. \A d \in CPU : pc'[d] \notin ApLabels
    BY <1>5, <1>6
  <2>4. scheduled' = {}
    BY <1>1, <2>1 DEF RunInv, Rendezvous, Settled
  <2> QED BY <2>1, <2>2, <2>3, <2>4 DEF Settled
<1>12. CountsAgree'
  <2>1. Cardinality(Members(pc', CountedLabels)) = 0
    BY <1>5, MembersNone
  <2>2. "none" \notin LockingPhases /\ "none" \notin LockedPhases' /\ "dismissed" \in LockedPhases'
    BY DEF LockingPhases, LockedPhases
  <2> QED BY <1>1, <1>7, <2>1, <2>2 DEF CountsAgree
<1> QED BY <1>9, <1>10, <1>11, <1>12 DEF Rendezvous

-----------------------------------------------------------------------------
(* Every step.                                                             *)

(* What the hardware and SmmSwitchBsp do moves nobody.                     *)
LEMMA NobodyMoves ==
  ASSUME Rendezvous,
         UNCHANGED <<pc, mode, Counter, flags, Run, Present, local, Busy, scheduled>>
  PROVE  Rendezvous'
<1>1. /\ Phase' = Phase /\ PhaseReached'
  BY DEF Phase, Rendezvous, PhaseReached, Gathers
<1>2. AllInStep'
  BY <1>1 DEF Rendezvous, AllInStep, InStep, Quiet, Gathering, Gathers
<1>3. Settled'
  BY <1>1 DEF Rendezvous, Settled
<1>4. CountsAgree'
  <2>1. Answered(Phase)' = Answered(Phase) /\ LockedPhases' = LockedPhases
    BY <1>1 DEF Answered, Gathering, LockedPhases, Gathers
  <2> QED BY <1>1, <2>1 DEF Rendezvous, CountsAgree
<1> QED BY <1>1, <1>2, <1>3, <1>4 DEF Rendezvous

LEMMA EntryFollowed ==
  ASSUME RunInv, NEW c \in CPU,
         SampleStatus(c) \/ SampleInside(c) \/ CheckIn(c) \/ ElectBsp(c) \/ Drain(c)
  PROVE  Rendezvous'
<1> USE DEF CountedLabels, ApLabels, BspLabels
<1>1. CASE SampleStatus(c)
  BY <1>1, OutsideStep DEF SampleStatus
<1>2. CASE SampleInside(c)
  BY <1>2, OutsideStep DEF SampleInside
<1>3. CASE Drain(c)
  BY <1>3, OutsideStep DEF Drain
<1> QED BY <1>1, <1>2, <1>3, CheckInFollowed, ElectedFollowed

LEMMA BspFollowed ==
  ASSUME RunInv, NEW b \in CPU, BspStep(b)
  PROVE  Rendezvous'
<1>1. CASE FirstWait(b)
  BY <1>1, ArrivingFollowed DEF FirstWait
<1>2. CASE SendSmiIpis(b)
  <2>1. CASE Counter < N
    BY <1>2, <2>1, ArrivingFollowed DEF SendSmiIpis
  <2>2. CASE ~(Counter < N)
    BY <1>2, <2>2, ArrivingFollowed DEF SendSmiIpis
  <2> QED BY <2>1, <2>2
<1>3. CASE SecondWait(b)
  BY <1>3, ArrivingFollowed DEF SecondWait
<1>4. CASE SyncOn(b)
  BY <1>4, ArrivingFollowed DEF SyncOn
<1>5. CASE SyncOff(b)
  BY <1>5, OutsideStep DEF SyncOff, CountedLabels, ApLabels, BspLabels
<1>6. CASE \/ WaitForAllAPs(b, "gather", IF needMtrrs THEN "backup" ELSE "acquire")
           \/ WaitForAllAPs(b, "backedUp", "program")
           \/ WaitForAllAPs(b, "programmed", "acquire")
           \/ WaitForAllAPs(b, "released", IF needMtrrs THEN "restore" ELSE "dismiss")
           \/ WaitForAllAPs(b, "restored", "dismiss")
  BY <1>6, RoundOverFollowed
<1>7. CASE BackupMtrrs(b) \/ ProgramMtrrs(b) \/ RestoreMtrrs(b)
  BY <1>7, MtrrRoundFollowed DEF BackupMtrrs, ProgramMtrrs, RestoreMtrrs
<1> QED
  BY <1>1, <1>2, <1>3, <1>4, <1>5, <1>6, <1>7, FlagPresenceFollowed, ClearFollowed, LockdownFollowed,
     AcquireBusyFollowed, StartupDoneFollowed, EndHandlersFollowed, AllPresentFollowed, QuitFollowed,
     DismissFollowed, AllLeftFollowed, ResetFollowed, Zenon DEF BspStep

LEMMA ApFollowed ==
  ASSUME RunInv, NEW c \in CPU, ApStep(c)
  PROVE  Rendezvous'
<1>1. CASE BspTimeout(c)
  BY <1>1, WaitingStep DEF BspTimeout
<1>2. CASE BspTimeoutAgain(c)
  BY <1>2, WaitingStep DEF BspTimeoutAgain
<1>3. CASE \/ ApMtrrs(c, "saveMtrrs", "loadMtrrs", "saved")
           \/ ApMtrrs(c, "loadMtrrs", "idle", "smm")
           \/ ApMtrrs(c, "restoreMtrrs", "ready", "os")
  BY <1>3, ApMtrrsFollowed
<1> QED
  BY <1>1, <1>2, <1>3, BspIsInsideFollowed, GiveUpFollowed, MarkPresenceFollowed, NotifyArrivalFollowed,
     WakeUpFollowed, RunProcedureFollowed, ReleaseBusyFollowed, NotifyExitFollowed, ResetStatesFollowed,
     NotifyLeftFollowed, Zenon DEF ApStep

LEMMA RunNext ==
  ASSUME RunInv, Next
  PROVE  Rendezvous'
<1> USE DEF CountedLabels, ApLabels, BspLabels
<1>1. CASE RaiseSmi
  BY <1>1, NobodyMoves DEF RaiseSmi, RunInv
<1>2. ASSUME NEW c \in CPU, SmmStep(c)
      PROVE  Rendezvous'
  <2>1. CASE ExitSmm(c)
    BY <2>1, OutsideStep DEF ExitSmm, Resume
  <2> QED BY <1>2, <2>1, EntryFollowed, BspFollowed, ApFollowed, Zenon DEF SmmStep
<1>3. ASSUME NEW b \in CPU, HandlerCall(b)
      PROVE  Rendezvous'
  <2>1. ASSUME NEW d \in CPU, SmmSwitchBsp(b, d)
        PROVE  Rendezvous'
    BY <2>1, NobodyMoves DEF SmmSwitchBsp, RunInv
  <2> QED BY <1>3, <2>1, StartupThisApFollowed, Zenon DEF HandlerCall
<1>4. ASSUME NEW c \in CPU, EnterSmm(c)
      PROVE  Rendezvous'
  BY <1>4, OutsideStep DEF EnterSmm
<1>5. ASSUME NEW c \in CPU, Unblock(c)
      PROVE  Rendezvous'
  BY <1>5, OutsideStep DEF Unblock, Resume
<1> QED BY <1>1, <1>2, <1>3, <1>4, <1>5, Zenon DEF Next

LEMMA RunInit ==
  ASSUME Init
  PROVE  Rendezvous
<1>1. \A d \in CPU : pc[d] \notin CountedLabels
  BY DEF Init, CountedLabels, ApLabels, BspLabels
<1>2. /\ BspLabels \subseteq CountedLabels /\ ApLabels \subseteq CountedLabels
      /\ PresentLabels \subseteq CountedLabels /\ {"idle", "woken"} \subseteq ApLabels
      /\ {"elect", "wait", "waitAgain", "giveUp"} \subseteq CountedLabels
  BY DEF CountedLabels, PresentLabels, ApLabels
<1>3. BspIndex \in CPU \cup {None}
  BY Zenon DEF Init
<1>4. Phase = "none"
  BY <1>1, <1>2, <1>3 DEF Phase
<1>5. \A d \in CPU : Run[d] = 0 /\ ~Present[d] /\ ~Busy[d]
  BY DEF Init
<1>6. PhaseReached
  BY <1>4 DEF PhaseReached
<1>7. AllInStep
  BY <1>1, <1>2, <1>5 DEF AllInStep, InStep, Quiet, ApLabels
<1>8. Settled
  <2>1. InsideSmm = FALSE /\ scheduled = {}
    BY Zenon DEF Init
  <2>2. "none" \notin InsidePhases
    BY DEF InsidePhases, BspLabels
  <2> QED BY <1>1, <1>2, <1>4, <1>5, <2>1, <2>2 DEF Settled
<1>9. CountsAgree
  <2>1. Cardinality(Members(pc, CountedLabels)) = 0 /\ Counter = 0
    BY <1>1, MembersNone DEF Init
  <2>2. "none" \notin LockingPhases \cup LockedPhases /\ "dismissed" \in LockedPhases
    BY DEF LockingPhases, LockedPhases
  <2> QED BY <1>4, <2>1, <2>2 DEF CountsAgree
<1> QED BY <1>6, <1>7, <1>8, <1>9 DEF Rendezvous

(* The processors keep in step: the invariant of a run, also where every   *)
(* time-out ends at the worst moment.                                      *)
THEOREM RunsInStep == Spec => []RunInv
<1>1. Init => Rendezvous
  BY RunInit
<1>2. RunInv /\ [Next]_vars => Rendezvous'
  <2>1. RunInv /\ UNCHANGED vars => Rendezvous'
    BY NobodyMoves DEF vars, RunInv
  <2> QED BY <2>1, RunNext
<1>3. TypeOK /\ OneBsp /\ Rendezvous <=> RunInv
  BY DEF RunInv
<1> QED BY <1>1, <1>2, <1>3, TypeCorrect, OneBspElectedAtATime, PTL DEF Spec

-----------------------------------------------------------------------------
(* What follows from the invariant.                                        *)

(* Whoever is counted once the counter is locked is present.               *)
LEMMA CountedArePresent ==
  ASSUME RunInv, NEW b \in CPU, pc[b] \in LockedPhases \ {"dismissed", "reset"}
  PROVE  /\ Counter = Locked /\ Cardinality({d \in CPU : Present[d]}) = apCount[b] + 1
         /\ \A d \in CPU \ {b} : Present[d] => pc[d] \in ApLabels
<1>1. LockedPhases \subseteq BspLabels
  BY DEF LockedPhases, BspLabels
<1>2. BspIndex = b /\ Phase = pc[b]
  BY <1>1, NoneAssumption DEF RunInv, OneBsp, Phase
<1>3. \A d \in CPU \ {b} : pc[d] \notin BspLabels
  BY <1>2 DEF RunInv, OneBsp
<1>4. \A d \in CPU : Present[d] <=> pc[d] \in PresentLabels
  BY DEF RunInv, Rendezvous, Settled
<1>5. ASSUME NEW d \in CPU, pc[d] \in CountedLabels
      PROVE  pc[d] \in PresentLabels
  <2>1. CASE d = b
    BY <1>1, <2>1 DEF PresentLabels, LockedPhases, BspLabels
  <2>2. CASE d # b
    <3>1. InStep(pc[b], pc[d], Run[d], Busy[d])
      BY <1>2 DEF RunInv, Rendezvous, AllInStep
    <3>2. pc[d] \in {"elect", "wait", "waitAgain", "giveUp"} \cup ApLabels
      BY <1>3, <1>5, <2>2 DEF CountedLabels
    <3>3. pc[b] \notin {"none", "inside", "dismissed"} \cup Gathering
      BY DEF LockedPhases, Gathering
    <3> QED BY <3>1, <3>2, <3>3 DEF InStep, PresentLabels
  <2> QED BY <2>1, <2>2
<1>6. {d \in CPU : Present[d]} = Members(pc, CountedLabels)
  <2>1. PresentLabels \subseteq CountedLabels
    BY DEF PresentLabels, CountedLabels
  <2> QED BY <1>4, <1>5, <2>1 DEF Members
<1>7. \A d \in CPU \ {b} : Present[d] => pc[d] \in ApLabels
  BY <1>3, <1>4 DEF PresentLabels
<1> QED BY <1>2, <1>6, <1>7 DEF RunInv, Rendezvous, CountsAgree

(* APHandler and BSPHandler (MpService.c): however the arrivals, time-outs *)
(* and successive SMIs interleave, an AP answers to the BSP that counted   *)
(* it, and the BSP signals exactly the APs it counted.                     *)
THEOREM ApsAlwaysFollow == Spec => []ApsFollowBsp
<1>1. RunInv => ApsFollowBsp
  <2> SUFFICES ASSUME RunInv
               PROVE  ApsFollowBsp
    OBVIOUS
  <2>1. ASSUME NEW c \in CPU, pc[c] \in ApLabels \ {"flag"}
        PROVE  bspIndex[c] = BspIndex /\ BspIndex # None /\ pc[BspIndex] \in BspLabels
    BY <2>1, BspThere, NoneAssumption
  <2>2. ASSUME NEW b \in CPU,
               \/ pc[b] \in {"quit", "released", "restore", "restored", "dismiss"}
               \/ Gathers /\ pc[b] \in {"backup", "backedUp", "program", "programmed", "acquire",
                                        "handlers", "startWait"}
        PROVE  /\ Counter = Locked
               /\ Cardinality({d \in CPU : Present[d]}) = apCount[b] + 1
               /\ \A d \in CPU \ {b} : Present[d] => pc[d] \in ApLabels
    <3>1. pc[b] \in LockedPhases \ {"dismissed", "reset"}
      BY <2>2 DEF LockedPhases
    <3> QED BY <3>1, CountedArePresent
  <2> QED BY <2>1, <2>2 DEF ApsFollowBsp
<1> QED BY <1>1, RunsInStep, PTL

(* The ASSERTs of MpService.c hold for any number of processors.           *)
THEOREM AssertsHold == Spec => []CodeAsserts
<1>1. RunInv => CodeAsserts
  <2> SUFFICES ASSUME RunInv, NEW c \in CPU
               PROVE  /\ pc[c] \in {"arriving", "arrivingAgain"} => Counter \in 0 .. N
                      /\ At(c, "flag") => BspIndex \notin {c, None}
                      /\ pc[c] \in {"drain", "exit", "normal"} => Run[c] = 0
                      /\ At(c, "woken") /\ InsideSmm => Busy[c]
    BY DEF CodeAsserts
  <2>1. InStep(Phase, pc[c], Run[c], Busy[c]) /\ Quiet(pc[c], Run[c], Busy[c])
    BY DEF RunInv, Rendezvous, AllInStep
  <2>2. ASSUME pc[c] \in {"arriving", "arrivingAgain"}
        PROVE  Counter \in 0 .. N
    <3>1. BspIndex = c /\ Phase = pc[c]
      BY <2>2, NoneAssumption DEF RunInv, OneBsp, Phase, BspLabels
    <3>2. Counter = Cardinality(Members(pc, CountedLabels))
      <4>1. Phase \notin LockingPhases \cup LockedPhases
        BY <2>2, <3>1 DEF LockingPhases, LockedPhases
      <4> QED BY <4>1 DEF RunInv, Rendezvous, CountsAgree
    <3>3. Cardinality(Members(pc, CountedLabels)) \in Nat /\ Members(pc, CountedLabels) \subseteq CPU
      BY MembersFinite
    <3>4. Cardinality(CPU) \in Nat /\ Cardinality(Members(pc, CountedLabels)) <= Cardinality(CPU)
      BY <3>3, CpuAssumption, FS_Subset, FS_CardinalityType
    <3> QED BY <3>2, <3>3, <3>4 DEF N
  <2>3. ASSUME At(c, "flag")
        PROVE  BspIndex \notin {c, None}
    <3>1. Phase # "none"
      BY <2>1, <2>3 DEF At, InStep, Gathering
    <3> QED BY <2>3, <3>1 DEF At, Phase, BspLabels
  <2>4. ASSUME pc[c] \in {"drain", "exit", "normal"}
        PROVE  Run[c] = 0
    BY <2>1, <2>4 DEF Quiet, BspLabels
  <2>5. ASSUME At(c, "woken"), InsideSmm
        PROVE  Busy[c]
    <3>1. Phase # "released"
      BY <2>5 DEF RunInv, Rendezvous, Settled, InsidePhases
    <3> QED BY <2>1, <2>5, <3>1 DEF At, InStep
  <2> QED BY <2>2, <2>3, <2>4, <2>5
<1> QED BY <1>1, RunsInStep, PTL

(* SmmStartupThisAp: a procedure that was scheduled is not lost and not    *)
(* run twice, whatever the AP was doing when it was scheduled.             *)
THEOREM ProceduresRun == Spec => []ScheduledRuns
<1>1. RunInv /\ CodeAsserts => ScheduledRuns
  BY DEF RunInv, Rendezvous, Settled, ScheduledRuns, CodeAsserts, At
<1> QED BY <1>1, RunsInStep, AssertsHold, PTL

-----------------------------------------------------------------------------
(* The MTRRs.                                                              *)

(* Whose MTRR settings a processor uses at a statement.                    *)
MtrrOf(l) ==
  IF ~needMtrrs THEN "os"
  ELSE IF l \in {"loadMtrrs", "backedUp", "program"} THEN "saved"
  ELSE IF l \in {"idle", "woken", "ran", "restoreMtrrs", "programmed", "acquire", "handlers",
                 "startWait", "quit", "released", "restore"} THEN "smm"
  ELSE "os"

MtrrsFollow == \A d \in CPU : mtrr[d] = MtrrOf(pc[d])

LEMMA MtrrStep ==
  ASSUME TypeOK, MtrrsFollow, NEW c \in CPU, NEW from, NEW to, Step(c, from, to), UNCHANGED mode,
         \/ UNCHANGED mtrr /\ MtrrOf(to) = MtrrOf(from)
         \/ mtrr' = [mtrr EXCEPT ![c] = MtrrOf(to)]
  PROVE  MtrrsFollow'
<1> SUFFICES ASSUME NEW d \in CPU
             PROVE  mtrr'[d] = MtrrOf(pc[d])'
  BY DEF MtrrsFollow
<1>1. \A l : MtrrOf(l)' = MtrrOf(l)
  BY DEF MtrrOf
<1>2. MtrrOf(pc[d])' = MtrrOf(pc'[d])
  BY DEF MtrrOf
<1>3. pc[c] = from /\ pc'[d] = IF d = c THEN to ELSE pc[d]
  BY DEF Step, TypeOK
<1>4. mtrr[d] = MtrrOf(pc[d]) /\ mtrr[c] = MtrrOf(from)
  BY <1>3 DEF MtrrsFollow
<1> QED BY <1>2, <1>3, <1>4 DEF TypeOK

LEMMA MtrrEntry ==
  ASSUME RunInv, MtrrsFollow, NEW c \in CPU,
         SampleStatus(c) \/ SampleInside(c) \/ CheckIn(c) \/ ElectBsp(c) \/ Drain(c)
  PROVE  MtrrsFollow'
<1>1. TypeOK
  BY DEF RunInv
<1>2. CASE SampleStatus(c)
  BY <1>1, <1>2, MtrrStep DEF SampleStatus, MtrrOf
<1>3. CASE SampleInside(c)
  BY <1>1, <1>3, MtrrStep DEF SampleInside, MtrrOf
<1>4. CASE CheckIn(c)
  BY <1>1, <1>4, MtrrStep DEF CheckIn, MtrrOf
<1>5. CASE ElectBsp(c)
  <2>1. Step(c, "elect", IF BspIndex' = c THEN "inside" ELSE "wait")
    BY <1>5 DEF ElectBsp, Step, At
  <2> QED BY <1>1, <1>5, <2>1, MtrrStep DEF ElectBsp, MtrrOf
<1>6. CASE Drain(c)
  BY <1>1, <1>6, MtrrStep DEF Drain, MtrrOf
<1> QED BY <1>2, <1>3, <1>4, <1>5, <1>6

LEMMA MtrrBsp ==
  ASSUME RunInv, MtrrsFollow, NEW b \in CPU, BspStep(b)
  PROVE  MtrrsFollow'
<1>1. TypeOK
  BY DEF RunInv
<1>2. Gathers \/ ~needMtrrs
  BY DEF Gathers
<1>3. /\ pc[b] = "present" => ~needMtrrs
      /\ pc[b] \in {"backup", "backedUp", "program", "programmed", "restore", "restored"} => needMtrrs
  <2>1. pc[b] \in BspLabels => Phase = pc[b]
    BY NoneAssumption DEF RunInv, OneBsp, Phase
  <2> QED BY <1>2, <2>1 DEF RunInv, Rendezvous, PhaseReached, BspLabels
<1>4. CASE FlagPresence(b)
  BY <1>1, <1>4, MtrrStep DEF FlagPresence, MtrrOf
<1>5. CASE ClearTopLevelSmiStatus(b)
  BY <1>1, <1>2, <1>5, MtrrStep DEF ClearTopLevelSmiStatus, MtrrOf
<1>6. CASE FirstWait(b)
  BY <1>1, <1>6, MtrrStep DEF FirstWait, MtrrOf
<1>7. CASE SendSmiIpis(b)
  BY <1>1, <1>7, MtrrStep DEF SendSmiIpis, MtrrOf
<1>8. CASE SecondWait(b)
  BY <1>1, <1>8, MtrrStep DEF SecondWait, MtrrOf
<1>9. CASE SyncOn(b)
  BY <1>1, <1>9, MtrrStep DEF SyncOn, MtrrOf
<1>10. CASE LockdownSemaphore(b)
  BY <1>1, <1>10, MtrrStep DEF LockdownSemaphore, MtrrOf
<1>11. CASE WaitForAllAPs(b, "gather", IF needMtrrs THEN "backup" ELSE "acquire")
  BY <1>1, <1>11, MtrrStep DEF WaitForAllAPs, MtrrOf
<1>12. CASE BackupMtrrs(b)
  BY <1>1, <1>3, <1>12, MtrrStep DEF BackupMtrrs, MtrrRound, MtrrOf, Step
<1>13. CASE WaitForAllAPs(b, "backedUp", "program")
  BY <1>1, <1>13, MtrrStep DEF WaitForAllAPs, MtrrOf
<1>14. CASE ProgramMtrrs(b)
  BY <1>1, <1>3, <1>14, MtrrStep DEF ProgramMtrrs, MtrrRound, MtrrOf, Step
<1>15. CASE WaitForAllAPs(b, "programmed", "acquire")
  BY <1>1, <1>15, MtrrStep DEF WaitForAllAPs, MtrrOf
<1>16. CASE AcquireBusy(b)
  BY <1>1, <1>16, MtrrStep DEF AcquireBusy, MtrrOf
<1>17. CASE StartupDone(b)
  BY <1>1, <1>17, MtrrStep DEF StartupDone, MtrrOf
<1>18. CASE EndHandlers(b)
  BY <1>1, <1>2, <1>18, MtrrStep DEF EndHandlers, MtrrOf
<1>19. CASE AllPresent(b)
  BY <1>1, <1>3, <1>19, MtrrStep DEF AllPresent, MtrrOf, Step
<1>20. CASE QuitSmm(b)
  BY <1>1, <1>20, MtrrStep DEF QuitSmm, MtrrOf
<1>21. CASE WaitForAllAPs(b, "released", IF needMtrrs THEN "restore" ELSE "dismiss")
  BY <1>1, <1>21, MtrrStep DEF WaitForAllAPs, MtrrOf
<1>22. CASE RestoreMtrrs(b)
  BY <1>1, <1>22, MtrrStep DEF RestoreMtrrs, MtrrRound, MtrrOf
<1>23. CASE WaitForAllAPs(b, "restored", "dismiss")
  BY <1>1, <1>23, MtrrStep DEF WaitForAllAPs, MtrrOf
<1>24. CASE Dismiss(b)
  BY <1>1, <1>24, MtrrStep DEF Dismiss, MtrrOf
<1>25. CASE WaitForAllAPs(b, "dismissed", "reset")
  BY <1>1, <1>25, MtrrStep DEF WaitForAllAPs, MtrrOf
<1>26. CASE ResetCounter(b)
  BY <1>1, <1>26, MtrrStep DEF ResetCounter, MtrrOf
<1>27. CASE SyncOff(b)
  BY <1>1, <1>27, MtrrStep DEF SyncOff, MtrrOf
<1> QED
  BY <1>4, <1>5, <1>6, <1>7, <1>8, <1>9, <1>10, <1>11, <1>12, <1>13, <1>14, <1>15, <1>16, <1>17,
     <1>18, <1>19, <1>20, <1>21, <1>22, <1>23, <1>24, <1>25, <1>26, <1>27, Zenon DEF BspStep

LEMMA MtrrAp ==
  ASSUME RunInv, MtrrsFollow, NEW c \in CPU, ApStep(c)
  PROVE  MtrrsFollow'
<1>1. TypeOK
  BY DEF RunInv
<1>2. Gathers \/ ~needMtrrs
  BY DEF Gathers
<1>3. pc[c] \in {"saveMtrrs", "loadMtrrs"} => needMtrrs
  BY DEF RunInv, Rendezvous, AllInStep, InStep
<1>4. CASE BspIsInside(c)
  <2>1. \A from \in {"wait", "waitAgain"} : pc[c] = from => Step(c, from, "flag")
    BY <1>4 DEF BspIsInside, Step
  <2> QED BY <1>1, <1>4, <2>1, MtrrStep DEF BspIsInside, MtrrOf
<1>5. CASE BspTimeout(c)
  BY <1>1, <1>5, MtrrStep DEF BspTimeout, MtrrOf
<1>6. CASE BspTimeoutAgain(c)
  BY <1>1, <1>6, MtrrStep DEF BspTimeoutAgain, MtrrOf
<1>7. CASE GiveUp(c)
  BY <1>1, <1>7, MtrrStep DEF GiveUp, MtrrOf
<1>8. CASE MarkPresence(c)
  BY <1>1, <1>2, <1>8, MtrrStep DEF MarkPresence, MtrrOf
<1>9. CASE NotifyArrival(c)
  BY <1>1, <1>9, MtrrStep DEF NotifyArrival, MtrrOf
<1>10. CASE ApMtrrs(c, "saveMtrrs", "loadMtrrs", "saved")
  BY <1>1, <1>3, <1>10, MtrrStep DEF ApMtrrs, MtrrOf, Step
<1>11. CASE ApMtrrs(c, "loadMtrrs", "idle", "smm")
  BY <1>1, <1>3, <1>11, MtrrStep DEF ApMtrrs, MtrrOf, Step
<1>12. CASE WakeUp(c)
  BY <1>1, <1>12, MtrrStep DEF WakeUp, MtrrOf
<1>13. CASE RunProcedure(c)
  BY <1>1, <1>13, MtrrStep DEF RunProcedure, MtrrOf
<1>14. CASE ReleaseBusy(c)
  BY <1>1, <1>14, MtrrStep DEF ReleaseBusy, MtrrOf
<1>15. CASE NotifyExit(c)
  BY <1>1, <1>15, MtrrStep DEF NotifyExit, MtrrOf
<1>16. CASE ApMtrrs(c, "restoreMtrrs", "ready", "os")
  BY <1>1, <1>16, MtrrStep DEF ApMtrrs, MtrrOf
<1>17. CASE ResetStates(c)
  BY <1>1, <1>17, MtrrStep DEF ResetStates, MtrrOf
<1>18. CASE NotifyLeft(c)
  BY <1>1, <1>18, MtrrStep DEF NotifyLeft, MtrrOf
<1> QED
  BY <1>4, <1>5, <1>6, <1>7, <1>8, <1>9, <1>10, <1>11, <1>12, <1>13, <1>14, <1>15, <1>16, <1>17,
     <1>18, Zenon DEF ApStep

LEMMA MtrrUnmoved ==
  ASSUME MtrrsFollow, UNCHANGED <<pc, mode, mtrr>>
  PROVE  MtrrsFollow'
BY DEF MtrrsFollow, MtrrOf

LEMMA MtrrNext ==
  ASSUME RunInv, MtrrsFollow, Next
  PROVE  MtrrsFollow'
<1>1. TypeOK
  BY DEF RunInv
<1>2. CASE RaiseSmi
  BY <1>2, MtrrUnmoved DEF RaiseSmi
<1>3. ASSUME NEW c \in CPU, SmmStep(c)
      PROVE  MtrrsFollow'
  <2>1. CASE ExitSmm(c)
    BY <1>1, <2>1, MtrrStep DEF ExitSmm, Resume, MtrrOf
  <2> QED BY <1>3, <2>1, MtrrEntry, MtrrBsp, MtrrAp, Zenon DEF SmmStep
<1>4. ASSUME NEW b \in CPU, HandlerCall(b)
      PROVE  MtrrsFollow'
  <2>1. ASSUME NEW d \in CPU, SmmSwitchBsp(b, d)
        PROVE  MtrrsFollow'
    BY <2>1, MtrrUnmoved DEF SmmSwitchBsp
  <2>2. ASSUME NEW d \in CPU, NEW blocking \in BOOLEAN, StartupThisAp(b, d, blocking)
        PROVE  MtrrsFollow'
    BY <1>1, <2>2, MtrrStep DEF StartupThisAp, MtrrOf
  <2> QED BY <1>4, <2>1, <2>2, Zenon DEF HandlerCall
<1>5. ASSUME NEW c \in CPU, EnterSmm(c)
      PROVE  MtrrsFollow'
  BY <1>1, <1>5, MtrrStep DEF EnterSmm, MtrrOf
<1>6. ASSUME NEW c \in CPU, Unblock(c)
      PROVE  MtrrsFollow'
  BY <1>1, <1>6, MtrrStep DEF Unblock, Resume, MtrrOf
<1> QED BY <1>2, <1>3, <1>4, <1>5, <1>6, Zenon DEF Next

(* BSPHandler, APHandler (MpService.c): "We do the backup first and then   *)
(* set MTRR to avoid race condition for threads in the same core".         *)
THEOREM MtrrsStayInPlace == Spec => []MtrrsInPlace
<1>1. Init => MtrrsFollow
  BY DEF Init, MtrrsFollow, MtrrOf
<1>2. RunInv /\ MtrrsFollow /\ [Next]_vars => MtrrsFollow'
  BY MtrrNext, MtrrUnmoved DEF vars
<1>3. RunInv /\ MtrrsFollow => MtrrsInPlace
  <2> SUFFICES ASSUME RunInv, MtrrsFollow, NEW c \in CPU, NEW d \in CPU
               PROVE  /\ pc[c] \in {"saveMtrrs", "backup"} => mtrr[d] # "smm"
                      /\ Handling(c) /\ needMtrrs => (Present[d] => mtrr[d] = "smm")
                      /\ pc[c] \in {"normal", "exit", "drain"} => mtrr[c] = "os"
    BY DEF MtrrsInPlace
  <2>1. \A e \in CPU : InStep(Phase, pc[e], Run[e], Busy[e]) /\ mtrr[e] = MtrrOf(pc[e])
    BY DEF RunInv, Rendezvous, AllInStep, MtrrsFollow
  <2>2. \A e \in CPU : pc[e] \in BspLabels => Phase = pc[e] /\ BspIndex = e
    BY NoneAssumption DEF RunInv, OneBsp, Phase
  <2>3. ASSUME pc[c] \in {"saveMtrrs", "backup"}
        PROVE  mtrr[d] # "smm"
    <3>1. needMtrrs /\ Phase \in {"clear", "arriving", "ipi", "arrivingAgain", "sync", "lock", "gather",
                                  "backup", "backedUp"}
      <4>1. CASE pc[c] = "saveMtrrs"
        BY <2>1, <4>1 DEF InStep, Gathering, Gathers
      <4>2. CASE pc[c] = "backup"
        <5>1. Phase = "backup"
          BY <2>2, <4>2 DEF BspLabels
        <5> QED BY <5>1 DEF RunInv, Rendezvous, PhaseReached
      <4> QED BY <2>3, <4>1, <4>2
    <3>2. pc[d] \in BspLabels => pc[d] = Phase
      BY <2>2
    <3>3. pc[d] \notin {"idle", "woken", "ran", "restoreMtrrs", "programmed", "acquire", "handlers",
                        "startWait", "quit", "released", "restore"}
      <4>1. pc[d] \notin {"idle", "woken", "ran", "restoreMtrrs"}
        BY <2>1, <3>1 DEF InStep, HandlingPhases
      <4>2. pc[d] \notin {"programmed", "acquire", "handlers", "startWait", "quit", "released", "restore"}
        BY <3>1, <3>2 DEF BspLabels
      <4> QED BY <4>1, <4>2
    <3> QED BY <2>1, <3>3 DEF MtrrOf
  <2>4. ASSUME Handling(c), needMtrrs, Present[d]
        PROVE  mtrr[d] = "smm"
    <3>1. Phase = pc[c] /\ BspIndex = c /\ Phase \in HandlingPhases
      BY <2>2, <2>4 DEF Handling, BspLabels, HandlingPhases
    <3>2. pc[d] \in PresentLabels
      BY <2>4 DEF RunInv, Rendezvous, Settled
    <3>3. CASE pc[d] \in BspLabels
      BY <2>1, <2>2, <2>4, <3>1, <3>3 DEF MtrrOf, HandlingPhases
    <3>4. CASE pc[d] \notin BspLabels
      <4>1. pc[d] \in ApLabels \ {"flag", "left"}
        BY <3>2, <3>4 DEF PresentLabels
      <4>2. pc[d] \in {"idle", "woken", "ran"}
        BY <2>1, <2>4, <3>1, <4>1 DEF InStep, ApLabels, Gathering, Gathers, HandlingPhases
      <4> QED BY <2>1, <2>4, <4>2 DEF MtrrOf
    <3> QED BY <3>3, <3>4
  <2>5. ASSUME pc[c] \in {"normal", "exit", "drain"}
        PROVE  mtrr[c] = "os"
    BY <2>1, <2>5 DEF MtrrOf
  <2> QED BY <2>3, <2>4, <2>5
<1> QED BY <1>1, <1>2, <1>3, RunsInStep, PTL DEF Spec

-----------------------------------------------------------------------------
(* Normal mode code.                                                       *)

(* The phases from the IPI to the absent processors to the end of the SMI  *)
(* handlers, the time-out after it, and where AllCpusInSync is set.        *)
CalledPhases ==
  {"arrivingAgain", "sync", "lock", "gather", "backup", "backedUp", "program", "programmed",
   "acquire", "handlers", "startWait"}
InSyncPhases == CalledPhases \ {"arrivingAgain", "sync"}

(* In phase p a processor at statement l, with an SMI latched or not, does *)
(* not come to execute normal mode code.                                   *)
StaysOut(p, l, latched, inSync) ==
  /\ p \in {"ipi"} \cup CalledPhases => l \notin {"giveUp", "resync"} /\ (l = "drain" => inSync)
  /\ p \in InSyncPhases => inSync
  /\ p \in CalledPhases /\ l \in {"exit", "blocked", "normal"} => latched
  /\ p \in CalledPhases \ {"arrivingAgain"} => l # "normal"

AllStayOut == Gathers => \A d \in CPU : StaysOut(Phase, pc[d], pending[d], AllCpusInSync)

LEMMA StayOutStep ==
  ASSUME RunInv, AllStayOut, NEW c \in CPU, NEW from, NEW to, Step(c, from, to),
         from \notin BspLabels, to \notin BspLabels, UNCHANGED <<BspIndex, mode, AllCpusInSync>>,
         \A d \in CPU \ {c} : pending[d] => pending'[d],
         StaysOut(Phase, from, pending[c], AllCpusInSync) =>
           StaysOut(Phase, to, pending'[c], AllCpusInSync)
  PROVE  AllStayOut'
<1> SUFFICES ASSUME Gathers, NEW d \in CPU
             PROVE  StaysOut(Phase', pc'[d], pending'[d], AllCpusInSync')
  BY DEF AllStayOut, Gathers
<1>1. Phase' = Phase
  BY FollowerPhase DEF RunInv
<1>2. pc[c] = from /\ pc'[d] = IF d = c THEN to ELSE pc[d]
  BY DEF Step, RunInv, TypeOK
<1>3. StaysOut(Phase, pc[d], pending[d], AllCpusInSync)
  BY DEF AllStayOut
<1>4. CASE d = c
  BY <1>1, <1>2, <1>3, <1>4
<1>5. CASE d # c
  BY <1>1, <1>2, <1>3, <1>5 DEF StaysOut
<1> QED BY <1>4, <1>5

(* A step after which the BSP is not between the IPI and the end of the    *)
(* SMI handlers.                                                           *)
LEMMA StayOutElsewhere ==
  ASSUME Phase' \notin {"ipi"} \cup CalledPhases
  PROVE  AllStayOut'
BY DEF AllStayOut, StaysOut, InSyncPhases

(* A step of the BSP between them.                                         *)
LEMMA StayOutBsp ==
  ASSUME RunInv, AllStayOut, NEW b \in CPU, NEW from \in BspLabels, NEW to \in BspLabels,
         Step(b, from, to), UNCHANGED <<BspIndex, mode, AllCpusInSync, pending>>,
         to \in {"ipi"} \cup CalledPhases => from \in CalledPhases,
         to \in InSyncPhases => from \in InSyncPhases,
         to \in CalledPhases \ {"arrivingAgain"} => from \in CalledPhases \ {"arrivingAgain"}
  PROVE  AllStayOut'
<1> SUFFICES ASSUME Gathers, NEW d \in CPU
             PROVE  StaysOut(Phase', pc'[d], pending'[d], AllCpusInSync')
  BY DEF AllStayOut, Gathers
<1>1. Phase = from /\ Phase' = to /\ pc'[b] = to /\ \A e \in CPU \ {b} : pc'[e] = pc[e]
  BY BspPhase DEF RunInv
<1>2. StaysOut(from, pc[d], pending[d], AllCpusInSync)
  BY <1>1 DEF AllStayOut
<1>3. CASE d = b
  BY <1>1, <1>2, <1>3 DEF StaysOut, BspLabels, CalledPhases, InSyncPhases
<1>4. CASE d # b
  BY <1>1, <1>2, <1>4 DEF StaysOut, CalledPhases, InSyncPhases
<1> QED BY <1>3, <1>4

LEMMA StayOutEntry ==
  ASSUME RunInv, AllStayOut, NEW c \in CPU,
         SampleStatus(c) \/ SampleInside(c) \/ CheckIn(c) \/ ElectBsp(c) \/ Drain(c)
  PROVE  AllStayOut'
<1>1. CASE SampleStatus(c)
  BY <1>1, StayOutStep DEF SampleStatus, StaysOut, BspLabels
<1>2. CASE SampleInside(c)
  <2>1. ~InsideSmm => Phase \notin {"ipi"} \cup CalledPhases
    BY DEF RunInv, Rendezvous, Settled, InsidePhases, CalledPhases, BspLabels
  <2>2. InsideSmm => Step(c, "sampled", "checkIn")
    BY <1>2 DEF SampleInside
  <2>3. StaysOut(Phase, "sampled", pending[c], AllCpusInSync) =>
          \A to \in {"checkIn", "exit"} :
             (~InsideSmm \/ to = "checkIn") => StaysOut(Phase, to, pending[c], AllCpusInSync)
    BY <2>1 DEF StaysOut, InSyncPhases
  <2>4. PICK to \in {"checkIn", "exit"} : Step(c, "sampled", to) /\ (~InsideSmm \/ to = "checkIn")
    BY <1>2, <2>2 DEF SampleInside
  <2>5. UNCHANGED <<BspIndex, mode, AllCpusInSync, pending>>
    BY <1>2 DEF SampleInside
  <2> QED BY <2>3, <2>4, <2>5, StayOutStep DEF BspLabels
<1>3. CASE CheckIn(c)
  <2>1. Counter = Locked /\ Gathers => Phase \notin {"ipi", "arrivingAgain", "sync"}
    <3>1. Cardinality(Members(pc, CountedLabels)) \in Nat
      BY MembersFinite
    <3>2. {"ipi", "arrivingAgain", "sync"} \cap (LockingPhases \cup LockedPhases) = {}
      BY DEF LockingPhases, LockedPhases
    <3> QED BY <3>1, <3>2 DEF RunInv, Rendezvous, CountsAgree, Locked
  <2>2. PICK to \in {"drain", "wait", "elect"} :
          Step(c, "checkIn", to) /\ (to = "drain" => Counter = Locked)
    <3>1. Counter # Locked => Released(Counter) # Counter
      BY DEF RunInv, TypeOK, Released
    <3> QED BY <1>3, <3>1 DEF CheckIn
  <2>3. UNCHANGED <<BspIndex, mode, AllCpusInSync, pending>>
    BY <1>3 DEF CheckIn
  <2>4. CASE Gathers
    <3>1. StaysOut(Phase, "checkIn", pending[c], AllCpusInSync) => StaysOut(Phase, to, pending'[c], AllCpusInSync)
      BY <2>1, <2>2, <2>4 DEF StaysOut, CalledPhases, InSyncPhases
    <3> QED BY <2>2, <2>3, <3>1, StayOutStep DEF BspLabels
  <2>5. CASE ~Gathers
    BY <2>3, <2>5 DEF AllStayOut, Gathers
  <2> QED BY <2>4, <2>5
<1>4. CASE ElectBsp(c)
  <2>1. CASE BspIndex' = c
    <3>1. pc'[c] = "inside"
      BY <1>4, <2>1 DEF ElectBsp, RunInv, TypeOK
    <3>2. Phase' = "inside"
      BY <2>1, <3>1, NoneAssumption DEF Phase, BspLabels
    <3> QED BY <3>2, StayOutElsewhere DEF CalledPhases
  <2>2. CASE BspIndex' # c
    <3>1. Step(c, "elect", "wait") /\ UNCHANGED <<BspIndex, mode, AllCpusInSync, pending>>
      BY <1>4, <2>2 DEF ElectBsp, At, Step
    <3> QED BY <3>1, StayOutStep DEF StaysOut, BspLabels
  <2> QED BY <2>1, <2>2
<1>5. CASE Drain(c)
  BY <1>5, StayOutStep DEF Drain, StaysOut, BspLabels
<1> QED BY <1>1, <1>2, <1>3, <1>4, <1>5

(* The IPI goes to whoever is not present; without one everybody is there. *)
LEMMA StayOutIpis ==
  ASSUME RunInv, AllStayOut, NEW b \in CPU, SendSmiIpis(b)
  PROVE  AllStayOut'
<1> SUFFICES ASSUME Gathers, NEW d \in CPU
             PROVE  StaysOut(Phase', pc'[d], pending'[d], AllCpusInSync')
  BY DEF AllStayOut, Gathers, SendSmiIpis
<1> DEFINE to == IF Counter < N THEN "arrivingAgain" ELSE "sync"
<1>1. /\ Step(b, "ipi", to) /\ UNCHANGED <<BspIndex, mode, AllCpusInSync>>
      /\ pending' = IF Counter < N THEN [e \in CPU |-> pending[e] \/ ~Present[e]] ELSE pending
  BY DEF SendSmiIpis
<1>2. to \in {"arrivingAgain", "sync"} /\ to \in BspLabels /\ "ipi" \in BspLabels
  BY DEF BspLabels
<1>3. to = "sync" <=> ~(Counter < N)
  OBVIOUS
<1> HIDE DEF to
<1>4. Phase = "ipi" /\ Phase' = to /\ pc'[b] = to /\ \A e \in CPU \ {b} : pc'[e] = pc[e]
  BY <1>1, <1>2, BspPhase DEF RunInv
<1>5. StaysOut("ipi", pc[d], pending[d], AllCpusInSync)
  BY <1>4 DEF AllStayOut
<1>6. CASE d = b
  BY <1>2, <1>4, <1>6 DEF StaysOut, CalledPhases, InSyncPhases
<1>7. CASE d # b /\ Counter < N
  <2>1. pc[d] \in {"exit", "blocked", "normal"} => pending'[d]
    BY <1>1, <1>7 DEF RunInv, Rendezvous, Settled, PresentLabels, ApLabels, BspLabels
  <2>2. to = "arrivingAgain"
    BY <1>2, <1>3, <1>7
  <2> QED BY <1>1, <1>4, <1>5, <1>7, <2>1, <2>2 DEF StaysOut, CalledPhases, InSyncPhases
<1>8. CASE d # b /\ ~(Counter < N)
  <2>1. to = "sync"
    BY <1>3, <1>8
  <2>2. pc[d] \in CountedLabels
    <3>1. Counter = Cardinality(Members(pc, CountedLabels))
      <4>1. "ipi" \notin LockingPhases \cup LockedPhases
        BY DEF LockingPhases, LockedPhases
      <4> QED BY <1>4, <4>1 DEF RunInv, Rendezvous, CountsAgree
    <3>2. /\ Members(pc, CountedLabels) \in SUBSET CPU /\ Cardinality(Members(pc, CountedLabels)) \in Nat
          /\ IsFiniteSet(CPU)
      BY MembersFinite, CpuAssumption
    <3>3. Cardinality(Members(pc, CountedLabels)) = Cardinality(CPU)
      <4>1. Cardinality(Members(pc, CountedLabels)) <= Cardinality(CPU) /\ Cardinality(CPU) \in Nat
        BY <3>2, FS_Subset, FS_CardinalityType
      <4> QED BY <1>8, <3>1, <3>2, <4>1 DEF N
    <3>4. Members(pc, CountedLabels) = CPU
      BY <3>2, <3>3, FS_Subset
    <3> QED BY <3>4 DEF Members
  <2>3. pc[d] \notin {"exit", "blocked", "normal", "drain", "resync"}
    BY <2>2 DEF CountedLabels, ApLabels, BspLabels
  <2> QED BY <1>1, <1>4, <1>5, <1>8, <2>1, <2>3 DEF StaysOut, CalledPhases, InSyncPhases
<1> QED BY <1>6, <1>7, <1>8

(* The second time-out is over: every processor has taken the IPI.         *)
LEMMA StayOutSecondWait ==
  ASSUME RunInv, AllStayOut, NEW b \in CPU, SecondWait(b)
  PROVE  AllStayOut'
<1> SUFFICES ASSUME Gathers, NEW d \in CPU
             PROVE  StaysOut(Phase', pc'[d], pending'[d], AllCpusInSync')
  BY DEF AllStayOut, Gathers, SecondWait
<1>1. /\ Step(b, "arrivingAgain", "sync") /\ UNCHANGED <<BspIndex, mode, AllCpusInSync, pending>>
      /\ AllCpusInSmm \/ SecondTimeout
  BY DEF SecondWait
<1>2. /\ Phase = "arrivingAgain" /\ Phase' = "sync" /\ pc'[b] = "sync"
      /\ \A e \in CPU \ {b} : pc'[e] = pc[e]
  <2>1. "arrivingAgain" \in BspLabels /\ "sync" \in BspLabels
    BY DEF BspLabels
  <2> QED BY <1>1, <2>1, BspPhase DEF RunInv
<1>3. StaysOut("arrivingAgain", pc[d], pending[d], AllCpusInSync)
  BY <1>2 DEF AllStayOut
<1>4. pc[d] # "normal"
  <2>1. CASE SecondTimeout
    BY <2>1 DEF SecondTimeout, At
  <2>2. CASE \A e \in CPU : Present[e]
    BY <2>2 DEF RunInv, Rendezvous, Settled, PresentLabels, ApLabels, BspLabels
  <2>3. CASE Counter = N
    <3>1. Counter = Cardinality(Members(pc, CountedLabels))
      <4>1. "arrivingAgain" \notin LockingPhases \cup LockedPhases
        BY DEF LockingPhases, LockedPhases
      <4> QED BY <1>2, <4>1 DEF RunInv, Rendezvous, CountsAgree
    <3>2. Members(pc, CountedLabels) = CPU
      BY <2>3, <3>1, MembersFinite, CpuAssumption, FS_Subset DEF N
    <3>3. pc[d] \in CountedLabels
      BY <3>2 DEF Members
    <3> QED BY <3>3 DEF CountedLabels, ApLabels, BspLabels
  <2> QED BY <1>1, <2>1, <2>2, <2>3 DEF AllCpusInSmm
<1>5. CASE d = b
  BY <1>2, <1>5 DEF StaysOut, CalledPhases, InSyncPhases
<1>6. CASE d # b
  BY <1>1, <1>2, <1>3, <1>4, <1>6 DEF StaysOut, CalledPhases, InSyncPhases
<1> QED BY <1>5, <1>6

(* No time-out ends while a processor gives up or misses AllCpusInSync.    *)
LEMMA StayOutFirstWait ==
  ASSUME RunInv, AllStayOut, NEW b \in CPU, FirstWait(b), Stalls = FALSE
  PROVE  AllStayOut'
<1> SUFFICES ASSUME Gathers, NEW d \in CPU
             PROVE  StaysOut(Phase', pc'[d], pending'[d], AllCpusInSync')
  BY DEF AllStayOut, Gathers, FirstWait
<1>1. Step(b, "arriving", "ipi") /\ UNCHANGED <<BspIndex, AllCpusInSync>> /\ Prompt
  BY DEF FirstWait
<1>2. "arriving" \in BspLabels /\ "ipi" \in BspLabels
  BY DEF BspLabels
<1>3. Phase' = "ipi" /\ pc'[b] = "ipi" /\ \A e \in CPU \ {b} : pc'[e] = pc[e]
  BY <1>1, <1>2, BspPhase DEF RunInv
<1>4. pc[d] \notin {"giveUp", "resync"} /\ (pc[d] = "drain" => AllCpusInSync)
  BY <1>1 DEF Prompt, At
<1>5. CASE d = b
  BY <1>3, <1>5 DEF StaysOut, CalledPhases, InSyncPhases
<1>6. CASE d # b
  BY <1>1, <1>3, <1>4, <1>6 DEF StaysOut, CalledPhases, InSyncPhases
<1> QED BY <1>5, <1>6

LEMMA StayOutSyncOn ==
  ASSUME RunInv, AllStayOut, NEW b \in CPU, SyncOn(b)
  PROVE  AllStayOut'
<1> SUFFICES ASSUME Gathers, NEW d \in CPU
             PROVE  StaysOut(Phase', pc'[d], pending'[d], AllCpusInSync')
  BY DEF AllStayOut, Gathers, SyncOn
<1>1. Step(b, "sync", "lock") /\ UNCHANGED <<BspIndex, pending>> /\ AllCpusInSync' = TRUE
  BY DEF SyncOn
<1>2. "sync" \in BspLabels /\ "lock" \in BspLabels
  BY DEF BspLabels
<1>3. /\ Phase = "sync" /\ Phase' = "lock" /\ pc'[b] = "lock"
      /\ \A e \in CPU \ {b} : pc'[e] = pc[e]
  BY <1>1, <1>2, BspPhase DEF RunInv
<1>4. StaysOut("sync", pc[d], pending[d], AllCpusInSync)
  BY <1>3 DEF AllStayOut
<1>5. CASE d = b
  BY <1>1, <1>3, <1>5 DEF StaysOut, CalledPhases, InSyncPhases
<1>6. CASE d # b
  BY <1>1, <1>3, <1>4, <1>6 DEF StaysOut, CalledPhases, InSyncPhases
<1> QED BY <1>5, <1>6

LEMMA StayOutHandler ==
  ASSUME RunInv, AllStayOut, NEW b \in CPU, BspStep(b), Stalls = FALSE
  PROVE  AllStayOut'
<1> USE DEF BspLabels, CalledPhases, InSyncPhases
<1>1. CASE FlagPresence(b)
  BY <1>1, StayOutBsp DEF FlagPresence
<1>2. CASE ClearTopLevelSmiStatus(b)
  <2>1. CASE Gathers
    BY <1>2, <2>1, StayOutBsp DEF ClearTopLevelSmiStatus
  <2>2. CASE ~Gathers
    BY <1>2, <2>2 DEF ClearTopLevelSmiStatus, AllStayOut, Gathers
  <2> QED BY <2>1, <2>2
<1>3. CASE LockdownSemaphore(b)
  <2>1. CASE Gathers
    BY <1>3, <2>1, StayOutBsp DEF LockdownSemaphore
  <2>2. CASE ~Gathers
    BY <1>3, <2>2 DEF LockdownSemaphore, AllStayOut, Gathers
  <2> QED BY <2>1, <2>2
<1>4. CASE WaitForAllAPs(b, "gather", IF needMtrrs THEN "backup" ELSE "acquire")
  BY <1>4, StayOutBsp DEF WaitForAllAPs
<1>5. CASE WaitForAllAPs(b, "backedUp", "program") \/ WaitForAllAPs(b, "programmed", "acquire")
  BY <1>5, StayOutBsp DEF WaitForAllAPs
<1>6. CASE BackupMtrrs(b) \/ ProgramMtrrs(b)
  BY <1>6, StayOutBsp DEF BackupMtrrs, ProgramMtrrs, MtrrRound
<1>7. CASE AcquireBusy(b)
  BY <1>7, StayOutBsp DEF AcquireBusy
<1>8. CASE StartupDone(b)
  BY <1>8, StayOutBsp DEF StartupDone
<1>9. CASE EndHandlers(b)
  <2>1. CASE Gathers
    BY <1>9, <2>1, StayOutBsp DEF EndHandlers
  <2>2. CASE ~Gathers
    BY <1>9, <2>2 DEF EndHandlers, AllStayOut, Gathers
  <2> QED BY <2>1, <2>2
<1>10. CASE AllPresent(b)
  BY <1>10, StayOutBsp DEF AllPresent
<1>11. CASE QuitSmm(b)
  BY <1>11, StayOutBsp DEF QuitSmm
<1>12. CASE WaitForAllAPs(b, "released", IF needMtrrs THEN "restore" ELSE "dismiss")
  BY <1>12, StayOutBsp DEF WaitForAllAPs
<1>13. CASE RestoreMtrrs(b)
  BY <1>13, StayOutBsp DEF RestoreMtrrs, MtrrRound
<1>14. CASE WaitForAllAPs(b, "restored", "dismiss") \/ WaitForAllAPs(b, "dismissed", "reset")
  BY <1>14, StayOutBsp DEF WaitForAllAPs
<1>15. CASE Dismiss(b)
  BY <1>15, StayOutBsp DEF Dismiss
<1>16. CASE ResetCounter(b)
  <2>1. BspIndex = b
    BY <1>16 DEF RunInv, OneBsp, ResetCounter, Step
  <2>2. \A d \in CPU : pc'[d] \notin BspLabels
    BY <1>16, <2>1 DEF RunInv, OneBsp, ResetCounter, Step, TypeOK
  <2>3. Phase' = "none"
    BY <1>16, <2>2 DEF Phase, ResetCounter, RunInv, TypeOK
  <2> QED BY <2>3, StayOutElsewhere
<1>17. CASE SyncOff(b)
  <2>1. Step(b, "resync", "drain") /\ pc[b] = "resync" /\ UNCHANGED <<BspIndex, mode>>
    BY <1>17 DEF SyncOff, Step
  <2>2. CASE Gathers
    <3>1. StaysOut(Phase, "resync", pending[b], AllCpusInSync)
      BY <2>1, <2>2 DEF AllStayOut
    <3>2. Phase \notin {"ipi"} \cup CalledPhases
      BY <3>1 DEF StaysOut
    <3>3. Phase' = Phase
      BY <2>1, FollowerPhase DEF RunInv
    <3> QED BY <3>2, <3>3, StayOutElsewhere
  <2>3. CASE ~Gathers
    BY <2>1, <2>3 DEF AllStayOut, Gathers
  <2> QED BY <2>2, <2>3
<1> QED
  BY <1>1, <1>2, <1>3, <1>4, <1>5, <1>6, <1>7, <1>8, <1>9, <1>10, <1>11, <1>12, <1>13, <1>14, <1>15,
     <1>16, <1>17, StayOutFirstWait, StayOutIpis, StayOutSecondWait, StayOutSyncOn, Zenon DEF BspStep

LEMMA StayOutAp ==
  ASSUME RunInv, AllStayOut, NEW c \in CPU, ApStep(c)
  PROVE  AllStayOut'
<1> USE DEF BspLabels, StaysOut
<1>1. ~InsideSmm => Phase \notin {"ipi"} \cup CalledPhases
  BY DEF RunInv, Rendezvous, Settled, InsidePhases, CalledPhases
<1>2. CASE BspIsInside(c)
  <2>1. PICK from \in {"wait", "waitAgain"} : Step(c, from, "flag")
    BY <1>2 DEF BspIsInside, Step
  <2> QED BY <1>2, <2>1, StayOutStep DEF BspIsInside
<1>3. CASE BspTimeout(c) \/ BspTimeoutAgain(c)
  <2>1. PICK from \in {"wait", "waitAgain"}, to \in {"giveUp", "waitAgain"} : Step(c, from, to)
    BY <1>3 DEF BspTimeout, BspTimeoutAgain
  <2>2. UNCHANGED BspIndex /\ ~InsideSmm
    BY <1>3 DEF BspTimeout, BspTimeoutAgain
  <2>3. Phase' = Phase
    BY <2>1, <2>2, FollowerPhase DEF RunInv
  <2> QED BY <1>1, <2>2, <2>3, StayOutElsewhere
<1>4. CASE GiveUp(c)
  BY <1>4, StayOutStep DEF GiveUp, CalledPhases, InSyncPhases
<1>5. CASE MarkPresence(c)
  BY <1>5, StayOutStep DEF MarkPresence
<1>6. CASE NotifyArrival(c)
  BY <1>6, StayOutStep DEF NotifyArrival
<1>7. CASE \/ ApMtrrs(c, "saveMtrrs", "loadMtrrs", "saved") \/ ApMtrrs(c, "loadMtrrs", "idle", "smm")
           \/ ApMtrrs(c, "restoreMtrrs", "ready", "os")
  BY <1>7, StayOutStep DEF ApMtrrs
<1>8. CASE WakeUp(c)
  BY <1>8, StayOutStep DEF WakeUp
<1>9. CASE RunProcedure(c)
  BY <1>9, StayOutStep DEF RunProcedure
<1>10. CASE ReleaseBusy(c)
  BY <1>10, StayOutStep DEF ReleaseBusy
<1>11. CASE NotifyExit(c)
  BY <1>11, StayOutStep DEF NotifyExit
<1>12. CASE ResetStates(c)
  BY <1>12, StayOutStep DEF ResetStates
<1>13. CASE NotifyLeft(c)
  <2>1. Step(c, "left", "drain") /\ pc[c] = "left" /\ UNCHANGED BspIndex
    BY <1>13 DEF NotifyLeft, Step
  <2>2. Phase = "dismissed"
    BY <2>1 DEF RunInv, Rendezvous, AllInStep, InStep
  <2>3. Phase' = Phase
    BY <2>1, FollowerPhase DEF RunInv
  <2> QED BY <2>2, <2>3, StayOutElsewhere DEF CalledPhases
<1> QED
  BY <1>2, <1>3, <1>4, <1>5, <1>6, <1>7, <1>8, <1>9, <1>10, <1>11, <1>12, <1>13, Zenon DEF ApStep

LEMMA StayOutUnmoved ==
  ASSUME AllStayOut, UNCHANGED <<pc, BspIndex, mode, AllCpusInSync>>,
         \A d \in CPU : pending[d] => pending'[d]
  PROVE  AllStayOut'
<1>1. Phase' = Phase
  BY DEF Phase
<1> QED BY <1>1 DEF AllStayOut, StaysOut, Gathers

LEMMA StayOutNext ==
  ASSUME RunInv, AllStayOut, Next, Stalls = FALSE
  PROVE  AllStayOut'
<1> USE DEF BspLabels, StaysOut
<1>1. CASE RaiseSmi
  BY <1>1, StayOutUnmoved DEF RaiseSmi
<1>2. ASSUME NEW c \in CPU, NEW from \in {"exit", "blocked"}, Resume(c, from)
      PROVE  AllStayOut'
  <2>1. /\ pending' = [pending EXCEPT ![c] = FALSE] /\ UNCHANGED <<BspIndex, mode, AllCpusInSync>>
        /\ pending \in [CPU -> BOOLEAN]
    BY <1>2 DEF Resume, RunInv, TypeOK
  <2>2. CASE pending[c]
    BY <1>2, <2>1, <2>2, StayOutStep DEF Resume
  <2>3. CASE ~pending[c]
    BY <1>2, <2>1, <2>3, StayOutStep DEF Resume
  <2> QED BY <2>2, <2>3
<1>3. ASSUME NEW c \in CPU, SmmStep(c)
      PROVE  AllStayOut'
  BY <1>2, <1>3, StayOutEntry, StayOutHandler, StayOutAp, Zenon DEF SmmStep, ExitSmm
<1>4. ASSUME NEW b \in CPU, HandlerCall(b)
      PROVE  AllStayOut'
  <2>1. ASSUME NEW d \in CPU, SmmSwitchBsp(b, d)
        PROVE  AllStayOut'
    BY <2>1, StayOutUnmoved DEF SmmSwitchBsp
  <2>2. ASSUME NEW d \in CPU, NEW blocking \in BOOLEAN, StartupThisAp(b, d, blocking)
        PROVE  AllStayOut'
    BY <2>2, StayOutBsp DEF StartupThisAp, CalledPhases, InSyncPhases
  <2> QED BY <1>4, <2>1, <2>2, Zenon DEF HandlerCall
<1>5. ASSUME NEW c \in CPU, EnterSmm(c)
      PROVE  AllStayOut'
  <2>1. /\ Step(c, "normal", "entry") /\ UNCHANGED <<BspIndex, mode, AllCpusInSync>>
        /\ pending' = [pending EXCEPT ![c] = FALSE] /\ pending \in [CPU -> BOOLEAN]
    BY <1>5 DEF EnterSmm, RunInv, TypeOK
  <2> QED BY <2>1, StayOutStep
<1>6. ASSUME NEW c \in CPU, Unblock(c)
      PROVE  AllStayOut'
  BY <1>2, <1>6 DEF Unblock
<1> QED BY <1>1, <1>3, <1>4, <1>5, <1>6, Zenon DEF Next

(* SmmWaitForApArrival (MpService.c): "insure when this function returns,  *)
(* no AP will execute normal mode code before entering SMM", where no      *)
(* processor stalls for a time-out between two adjacent instructions.      *)
THEOREM NobodyLeftOutside ==
  ASSUME Stalls = FALSE
  PROVE  Spec => []NoNormalCode
<1>1. Init => AllStayOut
  <2>1. Init => Phase = "none"
    <3> SUFFICES ASSUME Init
                 PROVE  Phase = "none"
      OBVIOUS
    <3>1. \A d \in CPU : pc[d] \notin BspLabels
      BY DEF Init, BspLabels
    <3>2. BspIndex \in CPU \cup {None}
      BY Zenon DEF Init
    <3> QED BY <3>1, <3>2 DEF Phase
  <2> QED BY <2>1 DEF AllStayOut, StaysOut, CalledPhases, InSyncPhases
<1>2. RunInv /\ AllStayOut /\ [Next]_vars => AllStayOut'
  BY StayOutNext, StayOutUnmoved DEF vars
<1>3. RunInv /\ AllStayOut => NoNormalCode
  <2> SUFFICES ASSUME RunInv, AllStayOut, NEW b \in CPU, Gathers, Handling(b), NEW d \in CPU
               PROVE  pc[d] # "normal"
    BY DEF NoNormalCode, At
  <2>1. Phase = pc[b]
    BY NoneAssumption DEF RunInv, OneBsp, Phase, Handling, BspLabels
  <2>2. StaysOut(Phase, pc[d], pending[d], AllCpusInSync)
    BY DEF AllStayOut
  <2> QED BY <2>1, <2>2 DEF StaysOut, CalledPhases, Handling
<1> QED BY <1>1, <1>2, <1>3, RunsInStep, PTL DEF Spec

=============================================================================
