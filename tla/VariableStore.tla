---------------------------- MODULE VariableStore ----------------------------
(* The non-volatile variables of RuntimeDxe/Variable.c: a log of records   *)
(* in flash whose state bytes only ever lose bits, and its copy in memory. *)
(* A variable is replaced by marking its record, appending the new one in  *)
(* four writes, and deleting the old; power may fail and the flash may     *)
(* refuse a write at each.  A full log is rewritten through the fault      *)
(* tolerant write protocol, which promises what BlockUpdate says, so that  *)
(* Reclaim replaces the log in one step.                                   *)
EXTENDS Naturals, SequencesExt, FiniteSetsExt

CONSTANTS
  Name,         \* the names of variables
  Value,        \* their data
  Absent,       \* no data: the variable does not exist, or is to be deleted
  None,
  Space,        \* CommonVariableSpace, in halves of a record
  RuntimeSpace, \* CommonRuntimeVariableSpace
  Excess        \* {"twice"}: what Whole excludes happens too

ASSUME SpaceAssumption ==
  /\ Space \in Nat /\ RuntimeSpace \in Nat /\ RuntimeSpace <= Space
  /\ None \notin Value /\ Absent \notin Value
  /\ None \notin [target : Name, value : Value \cup {Absent}]

VARIABLES
  flash,      \* the records of the store, in order
  debris,     \* the area behind them is not blank
  cache,      \* mNvVariableCache: the records up to NonVolatileLastVariableOffset
  atRuntime,  \* the boot services have ended
  Reclaimed,  \* ReclaimForOS has run
  pc,         \* the next write of UpdateVariable, or "idle", or "start" and "init" of a boot
  op,         \* the arguments of SetVariable
  CurrPtr,    \* FindVariable's results, positions in the log; 0 for NULL
  InDeletedTransitionPtr

found == <<CurrPtr, InDeletedTransitionPtr>>
boot == <<atRuntime, Reclaimed>>
vars == <<flash, debris, cache, boot, pc, op, found>>

(* Nothing reads the name and data of a record that is deleted.            *)
Deleted == [name |-> None, value |-> None, state |-> "deleted"]

(* A header is half of a record; one whose state was never written reads   *)
(* as a record without name and data.                                      *)
Total(log) ==
  LET Headers == {i \in DOMAIN log : log[i].state = "header"}
  IN Cardinality(Headers) + 2 * Cardinality(DOMAIN log \ Headers)

-----------------------------------------------------------------------------
(* FindVariable.                                                           *)

At(log, n, state) == {i \in DOMAIN log : log[i].name = n /\ log[i].state = state}

(* The first record that is added, else the last that is in the transition *)
(* to deleted.                                                             *)
Found(log, n) ==
  IF At(log, n, "added") # {} THEN Min(At(log, n, "added"))
  ELSE Max({0} \cup At(log, n, "inDeleted"))

(* The last in transition before the one that is added.                    *)
FoundInDeleted(log, n) ==
  IF At(log, n, "added") = {} THEN 0
  ELSE Max({0} \cup {i \in At(log, n, "inDeleted") : i < Found(log, n)})

Lookup(log, n) == IF Found(log, n) = 0 THEN Absent ELSE log[Found(log, n)].value

-----------------------------------------------------------------------------
(* Reclaim.                                                                *)

(* Mutant: the records in transition are kept next to those added.         *)
ValidBufferDouble(log, updating, updatingInDeleted) ==
  SelectSeq(log, LAMBDA r : r.state \in {"added", "inDeleted"})

Kept(log, updating) == {i \in DOMAIN log \ {updating} : log[i].state = "added"}

(* Of the records in transition whose names have none that is kept, the    *)
(* first of each name.                                                     *)
Promoted(log, updating, updatingInDeleted) ==
  LET Orphans == {i \in DOMAIN log \ {updating, updatingInDeleted} :
                    /\ log[i].state = "inDeleted"
                    /\ \A k \in Kept(log, updating) : log[k].name # log[i].name}
  IN {i \in Orphans : \A j \in Orphans : log[j].name = log[i].name => i <= j}

(* The positions, first to last.                                           *)
InOrder(positions) ==
  CHOOSE e \in [1 .. Cardinality(positions) -> positions] :
    \A k, l \in DOMAIN e : k < l => e[k] < e[l]

(* The records that are added, but for the one that is updated; then those *)
(* in transition, promoted.                                                *)
ValidBuffer(log, updating, updatingInDeleted) ==
  LET kept == InOrder(Kept(log, updating))
      promoted == InOrder(Promoted(log, updating, updatingInDeleted))
  IN [k \in DOMAIN kept |-> log[kept[k]]]
       \o [k \in DOMAIN promoted |-> [log[promoted[k]] EXCEPT !.state = "added"]]

NewVariable(state) == [name |-> op.target, value |-> op.value, state |-> state]

(* The log is replaced, in flash and in memory.                            *)
Reclaim(log) == flash' = log /\ cache' = log /\ debris' = FALSE

-----------------------------------------------------------------------------
(* SetVariable and UpdateVariable.                                         *)

CommonSpace == IF atRuntime THEN RuntimeSpace ELSE Space
Room == Total(cache) + 2 <= CommonSpace
Buffer == ValidBuffer(flash, CurrPtr, InDeletedTransitionPtr)

(* Mutant: only one of two records is deleted.                             *)
DeletePathShort(inDeleted) == "delete"

(* Of two records of the variable the one in transition goes first.        *)
DeletePath(inDeleted) == IF inDeleted # 0 THEN "deleteInDeleted" ELSE "delete"

(* Unless the instance has "twice", an update that finds two records of    *)
(* its variable is not cut short between its mark and the first delete: it *)
(* would leave two records in transition, of which Reclaim promotes the    *)
(* wrong one and DeletePath deletes one.                                   *)
Whole ==
  "twice" \in Excess \/ ~(/\ op # None /\ InDeletedTransitionPtr # 0
                         /\ op.value # Absent /\ pc \notin {"mark", "delete"})

(* Deleting what does not exist, and setting the data it has already,      *)
(* return at once.  Unless the instance has "twice", an update that finds  *)
(* two records finds room.                                                 *)
SetVariable(n, v) ==
  /\ pc = "idle" /\ Lookup(cache, n) # v
  /\ CurrPtr' = Found(cache, n) /\ InDeletedTransitionPtr' = FoundInDeleted(cache, n)
  /\ \/ "twice" \in Excess \/ v = Absent \/ InDeletedTransitionPtr' = 0 \/ Room
     \/ ~atRuntime /\ Total(ValidBuffer(flash, CurrPtr', InDeletedTransitionPtr')) + 2 <= Space
  /\ op' = [target |-> n, value |-> v]
  /\ pc' = IF v = Absent THEN DeletePath(InDeletedTransitionPtr')
           ELSE IF CurrPtr' # 0 THEN "mark" ELSE "space"
  /\ UNCHANGED <<flash, debris, cache, boot>>

Return == pc' = "idle" /\ op' = None /\ CurrPtr' = 0 /\ InDeletedTransitionPtr' = 0

(* UpdateVariableStore on the state byte of a record, then the same in the *)
(* copy.                                                                   *)
SetState(i, record) ==
  /\ flash' = [flash EXCEPT ![i] = record]
  /\ cache' = [cache EXCEPT ![i] = record]
  /\ UNCHANGED <<debris, boot>>

MarkInDeleted ==
  /\ pc = "mark" /\ SetState(CurrPtr, [cache[CurrPtr] EXCEPT !.state = "inDeleted"])
  /\ pc' = "space" /\ UNCHANGED <<op, found>>

EnoughSpace ==
  /\ pc = "space" /\ Room
  /\ pc' = "header" /\ UNCHANGED <<flash, debris, cache, boot, op, found>>

(* EFI_OUT_OF_RESOURCES, with the old record marked.                       *)
OutOfResources ==
  /\ pc = "space" /\ ~Room /\ atRuntime
  /\ Return /\ UNCHANGED <<flash, debris, cache, boot>>

ReclaimWithNew ==
  /\ pc = "space" /\ ~Room /\ ~atRuntime
  /\ Total(Buffer) + 2 <= Space
  /\ Reclaim(Append(Buffer, NewVariable("added")))
  /\ Return /\ UNCHANGED boot

(* The copy, in which the new log was built, is read back.                 *)
ReclaimRefused ==
  /\ pc = "space" /\ ~Room /\ ~atRuntime
  /\ Total(Buffer) + 2 > Space
  /\ cache' = flash
  /\ Return /\ UNCHANGED <<flash, debris, boot>>

(* Steps 1 to 4.                                                           *)
WriteHeader ==
  /\ pc = "header"
  /\ flash' = Append(flash, [NewVariable("header") EXCEPT !.value = None])
  /\ pc' = "valid" /\ UNCHANGED <<debris, cache, boot, op, found>>

WriteHeaderValid ==
  /\ pc = "valid"
  /\ flash' = [flash EXCEPT ![Len(flash)].state = "headerValid"]
  /\ pc' = "data" /\ UNCHANGED <<debris, cache, boot, op, found>>

WriteData ==
  /\ pc = "data"
  /\ flash' = [flash EXCEPT ![Len(flash)].value = op.value]
  /\ pc' = "added" /\ UNCHANGED <<debris, cache, boot, op, found>>

WriteAdded ==
  /\ pc = "added"
  /\ flash' = [flash EXCEPT ![Len(flash)].state = "added"]
  /\ cache' = Append(cache, NewVariable("added"))
  /\ IF CurrPtr = 0 THEN Return
     ELSE pc' = DeletePath(InDeletedTransitionPtr) /\ UNCHANGED <<op, found>>
  /\ UNCHANGED <<debris, boot>>

DeleteInDeleted ==
  /\ pc = "deleteInDeleted" /\ SetState(InDeletedTransitionPtr, Deleted)
  /\ pc' = "delete" /\ UNCHANGED <<op, found>>

DeleteCurr ==
  /\ pc = "delete" /\ SetState(CurrPtr, Deleted)
  /\ Return

(* The flash refuses a write, or the fault tolerant write protocol does,   *)
(* and SetVariable returns the error.  A refusal in steps 2 to 4 is not    *)
(* modelled: the next record would be written over the one that is there.  *)
WriteFails ==
  /\ Whole
  /\ \/ pc \in {"mark", "header", "deleteInDeleted", "delete"}
     \/ pc = "space" /\ ~Room /\ ~atRuntime
  /\ Return /\ UNCHANGED <<flash, debris, cache, boot>>

-----------------------------------------------------------------------------
(* From boot to boot.                                                      *)

(* A header of which power cut short the write is blank, has no StartId to *)
(* be recognized by, or lacks its state only; of the other writes all but  *)
(* that of the data, which are not looked at yet, change one bit.          *)
PowerFailure ==
  /\ pc # "start" /\ Whole
  /\ \/ UNCHANGED <<flash, debris>>
     \/ pc = "header" /\ debris' = TRUE /\ UNCHANGED flash
  /\ cache' = <<>> /\ atRuntime' = FALSE /\ Reclaimed' = FALSE
  /\ pc' = "start" /\ op' = None /\ CurrPtr' = 0 /\ InDeletedTransitionPtr' = 0

InitNonVolatileVariableStore ==
  /\ pc = "start"
  /\ cache' = flash /\ pc' = "init"
  /\ UNCHANGED <<flash, debris, boot, op, found>>

(* Mutant: only what the log says is in use is looked at.                  *)
FreeAreaAssumed == TRUE

(* "Check if the free area is really free."                                *)
FreeAreaIsFree == ~debris

VariableWriteServiceInitialize ==
  /\ pc = "init"
  /\ IF FreeAreaIsFree THEN UNCHANGED <<flash, cache, debris>>
     ELSE Reclaim(ValidBuffer(flash, 0, 0))
  /\ pc' = "idle" /\ UNCHANGED <<boot, op, found>>

(* MaxVariableSize is the size of a record.                                *)
ReclaimForOS ==
  /\ pc = "idle" /\ ~atRuntime /\ ~Reclaimed
  /\ Reclaimed' = TRUE
  /\ IF Total(cache) + 2 > RuntimeSpace THEN Reclaim(ValidBuffer(flash, 0, 0))
     ELSE UNCHANGED <<flash, cache, debris>>
  /\ UNCHANGED <<atRuntime, pc, op, found>>

ExitBootServices ==
  /\ pc = "idle" /\ Reclaimed /\ ~atRuntime
  /\ atRuntime' = TRUE
  /\ UNCHANGED <<flash, debris, cache, Reclaimed, pc, op, found>>

-----------------------------------------------------------------------------
Init ==
  /\ flash = <<>> /\ cache = <<>> /\ debris = FALSE
  /\ atRuntime = FALSE /\ Reclaimed = FALSE
  /\ pc = "start" /\ op = None /\ CurrPtr = 0 /\ InDeletedTransitionPtr = 0

UpdateVariable ==
  \/ MarkInDeleted \/ EnoughSpace \/ OutOfResources \/ ReclaimWithNew \/ ReclaimRefused
  \/ WriteHeader \/ WriteHeaderValid \/ WriteData \/ WriteAdded
  \/ DeleteInDeleted \/ DeleteCurr \/ WriteFails

Next ==
  \/ \E n \in Name, v \in Value \cup {Absent} : SetVariable(n, v)
  \/ UpdateVariable
  \/ PowerFailure \/ InitNonVolatileVariableStore \/ VariableWriteServiceInitialize
  \/ ReclaimForOS \/ ExitBootServices

Spec == Init /\ [][Next]_vars

-----------------------------------------------------------------------------
(* Correctness.                                                            *)

(* The request of an update, until its new record is added or its last     *)
(* record is deleted.                                                      *)
Request ==
  IF op = None \/ (op.value # Absent /\ pc \in {"deleteInDeleted", "delete"}) THEN None ELSE op

Store == INSTANCE BlockUpdate WITH
  Target <- Name, Value <- Value \cup {Absent}, request <- Request,
  contents <- [n \in Name |-> Lookup(IF pc = "start" THEN flash ELSE cache, n)]

(* SetVariable replaces, creates or deletes a variable as a whole or not   *)
(* at all: GetVariable finds its old data until the new is there, and no   *)
(* power failure, refused write or reclaim brings an older value back.     *)
SetIsAtomic == Store!Spec

(* A record is written where the flash is blank: the offset at which       *)
(* UpdateVariable writes is the end of the log, and memory and flash hold  *)
(* the same records up to there, when the first of the writes begins.      *)
WritesLandOnBlank == pc \in {"idle", "mark", "space", "header"} => cache = flash /\ ~debris

(* EFI_OUT_OF_RESOURCES before the end of the boot services means that the *)
(* other variables and the new one do not fit: deleted, superseded and     *)
(* half-written records never take a variable's place.                     *)
RefusedOnlyWhenFull ==
  [][ReclaimRefused => 2 * Cardinality({n \in Name \ {op.target} : Lookup(flash, n) # Absent}) + 2
                         > Space]_vars
=============================================================================
