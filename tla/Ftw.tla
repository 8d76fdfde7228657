--------------------------------- MODULE Ftw ---------------------------------
(***************************************************************************)
(* Fault tolerant write                                                    *)
(* (MdeModulePkg/Universal/FaultTolerantWriteDxe).                         *)
(*                                                                         *)
(* A block is updated by way of a spare block; headers and records in a    *)
(* write queue, in the work space of the working block, say how far the    *)
(* update has come.  Power may fail at every operation on the flash, and a *)
(* block that was being erased or written is then torn.  The driver is     *)
(* sequential: pc names the flash operation (or decision) that comes next, *)
(* ret the places its callers go on at.                                    *)
(***************************************************************************)
EXTENDS Naturals, Sequences, FiniteSetsExt

CONSTANTS
  Target,       \* the blocks callers update
  WorkTarget,   \* the data that shares the working block with the queue, or None
  BootTarget,   \* the block the processor boots from, or None
  Missing,      \* targets whose block protocol may not be installed at start
  Value,        \* contents of a block
  Torn,         \* contents after an interrupted erase or write
  Erased,       \* contents after an erase
  None,
  Size,         \* cells of the write queue; a header or a record takes one
  Counts,       \* the NumberOfWrites callers allocate
  TornOverruns, \* a torn queue may look like completed writes without end
  DeviceErrors, \* flash operations may fail without loss of power
  CallersGoOn   \* callers go on after an error that left no valid work space

HEADER_ALLOCATED  == 1
WRITES_ALLOCATED  == 2
WRITES_COMPLETED  == 4
BOOT_BLOCK_UPDATE == 1
SPARE_COMPLETED   == 2
DEST_COMPLETED    == 4

ASSUME FtwAssumption ==
  /\ WorkTarget \in Target \cup {None} /\ BootTarget \in Target \cup {None}
  /\ WorkTarget = BootTarget => WorkTarget = None
  /\ Missing \subseteq Target \ {WorkTarget, BootTarget}
  /\ None \notin Target \cup Value /\ {Torn, Erased} \cap Value = {}
  /\ Torn # Erased
  /\ Size \in Nat /\ Size >= 2
  /\ Counts \subseteq Nat \ {0}
  /\ {TornOverruns, DeviceErrors, CallersGoOn} \subseteq BOOLEAN

VARIABLES
  target,      \* contents of the targets that are blocks of their own
  spare,       \* the spare block
  work,        \* the working block
  swap,        \* the top swap bit: the spare's address selects the boot block
  pc, ret,     \* where the driver is
  hdr, rec,    \* FtwLastWriteHeader and FtwLastWriteRecord, as cells
  args,        \* the arguments of the service
  offset,      \* FtwAllocate: Offset
  image,       \* TempBuffer of FtwReclaimWorkSpace, Buffer of the boot block
  spareBuffer  \* SpareBuffer, the spare block to be restored

flash == <<target, spare, work, swap>>
ram   == <<hdr, rec, args, offset, image, spareBuffer>>
vars  == <<flash, pc, ret, ram>>

-----------------------------------------------------------------------------
(* The write queue: a header and the records it announces, and so on.  The *)
(* state byte of a header and of a record are the same byte of the cell.   *)

Blank == [flags |-> {}, writes |-> 0, target |-> None]
Empty == [p \in 0 .. Size - 1 |-> Blank]

Cell(q, p)   == IF p < Size THEN q[p] ELSE Blank
Has(q, p, f) == f \in Cell(q, p).flags

FTW_WRITE_TOTAL_SIZE(writes) == 1 + writes

(* Size stands for a chain of completed writes that runs past the queue.   *)
GetLastWriteHeader(q) ==
  LET last[p \in 0 .. Size] ==
        IF p < Size /\ Has(q, p, WRITES_COMPLETED)
          THEN LET next == p + FTW_WRITE_TOTAL_SIZE(q[p].writes)
               IN  last[IF next < Size THEN next ELSE Size]
          ELSE p
  IN  last[0]

(* Mutant: a record counts as done when its data is in the spare block.    *)
GetLastWriteRecordSpare(q, h) ==
  LET open == {i \in 1 .. Cell(q, h).writes : ~Has(q, h + i, SPARE_COMPLETED)}
  IN  IF Cell(q, h).writes = 0 THEN h + 1
        ELSE h + (IF open = {} THEN Cell(q, h).writes ELSE Min(open))

(* The first record that is not complete, or the last one.                 *)
GetLastWriteRecord(q, h) ==
  LET open == {i \in 1 .. Cell(q, h).writes : ~Has(q, h + i, DEST_COMPLETED)}
  IN  IF Cell(q, h).writes = 0 THEN h + 1
        ELSE h + (IF open = {} THEN Cell(q, h).writes ELSE Min(open))

IsFirstRecordOfWrites(h, r)   == r = h + 1
IsLastRecordOfWrites(q, h, r) == r = h + Cell(q, h).writes

(* Flash bits are programmed in one direction: flags are only added.       *)
Program(q, p, flags, writes, t) ==
  [x \in DOMAIN q |->
     IF x = p THEN [flags |-> q[x].flags \cup flags, writes |-> writes, target |-> t]
              ELSE q[x]]
UpdateFvState(q, p, flag) ==
  Program(q, p, {flag}, Cell(q, p).writes, Cell(q, p).target)

-----------------------------------------------------------------------------
(* Blocks.  A block has a work space header when it is a working block or  *)
(* an image of one; data is the rest of it.                                *)

Block(v) == [header |-> FALSE, valid |-> FALSE, invalid |-> FALSE,
             queue |-> Empty, data |-> v]

IsValidWorkSpace(b) == b.header /\ b.valid /\ ~b.invalid

(* While the top swap bit is set the spare's address is the boot block.    *)
WriteSpare(b) ==
  /\ UNCHANGED <<work, swap>>
  /\ IF swap THEN target' = [target EXCEPT ![BootTarget] = b.data] /\ UNCHANGED spare
             ELSE spare' = b /\ UNCHANGED target
WriteWork(b)      == work' = b /\ UNCHANGED <<target, spare, swap>>
WriteTarget(t, v) == target' = [target EXCEPT ![t] = v] /\ UNCHANGED <<spare, work, swap>>
WriteQueue(q)     == WriteWork([work EXCEPT !.queue = q])

-----------------------------------------------------------------------------
(* Calls.                                                                  *)

At(l)     == pc = l
Goto(l)   == pc' = l /\ UNCHANGED ret
Call(l,c) == pc' = l /\ ret' = Append(ret, c)
Return    == pc' = ret[Len(ret)] /\ ret' = SubSeq(ret, 1, Len(ret) - 1)

(* The pointers that WorkSpaceRefresh and FtwReclaimWorkSpace leave.       *)
Locate(q) ==
  /\ hdr' = GetLastWriteHeader(q)
  /\ rec' = GetLastWriteRecord(q, GetLastWriteHeader(q))

(* Mutant: the remaining space is not checked.                             *)
RefreshUnchecked(l, r) == pc' = l /\ ret' = r /\ Locate(work.queue)

(* WorkSpaceRefresh: go on at l, after a reclaim if the queue is full.     *)
Refresh(l, r) ==
  IF GetLastWriteHeader(work.queue) + 2 > Size
    THEN pc' = "reclaim" /\ ret' = Append(r, l) /\ UNCHANGED <<hdr, rec>>
    ELSE pc' = l /\ ret' = r /\ Locate(work.queue)

-----------------------------------------------------------------------------
(* FtwReclaimWorkSpace: a new work space with the unfinished write only is *)
(* written to the spare block, then flushed to the working block.          *)

Preserved(q) ==
  LET h == GetLastWriteHeader(q)
  IN  IF Has(q, h, HEADER_ALLOCATED)
        THEN [p \in 0 .. Size - 1 |-> IF p <= Cell(q, h).writes THEN Cell(q, h + p) ELSE Blank]
        ELSE Empty

StartReclaim(preserve) ==
  LET q == IF preserve THEN Preserved(work.queue) ELSE Empty
  IN  /\ image' = [header |-> preserve => work.header, valid |-> FALSE,
                   invalid |-> FALSE, queue |-> q, data |-> work.data]
      /\ Locate(q)
      /\ spareBuffer' = spare
      /\ Goto("reclaimErase")
      /\ UNCHANGED <<flash, args, offset>>

FtwReclaimWorkSpace ==
  \/ At("reclaim") /\ StartReclaim(TRUE)
  \/ At("format") /\ StartReclaim(FALSE)

ReclaimErase ==
  /\ At("reclaimErase") /\ WriteSpare(Block(Erased)) /\ Goto("reclaimWrite")
  /\ UNCHANGED ram

ReclaimWrite ==
  /\ At("reclaimWrite") /\ WriteSpare(image) /\ Goto("reclaimValid")
  /\ image' = None
  /\ UNCHANGED <<hdr, rec, args, offset, spareBuffer>>

ReclaimValid ==
  /\ At("reclaimValid") /\ WriteSpare([spare EXCEPT !.valid = TRUE])
  /\ Goto("reclaimInvalid")
  /\ UNCHANGED ram

ReclaimInvalid ==
  /\ At("reclaimInvalid") /\ WriteWork([work EXCEPT !.invalid = TRUE])
  /\ Call("flushWork", "restoreErase")
  /\ UNCHANGED ram

(* FlushSpareBlockToWorkingBlock. *)
FlushSpareValid ==
  /\ At("flushWork") /\ WriteSpare([spare EXCEPT !.valid = TRUE]) /\ Goto("workInvalid")
  /\ UNCHANGED ram

FlushWorkInvalid ==
  /\ At("workInvalid") /\ WriteWork([work EXCEPT !.invalid = TRUE]) /\ Goto("workErase")
  /\ UNCHANGED ram

FlushWorkErase ==
  /\ At("workErase") /\ WriteWork(Block(Erased)) /\ Goto("workWrite")
  /\ UNCHANGED ram

FlushWorkWrite ==
  /\ At("workWrite")
  /\ WriteWork([spare EXCEPT !.header = TRUE, !.valid = FALSE, !.invalid = FALSE])
  /\ Goto("workValid")
  /\ UNCHANGED ram

FlushWorkValid ==
  /\ At("workValid") /\ WriteWork([work EXCEPT !.valid = TRUE]) /\ Return
  /\ UNCHANGED ram

(* The end of FtwReclaimWorkSpace and of FtwWrite: the spare block gets    *)
(* back what it held.                                                      *)
RestoreErase ==
  /\ At("restoreErase") /\ WriteSpare(Block(Erased)) /\ Goto("restoreWrite")
  /\ UNCHANGED ram

RestoreWrite ==
  /\ At("restoreWrite") /\ WriteSpare(spareBuffer) /\ Return
  /\ spareBuffer' = None
  /\ UNCHANGED <<hdr, rec, args, offset, image>>

-----------------------------------------------------------------------------
(* FtwAllocate.                                                            *)

Allocate ==
  /\ At("allocate")
  /\ offset' = hdr
  /\ IF \/ FTW_WRITE_TOTAL_SIZE(args.writes) > Size
        \/ Has(work.queue, hdr, HEADER_ALLOCATED) \/ Has(work.queue, hdr, WRITES_ALLOCATED)
       THEN Return
       ELSE IF hdr + FTW_WRITE_TOTAL_SIZE(args.writes) > Size
              THEN Call("reclaim", "allocHeader")
              ELSE Goto("allocHeader")
  /\ UNCHANGED <<flash, hdr, rec, args, image, spareBuffer>>

AllocateHeader ==
  /\ At("allocHeader")
  /\ WriteQueue(Program(work.queue, offset, {HEADER_ALLOCATED}, args.writes, None))
  /\ Goto("allocWrites")
  /\ UNCHANGED ram

AllocateWrites ==
  /\ At("allocWrites")
  /\ WriteQueue(UpdateFvState(work.queue, offset, WRITES_ALLOCATED))
  /\ Return
  /\ UNCHANGED ram

-----------------------------------------------------------------------------
(* FtwWrite.  Without a header it allocates one, for one write.            *)

WriteChecks ==
  /\ At("write")
  /\ IF Cell(work.queue, hdr) = Blank
       THEN Call("allocate", "write")
       ELSE IF \/ rec - hdr > Cell(work.queue, hdr).writes
               \/ Has(work.queue, rec, DEST_COMPLETED)
               \/ Has(work.queue, rec, SPARE_COMPLETED)
              THEN Return
              ELSE Goto("writeRecord")
  /\ UNCHANGED <<flash, ram>>
(* Mutants: the spare block is not read before it is erased; the record is *)
(* written as if the data were in the spare block.                         *)
WriteRecordNoBackup ==
  /\ At("writeRecord")
  /\ WriteQueue(Program(work.queue, rec,
                        IF args.target = BootTarget THEN {BOOT_BLOCK_UPDATE} ELSE {},
                        0, args.target))
  /\ Goto("writeErase")
  /\ UNCHANGED ram

WriteRecordEarly ==
  /\ At("writeRecord")
  /\ WriteQueue(Program(work.queue, rec,
                        IF args.target = BootTarget THEN {BOOT_BLOCK_UPDATE, SPARE_COMPLETED}
                                                   ELSE {SPARE_COMPLETED},
                        0, args.target))
  /\ spareBuffer' = spare
  /\ Goto("writeErase")
  /\ UNCHANGED <<hdr, rec, args, offset, image>>

WriteRecord ==
  /\ At("writeRecord")
  /\ WriteQueue(Program(work.queue, rec,
                        IF args.target = BootTarget THEN {BOOT_BLOCK_UPDATE} ELSE {},
                        0, args.target))
  /\ spareBuffer' = spare
  /\ Goto("writeErase")
  /\ UNCHANGED <<hdr, rec, args, offset, image>>

WriteErase ==
  /\ At("writeErase") /\ WriteSpare(Block(Erased)) /\ Goto("writeSpare")
  /\ UNCHANGED ram

(* Mutant: the data is written without the rest of the block.              *)
NewContentsOnly == Block(args.value)

(* The new contents: all of the target block, with the new data. *)
NewContents ==
  IF args.target = WorkTarget THEN [work EXCEPT !.data = args.value]
                              ELSE Block(args.value)

WriteSpareBlock ==
  /\ At("writeSpare") /\ WriteSpare(NewContents) /\ Goto("spareCompleted")
  /\ UNCHANGED ram

SpareCompleted ==
  /\ At("spareCompleted")
  /\ WriteQueue(UpdateFvState(work.queue, rec, SPARE_COMPLETED))
  /\ Call("writeTarget", "restoreErase")
  /\ UNCHANGED ram

-----------------------------------------------------------------------------
(* FtwWriteRecord: flush the spare block to the block the record names.    *)

FlushToWork ==
  /\ At("writeTarget") /\ Cell(work.queue, rec).target = WorkTarget
  /\ WriteSpare([spare EXCEPT !.queue = UpdateFvState(@, rec, SPARE_COMPLETED)])
  /\ Call("flushWork", "destCompleted")
  /\ UNCHANGED ram

FlushToBoot ==
  /\ At("writeTarget") /\ Cell(work.queue, rec).target = BootTarget
  /\ Call("bootBlock", "destCompleted")
  /\ UNCHANGED <<flash, ram>>

FlushToTarget ==
  /\ At("writeTarget") /\ Cell(work.queue, rec).target \notin {WorkTarget, BootTarget}
  /\ WriteTarget(Cell(work.queue, rec).target, Erased)
  /\ Goto("targetWrite")
  /\ UNCHANGED ram

FlushTargetWrite ==
  /\ At("targetWrite") /\ WriteTarget(Cell(work.queue, rec).target, spare.data)
  /\ Goto("destCompleted")
  /\ UNCHANGED ram

(* FlushSpareBlockToBootBlock.  With the top swap bit set the processor    *)
(* boots from the spare block, and the spare's address is the boot block;  *)
(* an update that was interrupted with the bit set goes on from there.     *)
FlushSpareBlockToBootBlock ==
  /\ At("bootBlock")
  /\ image' = spare
  /\ swap' = TRUE
  /\ Goto("bootErase")
  /\ UNCHANGED <<target, spare, work, hdr, rec, args, offset, spareBuffer>>
(* Mutant: the top swap bit is cleared before the boot block is written.   *)
FlushBootEraseUnswaps ==
  /\ At("bootErase")
  /\ target' = [target EXCEPT ![BootTarget] = Erased]
  /\ swap' = FALSE
  /\ Goto("bootWrite")
  /\ UNCHANGED <<spare, work, ram>>

FlushBootErase ==
  /\ At("bootErase") /\ WriteSpare(Block(Erased)) /\ Goto("bootWrite")
  /\ UNCHANGED ram

FlushBootWrite ==
  /\ At("bootWrite") /\ WriteSpare(image) /\ Goto("bootUnswap")
  /\ image' = None
  /\ UNCHANGED <<hdr, rec, args, offset, spareBuffer>>

FlushBootUnswap ==
  /\ At("bootUnswap") /\ swap' = FALSE /\ Return
  /\ UNCHANGED <<target, spare, work, ram>>

DestCompleted ==
  /\ At("destCompleted")
  /\ WriteQueue(UpdateFvState(work.queue, rec, DEST_COMPLETED))
  /\ IF IsLastRecordOfWrites(work.queue, hdr, rec) THEN Goto("complete") ELSE Return
  /\ UNCHANGED ram

(* WRITES_COMPLETED, at the end of the last write and in FtwAbort. *)
WritesCompleted ==
  /\ At("complete")
  /\ WriteQueue(UpdateFvState(work.queue, hdr, WRITES_COMPLETED))
  /\ Return
  /\ UNCHANGED ram

-----------------------------------------------------------------------------
(* FtwRestart, FtwAbort and FtwGetLastWrite.                               *)

Restart ==
  /\ At("restart")
  /\ IF \/ Has(work.queue, hdr, WRITES_COMPLETED)
        \/ Has(work.queue, rec, DEST_COMPLETED)
        \/ ~Has(work.queue, rec, SPARE_COMPLETED)
       THEN Return
       ELSE Call("writeTarget", "eraseSpare")
  /\ UNCHANGED <<flash, ram>>

RestartEraseSpare ==
  /\ At("eraseSpare") /\ WriteSpare(Block(Erased)) /\ Return
  /\ UNCHANGED ram

Abort ==
  /\ At("abort")
  /\ IF \/ ~Has(work.queue, hdr, HEADER_ALLOCATED)
        \/ Has(work.queue, hdr, WRITES_COMPLETED)
       THEN Return
       ELSE Goto("complete")
  /\ UNCHANGED <<flash, ram>>

LastRecordCompleted ==
  /\ ~Has(work.queue, hdr, WRITES_COMPLETED)
  /\ Has(work.queue, rec, DEST_COMPLETED)
  /\ IsLastRecordOfWrites(work.queue, hdr, rec)

FirstRecordNotStarted ==
  /\ Has(work.queue, hdr, HEADER_ALLOCATED)
  /\ ~Has(work.queue, rec, SPARE_COMPLETED)
  /\ IsFirstRecordOfWrites(hdr, rec)

GetLastWrite ==
  /\ At("getLastWrite")
  /\ IF LastRecordCompleted \/ FirstRecordNotStarted
       THEN pc' = "abort" /\ UNCHANGED ret
       ELSE Return
  /\ UNCHANGED <<flash, ram>>

-----------------------------------------------------------------------------
(* InitFtwProtocol, when power comes on.                                   *)

(* A torn queue may look like a chain of completed writes without end.     *)
InitRefresh ==
  /\ At("off")
  /\ \/ Refresh("initWorkSpace", <<>>)
     \/ /\ TornOverruns /\ work = Block(Torn)
        /\ Call("reclaim", "initWorkSpace") /\ UNCHANGED <<hdr, rec>>
  /\ UNCHANGED <<flash, args, offset, image, spareBuffer>>

InitWorkSpace ==
  /\ At("initWorkSpace")
  /\ CASE IsValidWorkSpace(work)  -> Goto("initFirst")
       [] ~IsValidWorkSpace(work) /\ IsValidWorkSpace(spare)
            -> Call("flushWork", "initAbort")
       [] OTHER                   -> Call("format", "initFirst")
  /\ UNCHANGED <<flash, ram>>

InitAbort ==
  /\ \/ At("initAbort") /\ Refresh("abort", <<"initAgain">>)
     \/ At("initAgain") /\ Refresh("initFirst", <<>>)
     \/ At("initAbortLast") /\ Refresh("abort", <<"initDone">>)
  /\ UNCHANGED <<flash, args, offset, image, spareBuffer>>

InitFirst ==
  /\ At("initFirst")
  /\ IF FirstRecordNotStarted
       THEN Refresh("abort", <<"initLast">>)
       ELSE Goto("initLast") /\ UNCHANGED <<hdr, rec>>
  /\ UNCHANGED <<flash, args, offset, image, spareBuffer>>

InitLast ==
  /\ At("initLast")
  /\ IF LastRecordCompleted
       THEN Refresh("abort", <<"initTail">>)
       ELSE Goto("initTail") /\ UNCHANGED <<hdr, rec>>
  /\ UNCHANGED <<flash, args, offset, image, spareBuffer>>

(* Mutant: an interrupted write is not restarted.                          *)
InitTailNoRestart == At("initTail") /\ Goto("initDone") /\ UNCHANGED <<flash, ram>>

(* What follows the last header and its records must be erased. *)
InitTail ==
  LET used == IF Cell(work.queue, hdr).flags = {} THEN 0
                ELSE FTW_WRITE_TOTAL_SIZE(Cell(work.queue, hdr).writes)
  IN  /\ At("initTail")
      /\ IF \A p \in hdr + used .. Size - 1 : work.queue[p] = Blank
           THEN Goto("initRestart")
           ELSE Call("reclaim", "initRestart")
      /\ UNCHANGED <<flash, ram>>

InitRestart ==
  LET t       == Cell(work.queue, rec).target
      isBoot  == Has(work.queue, rec, BOOT_BLOCK_UPDATE)
      pending == /\ ~Has(work.queue, hdr, WRITES_COMPLETED)
                 /\ Has(work.queue, rec, SPARE_COMPLETED)
  IN  /\ At("initRestart")
      /\ \/ /\ ~pending
            /\ Goto("initDone") /\ UNCHANGED <<hdr, rec>>
         \/ /\ pending /\ isBoot /\ BootTarget # None
            /\ Call("bootBlock", "initAbortLast") /\ UNCHANGED <<hdr, rec>>
         \/ /\ pending /\ isBoot /\ BootTarget = None
            /\ Refresh("abort", <<"initDone">>)
         \/ /\ pending /\ ~isBoot
            /\ Refresh("restart", <<"initAbortLast">>)
         \/ /\ pending /\ ~isBoot /\ t \in Missing
            /\ Refresh("abort", <<"initDone">>)
      /\ UNCHANGED <<flash, args, offset, image, spareBuffer>>

-----------------------------------------------------------------------------
(* The services.  Their callers are sequential, wait for the driver to     *)
(* start, repeat an unfinished write with the same block (the GetLastWrite *)
(* protocol of UpdateDriverDxe), abort no write whose data is in the spare *)
(* block, and, unless CallersGoOn, stop after a device error that left no  *)
(* valid work space.                                                       *)

Idle == At("idle") /\ (CallersGoOn \/ IsValidWorkSpace(work))

LastRecord == GetLastWriteRecord(work.queue, GetLastWriteHeader(work.queue))
Unfinished == /\ Has(work.queue, LastRecord, SPARE_COMPLETED)
              /\ ~Has(work.queue, LastRecord, DEST_COMPLETED)

Service(l, t, v, n) ==
  /\ Idle
  /\ args' = [target |-> t, value |-> v, writes |-> n]
  /\ Refresh(l, <<"done">>)
  /\ UNCHANGED <<flash, offset, image, spareBuffer>>

FtwAllocate(n)  == Service("allocate", None, None, n)

FtwWrite(t, v)  ==
  /\ Cell(work.queue, LastRecord).target \in {t, None}
  /\ Service("write", t, v, 1)

FtwRestart      ==
  /\ Cell(work.queue, LastRecord).target # None
  /\ Service("restart", None, None, 0)

FtwAbort        == ~Unfinished /\ Service("abort", None, None, 0)

FtwGetLastWrite == Service("getLastWrite", None, None, 0)

(* A service or the initialisation is over, and its variables with it.     *)
Forget ==
  /\ hdr' = 0 /\ rec' = 0 /\ args' = None /\ offset' = 0
  /\ image' = None /\ spareBuffer' = None

Done ==
  /\ At("done") \/ At("initDone")
  /\ Goto("idle") /\ Forget
  /\ UNCHANGED flash

-----------------------------------------------------------------------------
(* Failures.  An interrupted erase or write of a block leaves it torn; the *)
(* single bytes and entries of the queue are written or not.               *)

SpareWrites == {"reclaimErase", "reclaimWrite", "writeErase", "writeSpare",
                "restoreErase", "restoreWrite", "eraseSpare", "bootErase", "bootWrite"}
BlockWrites == {"workErase", "workWrite", "targetWrite"}
ByteWrites  == {"reclaimValid", "reclaimInvalid", "workInvalid", "workValid",
                "allocHeader", "allocWrites", "writeRecord", "spareCompleted",
                "bootBlock", "bootUnswap", "destCompleted", "complete"}

Interrupted ==
  \/ UNCHANGED flash
  \/ pc \in SpareWrites /\ WriteSpare(Block(Torn))
  \/ pc \in {"workErase", "workWrite"} /\ WriteWork(Block(Torn))
  \/ /\ \/ At("targetWrite")
        \/ At("writeTarget") /\ Cell(work.queue, rec).target \notin {WorkTarget, BootTarget}
     /\ WriteTarget(Cell(work.queue, rec).target, Torn)

PowerFailure ==
  /\ pc # "off"
  /\ Interrupted
  /\ pc' = "off" /\ ret' = <<>>
  /\ Forget

(* The flash operation of a service fails, and the service with it.        *)
DeviceError ==
  /\ DeviceErrors
  /\ ret # <<>> /\ ret[1] = "done"
  /\ pc \in SpareWrites \cup BlockWrites \cup ByteWrites \cup {"writeTarget"}
  /\ Interrupted
  /\ pc' = "done" /\ ret' = <<>>
  /\ UNCHANGED ram

-----------------------------------------------------------------------------
Init ==
  /\ target \in [Target \ {WorkTarget} -> Value]
  /\ \E v \in Value : work = Block(v)
  /\ spare = Block(Erased)
  /\ swap = FALSE
  /\ pc = "off" /\ ret = <<>>
  /\ hdr = 0 /\ rec = 0 /\ args = None /\ offset = 0
  /\ image = None /\ spareBuffer = None

DriverStep ==
  \/ FtwReclaimWorkSpace \/ ReclaimErase \/ ReclaimWrite \/ ReclaimValid \/ ReclaimInvalid
  \/ FlushSpareValid \/ FlushWorkInvalid \/ FlushWorkErase \/ FlushWorkWrite \/ FlushWorkValid
  \/ RestoreErase \/ RestoreWrite
  \/ Allocate \/ AllocateHeader \/ AllocateWrites
  \/ WriteChecks \/ WriteRecord \/ WriteErase \/ WriteSpareBlock \/ SpareCompleted
  \/ FlushToWork \/ FlushToBoot \/ FlushToTarget \/ FlushTargetWrite
  \/ FlushSpareBlockToBootBlock \/ FlushBootErase \/ FlushBootWrite \/ FlushBootUnswap
  \/ DestCompleted \/ WritesCompleted
  \/ Restart \/ RestartEraseSpare \/ Abort \/ GetLastWrite
  \/ InitRefresh \/ InitWorkSpace \/ InitAbort \/ InitFirst \/ InitLast \/ InitTail
  \/ InitRestart
  \/ Done

Request ==
  \/ \E n \in Counts : FtwAllocate(n)
  \/ \E t \in Target, v \in Value : FtwWrite(t, v)
  \/ FtwRestart \/ FtwAbort \/ FtwGetLastWrite

Next == DriverStep \/ Request \/ PowerFailure \/ DeviceError

Spec == Init /\ [][Next]_vars

(* For liveness: the driver runs while there is power, and after some time *)
(* power does not fail any more.                                           *)
LiveSpec == Spec /\ WF_vars(DriverStep) /\ <>[][~PowerFailure]_vars

-----------------------------------------------------------------------------
(* Correctness.                                                            *)

Cells  == [flags : SUBSET {1, 2, 4}, writes : Counts \cup {0, 1}, target : Target \cup {None}]
Blocks == [header : BOOLEAN, valid : BOOLEAN, invalid : BOOLEAN,
           queue : [0 .. Size - 1 -> Cells], data : Value \cup {Torn, Erased}]

ASSUME NoneIsNoBlock   == None \notin Blocks
ASSUME NoneIsNoRequest == None \notin [target : Target, value : Value]

(* The flash and the driver's variables have their types.                  *)
TypeOK ==
  /\ target \in [Target \ {WorkTarget} -> Value \cup {Torn, Erased}]
  /\ spare \in Blocks /\ work \in Blocks /\ swap \in BOOLEAN
  /\ hdr \in 0 .. Size /\ rec \in Nat /\ offset \in 0 .. Size
  /\ args = None \/ args \in [target : Target \cup {None}, value : Value \cup {None},
                              writes : Counts \cup {0, 1}]
  /\ image = None \/ image \in Blocks
  /\ spareBuffer = None \/ spareBuffer \in Blocks

(* A record or a header the driver writes is within the queue: the check   *)
(* of RemainingSpaceSize in WorkSpaceRefresh and the one of FtwAllocate    *)
(* leave room for every single write that is let through.                  *)
WritesStayInQueue ==
  /\ pc \in {"allocHeader", "allocWrites"} =>
       offset + FTW_WRITE_TOTAL_SIZE(args.writes) <= Size
  /\ pc \in {"writeRecord", "spareCompleted", "writeTarget", "destCompleted"} =>
       rec < Size

(* FlushSpareBlockToBootBlock sets the top swap bit before it erases the   *)
(* boot block and clears it when the block is written: whenever power      *)
(* fails, the processor has an intact block to boot from.                  *)
BootBlockIntact ==
  BootTarget # None => (IF swap THEN spare.data ELSE target[BootTarget]) \in Value

(* InitFtwProtocol ends with no write left whose data is only in the spare *)
(* block: callers find every update completed or not begun.                *)
RecoveryCompletes == At("initDone") => ~Unfinished

(* The records of a series are written in their order: one is begun only   *)
(* when the one before it has reached its target, across any restart, so   *)
(* the spare block never holds the data of two of them.  A record that was *)
(* begun names its block; a header that FtwAllocate put among the records  *)
(* to come, at an Offset from before its reclaim, names none.              *)
SeriesInOrder ==
  LET h == GetLastWriteHeader(work.queue)
  IN  \A i \in 1 .. Cell(work.queue, h).writes - 1 :
        Cell(work.queue, h + i + 1).target # None => Has(work.queue, h + i, DEST_COMPLETED)

(* What a reader of a block gets: the data of an unfinished write is read  *)
(* from the spare block, and so is the working block while it is invalid.  *)
Pending ==
  IF IsValidWorkSpace(work) /\ Unfinished THEN Cell(work.queue, LastRecord).target ELSE None

Contents ==
  [t \in Target |->
     IF \/ Pending = t
        \/ t = WorkTarget /\ ~IsValidWorkSpace(work) /\ IsValidWorkSpace(spare)
       THEN spare.data
       ELSE IF t = WorkTarget THEN work.data ELSE target[t]]

WriteBegun ==
  \/ pc \in {"write", "writeRecord", "writeErase", "writeSpare", "spareCompleted"}
  \/ \E i \in DOMAIN ret : ret[i] = "write"

Updates == INSTANCE BlockUpdate WITH
  contents <- Contents,
  request  <- IF WriteBegun THEN [target |-> args.target, value |-> args.value] ELSE None

(* FtwWrite: "ensuring at all times that either the original contents or   *)
(* the modified contents are available" (FaultTolerantWrite.c:288): the    *)
(* driver implements the atomic update of blocks.  A block changes only by *)
(* the write in progress, as a whole, when SPARE_COMPLETED is written, and *)
(* no failure takes it back.                                               *)
UpdatesAreAtomic == Updates!Spec

(* "Since the content has already backuped in spare block, the write is    *)
(* guaranteed to be completed with fault tolerant manner"                  *)
(* (FaultTolerantWrite.c:581): once power stays on, what the spare block   *)
(* holds for a target gets there.                                          *)
WritesAreCompleted == \A t \in Target : Pending = t ~> Pending # t
=============================================================================
