----------------------------- MODULE ExitProofs -----------------------------
(***************************************************************************)
(* The program never ends itself with one of its "Bug:" messages, and a    *)
(* read changes no data, on a device of any size with any number of        *)
(* faults.                                                                 *)
(***************************************************************************)
EXTENDS LogProofs

(* Timestamps stay clear of 0xffffffffffffffff, which the searches for the *)
(* lowest timestamp take for "none found yet".                             *)
StampsHaveRoom == \A ts \in Stamps, fake \in Fakes : ts + fake + 1 < MaxTime

(* No block has that timestamp, damaged ones included.                     *)
StampedInv == \A p \in Positions : dev[p].ts < MaxTime

(* So the first region a search for the lowest timestamp visits is chosen. *)
FoundInv ==
  /\ cur.highest < MaxTime /\ best.highest < MaxTime
  /\ pass = "stamps" => /\ end = DeviceSize
                        /\ best = NoState => i = loop_begin_orig
  /\ pc = "blocks" => pass = "scan"

(* A read that goes on has not printed limit blocks yet.                   *)
AskedInv ==
  /\ op.kind = "write" => op.ts \in Stamps /\ op.fake \in Fakes
  /\ op.limit # 0 => op.kind = "read"
  /\ pc \notin {"idle", "returned"} /\ op.limit # 0 => Len(out) < op.limit

ExitInv == StampedInv /\ FoundInv /\ AskedInv /\ NoBugExit

-----------------------------------------------------------------------------
(* The end of an operation, but for exit.                                  *)
LEMMA EndOpExit ==
  ASSUME NEW code \in Returns \ {"exit"}, EndOp(code), op' = op, AskedInv
  PROVE  FoundInv' /\ AskedInv' /\ NoBugExit'
<1>1. FoundInv'
  BY MaxTimeAssumption DEF EndOp, FoundInv, NoState
<1>2. AskedInv' /\ NoBugExit'
  BY DEF EndOp, AskedInv, NoBugExit
<1>. QED BY <1>1, <1>2

(* The highest timestamp of a region is that of one of its blocks.         *)
LEMMA StateExit ==
  ASSUME NEW d \in [Positions -> Content], NEW h \in HintPositions, NEW r \in BOOLEAN,
         validate_hintblock(d[h]) => d[h].prev \in 1..(h - 1),
         \A p \in Positions : d[p].ts < MaxTime
  PROVE  hintblock_state(d, h, r).highest < MaxTime
<1>1. h \in Nat /\ h <= DeviceSize - 1
  BY HintPositionFacts
<1>2. CASE hintblock_state(d, h, r).valid
  <2>1. d[h].prev \in Positions
    BY <1>1, <1>2, SizeAssumption DEF hintblock_state, Positions
  <2>. QED BY <1>2, <2>1 DEF hintblock_state
<1>3. CASE ~hintblock_state(d, h, r).valid
  BY <1>3, MaxTimeAssumption DEF hintblock_state
<1>. QED BY <1>2, <1>3

(* The timestamp check of write_put_block keeps a new block below MaxTime. *)
LEMMA NewBlockStamped ==
  ASSUME StampsHaveRoom, IInv, AskedInv, FoundInv, Putting, TimestampError = "none"
  PROVE  NewBlock.ts < MaxTime
<1>1. op.ts \in Stamps /\ op.fake \in Fakes
  BY DEF IInv, LocalInv, WriteInv, AskedInv
<1>0. op.ts + op.fake + 1 < MaxTime
  BY <1>1, Zenon DEF StampsHaveRoom
<1>2. op.ts \in Nat /\ op.fake \in Nat
  BY MaxTimeAssumption DEF IInv, DataType, Operations, Time
<1>3. cur.highest \in Nat /\ MaxTime \in Nat
  BY MaxTimeAssumption DEF IInv, LocalInv, LocalType, HintblockState, Time
<1>4. NewBlock.ts = Stamp(op.ts, cur.highest)
  BY DEF NewBlock, Block
<1>5. CASE cur.highest < op.ts
  BY <1>0, <1>2, <1>3, <1>4, <1>5 DEF Stamp
<1>6. CASE cur.highest >= op.ts
  <2>1. cur.highest - op.ts <= op.fake
    BY <1>2, <1>3, <1>6 DEF TimestampError
  <2>2. cur.highest + 1 < MaxTime
    BY <1>0, <1>2, <1>3, <2>1
  <2>3. (cur.highest + 1) % (MaxTime + 1) = cur.highest + 1
    BY <1>3, <2>2
  <2>. QED BY <1>4, <1>6, <2>2, <2>3 DEF Stamp
<1>. QED BY <1>2, <1>3, <1>5, <1>6

-----------------------------------------------------------------------------
(* Requests and returns: the first search of a write is not the one for    *)
(* the lowest timestamp, and nothing is printed yet.                       *)
LEMMA RequestExit ==
  ASSUME StampsHaveRoom, IInv, ExitInv, Request PROVE ExitInv'
<1>. USE DEF ExitInv
<1>1. ASSUME NEW o \in Operations, NEW p \in Passes \ {"stamps"},
             NEW refusal \in Returns \ {"exit"},
             o.kind = "write" => o.ts \in Stamps /\ o.fake \in Fakes,
             o.limit # 0 => o.kind = "read", BeginOp(o, p, refusal)
      PROVE  ExitInv'
  <2>1. StampedInv' /\ NoBugExit'
    BY <1>1 DEF BeginOp, device, StampedInv, NoBugExit
  <2>2. FoundInv'
    BY <1>1 DEF BeginOp, FoundInv, IInv, LocalInv, WriteInv
  <2>3. o.limit \in Nat
    BY DEF Operations
  <2>4. AskedInv'
    BY <1>1, <2>3 DEF BeginOp, AskedInv
  <2>. QED BY <2>1, <2>2, <2>4
<1>. USE StampsAssumption, FakesAssumption, LimitsAssumption, MaxTimeAssumption
<1>2. ASSUME NEW ts \in Stamps, NEW fake \in Fakes, NEW fits \in BOOLEAN,
             NEW app \in SUBSET Flags, bdl_write_block(ts, fake, fits, app)
      PROVE  ExitInv'
  <2>. DEFINE o == Operation("write", ts, fake, fits, app, 0)
  <2>1. o \in Operations /\ o.ts \in Stamps /\ o.fake \in Fakes /\ o.limit = 0
    BY DEF Operations, Operation, OpKinds, Time
  <2>2. BeginOp(o, "free", "ERR_CORRUPT")
    BY <1>2 DEF bdl_write_block
  <2>. HIDE DEF o
  <2>. QED BY <1>1, <2>1, <2>2 DEF Passes, Returns
<1>3. ASSUME NEW ts \in Stamps \cup {0}, NEW limit \in Limits, bdl_read_blocks(ts, limit)
      PROVE  ExitInv'
  <2>. DEFINE o == Operation("read", ts, 0, TRUE, {}, limit)
  <2>1. o \in Operations /\ o.kind = "read"
    BY DEF Operations, Operation, OpKinds, Time
  <2>2. BeginOp(o, "oldest", "ERR")
    BY <1>3 DEF bdl_read_blocks
  <2>. HIDE DEF o
  <2>. QED BY <1>1, <2>1, <2>2 DEF Passes, Returns
<1>4. ASSUME NEW ts \in Stamps \cup {0}, NEW mask \in SUBSET Flags,
             bdl_read_update_application_data(ts, mask)
      PROVE  ExitInv'
  <2>. DEFINE o == Operation("update", ts, 0, TRUE, mask, 0)
  <2>1. o \in Operations /\ o.kind = "update" /\ o.limit = 0
    BY DEF Operations, Operation, OpKinds, Time
  <2>2. BeginOp(o, "oldest", "ERR_CORRUPT")
    BY <1>4 DEF bdl_read_update_application_data
  <2>. HIDE DEF o
  <2>. QED BY <1>1, <2>1, <2>2 DEF Passes, Returns
<1>5. CASE bdl_clear_dev
  <2>. DEFINE o == Operation("clear", 0, 0, TRUE, {}, 0)
  <2>1. o \in Operations /\ o.kind = "clear" /\ o.limit = 0
    BY DEF Operations, Operation, OpKinds, Time
  <2>2. BeginOp(o, "clear", "invalid")
    BY <1>5 DEF bdl_clear_dev
  <2>. HIDE DEF o
  <2>. QED BY <1>1, <2>1, <2>2 DEF Passes, Returns
<1>6. CASE Return
  <2>1. StampedInv' /\ NoBugExit'
    BY <1>6 DEF Return, device, StampedInv, NoBugExit
  <2>2. FoundInv'
    BY <1>6 DEF Return, locals, FoundInv
  <2>3. AskedInv'
    BY <1>6 DEF Return, AskedInv, NoOp, Operation
  <2>. QED BY <2>1, <2>2, <2>3
<1>. QED BY <1>2, <1>3, <1>4, <1>5, <1>6 DEF Request

-----------------------------------------------------------------------------
(* A step within an operation that changes neither the device nor what it  *)
(* has printed.                                                            *)
LEMMA InnerStepExit ==
  ASSUME ExitInv, pc \notin {"idle", "returned"}, UNCHANGED <<dev, op, out, ret>>,
         FoundInv'
  PROVE  ExitInv'
BY DEF ExitInv, StampedInv, AskedInv, NoBugExit

(* A step that ends the operation and does not change the device.          *)
LEMMA LastStepExit ==
  ASSUME ExitInv, NEW code \in Returns \ {"exit"}, EndOp(code), UNCHANGED <<dev, op>>
  PROVE  ExitInv'
BY EndOpExit DEF ExitInv, StampedInv

(* Reading the state of a region.                                          *)
LEMMA HintblockStateExit ==
  ASSUME IInv, ExitInv, block_get_hintblock_state PROVE ExitInv'
<1>1. i \in HintPositions /\ dev \in [Positions -> Content]
  BY DEF IInv, LocalInv, block_get_hintblock_state, InLoop, LoopInv, DataType
<1>2. hintblock_state(dev, i, FALSE).highest < MaxTime
  BY <1>1, StateExit DEF IInv, HintsPointBack, ExitInv, StampedInv
<1>3. FoundInv'
  BY <1>2 DEF ExitInv, FoundInv, block_get_hintblock_state
<1>. QED BY <1>3, InnerStepExit DEF block_get_hintblock_state, InLoop, device

(* Restoring a hint block.                                                 *)
LEMMA RecoverExit ==
  ASSUME IInv, ExitInv, recover_hintblock PROVE ExitInv'
<1>1. i \in Positions
  BY HintPositionFacts DEF IInv, LocalInv, recover_hintblock, LoopInv, InRegionStep
<1>2. CASE io_writable(i)
  <2>. DEFINE c == HintBlock(dev[backup_location(i)].prev)
  <2>1. dev' = [dev EXCEPT ![i] = c] /\ c.ts = 0
    BY <1>2 DEF recover_hintblock, HintBlock
  <2>. HIDE DEF c
  <2>2. StampedInv'
    BY <1>1, <2>1, MaxTimeAssumption DEF ExitInv, StampedInv, IInv, DataType
  <2>3. FoundInv'
    BY <1>2 DEF ExitInv, FoundInv, recover_hintblock, locals
  <2>4. AskedInv' /\ NoBugExit'
    BY <1>2 DEF ExitInv, AskedInv, NoBugExit, recover_hintblock
  <2>. QED BY <2>2, <2>3, <2>4 DEF ExitInv
<1>3. CASE ~io_writable(i)
  BY <1>3, LastStepExit DEF recover_hintblock, Returns
<1>. QED BY <1>2, <1>3

(* Writing its copy, and reading the state of the region.                  *)
LEMMA RecoverBackupExit ==
  ASSUME IInv, ExitInv, recover_hintblock_backup PROVE ExitInv'
<1>. DEFINE p == recovery_backup_location(i)
<1>1. i \in HintPositions
  BY DEF IInv, LocalInv, recover_hintblock_backup, LoopInv, InRegionStep
<1>2. CASE io_writable(p)
  <2>. DEFINE c == HintBlock(dev[i].prev)
  <2>1. dev' = [dev EXCEPT ![p] = c] /\ c.ts = 0
    BY <1>2 DEF recover_hintblock_backup, HintBlock
  <2>. HIDE DEF c
  <2>2. IInv'
    BY RecoverBackupInv
  <2>3. StampedInv'
    BY <2>1, <2>2, MaxTimeAssumption DEF ExitInv, StampedInv, IInv, DataType
  <2>4. cur' = hintblock_state(dev', i, TRUE) /\ pc' = "callback"
    BY <1>2 DEF recover_hintblock_backup
  <2>5. cur'.highest < MaxTime
    BY <1>1, <2>2, <2>3, <2>4, StateExit DEF IInv, DataType, HintsPointBack, StampedInv
  <2>6. FoundInv'
    BY <1>2, <2>4, <2>5 DEF ExitInv, FoundInv, recover_hintblock_backup
  <2>7. AskedInv' /\ NoBugExit'
    BY <1>2 DEF ExitInv, AskedInv, NoBugExit, recover_hintblock_backup
  <2>. QED BY <2>3, <2>6, <2>7 DEF ExitInv
<1>3. CASE ~io_writable(p)
  BY <1>3, LastStepExit DEF recover_hintblock_backup, Returns
<1>. QED BY <1>2, <1>3

(* The callbacks of the searches.  The first region the second search of a *)
(* write visits is below MaxTime, so there is a best one from then on.     *)
LEMMA SearchExit ==
  ASSUME IInv, ExitInv,
         \/ write_hintblock_check_free_callback
         \/ write_hintblock_check_timestamps
         \/ block_find_oldest_hintblock_loop_callback
  PROVE  ExitInv'
<1>1. pc = "callback" /\ UNCHANGED <<dev, op, out, ret>>
  BY DEF write_hintblock_check_free_callback, write_hintblock_check_timestamps,
         block_find_oldest_hintblock_loop_callback, Callback, device, NextHintblock
<1>2. CASE write_hintblock_check_free_callback
  <2>1. FoundInv'
    BY <1>2 DEF ExitInv, FoundInv, write_hintblock_check_free_callback, Callback,
                NextHintblock
  <2>. QED BY <1>1, <2>1, InnerStepExit
<1>3. CASE write_hintblock_check_timestamps
  <2>1. cur # NoState
    <3>1. cur.location = i /\ i \in HintPositions
      BY <1>1 DEF IInv, LocalInv, SearchInv, LoopInv, InRegionStep
    <3>. QED BY <3>1, HintPositionFacts, HalfAssumption DEF NoState, Spacing
  <2>2. best' # NoState /\ best'.highest < MaxTime
    BY <1>3, <2>1 DEF ExitInv, FoundInv, write_hintblock_check_timestamps, LowestSoFar
  <2>3. FoundInv'
    BY <1>3, <2>2 DEF ExitInv, FoundInv, write_hintblock_check_timestamps, NextHintblock
  <2>. QED BY <1>1, <2>3, InnerStepExit
<1>4. CASE block_find_oldest_hintblock_loop_callback
  <2>1. FoundInv'
    BY <1>4 DEF ExitInv, FoundInv, block_find_oldest_hintblock_loop_callback, Callback,
                NextHintblock
  <2>. QED BY <1>1, <2>1, InnerStepExit
<1>. QED BY <1>2, <1>3, <1>4

(* The scan enters a region, goes to the next, or ends.                    *)
LEMMA ScanExit ==
  ASSUME IInv, ExitInv, scan_hintblock_loop_callback PROVE ExitInv'
<1>1. pc = "callback" /\ pass = "scan" /\ UNCHANGED <<dev, op, out>>
  BY DEF scan_hintblock_loop_callback, Callback, device
<1>2. CASE EndOp("ok")
  BY <1>1, <1>2, LastStepExit DEF Returns
<1>3. CASE ~EndOp("ok")
  <2>1. FoundInv' /\ ret' = ret
    BY <1>1, <1>3 DEF ExitInv, FoundInv, scan_hintblock_loop_callback, NextHintblock
  <2>. QED BY <1>1, <2>1, InnerStepExit
<1>. QED BY <1>2, <1>3

(* Zeroing a hint block.                                                   *)
LEMMA ClearExit ==
  ASSUME IInv, ExitInv, clear_hintblocks_loop_callback PROVE ExitInv'
<1>1. i \in Positions
  BY HintPositionFacts
  DEF IInv, LocalInv, clear_hintblocks_loop_callback, Callback, LoopInv, InRegionStep
<1>2. CASE io_writable(i)
  <2>1. dev' = [dev EXCEPT ![i] = Junk]
    BY <1>2 DEF clear_hintblocks_loop_callback
  <2>2. StampedInv'
    BY <1>1, <2>1, MaxTimeAssumption DEF ExitInv, StampedInv, IInv, DataType, Junk
  <2>3. FoundInv'
    BY <1>2 DEF ExitInv, FoundInv, clear_hintblocks_loop_callback, Callback, NextHintblock
  <2>4. AskedInv' /\ NoBugExit'
    BY <1>2 DEF ExitInv, AskedInv, NoBugExit, clear_hintblocks_loop_callback, Callback,
                NextHintblock
  <2>. QED BY <2>2, <2>3, <2>4 DEF ExitInv
<1>3. CASE ~io_writable(i)
  BY <1>3, LastStepExit DEF clear_hintblocks_loop_callback, Returns
<1>. QED BY <1>2, <1>3

-----------------------------------------------------------------------------
(* The end of the loop over the hint blocks.  The second search of a write *)
(* has gone past the first region, so it has found one.                    *)
LEMMA LoopEndExit ==
  ASSUME IInv, ExitInv,
         \/ write_find_location_oldest \/ write_find_location_end
         \/ block_find_oldest_hintblock
         \/ block_loop_hintblocks_second_round \/ block_loop_hintblocks_end
  PROVE  ExitInv'
<1>1. pc = "hint" /\ UNCHANGED <<dev, op, out>>
  BY DEF write_find_location_oldest, write_find_location_end, block_find_oldest_hintblock,
         block_loop_hintblocks_second_round, block_loop_hintblocks_end, device, LoopDone
<1>2. ASSUME NEW p, NEW first, BeginLoop(p, first), p = "stamps" => first = loop_begin_orig
      PROVE  ExitInv'
  <2>1. FoundInv' /\ ret' = ret
    BY <1>2, MaxTimeAssumption DEF BeginLoop, FoundInv, NoState
  <2>. QED BY <1>1, <2>1, InnerStepExit
<1>3. CASE write_find_location_oldest
  BY <1>2, <1>3 DEF write_find_location_oldest
<1>4. CASE write_find_location_end
  <2>1. i >= DeviceSize /\ i \in Nat /\ (best = NoState => i = loop_begin_orig)
    BY <1>4 DEF write_find_location_end, LoopDone, ExitInv, FoundInv, IInv, LocalInv,
                LocalType
  <2>2. loop_begin_orig < DeviceSize
    BY SizeAssumption, HalfAssumption DEF loop_begin_orig, Spacing
  <2>3. best # NoState
    BY <2>1, <2>2, SizeAssumption, HalfAssumption DEF loop_begin_orig, Spacing
  <2>4. FoundInv' /\ ret' = ret
    BY <1>4, <2>3 DEF write_find_location_end, ExitInv, FoundInv
  <2>. QED BY <1>1, <2>4, InnerStepExit
<1>5. CASE block_find_oldest_hintblock
  <2>1. CASE best.valid
    BY <1>2, <1>5, <2>1 DEF block_find_oldest_hintblock
  <2>2. CASE ~best.valid
    BY <1>1, <1>5, <2>2, LastStepExit DEF block_find_oldest_hintblock, Returns
  <2>. QED BY <2>1, <2>2
<1>6. CASE block_loop_hintblocks_second_round
  <2>1. FoundInv' /\ ret' = ret
    BY <1>6 DEF block_loop_hintblocks_second_round, LoopDone, ExitInv, FoundInv
  <2>. QED BY <1>1, <2>1, InnerStepExit
<1>7. CASE block_loop_hintblocks_end
  BY <1>1, <1>7, LastStepExit DEF block_loop_hintblocks_end, Returns
<1>. QED BY <1>3, <1>4, <1>5, <1>6, <1>7

(* The loop over the blocks ends as soon as limit blocks are printed, so   *)
(* it never has printed more.                                              *)
LEMMA BlockLoopExit ==
  ASSUME IInv, ExitInv,
         \/ block_loop_blocks_skip_backup \/ block_loop_blocks_invalid
         \/ block_loop_blocks_end \/ read_block_loop_callback
  PROVE  ExitInv'
<1>1. pc = "blocks" /\ pass = "scan" /\ UNCHANGED <<dev, op>>
  BY DEF block_loop_blocks_skip_backup, block_loop_blocks_invalid, block_loop_blocks_end,
         read_block_loop_callback, AtBlock, device, ExitInv, FoundInv
<1>2. /\ out \in Seq(Content) /\ op.limit \in Nat
      /\ op.limit # 0 => Len(out) < op.limit
  BY <1>1 DEF IInv, DataType, Operations, ExitInv, AskedInv
<1>3. CASE block_loop_blocks_skip_backup
  <2>1. FoundInv' /\ out' = out /\ ret' = ret
    BY <1>3 DEF block_loop_blocks_skip_backup, NextBlock, ExitInv, FoundInv
  <2>. QED BY <1>1, <2>1, InnerStepExit
<1>4. CASE block_loop_blocks_invalid
  <2>1. EndOp("ok") /\ out' = out
    BY <1>2, <1>4 DEF block_loop_blocks_invalid, AfterBlocks
  <2>. QED BY <1>1, <2>1, LastStepExit DEF Returns
<1>5. CASE block_loop_blocks_end
  <2>1. NextHintblock /\ UNCHANGED <<best, out>>
    BY <1>2, <1>5 DEF block_loop_blocks_end, AfterBlocks
  <2>2. FoundInv' /\ ret' = ret
    BY <1>1, <2>1 DEF NextHintblock, ExitInv, FoundInv
  <2>. QED BY <1>1, <2>1, <2>2, InnerStepExit
<1>6. CASE read_block_loop_callback
  <2>0. Len(out') \in Nat /\ Len(out') <= Len(out) + 1
    BY <1>2, <1>6, AtBlockFacts DEF read_block_loop_callback
  <2>1. CASE op.limit # 0 /\ Len(out') = op.limit
    <3>1. EndOp("ok")
      BY <1>2, <1>6, <2>0, <2>1 DEF read_block_loop_callback, AfterBlocks
    <3>. QED BY <1>1, <3>1, LastStepExit DEF Returns
  <2>2. CASE ~(op.limit # 0 /\ Len(out') = op.limit)
    <3>1. NextBlock
      BY <1>6, <2>2 DEF read_block_loop_callback
    <3>2. StampedInv' /\ NoBugExit'
      BY <1>1, <3>1 DEF NextBlock, ExitInv, StampedInv, NoBugExit
    <3>3. FoundInv'
      BY <3>1 DEF NextBlock, ExitInv, FoundInv
    <3>4. Len(out) \in Nat
      BY <1>2
    <3>5. AskedInv'
      BY <1>1, <1>2, <2>0, <2>2, <3>4 DEF ExitInv, AskedInv
    <3>. QED BY <3>2, <3>3, <3>5 DEF ExitInv
  <2>. QED BY <2>1, <2>2
<1>. QED BY <1>3, <1>4, <1>5, <1>6

(* An update keeps the timestamp of a block.                               *)
LEMMA UpdateExit ==
  ASSUME IInv, ExitInv, update_block_loop_callback PROVE ExitInv'
<1>1. /\ op' = op /\ pc = "blocks" /\ AtBlock /\ op.kind = "update"
      /\ NextBlock \/ EndOp("ok") \/ EndOp("ERR")
  BY DEF update_block_loop_callback, AtBlock
<1>2. FoundInv' /\ NoBugExit'
  <2>1. CASE NextBlock
    BY <2>1 DEF NextBlock, ExitInv, FoundInv, NoBugExit
  <2>2. CASE EndOp("ok") \/ EndOp("ERR")
    BY <1>1, <2>2, EndOpExit DEF Returns, ExitInv
  <2>. QED BY <1>1, <2>1, <2>2
<1>3. AskedInv'
  BY <1>1 DEF ExitInv, AskedInv
<1>4. StampedInv'
  <2>1. CASE dev' = dev
    BY <2>1 DEF ExitInv, StampedInv
  <2>2. CASE \E app \in SUBSET Flags : dev' = [dev EXCEPT ![j] = Updated(dev[j], app)]
    <3>1. PICK c : dev' = [dev EXCEPT ![j] = c] /\ c.ts = dev[j].ts
      BY <2>2 DEF Updated, Block
    <3>2. j \in Positions
      BY <1>1, AtBlockFacts
    <3>. QED BY <3>1, <3>2 DEF ExitInv, StampedInv, IInv, DataType
  <2>. QED BY <2>1, <2>2 DEF update_block_loop_callback
<1>. QED BY <1>2, <1>3, <1>4 DEF ExitInv

-----------------------------------------------------------------------------
(* Putting a block.  FreeLocationFacts excludes the funny locations.       *)
LEMMA PutStepExit ==
  ASSUME StampsHaveRoom, IInv, ExitInv,
         \/ write_put_block_refused \/ write_checksum_and_put_block
         \/ write_update_hintblock \/ write_update_hintblock_backup
  PROVE  ExitInv'
<1>1. Putting /\ op' = op /\ out' = out
  BY DEF write_put_block_refused, write_checksum_and_put_block, ReadyToPut,
         write_update_hintblock, write_update_hintblock_backup, Putting, device
<1>2. ASSUME NEW p \in Positions, NEW c, c.ts < MaxTime, dev' = [dev EXCEPT ![p] = c]
      PROVE  StampedInv'
  BY <1>2 DEF ExitInv, StampedInv, IInv, DataType
<1>3. ASSUME pc' \in {"put_hint", "put_backup"}, UNCHANGED <<locals, ret>>
      PROVE  FoundInv' /\ AskedInv' /\ NoBugExit'
  <2>1. FoundInv'
    BY <1>3 DEF locals, ExitInv, FoundInv
  <2>2. AskedInv' /\ NoBugExit'
    BY <1>1, <1>3 DEF ExitInv, AskedInv, NoBugExit, Putting
  <2>. QED BY <2>1, <2>2
<1>4. /\ loc \in Positions /\ cur.location \in Positions
      /\ backup_location(cur.location) \in Positions
  BY <1>1, PutFacts
<1>5. HintBlock(loc).ts < MaxTime
  BY MaxTimeAssumption DEF HintBlock
<1>6. CASE write_put_block_refused
  <2>1. TimestampError # "none" => TimestampError \in Returns \ {"exit"}
    BY DEF TimestampError, Returns
  <2>. QED BY <1>6, <2>1, LastStepExit DEF write_put_block_refused, device, Returns
<1>7. CASE write_checksum_and_put_block
  <2>1. ~FunnyLocation
    <3>1. /\ cur.location \in HintPositions /\ loc \in 1..(cur.location - 1)
          /\ loc # backup_location(cur.location)
      BY <1>1 DEF IInv, LocalInv, PutInv
    <3>2. cur.location \in Nat /\ Spacing <= cur.location
      BY <3>1, HintPositionFacts
    <3>. QED BY <3>1, <3>2, HalfAssumption DEF FunnyLocation, Spacing
  <2>2. CASE io_writable(loc)
    <3>1. /\ dev' = [dev EXCEPT ![loc] = NewBlock]
          /\ pc' = "put_hint" /\ UNCHANGED <<locals, ret>>
      BY <1>7, <2>1, <2>2 DEF write_checksum_and_put_block
    <3>2. NewBlock.ts < MaxTime
      BY <1>1, <1>7, NewBlockStamped DEF ExitInv, write_checksum_and_put_block, ReadyToPut
    <3>. QED BY <1>2, <1>3, <1>4, <3>1, <3>2 DEF ExitInv
  <2>3. CASE ~io_writable(loc)
    BY <1>7, <2>1, <2>3, LastStepExit DEF write_checksum_and_put_block, Returns
  <2>. QED BY <2>2, <2>3
<1>8. CASE write_update_hintblock
  <2>1. CASE io_writable(cur.location)
    <3>1. /\ dev' = [dev EXCEPT ![cur.location] = HintBlock(loc)]
          /\ pc' = "put_backup" /\ UNCHANGED <<locals, ret>>
      BY <1>8, <2>1 DEF write_update_hintblock
    <3>. QED BY <1>2, <1>3, <1>4, <1>5, <3>1 DEF ExitInv
  <2>2. CASE ~io_writable(cur.location)
    BY <1>8, <2>2, LastStepExit DEF write_update_hintblock, Returns
  <2>. QED BY <2>1, <2>2
<1>9. CASE write_update_hintblock_backup
  <2>. DEFINE b == backup_location(cur.location)
  <2>1. CASE io_writable(b)
    <3>1. dev' = [dev EXCEPT ![b] = HintBlock(loc)] /\ EndOp("ok")
      BY <1>9, <2>1 DEF write_update_hintblock_backup
    <3>2. StampedInv'
      BY <1>2, <1>4, <1>5, <3>1
    <3>. QED BY <1>1, <3>1, <3>2, EndOpExit DEF ExitInv, Returns
  <2>2. CASE ~io_writable(b)
    BY <1>9, <2>2, LastStepExit DEF write_update_hintblock_backup, Returns
  <2>. QED BY <2>1, <2>2
<1>. QED BY <1>6, <1>7, <1>8, <1>9

-----------------------------------------------------------------------------
(* Faults.  What is left of a torn block has the old or the new timestamp. *)
LEMMA TornStamped ==
  ASSUME DataType, StampedInv, NEW p \in Positions, NEW c, c.ts < MaxTime, Torn(p, c)
  PROVE  StampedInv'
<1>1. PICK x \in {c, dev[p]}, k \in {"junk", "oversize"} :
             dev' = [dev EXCEPT ![p] = Damaged(x, k)]
  BY DEF Torn
<1>2. Damaged(x, k).ts < MaxTime
  BY <1>1 DEF Damaged, StampedInv
<1>. QED BY <1>1, <1>2 DEF StampedInv, DataType

(* Being killed in the middle of any copy.                                 *)
LEMMA TornCrashExit ==
  ASSUME StampsHaveRoom, IInv, ExitInv, TornCrash PROVE ExitInv'
<1>. USE DEF ExitInv
<1>0. \A q : HintBlock(q).ts < MaxTime
  BY MaxTimeAssumption DEF HintBlock
<1>1. FoundInv' /\ AskedInv' /\ NoBugExit'
  BY EndOpExit DEF TornCrash, Returns
<1>2. CASE ReadyToPut /\ Torn(loc, NewBlock)
  <2>1. Putting /\ TimestampError = "none"
    BY <1>2 DEF ReadyToPut, Putting
  <2>2. loc \in Positions /\ NewBlock.ts < MaxTime
    BY <2>1, PutFacts, NewBlockStamped
  <2>3. StampedInv'
    BY <1>2, <2>2, TornStamped DEF IInv
  <2>. QED BY <1>1, <2>3
<1>3. CASE \/ pc = "put_hint" /\ Torn(cur.location, HintBlock(loc))
           \/ pc = "put_backup" /\ Torn(backup_location(cur.location), HintBlock(loc))
  <2>1. cur.location \in Positions /\ backup_location(cur.location) \in Positions
    BY <1>3, PutFacts DEF Putting
  <2>2. StampedInv'
    BY <1>0, <1>3, <2>1, TornStamped DEF IInv
  <2>. QED BY <1>1, <2>2
<1>4. CASE \/ pc = "recover_main" /\ Torn(i, HintBlock(dev[backup_location(i)].prev))
           \/ /\ pc = "recover_backup"
              /\ Torn(recovery_backup_location(i), HintBlock(dev[i].prev))
  <2>1. i \in Positions /\ i \in Nat
    BY <1>4, HintPositionFacts DEF IInv, LocalInv, LoopInv, InRegionStep
  <2>2. pc = "recover_backup" => recovery_backup_location(i) \in Positions
    BY <1>4, <2>1, HalfAssumption, SizeAssumption
    DEF Torn, recovery_backup_location, io_writable, Positions
  <2>3. StampedInv'
    BY <1>0, <1>4, <2>1, <2>2, TornStamped DEF IInv
  <2>. QED BY <1>1, <2>3
<1>. QED BY <1>2, <1>3, <1>4 DEF TornCrash

(* All faults.                                                             *)
LEMMA FaultExit ==
  ASSUME StampsHaveRoom, IInv, ExitInv, Fault PROVE ExitInv'
<1>1. CASE Crash
  BY <1>1, LastStepExit DEF Crash, device, Returns
<1>2. CASE TornCrash
  BY <1>2, TornCrashExit
<1>3. CASE Decay
  <2>1. PICK p \in Positions, k \in {"junk", "oversize"} :
               dev' = [dev EXCEPT ![p] = Damaged(dev[p], k)]
    BY <1>3 DEF Decay
  <2>2. Damaged(dev[p], k).ts < MaxTime
    BY DEF Damaged, ExitInv, StampedInv
  <2>3. StampedInv'
    BY <2>1, <2>2 DEF ExitInv, StampedInv, IInv, DataType
  <2>4. FoundInv'
    BY <1>3 DEF Decay, locals, ExitInv, FoundInv
  <2>5. AskedInv' /\ NoBugExit'
    BY <1>3 DEF Decay, ExitInv, AskedInv, NoBugExit
  <2>. QED BY <2>3, <2>4, <2>5 DEF ExitInv
<1>4. CASE HeaderDecay
  <2>1. StampedInv' /\ FoundInv'
    BY <1>4 DEF HeaderDecay, locals, ExitInv, StampedInv, FoundInv
  <2>2. AskedInv' /\ NoBugExit'
    BY <1>4 DEF HeaderDecay, ExitInv, AskedInv, NoBugExit
  <2>. QED BY <2>1, <2>2 DEF ExitInv
<1>. QED BY <1>1, <1>2, <1>3, <1>4 DEF Fault

-----------------------------------------------------------------------------
(* The device bdl_init_dev leaves.                                         *)
LEMMA InitExit == Init => ExitInv
<1>. SUFFICES ASSUME Init PROVE ExitInv
  OBVIOUS
<1>1. StampedInv
  BY MaxTimeAssumption DEF Init, StampedInv, Junk
<1>2. FoundInv
  BY MaxTimeAssumption DEF Init, FoundInv, NoState
<1>3. AskedInv /\ NoBugExit
  BY DEF Init, AskedInv, NoOp, Operation, NoBugExit
<1>. QED BY <1>1, <1>2, <1>3 DEF ExitInv

(* Every step keeps ExitInv.                                               *)
LEMMA NextExit ==
  ASSUME StampsHaveRoom PROVE IInv /\ ExitInv /\ [Next]_vars => ExitInv'
<1>. SUFFICES ASSUME IInv, ExitInv, [Next]_vars PROVE ExitInv'
  OBVIOUS
<1>1. CASE Request
  BY <1>1, RequestExit
<1>2. CASE Step
  BY <1>2, HintblockStateExit, RecoverExit, RecoverBackupExit, SearchExit, ScanExit,
     ClearExit, LoopEndExit, BlockLoopExit, UpdateExit, PutStepExit DEF Step
<1>3. CASE Fault
  BY <1>3, FaultExit
<1>4. CASE UNCHANGED vars
  <2>1. StampedInv' /\ FoundInv'
    BY <1>4 DEF vars, ExitInv, StampedInv, FoundInv
  <2>2. AskedInv' /\ NoBugExit'
    BY <1>4 DEF vars, ExitInv, AskedInv, NoBugExit
  <2>. QED BY <2>1, <2>2 DEF ExitInv
<1>. QED BY <1>1, <1>2, <1>3, <1>4 DEF Next

(* No check that reports a bug of the program and ends it is ever reached, *)
(* whatever was killed, torn or decayed before, provided no timestamp      *)
(* comes near 0xffffffffffffffff (write_find_location, write_put_block,    *)
(* read_hintblock_loop_callback).                                          *)
THEOREM NeverExits ==
  ASSUME StampsHaveRoom PROVE Spec => []NoBugExit
<1>1. IInv /\ ExitInv /\ [Next]_vars => ExitInv'
  BY NextExit
<1>2. ExitInv => NoBugExit
  BY DEF ExitInv
<1>. QED BY <1>1, <1>2, InitExit, Invariance, PTL DEF Spec

-----------------------------------------------------------------------------
(* Neither a hint block nor the place a recovery copies it to is a place   *)
(* of data, of whatever region.                                            *)
LEMMA HintsAreNoData ==
  ASSUME NEW g \in HintPositions, NEW h \in HintPositions
  PROVE  g \notin DataCells(h) /\ recovery_backup_location(g) \notin DataCells(h)
<1>. USE HalfAssumption, SizeAssumption
<1>1. PICK k \in 1..DeviceSize : g = k * Spacing
  BY DEF HintPositions
<1>2. PICK m \in 1..DeviceSize : h = m * Spacing
  BY DEF HintPositions
<1>3. Spacing \in Nat /\ g \in Nat /\ h \in Nat
  BY HintPositionFacts DEF Spacing
<1>4. h <= g \/ h = g + Spacing \/ g + Spacing + Spacing <= h
  <2>1. CASE m <= k
    <3>1. h <= g
      BY <1>1, <1>2, <1>3, <2>1, MultiplyFacts
    <3>. QED BY <3>1
  <2>2. CASE m = k + 1
    BY <1>1, <1>2, <1>3, <2>2
  <2>3. CASE k + 1 < m
    <3>1. (k + 1) * Spacing + Spacing <= m * Spacing
      BY <1>3, <2>3, MultiplyFacts
    <3>. QED BY <1>1, <1>2, <1>3, <3>1
  <2>. QED BY <2>1, <2>2, <2>3
<1>. QED BY <1>3, <1>4
     DEF DataCells, blockstart_min, blockstart_max, backup_location,
         recovery_backup_location, Spacing

(* Only a write or an update changes a position a data block can be at:    *)
(* what a read or a clear recovers or zeroes are hint blocks and backups.  *)
LEMMA StepKeepsData ==
  ASSUME IInv, Step, op.kind \in {"read", "clear"},
         NEW h \in HintPositions, NEW p \in DataCells(h)
  PROVE  dev'[p] = dev[p]
<1>0. ~Putting /\ pass \notin {"free", "stamps"}
  BY DEF IInv, LocalInv, WriteInv
<1>1. p \in Positions
  BY HintPositionFacts, HalfAssumption, SizeAssumption
  DEF DataCells, blockstart_min, blockstart_max, Spacing, Positions
<1>2. CASE recover_hintblock \/ clear_hintblocks_loop_callback
  <2>1. i \in HintPositions
    BY <1>2 DEF recover_hintblock, clear_hintblocks_loop_callback, Callback, IInv, LocalInv,
                LoopInv, InRegionStep
  <2>2. i # p
    BY <2>1, HintsAreNoData
  <2>3. dev' = dev \/ \E c : dev' = [dev EXCEPT ![i] = c]
    BY <1>2 DEF recover_hintblock, clear_hintblocks_loop_callback
  <2>. QED BY <1>1, <2>2, <2>3 DEF IInv, DataType
<1>3. CASE recover_hintblock_backup
  <2>1. i \in HintPositions
    BY <1>3 DEF recover_hintblock_backup, IInv, LocalInv, LoopInv, InRegionStep
  <2>2. recovery_backup_location(i) # p
    BY <2>1, HintsAreNoData
  <2>3. dev' = dev \/ \E c : dev' = [dev EXCEPT ![recovery_backup_location(i)] = c]
    BY <1>3 DEF recover_hintblock_backup
  <2>. QED BY <1>1, <2>2, <2>3 DEF IInv, DataType
<1>4. CASE /\ ~recover_hintblock /\ ~clear_hintblocks_loop_callback
           /\ ~recover_hintblock_backup
  BY <1>0, <1>4
  DEF Step, Putting, block_get_hintblock_state, write_hintblock_check_free_callback,
      write_hintblock_check_timestamps, block_find_oldest_hintblock_loop_callback,
      scan_hintblock_loop_callback, write_find_location_oldest, write_find_location_end,
      block_find_oldest_hintblock, block_loop_hintblocks_second_round,
      block_loop_hintblocks_end, block_loop_blocks_skip_backup, block_loop_blocks_invalid,
      block_loop_blocks_end, read_block_loop_callback, update_block_loop_callback,
      write_put_block_refused, ReadyToPut, write_checksum_and_put_block,
      write_update_hintblock, write_update_hintblock_backup, device
<1>. QED BY <1>2, <1>3, <1>4

(* A read or a clear changes no data, whatever it finds on the device and  *)
(* has to recover (block_hintblock_recover_backup).                        *)
THEOREM ReadsKeepData == Spec => ReadsChangeNoData
<1>1. ASSUME IInv, Next, op.kind \in {"read", "clear"}, faults' = faults,
             NEW h \in HintPositions, NEW p \in DataCells(h)
      PROVE  dev'[p] = dev[p]
  <2>1. CASE Request
    BY <2>1 DEF Request, bdl_write_block, bdl_read_blocks, bdl_clear_dev, Return,
                bdl_read_update_application_data, BeginOp, device
  <2>2. CASE Step
    BY <1>1, <2>2, StepKeepsData
  <2>3. CASE Fault
    <3>1. faults # faults + 1
      BY <1>1 DEF IInv, DataType
    <3>. QED BY <1>1, <2>3, <3>1 DEF Fault, Crash, TornCrash, Decay, HeaderDecay, device
  <2>. QED BY <1>1, <2>1, <2>2, <2>3 DEF Next
<1>2. IInv /\ [Next]_vars =>
        [op.kind \in {"read", "clear"} /\ faults' = faults =>
           \A h \in HintPositions : \A p \in DataCells(h) : dev'[p] = dev[p]]_vars
  BY <1>1
<1>. QED BY <1>2, Invariance, PTL DEF Spec, ReadsChangeNoData

=============================================================================
