----------------------------- MODULE LogProofs ------------------------------
(***************************************************************************)
(* Proofs, for a device of any size and any number of faults, of what      *)
(* LogFaults.cfg checks on a small one.                                    *)
(***************************************************************************)
EXTENDS LogProperties, TLAPS

-----------------------------------------------------------------------------
(* The inductive invariant.                                                *)
InRegionStep == pc \in {"recover_main", "recover_backup", "callback", "blocks"}

Putting == pc \in {"put_block", "put_hint", "put_backup"}

(* The loop is at a hint block of the device, or at its end.               *)
LoopInv ==
  /\ begin \in HintPositions \cup {0}
  /\ end \in HintPositions \cup {0, DeviceSize}
  /\ i < end => i \in HintPositions
  /\ InRegionStep => i < end
  /\ pc = "hint" \/ InRegionStep => begin \in HintPositions
  /\ pc = "recover_main" => validate_hintblock(dev[backup_location(i)])
  /\ pc = "recover_backup" => validate_hintblock(dev[i])

(* A state belongs to a region, and its last block lies before the hint    *)
(* block.                                                                  *)
StateInv(st) ==
  st # NoState => /\ st.location \in HintPositions
                  /\ st.valid => st.prev \in 1..(st.location - 1)

SearchInv ==
  /\ StateInv(cur) /\ StateInv(best)
  /\ pc \in {"callback", "blocks"} => cur.location = i

(* A block is put inside the region, and beside the backup.                *)
PutInv ==
  Putting => /\ cur.location \in HintPositions
             /\ loc \in 1..(cur.location - 1)
             /\ loc # backup_location(cur.location)

(* Only a write looks for a place and puts blocks.                         *)
WriteInv ==
  /\ Putting \/ pass \in {"free", "stamps"} => op.kind = "write"
  /\ pc \in {"idle", "returned"} => pass = "none"

(* The two halves of TypeOK: what outlives an operation, and its locals.   *)
DataType ==
  /\ dev \in [Positions -> Content]
  /\ header \in BOOLEAN
  /\ op \in Operations
  /\ out \in Seq(Content)
  /\ newest \in Time
  /\ faults \in Nat

LocalType ==
  /\ pc \in Pcs
  /\ pass \in Passes
  /\ ret \in Returns
  /\ i \in Nat /\ begin \in Nat /\ end \in Nat
  /\ cur \in HintblockState /\ best \in HintblockState
  /\ loc \in Nat /\ j \in Nat

LocalInv == LocalType /\ LoopInv /\ SearchInv /\ PutInv /\ WriteInv

IInv == DataType /\ HintsPointBack /\ LocalInv

-----------------------------------------------------------------------------
(* Multiples of a number are at least that number apart.                   *)
LEMMA MultiplyFacts ==
  ASSUME NEW a \in Nat, NEW b \in Nat, NEW c \in Nat, a < b
  PROVE  a * c + c <= b * c
  OBVIOUS

(* A hint block and its backup are on the device, the next hint block is   *)
(* one region further, and no backup is where the loop looks for a hint    *)
(* block.                                                                  *)
LEMMA HintPositionFacts ==
  ASSUME NEW h \in HintPositions
  PROVE  /\ h \in Nat /\ h <= DeviceSize - 1
         /\ Spacing <= h
         /\ h \in Positions /\ backup_location(h) \in Positions
         /\ h + Spacing < DeviceSize => h + Spacing \in HintPositions
         /\ backup_location(h) \notin HintPositions
<1>. USE HalfAssumption, SizeAssumption
<1>1. PICK k \in 1..DeviceSize : h = k * Spacing
  BY DEF HintPositions
<1>2. Spacing \in Nat /\ Spacing >= 4
  BY DEF Spacing
<1>3. h \in Nat /\ h <= DeviceSize - 1
  BY DEF HintPositions
<1>4. Spacing <= h
  BY <1>1, <1>2, MultiplyFacts
<1>5. h \in Positions /\ backup_location(h) \in Positions
  BY <1>3, <1>4 DEF Positions, backup_location, Spacing
<1>6. ASSUME h + Spacing < DeviceSize PROVE h + Spacing \in HintPositions
  <2>1. h + Spacing = (k + 1) * Spacing
    BY <1>1, <1>2
  <2>2. k + 1 <= (k + 1) * Spacing
    BY <1>2
  <2>. QED BY <1>2, <1>3, <1>6, <2>1, <2>2 DEF HintPositions
<1>7. backup_location(h) \notin HintPositions
  <2>1. SUFFICES ASSUME NEW m \in 1..DeviceSize, h - Half = m * Spacing PROVE FALSE
    BY DEF HintPositions, backup_location
  <2>2. CASE m < k
    BY <2>1, <2>2, <1>1, <1>2, MultiplyFacts DEF Spacing
  <2>3. CASE k <= m
    BY <2>1, <2>3, <1>1, <1>2, MultiplyFacts DEF Spacing
  <2>. QED BY <2>2, <2>3
<1>. QED BY <1>3, <1>4, <1>5, <1>6, <1>7

(* A large device has at least one region.                                 *)
LEMMA FirstHint == loop_begin_orig \in HintPositions
BY HalfAssumption, SizeAssumption DEF HintPositions, loop_begin_orig, Spacing

-----------------------------------------------------------------------------
(* The state of a region is one, and belongs to that region.               *)
LEMMA StateFacts ==
  ASSUME NEW d \in [Positions -> Content], NEW h \in HintPositions, NEW r \in BOOLEAN,
         validate_hintblock(d[h]) => d[h].prev \in 1..(h - 1)
  PROVE  /\ hintblock_state(d, h, r) \in HintblockState
         /\ hintblock_state(d, h, r).location = h
         /\ StateInv(hintblock_state(d, h, r))
<1>. DEFINE prev == d[h].prev
            st == hintblock_state(d, h, r)
<1>1. h \in Nat /\ h \in Positions /\ h <= DeviceSize - 1
  BY HintPositionFacts
<1>2. CASE st.valid
  <2>1. prev \in 1..(h - 1) /\ prev \in Positions
    BY <1>1, <1>2, SizeAssumption DEF hintblock_state, Positions
  <2>2. d[prev].ts \in Time
    BY <2>1 DEF Content
  <2>. QED BY <1>1, <1>2, <2>1, <2>2 DEF hintblock_state, HintblockState, StateInv
<1>3. CASE ~st.valid
  BY <1>1, <1>3, MaxTimeAssumption DEF hintblock_state, HintblockState, StateInv, Time
<1>. QED BY <1>2, <1>3

(* An operation that ends leaves no local state.                           *)
LEMMA EndOpFacts ==
  ASSUME NEW code \in Returns, EndOp(code)
  PROVE  LocalInv'
<1>1. LocalType'
  BY MaxTimeAssumption
  DEF EndOp, LocalType, Pcs, Passes, NoState, HintblockState, Time
<1>2. LoopInv'
  BY DEF EndOp, LoopInv, InRegionStep
<1>3. SearchInv' /\ PutInv' /\ WriteInv'
  BY DEF EndOp, SearchInv, StateInv, PutInv, WriteInv, Putting
<1>. QED BY <1>1, <1>2, <1>3 DEF LocalInv

(* The loop goes on to the next hint block, if the device has one.         *)
LEMMA NextHintblockFacts ==
  ASSUME IInv, InRegionStep, NextHintblock, best' \in HintblockState,
         StateInv(best)', op' = op
  PROVE  LocalInv'
<1>. USE DEF IInv, LocalInv
<1>1. LocalType'
  BY HalfAssumption DEF LocalType, NextHintblock, Pcs, Spacing
<1>2. LoopInv'
  <2>1. i \in HintPositions /\ i \in Nat /\ end <= DeviceSize /\ end \in Nat
    BY HintPositionFacts, SizeAssumption DEF LoopInv, LocalType
  <2>2. i + Spacing < end => i + Spacing \in HintPositions
    BY <2>1, HintPositionFacts, HalfAssumption, SizeAssumption DEF Spacing
  <2>. QED BY <2>2 DEF LoopInv, NextHintblock, InRegionStep
<1>3. SearchInv' /\ PutInv' /\ WriteInv'
  BY DEF NextHintblock, SearchInv, StateInv, PutInv, WriteInv, Putting
<1>. QED BY <1>1, <1>2, <1>3

(* A step that leaves the device and the request alone.                    *)
LEMMA DeviceUnchanged ==
  ASSUME DataType, HintsPointBack, UNCHANGED <<dev, header, op, newest, faults>>,
         out' \in Seq(Content)
  PROVE  DataType' /\ HintsPointBack'
BY DEF DataType, HintsPointBack, validate_hintblock

(* A block that is not a hint block makes no hint block point elsewhere.   *)
LEMMA PutNoHint ==
  ASSUME DataType, HintsPointBack, NEW p \in Positions, NEW c \in Content,
         c.kind # "hint", dev' = [dev EXCEPT ![p] = c]
  PROVE  dev' \in [Positions -> Content] /\ HintsPointBack'
<1>1. dev' \in [Positions -> Content]
  BY DEF DataType
<1>2. \A q \in Positions : validate_hintblock(dev'[q]) =>
         validate_hintblock(dev[q]) /\ dev'[q] = dev[q]
  BY DEF DataType, validate_hintblock
<1>3. HintsPointBack'
  BY <1>2, HintPositionFacts DEF HintsPointBack
<1>. QED BY <1>1, <1>3

(* Neither does one that points before the lowest hint block it could be   *)
(* taken for.                                                              *)
LEMMA PutHint ==
  ASSUME DataType, HintsPointBack, NEW p \in Positions, NEW q \in Nat,
         \A h \in HintPositions : p \in {h, backup_location(h)} => q \in 1..(h - 1),
         dev' = [dev EXCEPT ![p] = HintBlock(q)]
  PROVE  dev' \in [Positions -> Content] /\ HintsPointBack'
<1>1. HintBlock(q) \in Content
  BY MaxTimeAssumption DEF HintBlock, Content, Kinds, Time
<1>2. dev' \in [Positions -> Content]
  BY <1>1 DEF DataType
<1>3. ASSUME NEW h \in HintPositions, NEW r \in {h, backup_location(h)},
             validate_hintblock(dev'[r])
      PROVE  dev'[r].prev \in 1..(h - 1)
  <2>1. r \in Positions
    BY HintPositionFacts
  <2>2. CASE r = p
    BY <2>1, <2>2 DEF DataType, HintBlock
  <2>3. CASE r # p
    BY <1>3, <2>1, <2>3 DEF DataType, HintsPointBack
  <2>. QED BY <2>2, <2>3
<1>. QED BY <1>2, <1>3 DEF HintsPointBack

-----------------------------------------------------------------------------
(* A request starts the loop at the first hint block, or is refused.       *)
LEMMA BeginOpInv ==
  ASSUME IInv, NEW o \in Operations, NEW p \in Passes, NEW refusal \in Returns,
         p \in {"free", "stamps"} => o.kind = "write",
         BeginOp(o, p, refusal)
  PROVE  IInv'
<1>. USE DEF IInv, LocalInv
<1>1. DataType' /\ HintsPointBack'
  BY DEF BeginOp, device, DataType, HintsPointBack
<1>2. LocalType'
  BY SizeAssumption, HalfAssumption
  DEF BeginOp, LocalType, Pcs, Returns, loop_begin_orig, Spacing
<1>3. LoopInv'
  BY FirstHint DEF BeginOp, LoopInv, InRegionStep
<1>4. SearchInv' /\ PutInv'
  BY DEF BeginOp, SearchInv, StateInv, PutInv, Putting
<1>5. WriteInv'
  BY DEF BeginOp, WriteInv, Putting
<1>. QED BY <1>1, <1>2, <1>3, <1>4, <1>5

(* Requests and returns keep the invariant.                                *)
LEMMA RequestInv == ASSUME IInv, Request PROVE IInv'
<1>. USE DEF IInv, LocalInv
<1>. USE StampsAssumption, FakesAssumption, LimitsAssumption, MaxTimeAssumption
<1>0. NoOp \in Operations
  BY DEF NoOp, Operation, Operations, OpKinds, Time
<1>1. ASSUME NEW ts \in Stamps, NEW fake \in Fakes, NEW fits \in BOOLEAN,
             NEW app \in SUBSET Flags, bdl_write_block(ts, fake, fits, app)
      PROVE  IInv'
  <2>. DEFINE o == Operation("write", ts, fake, fits, app, 0)
  <2>1. o \in Operations /\ o.kind = "write"
    BY DEF Operations, Operation, OpKinds, Time
  <2>2. BeginOp(o, "free", "ERR_CORRUPT")
    BY <1>1 DEF bdl_write_block
  <2>. HIDE DEF o
  <2>. QED BY <2>1, <2>2, BeginOpInv DEF Passes, Returns
<1>2. ASSUME NEW ts \in Stamps \cup {0}, NEW limit \in Limits, bdl_read_blocks(ts, limit)
      PROVE  IInv'
  <2>. DEFINE o == Operation("read", ts, 0, TRUE, {}, limit)
  <2>1. o \in Operations
    BY DEF Operations, Operation, OpKinds, Time
  <2>2. BeginOp(o, "oldest", "ERR")
    BY <1>2 DEF bdl_read_blocks
  <2>. HIDE DEF o
  <2>. QED BY <2>1, <2>2, BeginOpInv DEF Passes, Returns
<1>3. ASSUME NEW ts \in Stamps \cup {0}, NEW mask \in SUBSET Flags,
             bdl_read_update_application_data(ts, mask)
      PROVE  IInv'
  <2>. DEFINE o == Operation("update", ts, 0, TRUE, mask, 0)
  <2>1. o \in Operations
    BY DEF Operations, Operation, OpKinds, Time
  <2>2. BeginOp(o, "oldest", "ERR_CORRUPT")
    BY <1>3 DEF bdl_read_update_application_data
  <2>. HIDE DEF o
  <2>. QED BY <2>1, <2>2, BeginOpInv DEF Passes, Returns
<1>4. CASE bdl_clear_dev
  <2>. DEFINE o == Operation("clear", 0, 0, TRUE, {}, 0)
  <2>1. o \in Operations
    BY DEF Operations, Operation, OpKinds, Time
  <2>2. BeginOp(o, "clear", "invalid")
    BY <1>4 DEF bdl_clear_dev
  <2>. HIDE DEF o
  <2>. QED BY <2>1, <2>2, BeginOpInv DEF Passes, Returns
<1>5. CASE Return
  <2>1. DataType' /\ HintsPointBack'
    BY <1>0, <1>5 DEF Return, device, DataType, HintsPointBack
  <2>2. LocalType' /\ LoopInv'
    BY <1>5 DEF Return, locals, LocalType, Pcs, Returns, LoopInv, InRegionStep
  <2>3. SearchInv' /\ PutInv'
    BY <1>5 DEF Return, locals, SearchInv, StateInv, PutInv, Putting
  <2>4. WriteInv'
    BY <1>5 DEF Return, locals, WriteInv, Putting, PutInv
  <2>. QED BY <2>1, <2>2, <2>3, <2>4
<1>. QED BY <1>1, <1>2, <1>3, <1>4, <1>5 DEF Request

-----------------------------------------------------------------------------
(* Reading the state of a region.                                          *)
LEMMA HintblockStateInv == ASSUME IInv, block_get_hintblock_state PROVE IInv'
<1>. USE DEF IInv, LocalInv
<1>1. i \in HintPositions /\ dev \in [Positions -> Content]
  BY DEF block_get_hintblock_state, InLoop, LoopInv, DataType
<1>2. /\ hintblock_state(dev, i, FALSE) \in HintblockState
      /\ hintblock_state(dev, i, FALSE).location = i
      /\ StateInv(hintblock_state(dev, i, FALSE))
  BY <1>1, StateFacts DEF HintsPointBack
<1>3. DataType' /\ HintsPointBack'
  BY DeviceUnchanged DEF block_get_hintblock_state, device, DataType
<1>4. LocalType'
  BY <1>2 DEF block_get_hintblock_state, LocalType, Pcs
<1>5. LoopInv'
  BY DEF block_get_hintblock_state, InLoop, device, LoopInv, InRegionStep
<1>6. SearchInv'
  BY <1>2 DEF block_get_hintblock_state, SearchInv, StateInv
<1>7. PutInv' /\ WriteInv'
  BY DEF block_get_hintblock_state, InLoop, PutInv, WriteInv, Putting
<1>. QED BY <1>3, <1>4, <1>5, <1>6, <1>7

(* The restored hint block points where its backup did.                    *)
LEMMA RecoverInv == ASSUME IInv, recover_hintblock PROVE IInv'
<1>. USE DEF IInv, LocalInv
<1>0. i \in HintPositions /\ backup_location(i) \in Positions /\ i \in Positions
  BY HintPositionFacts DEF recover_hintblock, LoopInv, InRegionStep
<1>. DEFINE q == dev[backup_location(i)].prev
<1>1. q \in 1..(i - 1)
  BY <1>0 DEF recover_hintblock, LoopInv, HintsPointBack
<1>2. CASE io_writable(i)
  <2>1. dev' = [dev EXCEPT ![i] = HintBlock(q)]
    BY <1>2 DEF recover_hintblock
  <2>2. \A h \in HintPositions : i \in {h, backup_location(h)} => q \in 1..(h - 1)
    BY <1>0, <1>1, HintPositionFacts, HalfAssumption DEF backup_location
  <2>3. dev' \in [Positions -> Content] /\ HintsPointBack'
    <3>1. q \in Nat
      BY <1>0, <1>1 DEF Positions
    <3>. HIDE DEF q
    <3>. QED BY <1>0, <2>1, <2>2, <3>1, PutHint
  <2>4. DataType'
    BY <2>3 DEF recover_hintblock, DataType
  <2>5. dev'[i].kind = "hint"
    BY <1>0, <2>1 DEF DataType, HintBlock
  <2>6. LocalType'
    BY <1>2 DEF recover_hintblock, locals, LocalType, Pcs
  <2>7. LoopInv'
    BY <1>2, <2>5 DEF recover_hintblock, locals, LoopInv, InRegionStep, validate_hintblock
  <2>8. SearchInv' /\ PutInv' /\ WriteInv'
    BY <1>2 DEF recover_hintblock, locals, SearchInv, StateInv, PutInv, WriteInv, Putting
  <2>. QED BY <2>3, <2>4, <2>6, <2>7, <2>8
<1>3. CASE ~io_writable(i)
  <2>1. DataType' /\ HintsPointBack'
    BY <1>3, DeviceUnchanged DEF recover_hintblock, DataType
  <2>2. LocalInv'
    BY <1>3, EndOpFacts DEF recover_hintblock, Returns
  <2>. QED BY <2>1, <2>2
<1>. QED BY <1>2, <1>3

(* Its copy lies beyond the hint block, so it points backwards for         *)
(* whatever hint block it can be taken for.                                *)
LEMMA RecoverBackupInv == ASSUME IInv, recover_hintblock_backup PROVE IInv'
<1>. USE DEF IInv, LocalInv
<1>0. i \in HintPositions /\ i \in Positions /\ i \in Nat
  BY HintPositionFacts DEF recover_hintblock_backup, LoopInv, InRegionStep
<1>. DEFINE q == dev[i].prev
            p == recovery_backup_location(i)
<1>1. q \in 1..(i - 1)
  BY <1>0 DEF recover_hintblock_backup, LoopInv, HintsPointBack
<1>2. CASE io_writable(p)
  <2>1. dev' = [dev EXCEPT ![p] = HintBlock(q)]
    BY <1>2 DEF recover_hintblock_backup
  <2>2. p \in Positions /\ p = i + Half
    BY <1>0, <1>2, HalfAssumption, SizeAssumption
    DEF recovery_backup_location, io_writable, Positions
  <2>3. \A h \in HintPositions : p \in {h, backup_location(h)} => q \in 1..(h - 1)
    BY <1>0, <1>1, <2>2, HintPositionFacts, HalfAssumption DEF backup_location
  <2>4. dev' \in [Positions -> Content] /\ HintsPointBack'
    <3>1. q \in Nat
      BY <1>0, <1>1
    <3>. HIDE DEF q, p
    <3>. QED BY <2>1, <2>2, <2>3, <3>1, PutHint
  <2>5. DataType'
    BY <2>4 DEF recover_hintblock_backup, DataType
  <2>6. cur' = hintblock_state(dev', i, TRUE)
    BY <1>2 DEF recover_hintblock_backup
  <2>7. validate_hintblock(dev'[i]) => dev'[i].prev \in 1..(i - 1)
    BY <1>0, <2>4 DEF recover_hintblock_backup, HintsPointBack, validate_hintblock
  <2>8. cur' \in HintblockState /\ cur'.location = i /\ StateInv(cur')
    BY <1>0, <2>4, <2>6, <2>7, StateFacts
  <2>9. LocalType'
    BY <1>2, <2>8 DEF recover_hintblock_backup, LocalType, Pcs
  <2>10. LoopInv'
    BY <1>2 DEF recover_hintblock_backup, LoopInv, InRegionStep
  <2>11. SearchInv'
    BY <1>2, <2>8 DEF recover_hintblock_backup, SearchInv, StateInv
  <2>12. PutInv' /\ WriteInv'
    BY <1>2 DEF recover_hintblock_backup, PutInv, WriteInv, Putting
  <2>. QED BY <2>4, <2>5, <2>9, <2>10, <2>11, <2>12
<1>3. CASE ~io_writable(p)
  <2>1. DataType' /\ HintsPointBack'
    BY <1>3, DeviceUnchanged DEF recover_hintblock_backup, DataType
  <2>2. LocalInv'
    BY <1>3, EndOpFacts DEF recover_hintblock_backup, Returns
  <2>. QED BY <2>1, <2>2
<1>. QED BY <1>2, <1>3

(* Where a write puts its block is inside the region, beside the backup.   *)
LEMMA FreeLocationFacts ==
  ASSUME NEW st \in HintblockState, st.location \in HintPositions,
         st.valid => st.prev \in 1..(st.location - 1)
  PROVE  /\ blockstart_min(st.location) \in 1..(st.location - 1)
         /\ blockstart_min(st.location) # backup_location(st.location)
         /\ ~region_full(st) => /\ free_location(st) \in 1..(st.location - 1)
                               /\ free_location(st) # backup_location(st.location)
<1>. USE HalfAssumption DEF blockstart_min, blockstart_max, backup_location, Spacing
<1>1. st.location \in Nat /\ Spacing <= st.location
  BY HintPositionFacts
<1>2. /\ blockstart_min(st.location) \in 1..(st.location - 1)
      /\ blockstart_min(st.location) # backup_location(st.location)
  BY <1>1
<1>3. CASE st.valid
  BY <1>1, <1>2, <1>3 DEF region_full, free_location, skip_backup
<1>4. CASE ~st.valid
  BY <1>2, <1>4 DEF region_full, free_location
<1>. QED BY <1>2, <1>3, <1>4

(* A region with room is chosen, and the place in it.                      *)
LEMMA CheckFreeInv == ASSUME IInv, write_hintblock_check_free_callback PROVE IInv'
<1>. USE DEF IInv, LocalInv
<1>0. /\ InRegionStep /\ i \in HintPositions /\ cur.location = i
      /\ cur \in HintblockState /\ cur # NoState
  BY HintPositionFacts, HalfAssumption
  DEF write_hintblock_check_free_callback, Callback, InRegionStep, LoopInv, SearchInv,
      LocalType, NoState, Spacing
<1>1. DataType' /\ HintsPointBack'
  BY DeviceUnchanged DEF write_hintblock_check_free_callback, device, DataType
<1>2. CASE region_full(cur)
  <2>1. NextHintblock /\ best' = best /\ op' = op
    BY <1>2 DEF write_hintblock_check_free_callback
  <2>2. best' \in HintblockState /\ StateInv(best)'
    BY <2>1 DEF LocalType, SearchInv, StateInv
  <2>. QED BY <1>0, <1>1, <2>1, <2>2, NextHintblockFacts
<1>3. CASE ~region_full(cur)
  <2>1. /\ free_location(cur) \in 1..(cur.location - 1)
        /\ free_location(cur) # backup_location(cur.location)
    BY <1>0, <1>3, FreeLocationFacts DEF SearchInv, StateInv
  <2>2. /\ pc' = "put_block" /\ loc' = free_location(cur)
        /\ UNCHANGED <<pass, ret, i, begin, end, cur, best, j, op>>
    BY <1>3 DEF write_hintblock_check_free_callback
  <2>3. LocalType'
    BY <1>0, <2>1, <2>2, HintPositionFacts DEF LocalType, Pcs
  <2>4. LoopInv'
    BY <2>2 DEF LoopInv, InRegionStep
  <2>5. SearchInv' /\ PutInv'
    BY <1>0, <2>1, <2>2 DEF SearchInv, StateInv, PutInv
  <2>6. WriteInv'
    BY <2>2 DEF WriteInv, write_hintblock_check_free_callback, Callback
  <2>. QED BY <1>1, <2>3, <2>4, <2>5, <2>6
<1>. QED BY <1>2, <1>3

(* The region with the lowest timestamp so far is one of the device.       *)
LEMMA CheckTimestampsInv == ASSUME IInv, write_hintblock_check_timestamps PROVE IInv'
<1>. USE DEF IInv, LocalInv
<1>1. DataType' /\ HintsPointBack'
  BY DeviceUnchanged DEF write_hintblock_check_timestamps, device, DataType
<1>2. NextHintblock /\ best' \in {cur, best} /\ op' = op /\ InRegionStep
  BY DEF write_hintblock_check_timestamps, Callback, InRegionStep
<1>3. best' \in HintblockState /\ StateInv(best)'
  BY <1>2 DEF LocalType, SearchInv, StateInv
<1>. QED BY <1>1, <1>2, <1>3, NextHintblockFacts

(* So is the oldest region so far, and the loop ends at the first region   *)
(* that is not valid.                                                      *)
LEMMA FindOldestCallbackInv ==
  ASSUME IInv, block_find_oldest_hintblock_loop_callback PROVE IInv'
<1>. USE DEF IInv, LocalInv
<1>1. DataType' /\ HintsPointBack'
  BY DeviceUnchanged DEF block_find_oldest_hintblock_loop_callback, device, DataType
<1>2. op' = op /\ InRegionStep
  BY DEF block_find_oldest_hintblock_loop_callback, Callback, InRegionStep
<1>3. CASE cur.valid
  <2>1. NextHintblock /\ best' \in {cur, best}
    BY <1>3 DEF block_find_oldest_hintblock_loop_callback
  <2>2. best' \in HintblockState /\ StateInv(best)'
    BY <2>1 DEF LocalType, SearchInv, StateInv
  <2>. QED BY <1>1, <1>2, <2>1, <2>2, NextHintblockFacts
<1>4. CASE ~cur.valid
  <2>1. pc' = "hint" /\ i' = end /\ UNCHANGED <<pass, ret, begin, end, cur, best, loc, j>>
    BY <1>4 DEF block_find_oldest_hintblock_loop_callback
  <2>2. LocalType'
    BY <2>1 DEF LocalType, Pcs
  <2>3. LoopInv'
    BY <1>2, <2>1, <2>2 DEF LoopInv, InRegionStep, LocalType
  <2>4. SearchInv' /\ PutInv' /\ WriteInv'
    BY <1>2, <2>1 DEF SearchInv, StateInv, PutInv, WriteInv, Putting
  <2>. QED BY <1>1, <2>2, <2>3, <2>4
<1>. QED BY <1>3, <1>4

(* The scan enters a region, goes to the next, or ends.                    *)
LEMMA ScanCallbackInv == ASSUME IInv, scan_hintblock_loop_callback PROVE IInv'
<1>. USE DEF IInv, LocalInv
<1>1. DataType' /\ HintsPointBack'
  BY DeviceUnchanged DEF scan_hintblock_loop_callback, device, DataType
<1>2. op' = op /\ InRegionStep /\ pc = "callback"
  BY DEF scan_hintblock_loop_callback, Callback, InRegionStep
<1>3. CASE EndOp("ok")
  BY <1>1, <1>3, EndOpFacts DEF Returns
<1>4. CASE NextHintblock /\ UNCHANGED best
  <2>1. best' \in HintblockState /\ StateInv(best)'
    BY <1>4 DEF LocalType, SearchInv, StateInv
  <2>. QED BY <1>1, <1>2, <1>4, <2>1, NextHintblockFacts
<1>5. CASE /\ pc' = "blocks" /\ j' = blockstart_min(i)
           /\ UNCHANGED <<pass, ret, i, begin, end, cur, best, loc>>
  <2>1. i \in HintPositions /\ i \in Nat /\ Spacing <= i
    BY <1>2, HintPositionFacts DEF LoopInv
  <2>2. blockstart_min(i) \in Nat
    BY <2>1, HalfAssumption DEF blockstart_min, Spacing
  <2>3. LocalType'
    BY <1>5, <2>2 DEF LocalType, Pcs
  <2>4. LoopInv'
    BY <1>2, <1>5 DEF LoopInv, InRegionStep
  <2>5. SearchInv' /\ PutInv' /\ WriteInv'
    BY <1>2, <1>5 DEF SearchInv, StateInv, PutInv, WriteInv, Putting
  <2>. QED BY <1>1, <2>3, <2>4, <2>5
<1>. QED BY <1>3, <1>4, <1>5 DEF scan_hintblock_loop_callback

(* A hint block that is zeroed points nowhere.                             *)
LEMMA ClearCallbackInv == ASSUME IInv, clear_hintblocks_loop_callback PROVE IInv'
<1>. USE DEF IInv, LocalInv
<1>1. op' = op /\ InRegionStep /\ i \in HintPositions /\ i \in Positions
  BY HintPositionFacts DEF clear_hintblocks_loop_callback, Callback, InRegionStep, LoopInv
<1>2. CASE io_writable(i)
  <2>1. dev' = [dev EXCEPT ![i] = Junk] /\ NextHintblock /\ UNCHANGED best
    BY <1>2 DEF clear_hintblocks_loop_callback
  <2>2. Junk \in Content /\ Junk.kind # "hint"
    BY MaxTimeAssumption DEF Junk, Content, Kinds, Time
  <2>3. dev' \in [Positions -> Content] /\ HintsPointBack'
    BY <1>1, <2>1, <2>2, PutNoHint
  <2>4. DataType'
    BY <2>3 DEF clear_hintblocks_loop_callback, DataType
  <2>5. best' \in HintblockState /\ StateInv(best)'
    BY <2>1 DEF LocalType, SearchInv, StateInv
  <2>. QED BY <1>1, <2>1, <2>3, <2>4, <2>5, NextHintblockFacts
<1>3. CASE ~io_writable(i)
  <2>1. DataType' /\ HintsPointBack'
    BY <1>3, DeviceUnchanged DEF clear_hintblocks_loop_callback, DataType
  <2>2. LocalInv'
    BY <1>3, EndOpFacts DEF clear_hintblocks_loop_callback, Returns
  <2>. QED BY <2>1, <2>2
<1>. QED BY <1>2, <1>3

-----------------------------------------------------------------------------
(* A new loop starts at a hint block.                                      *)
LEMMA BeginLoopFacts ==
  ASSUME IInv, NEW p \in Passes, NEW first \in HintPositions, BeginLoop(p, first),
         p \in {"free", "stamps"} => op.kind = "write", op' = op
  PROVE  LocalInv'
<1>. USE DEF IInv, LocalInv
<1>1. first \in Nat
  BY HintPositionFacts
<1>2. LocalType'
  BY <1>1, SizeAssumption, MaxTimeAssumption
  DEF BeginLoop, LocalType, Pcs, NoState, HintblockState, Time
<1>3. LoopInv'
  BY DEF BeginLoop, LoopInv, InRegionStep
<1>4. SearchInv' /\ PutInv' /\ WriteInv'
  BY DEF BeginLoop, SearchInv, StateInv, PutInv, WriteInv, Putting
<1>. QED BY <1>2, <1>3, <1>4

(* What follows the last region of a loop.                                 *)
LEMMA LoopEndInv ==
  ASSUME IInv,
         \/ write_find_location_oldest \/ write_find_location_end
         \/ block_find_oldest_hintblock
         \/ block_loop_hintblocks_second_round \/ block_loop_hintblocks_end
  PROVE  IInv'
<1>. USE DEF IInv, LocalInv
<1>1. UNCHANGED <<dev, header, op, out, newest, faults>>
  BY DEF write_find_location_oldest, write_find_location_end, block_find_oldest_hintblock,
         block_loop_hintblocks_second_round, block_loop_hintblocks_end, device
<1>2. DataType' /\ HintsPointBack'
  BY <1>1, DeviceUnchanged DEF DataType
<1>3. CASE write_find_location_oldest
  <2>1. BeginLoop("stamps", loop_begin_orig) /\ op.kind = "write"
    BY <1>3 DEF write_find_location_oldest, LoopDone, WriteInv
  <2>. QED BY <1>1, <1>2, <2>1, FirstHint, BeginLoopFacts DEF Passes
<1>4. CASE write_find_location_end
  <2>1. CASE best # NoState
    <3>1. /\ pc' = "put_block" /\ loc' = blockstart_min(best.location) /\ cur' = best
          /\ UNCHANGED <<pass, ret, i, begin, end, best, j>>
      BY <1>4, <2>1 DEF write_find_location_end
    <3>2. /\ best.location \in HintPositions /\ best \in HintblockState
          /\ best.valid => best.prev \in 1..(best.location - 1)
      BY <2>1 DEF SearchInv, StateInv, LocalType
    <3>3. /\ loc' \in 1..(best.location - 1) /\ best.location \in Nat
          /\ loc' # backup_location(best.location)
      BY <3>1, <3>2, FreeLocationFacts, HintPositionFacts
    <3>4. LocalType'
      BY <3>1, <3>2, <3>3 DEF LocalType, Pcs
    <3>5. LoopInv'
      BY <3>1, <1>1 DEF LoopInv, InRegionStep
    <3>6. SearchInv' /\ PutInv'
      BY <3>1, <3>2, <3>3 DEF SearchInv, StateInv, PutInv
    <3>7. WriteInv'
      BY <1>1, <1>4, <3>1 DEF WriteInv, write_find_location_end, LoopDone
    <3>. QED BY <1>2, <3>4, <3>5, <3>6, <3>7
  <2>2. CASE best = NoState
    BY <1>2, <1>4, <2>2, EndOpFacts DEF write_find_location_end, Returns
  <2>. QED BY <2>1, <2>2
<1>5. CASE block_find_oldest_hintblock
  <2>1. CASE best.valid
    <3>1. best.location \in HintPositions
      BY <2>1 DEF SearchInv, StateInv, NoState
    <3>2. BeginLoop("scan", best.location)
      BY <1>5, <2>1 DEF block_find_oldest_hintblock
    <3>. QED BY <1>1, <1>2, <3>1, <3>2, BeginLoopFacts DEF Passes
  <2>2. CASE ~best.valid
    BY <1>2, <1>5, <2>2, EndOpFacts DEF block_find_oldest_hintblock, Returns
  <2>. QED BY <2>1, <2>2
<1>6. CASE block_loop_hintblocks_second_round
  <2>1. /\ pc = "hint" /\ i' = loop_begin_orig /\ end' = begin
        /\ UNCHANGED <<pc, pass, ret, begin, cur, best, loc, j>>
    BY <1>6 DEF block_loop_hintblocks_second_round, LoopDone
  <2>2. LocalType'
    BY <2>1, HalfAssumption DEF LocalType, loop_begin_orig, Spacing
  <2>3. LoopInv'
    BY <1>1, <2>1, FirstHint DEF LoopInv, InRegionStep
  <2>4. SearchInv' /\ PutInv' /\ WriteInv'
    BY <1>1, <2>1 DEF SearchInv, StateInv, PutInv, WriteInv, Putting
  <2>. QED BY <1>2, <2>2, <2>3, <2>4
<1>7. CASE block_loop_hintblocks_end
  BY <1>2, <1>7, EndOpFacts DEF block_loop_hintblocks_end, Returns
<1>. QED BY <1>3, <1>4, <1>5, <1>6, <1>7

-----------------------------------------------------------------------------
(* The loop over blocks reads positions of the device.                     *)
LEMMA AtBlockFacts ==
  ASSUME IInv, AtBlock
  PROVE  j \in Positions /\ dev[j] \in Content
<1>1. i \in HintPositions /\ i \in Nat /\ i <= DeviceSize - 1
  BY HintPositionFacts DEF AtBlock, IInv, LocalInv, LoopInv, InRegionStep
<1>2. j \in Positions
  BY <1>1, SizeAssumption
  DEF AtBlock, PastLastBlock, blockstart_max, IInv, LocalInv, LocalType, Positions
<1>. QED BY <1>2 DEF IInv, DataType

(* It goes on to the next one.                                             *)
LEMMA NextBlockFacts ==
  ASSUME IInv, pc = "blocks", NextBlock, op' = op
  PROVE  LocalInv'
<1>. USE DEF IInv, LocalInv
<1>1. LocalType' /\ LoopInv'
  BY DEF NextBlock, LocalType, LoopInv, InRegionStep
<1>2. SearchInv' /\ PutInv' /\ WriteInv'
  BY DEF NextBlock, SearchInv, StateInv, PutInv, WriteInv, Putting
<1>. QED BY <1>1, <1>2

(* Its steps that do not change the device.                                *)
LEMMA BlockLoopInv ==
  ASSUME IInv,
         \/ block_loop_blocks_skip_backup \/ block_loop_blocks_invalid
         \/ block_loop_blocks_end \/ read_block_loop_callback
  PROVE  IInv'
<1>. USE DEF IInv, LocalInv
<1>1. UNCHANGED <<dev, header, op, newest, faults>> /\ pc = "blocks"
  BY DEF block_loop_blocks_skip_backup, block_loop_blocks_invalid, block_loop_blocks_end,
         read_block_loop_callback, AtBlock, device
<1>2. out' \in Seq(Content)
  <2>1. CASE read_block_loop_callback
    BY <2>1, AtBlockFacts DEF read_block_loop_callback, DataType
  <2>2. CASE ~read_block_loop_callback
    BY <2>2 DEF block_loop_blocks_skip_backup, block_loop_blocks_invalid,
                block_loop_blocks_end, DataType
  <2>. QED BY <2>1, <2>2
<1>3. DataType' /\ HintsPointBack'
  BY <1>1, <1>2, DeviceUnchanged
<1>4. NextBlock \/ EndOp("ok") \/ EndOp("exit") \/ (NextHintblock /\ UNCHANGED best)
  BY DEF block_loop_blocks_skip_backup, block_loop_blocks_invalid, block_loop_blocks_end,
         read_block_loop_callback, AfterBlocks
<1>5. CASE NextBlock
  BY <1>1, <1>3, <1>5, NextBlockFacts
<1>6. CASE EndOp("ok") \/ EndOp("exit")
  BY <1>3, <1>6, EndOpFacts DEF Returns
<1>7. CASE NextHintblock /\ UNCHANGED best
  <2>1. best' \in HintblockState /\ StateInv(best)'
    BY <1>7 DEF LocalType, SearchInv, StateInv
  <2>. QED BY <1>1, <1>3, <1>7, <2>1, NextHintblockFacts DEF InRegionStep
<1>. QED BY <1>4, <1>5, <1>6, <1>7

(* An updated block is a block in the same place.                          *)
LEMMA UpdateInv == ASSUME IInv, update_block_loop_callback PROVE IInv'
<1>. USE DEF IInv, LocalInv
<1>1. UNCHANGED <<header, op, newest, faults>> /\ pc = "blocks" /\ AtBlock
  BY DEF update_block_loop_callback, AtBlock
<1>2. j \in Positions /\ dev[j] \in Content
  BY <1>1, AtBlockFacts
<1>3. NextBlock \/ EndOp("ok") \/ EndOp("ERR")
  BY DEF update_block_loop_callback
<1>4. LocalInv'
  BY <1>1, <1>3, NextBlockFacts, EndOpFacts DEF Returns
<1>5. CASE UNCHANGED <<dev, out>>
  <2>1. DataType' /\ HintsPointBack'
    BY <1>1, <1>5, DeviceUnchanged DEF DataType
  <2>. QED BY <1>4, <2>1
<1>6. CASE \E new_appdata \in SUBSET Flags :
             /\ dev' = [dev EXCEPT ![j] = Updated(dev[j], new_appdata)]
             /\ out' = Append(out, dev'[j])
  <2>1. PICK new_appdata \in SUBSET Flags :
             /\ dev' = [dev EXCEPT ![j] = Updated(dev[j], new_appdata)]
             /\ out' = Append(out, dev'[j])
    BY <1>6
  <2>. DEFINE c == Updated(dev[j], new_appdata)
  <2>2. c \in Content /\ c.kind # "hint"
    BY <1>2 DEF Updated, Block, Content, Kinds
  <2>3. dev' \in [Positions -> Content] /\ HintsPointBack'
    <3>. HIDE DEF c
    <3>. QED BY <1>2, <2>1, <2>2, PutNoHint DEF c
  <2>4. out' \in Seq(Content)
    BY <1>2, <2>1, <2>3 DEF DataType
  <2>5. DataType'
    BY <1>1, <2>3, <2>4 DEF DataType
  <2>. QED BY <1>4, <2>3, <2>5
<1>. QED BY <1>5, <1>6 DEF update_block_loop_callback

-----------------------------------------------------------------------------
(* A corrected timestamp is a timestamp.                                   *)
LEMMA StampFacts ==
  ASSUME NEW ts \in Time, NEW highest \in Time
  PROVE  Stamp(ts, highest) \in Time
<1>1. ASSUME NEW a \in Nat, NEW b \in Nat \ {0} PROVE a % b \in 0..(b - 1)
  OBVIOUS
<1>2. (highest + 1) % (MaxTime + 1) \in 0..MaxTime
  BY <1>1, MaxTimeAssumption DEF Time
<1>. QED BY <1>2 DEF Stamp, Time

(* What a write puts is a data block.                                      *)
LEMMA NewBlockFacts ==
  ASSUME IInv
  PROVE  NewBlock \in Content /\ NewBlock.kind = "block" /\ NewBlock.ts \in Time
<1>1. op.ts \in Time /\ cur.highest \in Time /\ op.app \in SUBSET Flags
  BY DEF IInv, LocalInv, LocalType, DataType, Operations, HintblockState
<1>2. Stamp(op.ts, cur.highest) \in Time
  BY <1>1, StampFacts
<1>. QED BY <1>1, <1>2 DEF NewBlock, Block, Content, Kinds

(* A write puts its block before every hint block that it updates.         *)
LEMMA PutFacts ==
  ASSUME IInv, Putting
  PROVE  /\ loc \in Positions /\ loc \in Nat
         /\ cur.location \in Positions
         /\ backup_location(cur.location) \in Positions
         /\ \A p \in {cur.location, backup_location(cur.location)} :
              \A h \in HintPositions : p \in {h, backup_location(h)} => loc \in 1..(h - 1)
<1>. DEFINE g == cur.location
<1>1. g \in HintPositions /\ loc \in 1..(g - 1)
  BY DEF IInv, LocalInv, PutInv
<1>2. /\ g \in Nat /\ g <= DeviceSize - 1
      /\ g \in Positions /\ backup_location(g) \in Positions
      /\ backup_location(g) \notin HintPositions
  BY <1>1, HintPositionFacts
<1>3. loc \in Positions /\ loc \in Nat
  BY <1>1, <1>2, SizeAssumption DEF Positions
<1>4. ASSUME NEW p \in {g, backup_location(g)}, NEW h \in HintPositions,
             p \in {h, backup_location(h)}
      PROVE  loc \in 1..(h - 1)
  <2>1. h \in Nat
    BY HintPositionFacts
  <2>2. g <= h
    BY <1>2, <1>4, <2>1, HalfAssumption DEF backup_location
  <2>. QED BY <1>1, <1>2, <2>1, <2>2
<1>. QED BY <1>2, <1>3, <1>4

(* Refusing a block, or putting it and updating its hint blocks.           *)
LEMMA PutStepInv ==
  ASSUME IInv,
         \/ write_put_block_refused \/ write_checksum_and_put_block
         \/ write_update_hintblock \/ write_update_hintblock_backup
  PROVE  IInv'
<1>. USE DEF IInv, LocalInv
<1>0. Putting /\ UNCHANGED <<header, op, out, faults>>
  BY DEF write_put_block_refused, write_checksum_and_put_block, ReadyToPut,
         write_update_hintblock, write_update_hintblock_backup, Putting, device
<1>1. ASSUME NEW code \in Returns, EndOp(code), UNCHANGED <<dev, newest>>
      PROVE  IInv'
  <2>1. DataType' /\ HintsPointBack'
    BY <1>0, <1>1, DeviceUnchanged DEF DataType
  <2>. QED BY <1>1, <2>1, EndOpFacts
<1>2. ASSUME pc' \in {"put_hint", "put_backup"}, UNCHANGED <<locals, ret>>
      PROVE  LocalInv'
  <2>1. LocalType' /\ LoopInv'
    BY <1>2 DEF locals, LocalType, Pcs, LoopInv, InRegionStep
  <2>2. SearchInv' /\ PutInv' /\ WriteInv'
    BY <1>0, <1>2 DEF locals, SearchInv, StateInv, PutInv, WriteInv, Putting
  <2>. QED BY <2>1, <2>2
<1>3. CASE write_put_block_refused
  <2>1. TimestampError \in Returns /\ "ERR_SIZE" \in Returns
    BY DEF TimestampError, Returns
  <2>2. UNCHANGED <<dev, newest>>
    BY <1>3 DEF write_put_block_refused, device
  <2>3. EndOp(TimestampError) \/ EndOp("ERR_SIZE")
    BY <1>3 DEF write_put_block_refused
  <2>. QED BY <1>1, <2>1, <2>2, <2>3
<1>4. CASE write_checksum_and_put_block
  <2>1. CASE ~FunnyLocation /\ io_writable(loc)
    <3>1. /\ dev' = [dev EXCEPT ![loc] = NewBlock]
          /\ newest' \in {NewBlock.ts, newest}
          /\ pc' = "put_hint" /\ UNCHANGED <<locals, ret>>
      BY <1>4, <2>1 DEF write_checksum_and_put_block
    <3>2. dev' \in [Positions -> Content] /\ HintsPointBack'
      BY <1>0, <3>1, PutFacts, NewBlockFacts, PutNoHint
    <3>3. DataType'
      BY <1>0, <3>1, <3>2, NewBlockFacts DEF DataType
    <3>. QED BY <1>2, <3>1, <3>2, <3>3
  <2>2. CASE FunnyLocation \/ ~io_writable(loc)
    <3>1. UNCHANGED <<dev, newest>> /\ (EndOp("exit") \/ EndOp("ERR"))
      BY <1>4, <2>2 DEF write_checksum_and_put_block
    <3>. QED BY <1>1, <3>1 DEF Returns
  <2>. QED BY <2>1, <2>2
<1>5. CASE write_update_hintblock
  <2>0. newest' = newest
    BY <1>5 DEF write_update_hintblock
  <2>1. CASE io_writable(cur.location)
    <3>1. /\ dev' = [dev EXCEPT ![cur.location] = HintBlock(loc)]
          /\ pc' = "put_backup" /\ UNCHANGED <<locals, ret>>
      BY <1>5, <2>1 DEF write_update_hintblock
    <3>2. dev' \in [Positions -> Content] /\ HintsPointBack'
      BY <1>0, <3>1, PutFacts, PutHint
    <3>3. DataType'
      BY <1>0, <2>0, <3>2 DEF DataType
    <3>. QED BY <1>2, <3>1, <3>2, <3>3
  <2>2. CASE ~io_writable(cur.location)
    BY <1>1, <1>5, <2>2 DEF write_update_hintblock, Returns
  <2>. QED BY <2>1, <2>2
<1>6. CASE write_update_hintblock_backup
  <2>0. newest' = newest
    BY <1>6 DEF write_update_hintblock_backup
  <2>. DEFINE b == backup_location(cur.location)
  <2>1. CASE io_writable(b)
    <3>1. dev' = [dev EXCEPT ![b] = HintBlock(loc)] /\ EndOp("ok")
      BY <1>6, <2>1 DEF write_update_hintblock_backup
    <3>2. dev' \in [Positions -> Content] /\ HintsPointBack'
      BY <1>0, <3>1, PutFacts, PutHint
    <3>3. DataType'
      BY <1>0, <2>0, <3>2 DEF DataType
    <3>4. LocalInv'
      BY <3>1, EndOpFacts DEF Returns
    <3>. QED BY <3>2, <3>3, <3>4
  <2>2. CASE ~io_writable(b)
    BY <1>1, <1>6, <2>2 DEF write_update_hintblock_backup, Returns
  <2>. QED BY <2>1, <2>2
<1>. QED BY <1>3, <1>4, <1>5, <1>6

-----------------------------------------------------------------------------
(* A damaged block is no hint block and keeps its timestamp.               *)
LEMMA DamagedFacts ==
  ASSUME NEW c \in Content, NEW k \in {"junk", "oversize"}
  PROVE  Damaged(c, k) \in Content /\ Damaged(c, k).kind # "hint"
                                  /\ Damaged(c, k).ts = c.ts
BY DEF Damaged, Content, Kinds

(* A copy that was cut short leaves no hint block.                         *)
LEMMA TornFacts ==
  ASSUME DataType, HintsPointBack, NEW p \in Positions, NEW c \in Content, Torn(p, c)
  PROVE  dev' \in [Positions -> Content] /\ HintsPointBack'
<1>1. dev[p] \in Content
  BY DEF DataType
<1>2. PICK x \in Content, k \in {"junk", "oversize"} :
             dev' = [dev EXCEPT ![p] = Damaged(x, k)]
  BY <1>1 DEF Torn
<1>. QED BY <1>2, DamagedFacts, PutNoHint

(* Being killed in the middle of any copy keeps the invariant.             *)
LEMMA TornCrashInv == ASSUME IInv, TornCrash PROVE IInv'
<1>. USE DEF IInv, LocalInv
<1>0. \A q \in Nat : HintBlock(q) \in Content
  BY MaxTimeAssumption DEF HintBlock, Content, Kinds, Time
<1>1. CASE ReadyToPut /\ Torn(loc, NewBlock)
  <2>1. loc \in Positions /\ NewBlock \in Content
    BY <1>1, PutFacts, NewBlockFacts DEF ReadyToPut, Putting
  <2>. QED BY <1>1, <2>1, TornFacts, EndOpFacts DEF TornCrash, Returns, DataType
<1>2. CASE pc = "put_hint" /\ Torn(cur.location, HintBlock(loc))
  <2>1. cur.location \in Positions /\ HintBlock(loc) \in Content
    BY <1>0, <1>2, PutFacts DEF Putting
  <2>. QED BY <1>2, <2>1, TornFacts, EndOpFacts DEF TornCrash, Returns, DataType
<1>3. CASE pc = "put_backup" /\ Torn(backup_location(cur.location), HintBlock(loc))
  <2>1. backup_location(cur.location) \in Positions /\ HintBlock(loc) \in Content
    BY <1>0, <1>3, PutFacts DEF Putting
  <2>. QED BY <1>3, <2>1, TornFacts, EndOpFacts DEF TornCrash, Returns, DataType
<1>4. CASE pc = "recover_main" /\ Torn(i, HintBlock(dev[backup_location(i)].prev))
  <2>1. i \in Positions /\ backup_location(i) \in Positions
    BY <1>4, HintPositionFacts DEF LoopInv, InRegionStep
  <2>2. HintBlock(dev[backup_location(i)].prev) \in Content
    BY <1>0, <2>1 DEF DataType, Content
  <2>. QED BY <1>4, <2>1, <2>2, TornFacts, EndOpFacts DEF TornCrash, Returns, DataType
<1>5. CASE pc = "recover_backup" /\ Torn(recovery_backup_location(i), HintBlock(dev[i].prev))
  <2>1. i \in Positions /\ i \in Nat
    BY <1>5, HintPositionFacts DEF LoopInv, InRegionStep
  <2>2. HintBlock(dev[i].prev) \in Content
    BY <1>0, <2>1 DEF DataType, Content
  <2>3. recovery_backup_location(i) \in Positions
    BY <1>5, <2>1, HalfAssumption, SizeAssumption
    DEF Torn, recovery_backup_location, io_writable, Positions
  <2>. QED BY <1>5, <2>2, <2>3, TornFacts, EndOpFacts DEF TornCrash, Returns, DataType
<1>. QED BY <1>1, <1>2, <1>3, <1>4, <1>5 DEF TornCrash

(* All faults do.                                                          *)
LEMMA FaultInv == ASSUME IInv, Fault PROVE IInv'
<1>. USE DEF IInv, LocalInv
<1>1. CASE Crash
  <2>1. DataType' /\ HintsPointBack'
    BY <1>1, DeviceUnchanged DEF Crash, device, DataType
  <2>. QED BY <1>1, <2>1, EndOpFacts DEF Crash, Returns
<1>2. CASE TornCrash
  BY <1>2, TornCrashInv
<1>3. CASE Decay
  <2>1. PICK p \in Positions, k \in {"junk", "oversize"} :
               dev' = [dev EXCEPT ![p] = Damaged(dev[p], k)]
    BY <1>3 DEF Decay
  <2>2. dev[p] \in Content
    BY DEF DataType
  <2>3. dev' \in [Positions -> Content] /\ HintsPointBack'
    BY <2>1, <2>2, DamagedFacts, PutNoHint
  <2>4. DataType'
    BY <1>3, <2>3 DEF Decay, DataType
  <2>5. LocalType' /\ LoopInv'
    BY <1>3 DEF Decay, locals, LocalType, LoopInv, InRegionStep
  <2>6. SearchInv' /\ PutInv' /\ WriteInv'
    BY <1>3 DEF Decay, locals, SearchInv, StateInv, PutInv, WriteInv, Putting
  <2>. QED BY <2>3, <2>4, <2>5, <2>6
<1>4. CASE HeaderDecay
  <2>0. header' \in BOOLEAN
    BY <1>4, Zenon DEF HeaderDecay
  <2>1. DataType' /\ HintsPointBack'
    BY <1>4, <2>0 DEF HeaderDecay, DataType, HintsPointBack, validate_hintblock
  <2>2. LocalType' /\ LoopInv'
    BY <1>4 DEF HeaderDecay, locals, LocalType, LoopInv, InRegionStep
  <2>3. SearchInv' /\ PutInv' /\ WriteInv'
    BY <1>4 DEF HeaderDecay, locals, SearchInv, StateInv, PutInv, WriteInv, Putting
  <2>. QED BY <2>1, <2>2, <2>3
<1>. QED BY <1>1, <1>2, <1>3, <1>4 DEF Fault

-----------------------------------------------------------------------------
(* The invariant holds of the device bdl_init_dev leaves.                  *)
LEMMA InitInv == Init => IInv
<1>. SUFFICES ASSUME Init PROVE IInv
  OBVIOUS
<1>1. Junk \in Content /\ NoOp \in Operations /\ NoState \in HintblockState
  BY MaxTimeAssumption
  DEF Junk, Content, Kinds, NoOp, Operation, Operations, OpKinds, NoState,
      HintblockState, Time
<1>2. DataType
  BY <1>1, MaxTimeAssumption DEF Init, DataType, Time
<1>3. HintsPointBack
  BY HintPositionFacts DEF Init, HintsPointBack, validate_hintblock, Junk
<1>4. LocalType /\ LoopInv
  BY <1>1 DEF Init, LocalType, Pcs, Passes, Returns, LoopInv, InRegionStep
<1>5. SearchInv /\ PutInv /\ WriteInv
  BY DEF Init, SearchInv, StateInv, PutInv, WriteInv, Putting
<1>. QED BY <1>2, <1>3, <1>4, <1>5 DEF IInv, LocalInv

(* Every step keeps it.                                                    *)
LEMMA NextInv == IInv /\ [Next]_vars => IInv'
<1>. SUFFICES ASSUME IInv, [Next]_vars PROVE IInv'
  OBVIOUS
<1>1. CASE Request
  BY <1>1, RequestInv
<1>2. CASE Step
  BY <1>2, HintblockStateInv, RecoverInv, RecoverBackupInv, CheckFreeInv, CheckTimestampsInv,
     FindOldestCallbackInv, ScanCallbackInv, ClearCallbackInv, LoopEndInv, BlockLoopInv,
     UpdateInv, PutStepInv DEF Step
<1>3. CASE Fault
  BY <1>3, FaultInv
<1>4. CASE UNCHANGED vars
  <2>1. DataType' /\ HintsPointBack'
    BY <1>4 DEF vars, IInv, DataType, HintsPointBack
  <2>2. LocalType' /\ LoopInv'
    BY <1>4 DEF vars, IInv, LocalInv, LocalType, LoopInv, InRegionStep
  <2>3. SearchInv' /\ PutInv' /\ WriteInv'
    BY <1>4 DEF vars, IInv, LocalInv, SearchInv, StateInv, PutInv, WriteInv, Putting
  <2>. QED BY <2>1, <2>2, <2>3 DEF IInv, LocalInv
<1>. QED BY <1>1, <1>2, <1>3, <1>4 DEF Next

(* The strengthened invariant of every behaviour: requests, kills, torn    *)
(* and decayed blocks in any number and order.                             *)
THEOREM Invariance == Spec => []IInv
BY InitInv, NextInv, PTL DEF Spec

(* Every variable keeps its type: no state of a region is ever computed    *)
(* from a position outside the device (block_get_hintblock_state).         *)
THEOREM TypeCorrect == Spec => []TypeOK
<1>1. IInv => TypeOK
  BY DEF IInv, DataType, LocalInv, LocalType, TypeOK
<1>. QED BY <1>1, Invariance, PTL

(* Valid hint blocks and backups name a position before the hint block,    *)
(* whatever was recovered to wherever (write_update_hintblock,             *)
(* block_hintblock_recover_backup).                                        *)
THEOREM HintsPointBackwards == Spec => []HintsPointBack
<1>1. IInv => HintsPointBack
  BY DEF IInv
<1>. QED BY <1>1, Invariance, PTL

=============================================================================
