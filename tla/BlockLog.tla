------------------------------ MODULE BlockLog ------------------------------
(***************************************************************************)
(* The log on a device: write, read, update and clear, as one process runs *)
(* them.  A step ends before each change of the device, so that the        *)
(* process can be killed between any two of them.  The steps of an         *)
(* operation are told apart by pc:                                         *)
(*                                                                         *)
(*   hint             at the head of block_loop_hintblocks_worker          *)
(*   recover_main     about to restore the hint block at i                 *)
(*   recover_backup   about to write the copy of what was restored         *)
(*   callback         hint block read, about to call the loop's callback   *)
(*   blocks           in block_loop_blocks, at j                           *)
(*   put_block        location found, about to put the data block          *)
(*   put_hint         about to update the hint block of the region         *)
(*   put_backup       about to update its backup                           *)
(*   returned         the caller has the result in ret and out             *)
(*                                                                         *)
(* and pass names the callback of the loop over the hint blocks: free and  *)
(* stamps find the location of a write, oldest finds where to begin a read *)
(* or an update, scan goes through the regions, clear clears.              *)
(***************************************************************************)
EXTENDS Blocks, Sequences

CONSTANTS
  Ops,        \* the operations the application uses
  Stamps,     \* timestamps it gives, or the clock gives for it
  Fakes,      \* values of faketimestamp
  Limits,     \* values of limit; 0 is no limit
  Ordered,    \* TRUE: each timestamp given is later than all before it
  MaxFaults   \* bound on torn and decayed blocks

ASSUME StampsAssumption == Stamps \subseteq Time \ {0}
ASSUME FakesAssumption == Fakes \subseteq Nat
ASSUME LimitsAssumption == Limits \subseteq Nat
ASSUME OrderedAssumption == Ordered \in BOOLEAN
ASSUME FaultsAssumption == MaxFaults \in Nat

VARIABLES
  dev,      \* what each position of the device holds
  header,   \* whether the master header is valid
  pc, pass, \* where the running operation is
  op,       \* the running or last operation and its arguments
  out,      \* the blocks it has printed (read) or changed (update)
  ret,      \* what the last operation returned
  i, begin, end,  \* the loop over the hint blocks
  cur,      \* hintblock_state of the region the loop is at
  best,     \* the hintblock_state a search has chosen so far
  loc,      \* block_location
  j,        \* the loop over the blocks of a region
  newest,   \* the latest timestamp put on the device (history)
  faults    \* faults so far (bound)

locals == <<pass, i, begin, end, cur, best, loc, j>>
device == <<dev, header>>
vars == <<dev, header, pc, pass, op, out, ret, i, begin, end, cur, best, loc, j,
          newest, faults>>

OpKinds == {"write", "read", "update", "clear"}

(* ts is the timestamp of a write and timestamp_gteq of a read or update.  *)
Operations == [kind : OpKinds, ts : Time, fake : Nat, fits : BOOLEAN,
               app : SUBSET Flags, limit : Nat]

Operation(kind, ts, fake, fits, app, limit) ==
  [kind |-> kind, ts |-> ts, fake |-> fake, fits |-> fits, app |-> app, limit |-> limit]

NoOp == Operation("read", 0, 0, TRUE, {}, 0)

Pcs == {"idle", "hint", "recover_main", "recover_backup", "callback", "blocks",
        "put_block", "put_hint", "put_backup", "returned"}

Passes == {"none", "free", "stamps", "oldest", "scan", "clear"}

Returns == {"none", "ok", "invalid", "ERR", "ERR_TIMESTAMP", "ERR_SIZE",
            "ERR_CORRUPT", "exit", "crash"}

TypeOK ==
  /\ dev \in [Positions -> Content]
  /\ header \in BOOLEAN
  /\ pc \in Pcs
  /\ pass \in Passes
  /\ op \in Operations
  /\ out \in Seq(Content)
  /\ ret \in Returns
  /\ i \in Nat /\ begin \in Nat /\ end \in Nat
  /\ cur \in HintblockState /\ best \in HintblockState
  /\ loc \in Nat /\ j \in Nat
  /\ newest \in Time
  /\ faults \in Nat

(* bdl_init_dev has written the header; no hint block is initialized.      *)
Init ==
  /\ dev = [p \in Positions |-> Junk]
  /\ header = TRUE
  /\ pc = "idle" /\ pass = "none"
  /\ op = NoOp /\ out = <<>> /\ ret = "none"
  /\ i = 0 /\ begin = 0 /\ end = 0
  /\ cur = NoState /\ best = NoState
  /\ loc = 0 /\ j = 0
  /\ newest = 0 /\ faults = 0

-----------------------------------------------------------------------------
(* The operation returns, and its local variables are gone.                *)
EndOp(code) ==
  /\ pc' = "returned" /\ pass' = "none" /\ ret' = code
  /\ i' = 0 /\ begin' = 0 /\ end' = 0
  /\ cur' = NoState /\ best' = NoState
  /\ loc' = 0 /\ j' = 0

(* block_loop_hintblocks_large_device, from the region at first on.        *)
BeginLoop(p, first) ==
  /\ pc' = "hint" /\ pass' = p
  /\ i' = first /\ begin' = first /\ end' = DeviceSize
  /\ cur' = NoState /\ best' = NoState
  /\ UNCHANGED <<loc, j, ret>>

NextHintblock ==
  /\ pc' = "hint" /\ i' = i + Spacing
  /\ UNCHANGED <<pass, begin, end, cur, loc, j, ret>>

(* Every operation first validates the master header.                      *)
BeginOp(o, p, refusal) ==
  /\ pc = "idle" /\ o.kind \in Ops
  /\ op' = o /\ out' = <<>>
  /\ IF header THEN /\ pc' = "hint" /\ pass' = p /\ ret' = "none"
                    /\ i' = loop_begin_orig /\ begin' = loop_begin_orig
                    /\ end' = DeviceSize
               ELSE /\ pc' = "returned" /\ ret' = refusal
                    /\ UNCHANGED <<pass, i, begin, end>>
  /\ UNCHANGED <<device, cur, best, loc, j, newest, faults>>

(* The application is done with the result.                                *)
Return ==
  /\ pc = "returned" /\ pc' = "idle"
  /\ op' = NoOp /\ out' = <<>> /\ ret' = "none"
  /\ UNCHANGED <<device, locals, newest, faults>>

bdl_write_block(ts, fake, fits, app) ==
  /\ Ordered => ts > newest
  /\ BeginOp(Operation("write", ts, fake, fits, app, 0), "free", "ERR_CORRUPT")

bdl_read_blocks(ts, limit) ==
  BeginOp(Operation("read", ts, 0, TRUE, {}, limit), "oldest", "ERR")

bdl_read_update_application_data(ts, mask) ==
  BeginOp(Operation("update", ts, 0, TRUE, mask, 0), "oldest", "ERR_CORRUPT")

bdl_clear_dev == BeginOp(Operation("clear", 0, 0, TRUE, {}, 0), "clear", "invalid")

-----------------------------------------------------------------------------
(* The loop over the hint blocks and the state of the region it is at.     *)
InLoop(step) == pc = step /\ i < end

block_get_hintblock_state ==
  /\ InLoop("hint")
  /\ IF /\ ~validate_hintblock(dev[i])
        /\ validate_hintblock(dev[backup_location(i)])
     THEN pc' = "recover_main" /\ UNCHANGED cur
     ELSE pc' = "callback" /\ cur' = hintblock_state(dev, i, FALSE)
  /\ UNCHANGED <<device, pass, op, out, ret, i, begin, end, best, loc, j, newest, faults>>

(* block_hintblock_recover_backup, up to the hint block itself ...         *)
recover_hintblock ==
  /\ pc = "recover_main"
  /\ IF io_writable(i)
     THEN /\ dev' = [dev EXCEPT ![i] = HintBlock(dev[backup_location(i)].prev)]
          /\ pc' = "recover_backup"
          /\ UNCHANGED <<locals, ret>>
     ELSE EndOp("ERR") /\ UNCHANGED dev
  /\ UNCHANGED <<header, op, out, newest, faults>>

(* ... and the copy, after which the state is computed from what was       *)
(* restored.                                                               *)
recover_hintblock_backup ==
  /\ pc = "recover_backup"
  /\ IF io_writable(recovery_backup_location(i))
     THEN /\ dev' = [dev EXCEPT ![recovery_backup_location(i)] = HintBlock(dev[i].prev)]
          /\ pc' = "callback" /\ cur' = hintblock_state(dev', i, TRUE)
          /\ UNCHANGED <<pass, ret, i, begin, end, best, loc, j>>
     ELSE EndOp("ERR") /\ UNCHANGED dev
  /\ UNCHANGED <<header, op, out, newest, faults>>

Callback(p) == pc = "callback" /\ pass = p

write_hintblock_check_free_callback ==
  /\ Callback("free")
  /\ IF region_full(cur)
     THEN NextHintblock
     ELSE /\ pc' = "put_block" /\ loc' = free_location(cur)
          /\ UNCHANGED <<pass, ret, i, begin, end, cur, j>>
  /\ UNCHANGED <<device, op, out, best, newest, faults>>

(* Mutant: min_timestamp is not lowered when a region is chosen.           *)
NeverLowered(b) == MaxTime

(* The timestamp of the chosen region, or the one no region is below.      *)
LowestSoFar(b) == IF b = NoState THEN MaxTime ELSE b.highest

write_hintblock_check_timestamps ==
  /\ Callback("stamps")
  /\ best' = IF cur.highest < LowestSoFar(best) THEN cur ELSE best
  /\ NextHintblock
  /\ UNCHANGED <<device, op, out, newest, faults>>

block_find_oldest_hintblock_loop_callback ==
  /\ Callback("oldest")
  /\ IF cur.valid
     THEN /\ best' = IF cur.highest >= op.ts /\ cur.highest < LowestSoFar(best)
                     THEN cur ELSE best
          /\ NextHintblock
     ELSE /\ pc' = "hint" /\ i' = end
          /\ UNCHANGED <<pass, ret, begin, end, cur, best, loc, j>>
  /\ UNCHANGED <<device, op, out, newest, faults>>

(* read_hintblock_loop_callback and update_hintblock_loop_callback.        *)
scan_hintblock_loop_callback ==
  /\ Callback("scan")
  /\ \/ ~cur.valid /\ EndOp("ok")
     \/ cur.valid /\ cur.highest < op.ts /\ NextHintblock /\ UNCHANGED best
     \/ /\ cur.valid /\ cur.highest >= op.ts
        /\ pc' = "blocks" /\ j' = blockstart_min(i)
        /\ UNCHANGED <<pass, ret, i, begin, end, cur, best, loc>>
  /\ UNCHANGED <<device, op, out, newest, faults>>

clear_hintblocks_loop_callback ==
  /\ Callback("clear")
  /\ IF io_writable(i)
     THEN dev' = [dev EXCEPT ![i] = Junk] /\ NextHintblock /\ UNCHANGED best
     ELSE EndOp("ERR") /\ UNCHANGED dev
  /\ UNCHANGED <<header, op, out, newest, faults>>

-----------------------------------------------------------------------------
(* The loop has gone through its last region.                              *)
LoopDone(p) == pc = "hint" /\ i >= end /\ pass = p

(* All regions are full: search again for the one with the lowest          *)
(* timestamp.                                                              *)
write_find_location_oldest ==
  /\ LoopDone("free")
  /\ BeginLoop("stamps", loop_begin_orig)
  /\ UNCHANGED <<device, op, out, newest, faults>>

write_find_location_end ==
  /\ LoopDone("stamps")
  /\ IF best # NoState
     THEN /\ pc' = "put_block" /\ loc' = blockstart_min(best.location) /\ cur' = best
          /\ UNCHANGED <<pass, ret, i, begin, end, best, j>>
     ELSE EndOp("exit")
  /\ UNCHANGED <<device, op, out, newest, faults>>

(* Mutant: the oldest region is found, and the scan begins with the first. *)
ScanFromFirst ==
  /\ LoopDone("oldest")
  /\ IF best.valid THEN BeginLoop("scan", loop_begin_orig) ELSE EndOp("ok")
  /\ UNCHANGED <<device, op, out, newest, faults>>

block_find_oldest_hintblock ==
  /\ LoopDone("oldest")
  /\ IF best.valid THEN BeginLoop("scan", best.location) ELSE EndOp("ok")
  /\ UNCHANGED <<device, op, out, newest, faults>>

(* The second round, over the regions before the one the loop began with.  *)
block_loop_hintblocks_second_round ==
  /\ LoopDone("scan") /\ end = DeviceSize /\ begin # loop_begin_orig
  /\ i' = loop_begin_orig /\ end' = begin
  /\ UNCHANGED <<device, pc, pass, op, out, ret, begin, cur, best, loc, j, newest, faults>>

block_loop_hintblocks_end ==
  /\ \/ LoopDone("scan") /\ (end # DeviceSize \/ begin = loop_begin_orig)
     \/ LoopDone("clear")
  /\ EndOp("ok")
  /\ UNCHANGED <<device, op, out, newest, faults>>

-----------------------------------------------------------------------------
(* Mutant: stops before the last block.                                    *)
AtLastBlock == j > blockstart_max(i) \/ j >= cur.prev

(* block_loop_blocks and its callbacks.                                    *)
PastLastBlock == j > blockstart_max(i) \/ j > cur.prev

(* The rest of the hint block callback, once the loop over the blocks was  *)
(* left or broken off with n blocks printed.                               *)
AfterBlocks(n, broken) ==
  IF op.limit # 0 /\ n > op.limit THEN EndOp("exit")
  ELSE IF broken \/ (op.limit # 0 /\ n = op.limit) THEN EndOp("ok")
  ELSE NextHintblock /\ UNCHANGED best

AtBlock == pc = "blocks" /\ ~PastLastBlock /\ j # backup_location(i)

NextBlock == j' = j + 1 /\ UNCHANGED <<pc, pass, ret, i, begin, end, cur, best, loc>>

(* Mutant: on to the next turn of the loop without the next block.         *)
SkipForever ==
  /\ pc = "blocks" /\ ~PastLastBlock /\ j = backup_location(i)
  /\ UNCHANGED vars

block_loop_blocks_skip_backup ==
  /\ pc = "blocks" /\ ~PastLastBlock /\ j = backup_location(i)
  /\ NextBlock
  /\ UNCHANGED <<device, op, out, newest, faults>>

block_loop_blocks_invalid ==
  /\ AtBlock /\ block_result_is_one(dev[j])
  /\ AfterBlocks(Len(out), TRUE)
  /\ UNCHANGED <<device, op, out, newest, faults>>

block_loop_blocks_end ==
  /\ pc = "blocks" /\ PastLastBlock
  /\ AfterBlocks(Len(out), FALSE)
  /\ UNCHANGED <<device, op, out, newest, faults>>

read_block_loop_callback ==
  /\ AtBlock /\ ~block_result_is_one(dev[j]) /\ op.kind = "read"
  /\ out' = IF dev[j].ts >= op.ts THEN Append(out, dev[j]) ELSE out
  /\ IF op.limit # 0 /\ Len(out') = op.limit THEN AfterBlocks(Len(out'), TRUE)
                                             ELSE NextBlock
  /\ UNCHANGED <<device, op, newest, faults>>

UpdateMatches(c) == c.ts >= op.ts /\ c.app \cap op.app # {}

(* Mutant: the block is stamped anew.                                      *)
Restamped(c, new_appdata) == Block(newest, new_appdata)

(* The header and the data of the block but for application_data.          *)
Updated(c, new_appdata) == Block(c.ts, new_appdata)

update_block_loop_callback ==
  /\ AtBlock /\ ~block_result_is_one(dev[j]) /\ op.kind = "update"
  /\ \/ /\ ~UpdateMatches(dev[j])
        /\ NextBlock /\ UNCHANGED <<dev, out>>
     \/ /\ UpdateMatches(dev[j])
        /\ \E do_break \in BOOLEAN : IF do_break THEN EndOp("ok") ELSE NextBlock
        /\ UNCHANGED <<dev, out>>
     \/ /\ UpdateMatches(dev[j])
        /\ \E new_appdata \in SUBSET Flags, do_break \in BOOLEAN :
             IF io_writable(j)
             THEN /\ dev' = [dev EXCEPT ![j] = Updated(dev[j], new_appdata)]
                  /\ out' = Append(out, dev'[j])
                  /\ IF do_break THEN EndOp("ok") ELSE NextBlock
             ELSE EndOp("ERR") /\ UNCHANGED <<dev, out>>
  /\ UNCHANGED <<header, op, newest, faults>>

-----------------------------------------------------------------------------
(* write_put_block, once the location is known.                            *)
TimestampError ==
  IF cur.highest < op.ts THEN "none"
  ELSE IF op.fake = 0 THEN "ERR"
  ELSE IF cur.highest - op.ts > op.fake THEN "ERR_TIMESTAMP"
  ELSE "none"

(* Mutants: no correction, and a correction to the timestamp in place.     *)
Uncorrected(ts, highest) == ts

CorrectedTooLittle(ts, highest) == IF highest >= ts THEN highest ELSE ts

(* faketimestamp; uint64_t wraps at MaxTime.                               *)
Stamp(ts, highest) == IF highest >= ts THEN (highest + 1) % (MaxTime + 1) ELSE ts

write_put_block_refused ==
  /\ pc = "put_block"
  /\ \/ TimestampError # "none" /\ EndOp(TimestampError)
     \/ TimestampError = "none" /\ ~op.fits /\ EndOp("ERR_SIZE")
  /\ UNCHANGED <<device, op, out, newest, faults>>

(* The checks for funny write locations.                                   *)
FunnyLocation ==
  \/ loc < 0
  \/ cur.location < 1
  \/ loc = backup_location(cur.location)

ReadyToPut == pc = "put_block" /\ TimestampError = "none" /\ op.fits

NewBlock == Block(Stamp(op.ts, cur.highest), op.app)

write_checksum_and_put_block ==
  /\ ReadyToPut
  /\ IF FunnyLocation THEN EndOp("exit") /\ UNCHANGED <<dev, newest>>
     ELSE IF io_writable(loc)
     THEN /\ dev' = [dev EXCEPT ![loc] = NewBlock]
          /\ newest' = IF NewBlock.ts > newest THEN NewBlock.ts ELSE newest
          /\ pc' = "put_hint"
          /\ UNCHANGED <<locals, ret>>
     ELSE EndOp("ERR") /\ UNCHANGED <<dev, newest>>
  /\ UNCHANGED <<header, op, out, faults>>

(* Mutant: position and backup position swapped.                           *)
BackupFirst ==
  /\ pc = "put_hint"
  /\ IF io_writable(backup_location(cur.location))
     THEN /\ dev' = [dev EXCEPT ![backup_location(cur.location)] = HintBlock(loc)]
          /\ pc' = "put_backup"
          /\ UNCHANGED <<locals, ret>>
     ELSE EndOp("ERR") /\ UNCHANGED dev
  /\ UNCHANGED <<header, op, out, newest, faults>>

(* write_update_hintblock for the hint block ...                           *)
write_update_hintblock ==
  /\ pc = "put_hint"
  /\ IF io_writable(cur.location)
     THEN /\ dev' = [dev EXCEPT ![cur.location] = HintBlock(loc)]
          /\ pc' = "put_backup"
          /\ UNCHANGED <<locals, ret>>
     ELSE EndOp("ERR") /\ UNCHANGED dev
  /\ UNCHANGED <<header, op, out, newest, faults>>

(* ... and, called by itself, for the backup.                              *)
write_update_hintblock_backup ==
  /\ pc = "put_backup"
  /\ IF io_writable(backup_location(cur.location))
     THEN /\ dev' = [dev EXCEPT ![backup_location(cur.location)] = HintBlock(loc)]
          /\ EndOp("ok")
     ELSE EndOp("ERR") /\ UNCHANGED dev
  /\ UNCHANGED <<header, op, out, newest, faults>>

-----------------------------------------------------------------------------
(* The process is killed; the pages of the memory map are the kernel's.    *)
Crash ==
  /\ pc \notin {"idle", "returned"}
  /\ EndOp("crash")
  /\ UNCHANGED <<device, op, out, newest, faults>>

(* What the copy of c to p leaves when it is cut short: the old or the new *)
(* fields, and a checksum or a length that does not fit them.              *)
Torn(p, c) ==
  /\ io_writable(p)
  /\ \E x \in {c, dev[p]}, k \in {"junk", "oversize"} :
       dev' = [dev EXCEPT ![p] = Damaged(x, k)]

(* The process is killed in the middle of the copy to the memory map.  A   *)
(* torn update or clear is a Crash, and then the Decay of the block.       *)
TornCrash ==
  /\ faults < MaxFaults /\ faults' = faults + 1
  /\ \/ ReadyToPut /\ ~FunnyLocation /\ Torn(loc, NewBlock)
     \/ pc = "put_hint" /\ Torn(cur.location, HintBlock(loc))
     \/ pc = "put_backup" /\ Torn(backup_location(cur.location), HintBlock(loc))
     \/ pc = "recover_main" /\ Torn(i, HintBlock(dev[backup_location(i)].prev))
     \/ pc = "recover_backup" /\ Torn(recovery_backup_location(i), HintBlock(dev[i].prev))
  /\ EndOp("crash")
  /\ UNCHANGED <<header, op, out, newest>>

(* The medium loses a block: its checksum no longer fits, or its length    *)
(* does not.                                                               *)
Decay ==
  /\ pc = "idle"
  /\ faults < MaxFaults /\ faults' = faults + 1
  /\ \E p \in Positions, k \in {"junk", "oversize"} :
       /\ dev[p].kind \in {"block", "hint"}
       /\ dev' = [dev EXCEPT ![p] = Damaged(dev[p], k)]
  /\ UNCHANGED <<header, pc, locals, op, out, ret, newest>>

HeaderDecay ==
  /\ pc = "idle" /\ header
  /\ faults < MaxFaults /\ faults' = faults + 1
  /\ header' = FALSE
  /\ UNCHANGED <<dev, pc, locals, op, out, ret, newest>>

-----------------------------------------------------------------------------
Request ==
  \/ \E ts \in Stamps, fake \in Fakes, fits \in BOOLEAN, app \in SUBSET Flags :
       bdl_write_block(ts, fake, fits, app)
  \/ \E ts \in Stamps \cup {0}, limit \in Limits : bdl_read_blocks(ts, limit)
  \/ \E ts \in Stamps \cup {0}, mask \in SUBSET Flags :
       bdl_read_update_application_data(ts, mask)
  \/ bdl_clear_dev
  \/ Return

(* The steps an operation takes by itself.                                 *)
Step ==
  \/ block_get_hintblock_state
  \/ recover_hintblock
  \/ recover_hintblock_backup
  \/ write_hintblock_check_free_callback
  \/ write_hintblock_check_timestamps
  \/ block_find_oldest_hintblock_loop_callback
  \/ scan_hintblock_loop_callback
  \/ clear_hintblocks_loop_callback
  \/ write_find_location_oldest
  \/ write_find_location_end
  \/ block_find_oldest_hintblock
  \/ block_loop_hintblocks_second_round
  \/ block_loop_hintblocks_end
  \/ block_loop_blocks_skip_backup
  \/ block_loop_blocks_invalid
  \/ block_loop_blocks_end
  \/ read_block_loop_callback
  \/ update_block_loop_callback
  \/ write_put_block_refused
  \/ write_checksum_and_put_block
  \/ write_update_hintblock
  \/ write_update_hintblock_backup

Fault == Crash \/ TornCrash \/ Decay \/ HeaderDecay

Next == Request \/ Step \/ Fault

Spec == Init /\ [][Next]_vars

(* A process that runs takes its next step; nothing obliges the            *)
(* application to ask for anything, or the process to be killed.           *)
FairSpec == Spec /\ WF_vars(Step)

=============================================================================
