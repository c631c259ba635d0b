--------------------------- MODULE LogProperties ----------------------------
(***************************************************************************)
(* What the log on the device means, and what is claimed of it.            *)
(***************************************************************************)
EXTENDS BlockLog, FiniteSets

(* The state of each region as the next operation would find it, as long   *)
(* as it has nothing to recover.                                           *)
Region(h) == hintblock_state(dev, h, FALSE)

LiveRegions == {h \in HintPositions : Region(h).valid}

(* The positions a read goes through.                                      *)
Cells(h) == {p \in blockstart_min(h)..Region(h).prev : p # backup_location(h)}

(* A process killed between put_block and put_hint of a region it was      *)
(* about to use again leaves a block at its beginning that is later than   *)
(* the last.  It is not an entry yet: the next write puts its block there. *)
Leftovers == {blockstart_min(h) : h \in {g \in LiveRegions :
                 dev[blockstart_min(g)].ts > dev[Region(g).prev].ts}}

LiveCells == (UNION {Cells(h) : h \in LiveRegions}) \ Leftovers

EntryOf(c) == [ts |-> c.ts, app |-> c.app]

Log == {EntryOf(dev[p]) : p \in LiveCells}

-----------------------------------------------------------------------------
(* The log as the application sees it: see RingLog.                        *)
DataCells(h) == blockstart_min(h)..blockstart_max(h) \ {backup_location(h)}

Ring == INSTANCE RingLog WITH
  log            <- Log,
  EntryStamp     <- Stamps,
  EntryTag       <- SUBSET Flags,
  Capacity       <- Cardinality(UNION {DataCells(h) : h \in HintPositions}),
  RegionCapacity <- Cardinality(DataCells(loop_begin_orig))

(* While timestamps ascend and nothing decays, the device is a bounded log *)
(* of the newest entries, whatever the moment at which a write, read or    *)
(* update is killed: no step of any operation loses, reorders or invents   *)
(* an entry but for what RingLog allows (write_put_block).                 *)
ImplementsRingLog == Ring!Spec

-----------------------------------------------------------------------------
Finished(kind, code) == pc = "returned" /\ op.kind = kind /\ ret = code

Asked == {e \in Log : e.ts >= op.ts}

Printed == {EntryOf(out[k]) : k \in DOMAIN out}

LeftoverEntries == {EntryOf(dev[p]) : p \in Leftovers}

(* A read that finishes has printed every entry asked for, or as many as   *)
(* the limit allows, and nothing that was never put there (read_blocks).   *)
ReadIsComplete ==
  Finished("read", "ok") =>
    /\ Printed \subseteq Asked \cup LeftoverEntries
    /\ Len(out) < op.limit \/ op.limit = 0 => Asked \subseteq Printed
    /\ op.limit # 0 => Len(out) <= op.limit

(* A region that is used later may begin with an earlier timestamp, when   *)
(* timestamps come in any order.  A read then begins with it and ends at   *)
(* the first unused region, before it gets to the first region.  Once all  *)
(* regions are in use it misses no entry, in whatever order they came      *)
(* (block_find_oldest_hintblock).                                          *)
FullReadIsComplete == LiveRegions = HintPositions => ReadIsComplete

(* It prints them oldest first, each one once, and a limit cuts off the    *)
(* newest, although the regions are a ring and the oldest is anywhere in   *)
(* it (block_find_oldest_hintblock, the second round of the loop).         *)
ReadIsOldestFirst ==
  Finished("read", "ok") =>
    /\ \A k, l \in DOMAIN out :
         k < l /\ EntryOf(out[k]) \in Log /\ EntryOf(out[l]) \in Log
           => out[k].ts < out[l].ts
    /\ \A e \in Asked \ Printed, f \in Asked \cap Printed : f.ts < e.ts

(* A block that fits and is later than all before it is always accepted,   *)
(* also when the device is full (write_put_block).                         *)
WriteIsAccepted == op.kind = "write" /\ op.fits => ret \in {"none", "ok", "crash"}

(* From the first block of a region to the last there are no holes and the *)
(* timestamps ascend: highest_timestamp really is the highest, which both  *)
(* searches for the oldest region and the reads with a ts_gteq rely on.    *)
RegionsAscend ==
  \A h \in LiveRegions : \A p, q \in Cells(h) \ Leftovers :
    /\ validate_block(dev[p])
    /\ p < q => dev[p].ts < dev[q].ts

(* A process that is killed, at whatever step, leaves nothing to recover:  *)
(* a region whose backup is valid has a valid hint block and a valid last  *)
(* block, and the backup never names a block that is not there             *)
(* (write_update_hintblock writes the hint block before its backup).       *)
KillNeedsNoRecovery ==
  \A h \in HintPositions : validate_hintblock(dev[backup_location(h)]) =>
    /\ Region(h).valid
    /\ InRegion(h, dev[backup_location(h)].prev)
    /\ validate_block(dev[dev[backup_location(h)].prev])

-----------------------------------------------------------------------------
(* None of the checks that report a bug of the program and end it is ever  *)
(* reached, on whatever device (write_find_location, write_put_block,      *)
(* read_hintblock_loop_callback).                                          *)
NoBugExit == ret # "exit"

(* A valid hint block or backup always names a position between the header *)
(* and the hint block, so reading the last block never leaves the device   *)
(* (block_hintblock_get_last_block).                                       *)
HintsPointBack ==
  \A h \in HintPositions : \A p \in {h, backup_location(h)} :
    validate_hintblock(dev[p]) => dev[p].prev \in 1..(h - 1)

(* A read or a clear changes no position a data block can be at, whatever  *)
(* it finds and has to recover (block_hintblock_recover_backup).           *)
ReadsChangeNoData ==
  [][op.kind \in {"read", "clear"} /\ faults' = faults =>
       \A h \in HintPositions : \A p \in DataCells(h) : dev'[p] = dev[p]]_vars

-----------------------------------------------------------------------------
(* What the documentation says and the code does not do.                   *)

(* "If a hint block or data block is corrupted, it is considered free      *)
(* space": a read prints no block whose checksum does not fit              *)
(* (block_loop_blocks).                                                    *)
CorruptIsNotPrinted ==
  op.kind = "read" => \A k \in DOMAIN out : validate_block(out[k])

(* "Backup hint blocks are placed half way inside each region": what is    *)
(* there is the backup of that region's hint block, and names a block of   *)
(* that region (block_hintblock_recover_backup).                           *)
BackupsStayHome ==
  \A h \in HintPositions : validate_hintblock(dev[backup_location(h)]) =>
    InRegion(h, dev[backup_location(h)].prev)

(* "Timestamp of new entries must be larger than all exisiting entries":   *)
(* a block that was put on the device is later than all entries            *)
(* (write_put_block).                                                      *)
NewEntryIsLatest == pc = "put_hint" => \A e \in Log : e.ts < dev[loc].ts

-----------------------------------------------------------------------------
(* Every operation ends (the loops over hint blocks and blocks).           *)
OperationsEnd == pc # "idle" ~> pc = "returned"

=============================================================================
