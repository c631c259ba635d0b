------------------------------ MODULE PowerLog ------------------------------
(***************************************************************************)
(* The log on a medium that loses power.  dev is what the process sees in  *)
(* the memory map; medium holds, for each position, everything the medium  *)
(* may have there: what it had when it was last synced, and all that was   *)
(* put since, for the kernel writes pages when it likes.                   *)
(***************************************************************************)
EXTENDS LogProperties, SyncQueue

VARIABLES
  queue,                 \* file->sync_queue
  unsynced_write_bytes,  \* file->unsynced_write_bytes
  medium,
  astray                 \* positions put by no queue that is left (history)

file == <<queue, unsynced_write_bytes>>
pvars == <<vars, queue, unsynced_write_bytes, medium, astray>>

(* A hint block is 24 bytes, all in the first cell of its block.           *)
HintCells == 1

ASSUME HintAssumption == HintCells < BlockCells

Synced(d) == [p \in Positions |-> {d[p]}]

PowerTypeOK ==
  /\ TypeOK
  /\ queue \in Seq(Entries)
  /\ unsynced_write_bytes \in Nat
  /\ medium \in [Positions -> SUBSET Content]
  /\ astray \subseteq Positions

PowerInit ==
  /\ Init
  /\ queue = <<>> /\ unsynced_write_bytes = 0
  /\ medium = Synced(dev) /\ astray = {}

-----------------------------------------------------------------------------
(* The step puts a block at p.                                             *)
PutsData(p) ==
  \/ pc = "put_block" /\ pc' = "put_hint" /\ p = loc
  \/ pc = "blocks" /\ out' # out /\ op.kind = "update" /\ p = j

PutsHint(p) ==
  \/ pc = "put_hint" /\ pc' = "put_backup" /\ p = cur.location
  \/ pc = "put_backup" /\ ret' = "ok" /\ p = backup_location(cur.location)
  \/ pc = "recover_main" /\ pc' = "recover_backup" /\ p = i
  \/ pc = "recover_backup" /\ pc' = "callback" /\ p = recovery_backup_location(i)
  \/ Callback("clear") /\ pc' = "hint" /\ p = i

Lengths(p) ==
  (IF PutsData(p) THEN 1..BlockCells ELSE {}) \cup (IF PutsHint(p) THEN {HintCells} ELSE {})

(* Mutant: a recovery that ends without io_sync.                           *)
LeftInQueue(f) == f

(* block_hintblock_recover_backup ends with io_sync.                       *)
after_put(f) == IF pc = "recover_backup" THEN io_sync(f) ELSE f

(* The block at p, whose data is n cells long, goes to the memory map.     *)
Put(p, n) ==
  LET f == IO(queue, unsynced_write_bytes, {})
      g == after_put(io_write_block(f, p, n))
      missed == IF misses_queue(f, p, n) THEN {p} ELSE {}
  IN  /\ queue' = g.queue /\ unsynced_write_bytes' = g.bytes
      /\ medium' = [x \in Positions |->
                      IF x \in g.synced THEN {dev'[x]} ELSE medium[x] \cup {dev'[x]}]
      /\ astray' = (astray \cup missed) \ g.synced

PutStep == Step /\ \E p \in Positions : \E n \in Lengths(p) : Put(p, n)

(* A step that leaves the device alone.                                    *)
QuietStep ==
  /\ Request \/ Step
  /\ \A p \in Positions : Lengths(p) = {}
  /\ UNCHANGED <<queue, unsynced_write_bytes, medium, astray>>

-----------------------------------------------------------------------------
(* Positions of which the medium may not have what the process sees.       *)
Dirty == {p \in Positions : medium[p] # {dev[p]}}

NoQueue == queue' = <<>> /\ unsynced_write_bytes' = 0

(* io_close, which syncs the whole map, and the io_open of the next        *)
(* process.                                                                *)
io_close ==
  /\ pc = "idle"
  /\ NoQueue /\ medium' = Synced(dev) /\ astray' = {}
  /\ UNCHANGED vars

(* The process is killed, in or between two copies, and the device is      *)
(* opened again.  Its queue is gone, its pages are the kernel's.           *)
Kill ==
  /\ Crash \/ TornCrash
  /\ NoQueue
  /\ medium' = [p \in Positions |-> medium[p] \cup {dev'[p]}]
  /\ astray' = astray \cup {p \in Positions : medium'[p] # {dev'[p]}}

(* The power fails: each position has something the medium may have.       *)
PowerLoss ==
  /\ faults < MaxFaults /\ faults' = faults + 1
  /\ \E d \in [Dirty -> UNION {medium[p] : p \in Dirty}] :
       /\ \A p \in Dirty : d[p] \in medium[p]
       /\ dev' = [p \in Positions |-> IF p \in Dirty THEN d[p] ELSE dev[p]]
  /\ NoQueue /\ medium' = Synced(dev') /\ astray' = {}
  /\ \/ pc = "idle" /\ UNCHANGED <<pc, locals, ret>>
     \/ pc \notin {"idle", "returned"} /\ EndOp("crash")
  /\ UNCHANGED <<header, op, out, newest>>

PowerNext == PutStep \/ QuietStep \/ io_close \/ Kill \/ PowerLoss

PowerSpec == PowerInit /\ [][PowerNext]_pvars

-----------------------------------------------------------------------------
(* Whatever is not on the medium is in the queue, so that the next sync    *)
(* puts it there; but for the pages a killed process left to the kernel    *)
(* and for the blocks that missed the queue (io_update_sync_queue).        *)
DirtyIsQueued == Dirty \subseteq Covered(queue) \cup astray

(* A loss of power undoes less than BDL_MMAP_SYNC_SIZE bytes of what was   *)
(* put, each unsynced block having at least a cell of them (io_write).     *)
LossIsBounded ==
  /\ Cardinality(Dirty \ astray) <= unsynced_write_bytes
  /\ unsynced_write_bytes < SyncSize

(* Once an operation has recovered a hint block and goes on with it, no    *)
(* loss of power takes it away again, whatever was queued before           *)
(* (block_hintblock_recover_backup).                                       *)
RecoveryIsDurable ==
  [][pc = "recover_backup" /\ pc' = "callback" => medium'[i] = {dev'[i]}]_pvars

=============================================================================
