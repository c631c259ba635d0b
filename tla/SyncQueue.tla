----------------------------- MODULE SyncQueue ------------------------------
(***************************************************************************)
(* What was written to the memory map and is not synced: the queue of      *)
(* ranges, the count of bytes, and when both are given up for an msync.    *)
(* Addresses are in cells from the beginning of the map, a block is        *)
(* BlockCells of them.                                                     *)
(***************************************************************************)
EXTENDS Layout, Sequences

CONSTANTS
  QueueMax,     \* BDL_IO_SYNC_QUEUE_MAX
  SyncSize,     \* BDL_MMAP_SYNC_SIZE
  PageSize,     \* getpagesize()
  BlockCells,   \* block_size
  HeaderCells   \* header_size

ASSUME QueueAssumption ==
  /\ QueueMax \in Nat \ {0}
  /\ SyncSize \in Nat \ {0}
  /\ PageSize \in Nat \ {0}
  /\ BlockCells \in Nat \ {0}
  /\ HeaderCells \in Nat

FirstCell(p) == HeaderCells + p * BlockCells

Cell == 0..(HeaderCells + DeviceSize * BlockCells)

(* The block at p lies in the page g.                                      *)
InPage(p, g) ==
  /\ g * PageSize <= FirstCell(p)
  /\ FirstCell(p) + BlockCells <= (g + 1) * PageSize

(* No block straddles two pages: block sizes of 512 to 4096 bytes that     *)
(* divide a page, after a header that is a multiple of them.               *)
ASSUME PageAssumption == \A p \in Positions : \E g \in Cell : InPage(p, g)

-----------------------------------------------------------------------------
(* An entry of the queue; the cell at end is the first beyond the range.   *)
Entries == [start : Nat, end : Nat]

Entry(start, end) == [start |-> start, end |-> end]

StartsIn(r, s) == r.start <= s.start /\ s.start <= r.end

EndsIn(r, s) == r.start <= s.end /\ s.end <= r.end

(* Mutant: the start is found in the entry, and its end stays.             *)
EndStays(r, s) ==
  IF StartsIn(r, s) THEN r ELSE [r EXCEPT !.start = s.start]

(* The entry r once it has taken in s.                                     *)
Grown(r, s) ==
  IF StartsIn(r, s) THEN [r EXCEPT !.end = IF s.end > r.end THEN s.end ELSE r.end]
  ELSE [r EXCEPT !.start = IF s.start < r.start THEN s.start ELSE r.start]

(* The entries that could take in s; the first of them does.               *)
Fitting(q, s) == {k \in DOMAIN q : StartsIn(q[k], s) \/ EndsIn(q[k], s)}

(* The result of io_update_sync_queue is 1, and s is nowhere in the queue. *)
queue_full(q, s) == Fitting(q, s) = {} /\ Len(q) = QueueMax

io_update_sync_queue(q, s) ==
  IF Fitting(q, s) # {}
  THEN LET k == CHOOSE k \in Fitting(q, s) : \A l \in Fitting(q, s) : k <= l
       IN  [q EXCEPT ![k] = Grown(q[k], s)]
  ELSE IF queue_full(q, s) THEN q ELSE Append(q, s)

(* The page of p is one msync writes for r: r is rounded down to a page by *)
(* io_sync, and up by the kernel.                                          *)
Covers(r, p) ==
  \E g \in Cell : InPage(p, g) /\ r.start < (g + 1) * PageSize /\ g * PageSize < r.end

(* The positions io_sync writes to the medium.                             *)
Covered(q) == {p \in Positions : \E k \in DOMAIN q : Covers(q[k], p)}

-----------------------------------------------------------------------------
(* The queue and the count, and what has been synced on the way.           *)
IO(q, bytes, synced) == [queue |-> q, bytes |-> bytes, synced |-> synced]

io_sync(f) == IO(<<>>, 0, f.synced \cup Covered(f.queue))

(* Mutant: the count is compared before the range is added to it.          *)
SyncTooLate(f, s) == f.bytes >= SyncSize

(* It is time to sync, after s was counted.                                *)
sync_due(f, s) == f.bytes + (s.end - s.start) >= SyncSize

io_write(f, s) ==
  LET g == IO(io_update_sync_queue(f.queue, s), f.bytes + (s.end - s.start), f.synced)
  IN  IF queue_full(f.queue, s) \/ sync_due(f, s) THEN io_sync(g) ELSE g

(* The data of the block at p, n cells of it, and its padding.             *)
DataOf(p, n) == Entry(FirstCell(p), FirstCell(p) + n)

PaddingOf(p, n) == Entry(FirstCell(p) + n, FirstCell(p) + BlockCells)

io_write_block(f, p, n) == io_write(io_write(f, DataOf(p, n)), PaddingOf(p, n))

(* The data finds no place in the queue, and there is no padding after it  *)
(* that would be put into the queue once that is empty.                    *)
misses_queue(f, p, n) == queue_full(f.queue, DataOf(p, n)) /\ n = BlockCells

=============================================================================
