----------------------------- MODULE PowerProofs ----------------------------
(***************************************************************************)
(* Proofs, for any queue, page and block size, of what PowerLoss.cfg       *)
(* checks: whatever is not on the medium is in the queue, a recovered hint *)
(* block is on the medium, no loss of power makes a hint block point       *)
(* anywhere but back, and none makes the program end itself.               *)
(***************************************************************************)
EXTENDS PowerLog, ExitProofs, WellFoundedInduction, FiniteSetTheorems

-----------------------------------------------------------------------------
(* The queue and the count of bytes while a block is written.              *)
FileState == [queue : Seq(Entries), bytes : Nat, synced : SUBSET Positions]

(* x is on the medium or will be put there by the next sync.               *)
Safe(f, x) == x \in f.synced \cup Covered(f.queue)

(* An entry is made of what it was given.                                  *)
LEMMA EntryFacts ==
  ASSUME NEW a \in Nat, NEW b \in Nat
  PROVE  /\ Entry(a, b) \in Entries
         /\ Entry(a, b).start = a /\ Entry(a, b).end = b
BY DEF Entry, Entries

(* An entry that grows loses nothing and takes in the range.               *)
LEMMA GrownFacts ==
  ASSUME NEW r \in Entries, NEW s \in Entries, StartsIn(r, s) \/ EndsIn(r, s),
         NEW x \in Positions
  PROVE  /\ Grown(r, s) \in Entries
         /\ Covers(r, x) \/ Covers(s, x) => Covers(Grown(r, s), x)
<1>1. /\ Grown(r, s) \in Entries
      /\ Grown(r, s).start <= r.start /\ Grown(r, s).start <= s.start
      /\ r.end <= Grown(r, s).end /\ s.end <= Grown(r, s).end
  BY DEF Grown, StartsIn, EndsIn, Entries
<1>2. ASSUME NEW g \in Cell, NEW t \in {r, s},
             t.start < (g + 1) * PageSize, g * PageSize < t.end
      PROVE  Grown(r, s).start < (g + 1) * PageSize /\ g * PageSize < Grown(r, s).end
  <2>. DEFINE a == (g + 1) * PageSize
              b == g * PageSize
  <2>1. a \in Int /\ b \in Int
    BY QueueAssumption, SizeAssumption DEF Cell
  <2>2. t \in Entries /\ Grown(r, s).start <= t.start /\ t.end <= Grown(r, s).end
    BY <1>1, <1>2
  <2>3. t.start < a /\ b < t.end
    BY <1>2
  <2>. HIDE DEF a, b
  <2>4. Grown(r, s).start < a /\ b < Grown(r, s).end
    BY <1>1, <2>1, <2>2, <2>3 DEF Entries
  <2>. QED BY <2>4 DEF a, b
<1>. QED BY <1>1, <1>2 DEF Covers

(* Of a set of positions in the queue there is a first.                    *)
LEMMA FirstFitting ==
  ASSUME NEW q \in Seq(Entries), NEW s, Fitting(q, s) # {}
  PROVE  \E k \in Fitting(q, s) : \A l \in Fitting(q, s) : k <= l
<1>. DEFINE R == {ss \in Nat \X Nat : ss[1] < ss[2]}
<1>1. Fitting(q, s) \subseteq Nat
  BY DEF Fitting
<1>2. IsWellFoundedOn(R, Nat)
  BY NatLessThanWellFounded DEF OpToRel
<1>. HIDE DEF R
<1>3. PICK k \in Fitting(q, s) : \A l \in Fitting(q, s) : ~ (<<l, k>> \in R)
  BY <1>1, <1>2, WFMin, Zenon
<1>4. \A l \in Fitting(q, s) : ~ (l < k)
  BY <1>1, <1>3 DEF R
<1>. QED BY <1>1, <1>4

(* The queue keeps what it covers, and covers the range it is given unless *)
(* it is full.                                                             *)
LEMMA UpdateFacts ==
  ASSUME NEW q \in Seq(Entries), NEW s \in Entries, NEW x \in Positions
  PROVE  /\ io_update_sync_queue(q, s) \in Seq(Entries)
         /\ x \in Covered(q) => x \in Covered(io_update_sync_queue(q, s))
         /\ ~queue_full(q, s) /\ Covers(s, x) => x \in Covered(io_update_sync_queue(q, s))
<1>. DEFINE u == io_update_sync_queue(q, s)
<1>1. CASE Fitting(q, s) # {}
  <2>. DEFINE k == CHOOSE k \in Fitting(q, s) : \A l \in Fitting(q, s) : k <= l
  <2>1. k \in DOMAIN q /\ (StartsIn(q[k], s) \/ EndsIn(q[k], s))
    BY <1>1, FirstFitting DEF Fitting
  <2>2. u = [q EXCEPT ![k] = Grown(q[k], s)]
    BY <1>1 DEF io_update_sync_queue
  <2>. HIDE DEF k, u
  <2>3. q[k] \in Entries
    BY <2>1
  <2>4. /\ Grown(q[k], s) \in Entries
        /\ Covers(q[k], x) \/ Covers(s, x) => Covers(Grown(q[k], s), x)
    BY <2>1, <2>3, GrownFacts
  <2>5. u \in Seq(Entries) /\ DOMAIN u = DOMAIN q
    BY <2>1, <2>2, <2>4
  <2>6. u[k] = Grown(q[k], s) /\ \A l \in DOMAIN q : l # k => u[l] = q[l]
    BY <2>1, <2>2
  <2>. QED BY <2>1, <2>4, <2>5, <2>6 DEF Covered, u
<1>2. CASE Fitting(q, s) = {} /\ queue_full(q, s)
  BY <1>2 DEF io_update_sync_queue
<1>3. CASE Fitting(q, s) = {} /\ ~queue_full(q, s)
  <2>1. u = Append(q, s)
    BY <1>3 DEF io_update_sync_queue
  <2>. HIDE DEF u
  <2>2. /\ u \in Seq(Entries) /\ DOMAIN u = 1..(Len(q) + 1)
        /\ u[Len(q) + 1] = s /\ \A l \in 1..Len(q) : u[l] = q[l]
    BY <2>1
  <2>3. DOMAIN q = 1..Len(q) /\ Len(q) \in Nat
    OBVIOUS
  <2>. QED BY <2>2, <2>3 DEF Covered, u
<1>. QED BY <1>1, <1>2, <1>3

(* A sync puts everything in the queue on the medium.                      *)
LEMMA SyncFacts ==
  ASSUME NEW f \in FileState, NEW x \in Positions
  PROVE  /\ io_sync(f) \in FileState /\ io_sync(f).queue = <<>>
         /\ Safe(f, x) => x \in io_sync(f).synced
         /\ x \in f.synced => x \in io_sync(f).synced
<1>1. Covered(f.queue) \subseteq Positions
  BY DEF Covered
<1>. QED BY <1>1 DEF io_sync, IO, FileState, Safe

(* A write keeps safe what is, and makes its range safe unless the queue   *)
(* is full, in which case the queue is empty afterwards.                   *)
LEMMA WriteFacts ==
  ASSUME NEW f \in FileState, NEW s \in Entries, s.start <= s.end, NEW x \in Positions
  PROVE  /\ io_write(f, s) \in FileState
         /\ x \in f.synced => x \in io_write(f, s).synced
         /\ Safe(f, x) => Safe(io_write(f, s), x)
         /\ ~queue_full(f.queue, s) /\ Covers(s, x) => Safe(io_write(f, s), x)
         /\ queue_full(f.queue, s) => io_write(f, s).queue = <<>>
<1>. DEFINE g == IO(io_update_sync_queue(f.queue, s), f.bytes + (s.end - s.start), f.synced)
<1>1. f.queue \in Seq(Entries) /\ f.bytes + (s.end - s.start) \in Nat /\ f.synced \subseteq Positions
  BY DEF FileState, Entries
<1>2. g \in FileState /\ g.synced = f.synced
  BY <1>1, UpdateFacts DEF FileState, IO
<1>3. /\ Safe(f, x) => Safe(g, x)
      /\ ~queue_full(f.queue, s) /\ Covers(s, x) => Safe(g, x)
  BY <1>1, UpdateFacts DEF Safe, IO
<1>4. io_write(f, s) = IF queue_full(f.queue, s) \/ sync_due(f, s) THEN io_sync(g) ELSE g
  BY DEF io_write
<1>. HIDE DEF g
<1>5. /\ io_sync(g) \in FileState /\ io_sync(g).queue = <<>>
      /\ Safe(g, x) => x \in io_sync(g).synced
      /\ x \in g.synced => x \in io_sync(g).synced
  BY <1>2, SyncFacts
<1>. QED BY <1>2, <1>3, <1>4, <1>5 DEF Safe

-----------------------------------------------------------------------------
(* The page of a block is written for a range that begins in the block     *)
(* before its end, and ends in it after its beginning.                     *)
LEMMA RangeCovers ==
  ASSUME NEW p \in Positions, NEW a \in Nat, NEW b \in Nat,
         a < FirstCell(p) + BlockCells, FirstCell(p) < b
  PROVE  Covers(Entry(a, b), p)
<1>1. PICK g \in Cell : InPage(p, g)
  BY PageAssumption
<1>. DEFINE lo == g * PageSize
            hi == (g + 1) * PageSize
            c == FirstCell(p)
<1>2. lo \in Int /\ hi \in Int /\ lo <= c /\ c + BlockCells <= hi
  BY <1>1, QueueAssumption, SizeAssumption DEF Cell, InPage
<1>3. c \in Nat
  BY QueueAssumption, SizeAssumption DEF Positions, FirstCell
<1>. HIDE DEF lo, hi, c
<1>4. a < hi /\ lo < b
  <2>1. a < c + BlockCells /\ c < b
    BY DEF c
  <2>. QED BY <1>2, <1>3, <2>1, QueueAssumption
<1>. QED BY <1>1, <1>4, EntryFacts DEF Covers, lo, hi

(* A block that is put is safe afterwards unless it misses the queue.      *)
LEMMA WriteBlockFacts ==
  ASSUME NEW f \in FileState, NEW p \in Positions, NEW n \in 1..BlockCells,
         NEW x \in Positions
  PROVE  /\ io_write_block(f, p, n) \in FileState
         /\ Safe(f, x) => Safe(io_write_block(f, p, n), x)
         /\ ~misses_queue(f, p, n) => Safe(io_write_block(f, p, n), p)
<1>. DEFINE c == FirstCell(p)
            f1 == io_write(f, DataOf(p, n))
            f2 == io_write(f1, PaddingOf(p, n))
<1>1. c \in Nat /\ BlockCells \in Nat /\ n \in Nat
  BY QueueAssumption, SizeAssumption DEF Positions, FirstCell
<1>2. /\ DataOf(p, n) = Entry(c, c + n)
      /\ PaddingOf(p, n) = Entry(c + n, c + BlockCells)
  BY DEF DataOf, PaddingOf
<1>3. /\ DataOf(p, n) \in Entries /\ DataOf(p, n).start <= DataOf(p, n).end
      /\ PaddingOf(p, n) \in Entries /\ PaddingOf(p, n).start <= PaddingOf(p, n).end
  BY <1>1, <1>2, EntryFacts
<1>4. Covers(DataOf(p, n), p)
  BY <1>1, <1>2, RangeCovers
<1>5. n < BlockCells => Covers(PaddingOf(p, n), p)
  BY <1>1, <1>2, RangeCovers
<1>6. io_write_block(f, p, n) = f2
  BY DEF io_write_block
<1>. HIDE DEF c
<1>7. f1 \in FileState /\ (Safe(f, x) => Safe(f1, x))
  BY <1>3, WriteFacts
<1>8. f2 \in FileState /\ (Safe(f, x) => Safe(f2, x))
  BY <1>3, <1>7, WriteFacts
<1>9. CASE ~queue_full(f.queue, DataOf(p, n))
  <2>1. Safe(f1, p)
    BY <1>3, <1>4, <1>9, WriteFacts
  <2>2. Safe(f2, p)
    BY <1>3, <1>7, <2>1, WriteFacts
  <2>. QED BY <1>6, <1>8, <2>2
<1>10. CASE queue_full(f.queue, DataOf(p, n))
  <2>1. f1.queue = <<>>
    BY <1>3, <1>10, WriteFacts
  <2>2. ~queue_full(f1.queue, PaddingOf(p, n))
    BY <2>1, QueueAssumption DEF queue_full
  <2>3. n < BlockCells => Safe(f2, p)
    BY <1>3, <1>5, <1>7, <2>2, WriteFacts
  <2>4. n < BlockCells \/ misses_queue(f, p, n)
    BY <1>1, <1>10 DEF misses_queue
  <2>. QED BY <1>6, <1>8, <2>3, <2>4
<1>. QED BY <1>9, <1>10

-----------------------------------------------------------------------------
(* What a step puts, and where.                                            *)
Puts(p) == PutsData(p) \/ PutsHint(p)

(* The positions with a length are those that the step puts.               *)
LEMMA LengthsFacts ==
  ASSUME NEW p \in Positions
  PROVE  /\ Lengths(p) \subseteq 1..BlockCells
         /\ Lengths(p) # {} <=> Puts(p)
BY QueueAssumption, HintAssumption DEF Lengths, Puts, HintCells

(* A step puts one block at most.                                          *)
LEMMA PutsOnce ==
  ASSUME NEW p \in Positions, NEW x \in Positions, Puts(p), Puts(x)
  PROVE  p = x
BY DEF Puts, PutsData, PutsHint, Callback

(* A step changes no position it puts nothing at.                          *)
LEMMA StepChanges ==
  ASSUME IInv, Request \/ Step, NEW x \in Positions, dev'[x] # dev[x]
  PROVE  Puts(x)
<1>0. dev \in [Positions -> Content] /\ out \in Seq(Content)
  BY DEF IInv, DataType
<1>1. ASSUME dev' = dev PROVE FALSE
  BY <1>1
<1>2. ASSUME NEW p, NEW c, dev' = [dev EXCEPT ![p] = c] PROVE p = x
  BY <1>0, <1>2
<1>3. CASE Request
  BY <1>3, <1>1 DEF Request, bdl_write_block, bdl_read_blocks,
     bdl_read_update_application_data, bdl_clear_dev, BeginOp, Return, device
<1>4. CASE recover_hintblock
  BY <1>4, <1>1, <1>2 DEF recover_hintblock, Puts, PutsHint
<1>5. CASE recover_hintblock_backup
  BY <1>5, <1>1, <1>2 DEF recover_hintblock_backup, Puts, PutsHint
<1>6. CASE clear_hintblocks_loop_callback
  BY <1>6, <1>1, <1>2 DEF clear_hintblocks_loop_callback, NextHintblock, Puts, PutsHint
<1>7. CASE update_block_loop_callback
  <2>1. PICK new_appdata \in SUBSET Flags :
               /\ dev' = [dev EXCEPT ![j] = Updated(dev[j], new_appdata)]
               /\ out' = Append(out, dev'[j])
    BY <1>7, <1>1 DEF update_block_loop_callback
  <2>2. j = x
    BY <2>1, <1>2
  <2>3. dev' [x] \in Content => out' # out
    BY <1>0, <2>1, <2>2
  <2>4. dev'[x] \in Content
    <3>1. dev[x] \in Content
      BY <1>0
    <3>2. Updated(dev[x], new_appdata) \in Content
      BY <3>1 DEF Updated, Block, Content, Kinds
    <3>. QED BY <1>0, <2>1, <2>2, <3>2
  <2>. QED BY <1>7, <2>2, <2>3, <2>4
       DEF update_block_loop_callback, AtBlock, Puts, PutsData
<1>8. CASE write_checksum_and_put_block
  BY <1>8, <1>1, <1>2 DEF write_checksum_and_put_block, ReadyToPut, Puts, PutsData
<1>9. CASE write_update_hintblock
  BY <1>9, <1>1, <1>2 DEF write_update_hintblock, Puts, PutsHint
<1>10. CASE write_update_hintblock_backup
  BY <1>10, <1>1, <1>2 DEF write_update_hintblock_backup, EndOp, Puts, PutsHint
<1>11. CASE \/ block_get_hintblock_state \/ write_hintblock_check_free_callback
            \/ write_hintblock_check_timestamps
            \/ block_find_oldest_hintblock_loop_callback
            \/ scan_hintblock_loop_callback \/ write_find_location_oldest
            \/ write_find_location_end \/ block_find_oldest_hintblock
            \/ block_loop_hintblocks_second_round \/ block_loop_hintblocks_end
  BY <1>11, <1>1 DEF block_get_hintblock_state, write_hintblock_check_free_callback,
     write_hintblock_check_timestamps, block_find_oldest_hintblock_loop_callback,
     scan_hintblock_loop_callback, write_find_location_oldest, write_find_location_end,
     block_find_oldest_hintblock, block_loop_hintblocks_second_round,
     block_loop_hintblocks_end, device
<1>12. CASE \/ block_loop_blocks_skip_backup \/ block_loop_blocks_invalid
            \/ block_loop_blocks_end \/ read_block_loop_callback \/ write_put_block_refused
  BY <1>12, <1>1 DEF block_loop_blocks_skip_backup, block_loop_blocks_invalid,
     block_loop_blocks_end, read_block_loop_callback, write_put_block_refused, device
<1>. QED BY <1>3, <1>4, <1>5, <1>6, <1>7, <1>8, <1>9, <1>10, <1>11, <1>12 DEF Step

(* A recovery has put the hint block when it comes to the copy.            *)
LEMMA RecoverySteps ==
  ASSUME Request \/ Step, pc' = "recover_backup"
  PROVE  pc = "recover_main" /\ i' = i
<1>1. CASE Request
  BY <1>1 DEF Request, bdl_write_block, bdl_read_blocks,
     bdl_read_update_application_data, bdl_clear_dev, BeginOp, Return
<1>2. CASE \/ block_get_hintblock_state \/ recover_hintblock \/ recover_hintblock_backup
           \/ write_hintblock_check_free_callback \/ write_hintblock_check_timestamps
           \/ block_find_oldest_hintblock_loop_callback
           \/ scan_hintblock_loop_callback \/ clear_hintblocks_loop_callback
  BY <1>2 DEF block_get_hintblock_state, recover_hintblock, recover_hintblock_backup,
     write_hintblock_check_free_callback, write_hintblock_check_timestamps,
     block_find_oldest_hintblock_loop_callback, scan_hintblock_loop_callback,
     clear_hintblocks_loop_callback, NextHintblock, EndOp, locals
<1>3. CASE \/ write_find_location_oldest \/ write_find_location_end
           \/ block_find_oldest_hintblock \/ block_loop_hintblocks_second_round
           \/ block_loop_hintblocks_end
  BY <1>3 DEF write_find_location_oldest, write_find_location_end,
     block_find_oldest_hintblock, block_loop_hintblocks_second_round,
     block_loop_hintblocks_end, BeginLoop, EndOp, LoopDone
<1>4. CASE \/ block_loop_blocks_skip_backup \/ block_loop_blocks_invalid
           \/ block_loop_blocks_end \/ read_block_loop_callback
           \/ update_block_loop_callback
  BY <1>4 DEF block_loop_blocks_skip_backup, block_loop_blocks_invalid,
     block_loop_blocks_end, read_block_loop_callback, update_block_loop_callback,
     AtBlock, NextBlock, AfterBlocks, NextHintblock, EndOp
<1>5. CASE \/ write_put_block_refused \/ write_checksum_and_put_block
           \/ write_update_hintblock \/ write_update_hintblock_backup
  BY <1>5 DEF write_put_block_refused, write_checksum_and_put_block,
     write_update_hintblock, write_update_hintblock_backup, EndOp, ReadyToPut
<1>. QED BY <1>1, <1>2, <1>3, <1>4, <1>5 DEF Step

(* A recovery goes on only if it could put the copy.                       *)
LEMMA RecoveryWrites ==
  ASSUME Request \/ Step, pc = "recover_backup", pc' = "callback"
  PROVE  io_writable(recovery_backup_location(i))
<1>1. CASE Request
  BY <1>1 DEF Request, bdl_write_block, bdl_read_blocks,
     bdl_read_update_application_data, bdl_clear_dev, BeginOp, Return
<1>2. CASE recover_hintblock_backup
  BY <1>2 DEF recover_hintblock_backup, EndOp
<1>3. CASE \/ block_get_hintblock_state \/ recover_hintblock
           \/ write_hintblock_check_free_callback \/ write_hintblock_check_timestamps
           \/ block_find_oldest_hintblock_loop_callback
           \/ scan_hintblock_loop_callback \/ clear_hintblocks_loop_callback
  BY <1>3 DEF block_get_hintblock_state, recover_hintblock, InLoop, Callback,
     write_hintblock_check_free_callback, write_hintblock_check_timestamps,
     block_find_oldest_hintblock_loop_callback, scan_hintblock_loop_callback,
     clear_hintblocks_loop_callback
<1>4. CASE \/ write_find_location_oldest \/ write_find_location_end
           \/ block_find_oldest_hintblock \/ block_loop_hintblocks_second_round
           \/ block_loop_hintblocks_end
  BY <1>4 DEF write_find_location_oldest, write_find_location_end, LoopDone,
     block_find_oldest_hintblock, block_loop_hintblocks_second_round,
     block_loop_hintblocks_end
<1>5. CASE \/ block_loop_blocks_skip_backup \/ block_loop_blocks_invalid
           \/ block_loop_blocks_end \/ read_block_loop_callback
           \/ update_block_loop_callback
  BY <1>5 DEF block_loop_blocks_skip_backup, block_loop_blocks_invalid,
     block_loop_blocks_end, read_block_loop_callback, update_block_loop_callback, AtBlock
<1>6. CASE \/ write_put_block_refused \/ write_checksum_and_put_block
           \/ write_update_hintblock \/ write_update_hintblock_backup
  BY <1>6 DEF write_put_block_refused, write_checksum_and_put_block,
     write_update_hintblock, write_update_hintblock_backup, ReadyToPut
<1>. QED BY <1>1, <1>2, <1>3, <1>4, <1>5, <1>6 DEF Step

-----------------------------------------------------------------------------
(* The invariant.                                                          *)

(* c could be at x without a hint block pointing anywhere but back.        *)
PointsBack(x, c) ==
  \A h \in HintPositions : x \in {h, backup_location(h)} /\ validate_hintblock(c) =>
    c.prev \in 1..(h - 1)

(* So could everything the medium may have.                                *)
MediumInv ==
  /\ medium \in [Positions -> SUBSET Content]
  /\ \A x \in Positions : dev[x] \in medium[x] /\ \A c \in medium[x] : PointsBack(x, c)

FileInv ==
  /\ queue \in Seq(Entries) /\ unsynced_write_bytes \in Nat
  /\ astray \subseteq Positions

(* A hint block that is being recovered will be synced.                    *)
RecoveryInv ==
  pc = "recover_backup" => i \in Covered(queue) \/ medium[i] = {dev[i]}

PowerInv == IInv /\ MediumInv /\ FileInv /\ DirtyIsQueued /\ RecoveryInv

(* HintsPointBack, position by position.                                   *)
LEMMA PointsBackFacts ==
  /\ HintsPointBack => \A x \in Positions : PointsBack(x, dev[x])
  /\ (\A x \in Positions : PointsBack(x, dev[x])) => HintsPointBack
BY HintPositionFacts DEF HintsPointBack, PointsBack

(* The medium may have no more than before, but for what was put.          *)
LEMMA MediumFacts ==
  ASSUME IInv', MediumInv, medium' \in [Positions -> SUBSET Content],
         \A x \in Positions : dev'[x] \in medium'[x] /\ medium'[x] \subseteq medium[x] \cup {dev'[x]}
  PROVE  MediumInv'
<1>1. \A x \in Positions : PointsBack(x, dev'[x])
  BY HintPositionFacts DEF IInv, HintsPointBack, PointsBack
<1>. QED BY <1>1 DEF MediumInv, PointsBack

(* The device after a step holds contents only.                            *)
LEMMA NewContent == ASSUME IInv' PROVE dev' \in [Positions -> Content]
BY DEF IInv, DataType

(* A step that puts a block keeps the invariant, and what it recovers is   *)
(* on the medium.                                                          *)
LEMMA PutStepPower ==
  ASSUME PowerInv, PutStep
  PROVE  PowerInv' /\ (pc = "recover_backup" /\ pc' = "callback" => medium'[i] = {dev'[i]})
<1>. USE DEF PowerInv
<1>0. Step /\ IInv'
  BY NextInv DEF PutStep, Next
<1>p. PICK p \in Positions : \E n \in Lengths(p) : Put(p, n)
  BY DEF PutStep
<1>1. PICK n \in Lengths(p) : Put(p, n)
  BY <1>p
<1>2. Puts(p) /\ n \in 1..BlockCells
  BY LengthsFacts
<1>. DEFINE f == IO(queue, unsynced_write_bytes, {})
            w == io_write_block(f, p, n)
            g == after_put(w)
            missed == IF misses_queue(f, p, n) THEN {p} ELSE {}
<1>3. /\ queue' = g.queue /\ unsynced_write_bytes' = g.bytes
      /\ medium' = [x \in Positions |->
                      IF x \in g.synced THEN {dev'[x]} ELSE medium[x] \cup {dev'[x]}]
      /\ astray' = (astray \cup missed) \ g.synced
  BY <1>1 DEF Put
<1>4. f \in FileState /\ f.queue = queue
  BY DEF FileInv, FileState, IO
<1>5. /\ w \in FileState /\ \A x \in Positions : Safe(f, x) => Safe(w, x)
      /\ ~misses_queue(f, p, n) => Safe(w, p)
  BY <1>2, <1>4, WriteBlockFacts
<1>. HIDE DEF f, w
<1>6. /\ g \in FileState /\ \A x \in Positions : Safe(w, x) => Safe(g, x)
      /\ pc = "recover_backup" => \A x \in Positions : Safe(w, x) => x \in g.synced
  <2>1. /\ io_sync(w) \in FileState
        /\ \A x \in Positions : Safe(w, x) => x \in io_sync(w).synced
    BY <1>5, SyncFacts
  <2>. QED BY <1>5, <2>1 DEF after_put, Safe
<1>7. \A x \in Positions : x # p => dev'[x] = dev[x]
  BY <1>0, <1>2, StepChanges, PutsOnce
<1>. HIDE DEF g
<1>8. MediumInv'
  <2>1. medium' \in [Positions -> SUBSET Content]
    BY <1>0, <1>3, NewContent DEF MediumInv
  <2>. QED BY <1>0, <1>3, <2>1, MediumFacts
<1>9. FileInv'
  BY <1>3, <1>6 DEF FileInv, FileState
<1>10. DirtyIsQueued'
  <2>1. SUFFICES ASSUME NEW x \in Positions, medium'[x] # {dev'[x]}
                 PROVE  x \in Covered(queue') \cup astray'
    BY DEF DirtyIsQueued, Dirty
  <2>2. x \notin g.synced
    BY <1>3, <2>1
  <2>3. CASE x = p
    BY <1>3, <1>5, <1>6, <2>2, <2>3 DEF Safe
  <2>4. CASE x # p
    <3>1. medium[x] # {dev[x]}
      BY <1>3, <1>7, <2>1, <2>2, <2>4
    <3>2. x \in Covered(queue) \cup astray
      BY <3>1 DEF DirtyIsQueued, Dirty
    <3>. QED BY <1>3, <1>4, <1>5, <1>6, <2>2, <3>2 DEF Safe
  <2>. QED BY <2>3, <2>4
<1>11. RecoveryInv'
  <2>1. SUFFICES ASSUME pc' = "recover_backup"
                 PROVE  i' \in Covered(queue') \/ medium'[i'] = {dev'[i']}
    BY DEF RecoveryInv
  <2>2. pc = "recover_main" /\ i' = i
    BY <1>0, <2>1, RecoverySteps
  <2>3. p = i /\ n = HintCells
    BY <1>2, <2>1, <2>2 DEF Puts, PutsData, PutsHint, Callback, Lengths
  <2>4. ~misses_queue(f, p, n)
    BY <2>3, HintAssumption, QueueAssumption DEF misses_queue, HintCells
  <2>. QED BY <1>3, <1>5, <1>6, <2>2, <2>3, <2>4 DEF Safe
<1>12. pc = "recover_backup" /\ pc' = "callback" => medium'[i] = {dev'[i]}
  <2>1. SUFFICES ASSUME pc = "recover_backup", pc' = "callback"
                 PROVE  medium'[i] = {dev'[i]}
    OBVIOUS
  <2>2. i \in HintPositions
    BY <2>1 DEF IInv, LocalInv, LoopInv, InRegionStep
  <2>3. p = recovery_backup_location(i) /\ i \in Positions /\ i # p
    <3>1. p = recovery_backup_location(i)
      BY <1>2, <2>1 DEF Puts, PutsData, PutsHint, Callback
    <3>2. i \in Positions /\ i \in Nat
      BY <2>2, HintPositionFacts
    <3>. QED BY <3>1, <3>2, HalfAssumption DEF recovery_backup_location
  <2>4. CASE i \in Covered(queue)
    BY <1>3, <1>4, <1>5, <1>6, <2>1, <2>3, <2>4 DEF Safe
  <2>5. CASE medium[i] = {dev[i]}
    BY <1>3, <1>7, <2>3, <2>5
  <2>. QED BY <2>1, <2>4, <2>5 DEF RecoveryInv
<1>. QED BY <1>0, <1>8, <1>9, <1>10, <1>11, <1>12

(* A step that puts nothing leaves the device alone.                       *)
LEMMA QuietKeepsDevice == ASSUME PowerInv, QuietStep PROVE IInv' /\ dev' = dev
<1>1. Request \/ Step
  BY DEF QuietStep
<1>2. IInv'
  BY <1>1, NextInv DEF Next, PowerInv
<1>3. \A x \in Positions : dev'[x] = dev[x]
  BY <1>1, StepChanges, LengthsFacts DEF QuietStep, PowerInv
<1>. QED BY <1>2, <1>3, NewContent DEF PowerInv, IInv, DataType

(* It changes nothing here.                                                *)
LEMMA QuietStepPower ==
  ASSUME PowerInv, QuietStep
  PROVE  PowerInv' /\ ~(pc = "recover_backup" /\ pc' = "callback")
<1>. USE DEF PowerInv
<1>1. Request \/ Step
  BY DEF QuietStep
<1>2. IInv' /\ dev' = dev
  BY QuietKeepsDevice
<1>3. \A x \in Positions : ~Puts(x)
  BY LengthsFacts DEF QuietStep
<1>5. MediumInv' /\ FileInv' /\ DirtyIsQueued'
  BY <1>2 DEF QuietStep, MediumInv, PointsBack, FileInv, DirtyIsQueued, Dirty
<1>6. pc' # "recover_backup"
  <2>1. SUFFICES ASSUME pc' = "recover_backup" PROVE FALSE
    OBVIOUS
  <2>2. pc = "recover_main"
    BY <1>1, <2>1, RecoverySteps
  <2>3. i \in Positions
    BY <2>2, HintPositionFacts DEF IInv, LocalInv, LoopInv, InRegionStep
  <2>. QED BY <1>3, <2>1, <2>2, <2>3 DEF Puts, PutsHint
<1>7. ~(pc = "recover_backup" /\ pc' = "callback")
  <2>1. SUFFICES ASSUME pc = "recover_backup", pc' = "callback" PROVE FALSE
    OBVIOUS
  <2>2. i \in Nat /\ recovery_backup_location(i) \notin Positions
    <3>1. i \in HintPositions
      BY <2>1 DEF IInv, LocalInv, LoopInv, InRegionStep
    <3>. QED BY <1>3, <2>1, <3>1, HintPositionFacts DEF Puts, PutsHint
  <2>3. io_writable(recovery_backup_location(i))
    BY <1>1, <2>1, RecoveryWrites
  <2>. QED BY <2>2, <2>3, HalfAssumption, SizeAssumption
       DEF io_writable, recovery_backup_location, Positions
<1>. QED BY <1>2, <1>5, <1>6, <1>7 DEF RecoveryInv

(* A device that is all on the medium, and an empty queue.                 *)
LEMMA SyncedFacts ==
  ASSUME IInv', NoQueue, medium' = Synced(dev'), astray' = {}, pc' # "recover_backup"
  PROVE  MediumInv' /\ FileInv' /\ DirtyIsQueued' /\ RecoveryInv'
<1>1. dev' \in [Positions -> Content]
  BY NewContent
<1>2. \A x \in Positions : PointsBack(x, dev'[x])
  BY HintPositionFacts DEF IInv, HintsPointBack, PointsBack
<1>3. MediumInv'
  BY <1>1, <1>2 DEF MediumInv, Synced, PointsBack
<1>. QED BY <1>3 DEF FileInv, NoQueue, DirtyIsQueued, Dirty, RecoveryInv, Synced

(* Closing the device, and opening it again, keeps the invariant.          *)
LEMMA ClosePower == ASSUME PowerInv, io_close PROVE PowerInv'
<1>1. IInv'
  BY NextInv DEF PowerInv, io_close
<1>. QED BY <1>1, SyncedFacts DEF PowerInv, io_close, vars

(* A kill leaves every position to the kernel that the medium may not have.*)
LEMMA KillPower == ASSUME PowerInv, Kill PROVE PowerInv'
<1>. USE DEF PowerInv
<1>1. IInv'
  BY NextInv DEF Kill, Next, Fault
<1>2. MediumInv'
  BY <1>1, MediumFacts, NewContent DEF Kill, MediumInv
<1>3. FileInv' /\ DirtyIsQueued'
  BY <1>1 DEF Kill, NoQueue, FileInv, DirtyIsQueued, Dirty
<1>4. RecoveryInv'
  BY DEF Kill, Crash, TornCrash, EndOp, RecoveryInv
<1>. QED BY <1>1, <1>2, <1>3, <1>4

(* What a loss of power leaves was all put there before.                   *)
LEMMA PowerLossPower == ASSUME PowerInv, PowerLoss PROVE PowerInv'
<1>. USE DEF PowerInv
<1>1. dev' \in [Positions -> Content] /\ \A x \in Positions : dev'[x] \in medium[x]
  BY DEF PowerLoss, Dirty, MediumInv
<1>2. HintsPointBack'
  BY <1>1, HintPositionFacts DEF MediumInv, PointsBack, HintsPointBack
<1>3. DataType'
  BY <1>1, FaultsAssumption DEF PowerLoss, IInv, DataType
<1>4. LocalInv' /\ pc' # "recover_backup"
  <2>1. CASE pc = "idle" /\ UNCHANGED <<pc, locals, ret>>
    <3>1. LocalType' /\ LoopInv'
      BY <2>1 DEF IInv, LocalInv, locals, LocalType, LoopInv, InRegionStep
    <3>2. SearchInv' /\ PutInv' /\ WriteInv'
      BY <2>1 DEF PowerLoss, IInv, LocalInv, locals, SearchInv, StateInv, PutInv, WriteInv, Putting
    <3>. QED BY <2>1, <3>1, <3>2 DEF LocalInv
  <2>2. CASE EndOp("crash")
    BY <2>2, EndOpFacts DEF Returns, EndOp
  <2>. QED BY <2>1, <2>2 DEF PowerLoss
<1>5. IInv'
  BY <1>2, <1>3, <1>4 DEF IInv
<1>. QED BY <1>4, <1>5, SyncedFacts DEF PowerLoss

(* It holds of every device that is opened for the first time.             *)
LEMMA PowerInitInv == PowerInit => PowerInv
<1>. SUFFICES ASSUME PowerInit PROVE PowerInv
  OBVIOUS
<1>1. IInv
  BY InitInv DEF PowerInit
<1>2. MediumInv
  BY <1>1, PointsBackFacts DEF PowerInit, IInv, DataType, MediumInv, Synced, PointsBack
<1>. QED BY <1>1, <1>2
     DEF PowerInit, Init, PowerInv, FileInv, DirtyIsQueued, Dirty, Synced, RecoveryInv

(* Every step keeps it.                                                    *)
LEMMA PowerNextInv == PowerInv /\ [PowerNext]_pvars => PowerInv'
<1>. SUFFICES ASSUME PowerInv, [PowerNext]_pvars PROVE PowerInv'
  OBVIOUS
<1>1. CASE UNCHANGED pvars
  <2>1. IInv'
    BY <1>1, NextInv DEF PowerInv, pvars
  <2>. QED BY <1>1, <2>1 DEF PowerInv, pvars, vars, MediumInv, PointsBack, FileInv,
       DirtyIsQueued, Dirty, RecoveryInv
<1>. QED BY <1>1, PutStepPower, QuietStepPower, ClosePower, KillPower, PowerLossPower
     DEF PowerNext

(* The invariant of every behaviour, with any number of kills and losses   *)
(* of power.                                                               *)
THEOREM PowerInvariance == PowerSpec => []PowerInv
BY PowerInitInv, PowerNextInv, PTL DEF PowerSpec

(* Every variable keeps its type, those of the log included, with any      *)
(* mixture of blocks that a loss of power leaves (io_write, io_open).      *)
THEOREM PowerTypeCorrect == PowerSpec => []PowerTypeOK
<1>1. PowerInv => PowerTypeOK
  BY DEF PowerInv, IInv, DataType, LocalInv, LocalType, TypeOK, MediumInv, FileInv, PowerTypeOK
<1>. QED BY <1>1, PowerInvariance, PTL

(* Whatever the medium may lack is in the queue, for a queue and pages of  *)
(* any size, but for what a kill left to the kernel and for the blocks     *)
(* without padding that found the queue full (io_update_sync_queue).       *)
THEOREM NothingForgotten == PowerSpec => []DirtyIsQueued
<1>1. PowerInv => DirtyIsQueued
  BY DEF PowerInv
<1>. QED BY <1>1, PowerInvariance, PTL

(* No loss of power, in whatever mixture of old and new blocks it leaves   *)
(* the device, makes a valid hint block point anywhere but back            *)
(* (write_update_hintblock).                                               *)
THEOREM HintsSurvivePowerLoss == PowerSpec => []HintsPointBack
<1>1. PowerInv => HintsPointBack
  BY DEF PowerInv, IInv
<1>. QED BY <1>1, PowerInvariance, PTL

(* The hint block an operation recovered is on the medium when the         *)
(* operation goes on, also if the queue was full when it was put           *)
(* (block_hintblock_recover_backup).                                       *)
THEOREM RecoveriesAreDurable == PowerSpec => RecoveryIsDurable
<1>1. PowerInv /\ [PowerNext]_pvars =>
        [pc = "recover_backup" /\ pc' = "callback" => medium'[i] = {dev'[i]}]_pvars
  <2>1. SUFFICES ASSUME PowerInv, PowerNext, pc = "recover_backup", pc' = "callback"
                 PROVE  medium'[i] = {dev'[i]}
    OBVIOUS
  <2>2. ~io_close /\ ~Kill /\ ~PowerLoss
    BY <2>1 DEF io_close, Kill, Crash, TornCrash, PowerLoss, EndOp
  <2>. QED BY <2>1, <2>2, PutStepPower, QuietStepPower DEF PowerNext
<1>. QED BY <1>1, PowerInvariance, PTL DEF PowerSpec, RecoveryIsDurable

-----------------------------------------------------------------------------
(* How many bytes there are to lose.                                       *)

(* A write counts its range, or it syncs and begins anew.                  *)
LEMMA WriteBytes ==
  ASSUME NEW f \in FileState, NEW s \in Entries, s.start <= s.end
  PROVE  \/ /\ io_write(f, s).bytes = f.bytes + (s.end - s.start)
            /\ io_write(f, s).bytes < SyncSize
         \/ /\ io_write(f, s).bytes = 0 /\ io_write(f, s).queue = <<>>
            /\ \A x \in Positions :
                 Safe(f, x) \/ (~queue_full(f.queue, s) /\ Covers(s, x)) =>
                   x \in io_write(f, s).synced
<1>. DEFINE g == IO(io_update_sync_queue(f.queue, s), f.bytes + (s.end - s.start), f.synced)
<1>1. io_write(f, s) = IF queue_full(f.queue, s) \/ sync_due(f, s) THEN io_sync(g) ELSE g
  BY DEF io_write
<1>2. CASE queue_full(f.queue, s) \/ sync_due(f, s)
  <2>1. io_write(f, s).bytes = 0 /\ io_write(f, s).queue = <<>>
    BY <1>1, <1>2 DEF io_sync, IO
  <2>2. \A x \in Positions :
          /\ Safe(f, x) => Safe(io_write(f, s), x)
          /\ ~queue_full(f.queue, s) /\ Covers(s, x) => Safe(io_write(f, s), x)
    BY WriteFacts
  <2>3. \A x \in Positions : Safe(io_write(f, s), x) => x \in io_write(f, s).synced
    BY <2>1 DEF Safe, Covered
  <2>. QED BY <2>1, <2>2, <2>3
<1>3. CASE ~(queue_full(f.queue, s) \/ sync_due(f, s))
  <2>1. f.bytes \in Nat /\ s.end - s.start \in Nat
    BY DEF FileState, Entries
  <2>. QED BY <1>1, <1>3, <2>1, QueueAssumption DEF sync_due, IO
<1>. QED BY <1>2, <1>3

(* A block that is put counts, or all before it is synced and itself too,  *)
(* misses the queue, or counts with its padding.                           *)
LEMMA WriteBlockBytes ==
  ASSUME NEW f \in FileState, NEW p \in Positions, NEW n \in 1..BlockCells,
         f.bytes < SyncSize
  PROVE  /\ io_write_block(f, p, n).bytes < SyncSize
         /\ \/ io_write_block(f, p, n).bytes > f.bytes
            \/ /\ \A x \in Positions : Safe(f, x) => x \in io_write_block(f, p, n).synced
               /\ \/ p \in io_write_block(f, p, n).synced
                  \/ misses_queue(f, p, n)
                  \/ io_write_block(f, p, n).bytes >= 1
<1>. DEFINE c == FirstCell(p)
            f1 == io_write(f, DataOf(p, n))
            f2 == io_write(f1, PaddingOf(p, n))
<1>1. c \in Nat /\ BlockCells \in Nat /\ n \in Nat /\ n >= 1 /\ n <= BlockCells
  BY QueueAssumption, SizeAssumption DEF Positions, FirstCell
<1>2. /\ DataOf(p, n) = Entry(c, c + n)
      /\ PaddingOf(p, n) = Entry(c + n, c + BlockCells)
  BY DEF DataOf, PaddingOf
<1>. HIDE DEF c
<1>3. /\ DataOf(p, n) \in Entries /\ DataOf(p, n).start <= DataOf(p, n).end
      /\ DataOf(p, n).end - DataOf(p, n).start = n
      /\ PaddingOf(p, n) \in Entries /\ PaddingOf(p, n).start <= PaddingOf(p, n).end
      /\ PaddingOf(p, n).end - PaddingOf(p, n).start = BlockCells - n
  BY <1>1, <1>2, EntryFacts
<1>4. Covers(DataOf(p, n), p)
  BY <1>1, <1>2, RangeCovers DEF c
<1>5. io_write_block(f, p, n) = f2
  BY DEF io_write_block
<1>6. f1 \in FileState
  BY <1>3, WriteFacts
<1>7. f.bytes \in Nat /\ f1.bytes \in Nat
  BY <1>6 DEF FileState
<1>8. \A x \in Positions : /\ x \in f1.synced => x \in f2.synced
                           /\ Safe(f, x) => Safe(f1, x)
  BY <1>3, <1>6, WriteFacts
<1>9. ~misses_queue(f, p, n) => Safe(f2, p)
  BY <1>5, WriteBlockFacts
<1>10. \/ f1.bytes = f.bytes + n /\ f1.bytes < SyncSize
       \/ /\ f1.bytes = 0
          /\ \A x \in Positions :
               Safe(f, x) \/ (~queue_full(f.queue, DataOf(p, n)) /\ Covers(DataOf(p, n), x))
                 => x \in f1.synced
  BY <1>3, WriteBytes
<1>11. \/ f2.bytes = f1.bytes + (BlockCells - n) /\ f2.bytes < SyncSize
       \/ /\ f2.bytes = 0 /\ f2.queue = <<>>
          /\ \A x \in Positions : Safe(f1, x) => x \in f2.synced
  BY <1>3, <1>6, WriteBytes
<1>. HIDE DEF f1, f2
<1>12. f2.bytes < SyncSize
  BY <1>11, QueueAssumption
<1>13. CASE f2.queue = <<>> /\ \A x \in Positions : Safe(f1, x) => x \in f2.synced
  <2>1. Covered(f2.queue) = {}
    BY <1>13 DEF Covered
  <2>. QED BY <1>5, <1>8, <1>9, <1>12, <1>13, <2>1 DEF Safe
<1>14. CASE f2.bytes = f1.bytes + (BlockCells - n) /\ f1.bytes = f.bytes + n
  BY <1>1, <1>5, <1>7, <1>12, <1>14
<1>15. CASE /\ f2.bytes = f1.bytes + (BlockCells - n) /\ f1.bytes = 0
            /\ \A x \in Positions :
                 Safe(f, x) \/ (~queue_full(f.queue, DataOf(p, n)) /\ Covers(DataOf(p, n), x))
                   => x \in f1.synced
  <2>1. \A x \in Positions : Safe(f, x) => x \in f2.synced
    BY <1>8, <1>15
  <2>2. ~queue_full(f.queue, DataOf(p, n)) => p \in f2.synced
    BY <1>4, <1>8, <1>15
  <2>3. n = BlockCells \/ f2.bytes >= 1
    BY <1>1, <1>15
  <2>. QED BY <1>5, <1>12, <2>1, <2>2, <2>3 DEF misses_queue
<1>. QED BY <1>10, <1>11, <1>13, <1>14, <1>15

(* Sets of positions are finite.                                           *)
LEMMA PositionSets ==
  ASSUME NEW S, S \subseteq Positions, NEW p
  PROVE  /\ IsFiniteSet(S) /\ Cardinality(S) \in Nat
         /\ \A T : T \subseteq S => Cardinality(T) <= Cardinality(S)
         /\ \A T : T \subseteq S \cup {p} => Cardinality(T) <= Cardinality(S) + 1
<1>1. IsFiniteSet(Positions)
  BY SizeAssumption, FS_Interval DEF Positions
<1>2. IsFiniteSet(S)
  BY <1>1, FS_Subset
<1>3. Cardinality(S) \in Nat
  BY <1>2, FS_CardinalityType
<1>4. IsFiniteSet(S \cup {p}) /\ Cardinality(S \cup {p}) <= Cardinality(S) + 1
  <2>1. /\ IsFiniteSet(S \cup {p})
        /\ Cardinality(S \cup {p}) = IF p \in S THEN Cardinality(S) ELSE Cardinality(S) + 1
    BY <1>2, FS_AddElement, Zenon
  <2>. QED BY <1>3, <2>1
<1>5. ASSUME NEW T, T \subseteq S \cup {p} PROVE Cardinality(T) <= Cardinality(S) + 1
  <2>1. Cardinality(T) <= Cardinality(S \cup {p}) /\ IsFiniteSet(T)
    BY <1>4, <1>5, FS_Subset
  <2>. QED BY <1>3, <1>4, <2>1, FS_CardinalityType
<1>. QED BY <1>2, <1>3, <1>5, FS_Subset

(* A step that puts a block loses no count of it.                          *)
LEMMA PutStepLoss ==
  ASSUME PowerInv, LossIsBounded, PutStep
  PROVE  LossIsBounded'
<1>. USE DEF PowerInv
<1>0. Step /\ IInv' /\ PowerInv'
  BY NextInv, PutStepPower DEF PutStep, Next
<1>p. PICK p \in Positions : \E n \in Lengths(p) : Put(p, n)
  BY DEF PutStep
<1>1. PICK n \in Lengths(p) : Put(p, n)
  BY <1>p
<1>2. Puts(p) /\ n \in 1..BlockCells
  BY LengthsFacts
<1>. DEFINE f == IO(queue, unsynced_write_bytes, {})
            w == io_write_block(f, p, n)
            g == after_put(w)
            missed == IF misses_queue(f, p, n) THEN {p} ELSE {}
            D == Dirty \ astray
<1>3. /\ unsynced_write_bytes' = g.bytes
      /\ medium' = [x \in Positions |->
                      IF x \in g.synced THEN {dev'[x]} ELSE medium[x] \cup {dev'[x]}]
      /\ astray' = (astray \cup missed) \ g.synced
  BY <1>1 DEF Put
<1>4. f \in FileState /\ f.queue = queue /\ f.bytes = unsynced_write_bytes
  BY DEF FileInv, FileState, IO
<1>5. /\ w \in FileState
      /\ ~misses_queue(f, p, n) => Safe(w, p)
      /\ \A x \in Positions : Safe(f, x) => Safe(w, x)
  BY <1>2, <1>4, WriteBlockFacts
<1>6. /\ w.bytes < SyncSize
      /\ \/ w.bytes > f.bytes
         \/ /\ \A x \in Positions : Safe(f, x) => x \in w.synced
            /\ p \in w.synced \/ misses_queue(f, p, n) \/ w.bytes >= 1
  BY <1>2, <1>4, WriteBlockBytes DEF LossIsBounded
<1>7. \A x \in Positions : x # p => dev'[x] = dev[x]
  BY <1>0, <1>2, StepChanges, PutsOnce
<1>8. \A x \in D : Safe(f, x)
  BY <1>4 DEF DirtyIsQueued, Dirty, Safe
<1>. HIDE DEF f, w
<1>9. \A x \in D' : /\ x \in Positions /\ x \notin g.synced
                    /\ x # p => x \in D
                    /\ x = p => ~misses_queue(f, p, n)
  <2>1. SUFFICES ASSUME NEW x \in Positions, medium'[x] # {dev'[x]}, x \notin astray'
                 PROVE  /\ x \notin g.synced
                        /\ x # p => medium[x] # {dev[x]} /\ x \notin astray
                        /\ x = p => ~misses_queue(f, p, n)
    BY DEF Dirty
  <2>2. x \notin g.synced
    BY <1>3, <2>1
  <2>3. x \notin astray /\ x \notin missed
    BY <1>3, <2>1, <2>2
  <2>. QED BY <1>3, <1>7, <2>1, <2>2, <2>3
<1>10. D \subseteq Positions /\ D' \subseteq Positions /\ {} \subseteq Positions
  BY DEF Dirty
<1>11. CASE pc = "recover_backup"
  <2>1. g.bytes = 0 /\ \A x \in Positions : Safe(w, x) => x \in g.synced
    BY <1>5, <1>11, SyncFacts DEF after_put, io_sync, IO
  <2>2. D' = {}
    BY <1>5, <1>8, <1>9, <2>1
  <2>. QED BY <1>3, <2>1, <2>2, FS_EmptySet, QueueAssumption DEF LossIsBounded
<1>12. CASE pc # "recover_backup"
  <2>1. g = w /\ w.bytes \in Nat /\ f.bytes \in Nat
    BY <1>4, <1>5, <1>12 DEF after_put, FileState
  <2>. HIDE DEF g, D
  <2>2. CASE w.bytes > f.bytes
    <3>1. D' \subseteq D \cup {p}
      BY <1>9
    <3>2. Cardinality(D') <= Cardinality(D) + 1 /\ Cardinality(D) \in Nat
          /\ Cardinality(D') \in Nat
      BY <1>10, <3>1, PositionSets
    <3>3. Cardinality(D) <= f.bytes
      BY <1>4 DEF LossIsBounded, D
    <3>4. Cardinality(D') <= w.bytes
      BY <2>1, <2>2, <3>2, <3>3
    <3>. QED BY <1>3, <1>6, <2>1, <3>4 DEF LossIsBounded, D
  <2>3. CASE \A x \in Positions : Safe(f, x) => x \in w.synced
    <3>1. D' \subseteq {p}
      BY <1>8, <1>9, <1>10, <2>1, <2>3
    <3>2. Cardinality(D') <= 1 /\ Cardinality(D') \in Nat
      <4>1. IsFiniteSet({p}) /\ Cardinality({p}) = 1
        BY FS_Singleton
      <4>2. Cardinality(D') <= Cardinality({p}) /\ IsFiniteSet(D')
        BY <3>1, <4>1, FS_Subset
      <4>. QED BY <4>1, <4>2, FS_CardinalityType
    <3>3. CASE w.bytes >= 1
      <4>1. Cardinality(D') <= w.bytes
        BY <2>1, <3>2, <3>3
      <4>. QED BY <1>3, <1>6, <2>1, <4>1 DEF LossIsBounded, D
    <3>4. CASE p \in w.synced \/ misses_queue(f, p, n)
      <4>1. D' = {}
        BY <1>9, <2>1, <3>1, <3>4
      <4>2. Cardinality(D') <= w.bytes
        BY <2>1, <4>1, FS_EmptySet
      <4>. QED BY <1>3, <1>6, <2>1, <4>2 DEF LossIsBounded, D
    <3>5. CASE w.bytes > f.bytes
      BY <2>2, <3>5
    <3>. QED BY <1>6, <3>3, <3>4, <3>5
  <2>. QED BY <1>6, <2>2, <2>3
<1>. QED BY <1>11, <1>12

(* Nothing is left to lose once the queue is gone with nothing astray that *)
(* it should have had.                                                     *)
LEMMA NothingToLose ==
  ASSUME NoQueue, Dirty' \subseteq astray'
  PROVE  LossIsBounded'
<1>1. (Dirty \ astray)' = {}
  OBVIOUS
<1>2. Cardinality((Dirty \ astray)') = 0
  BY <1>1, FS_EmptySet
<1>. QED BY <1>2, QueueAssumption DEF NoQueue, LossIsBounded

(* A loss of power undoes less than a sync's worth of bytes, whatever the  *)
(* sizes of queue, pages and blocks, but for what the queue did not have   *)
(* (io_write).                                                             *)
THEOREM LossesAreBounded == PowerSpec => []LossIsBounded
<1>1. PowerInit => LossIsBounded
  <2>1. SUFFICES ASSUME PowerInit PROVE LossIsBounded
    OBVIOUS
  <2>2. Dirty \ astray = {} /\ unsynced_write_bytes = 0
    BY <2>1 DEF PowerInit, Dirty, Synced
  <2>3. Cardinality(Dirty \ astray) = 0
    BY <2>2, FS_EmptySet
  <2>. QED BY <2>2, <2>3, QueueAssumption DEF LossIsBounded
<1>2. PowerInv /\ LossIsBounded /\ [PowerNext]_pvars => LossIsBounded'
  <2>. SUFFICES ASSUME PowerInv, LossIsBounded, [PowerNext]_pvars PROVE LossIsBounded'
    OBVIOUS
  <2>1. CASE QuietStep
    <3>1. dev' = dev
      BY <2>1, QuietKeepsDevice
    <3>. QED BY <2>1, <3>1 DEF QuietStep, LossIsBounded, Dirty
  <2>2. CASE io_close
    BY <2>2, NothingToLose DEF io_close, Dirty, Synced, vars
  <2>3. CASE Kill
    BY <2>3, NothingToLose DEF Kill, Dirty
  <2>4. CASE PowerLoss
    BY <2>4, NothingToLose DEF PowerLoss, Dirty, Synced
  <2>5. CASE UNCHANGED pvars
    BY <2>5 DEF pvars, vars, LossIsBounded, Dirty
  <2>. QED BY <2>1, <2>2, <2>3, <2>4, <2>5, PutStepLoss DEF PowerNext
<1>. QED BY <1>1, <1>2, PowerInvariance, PTL DEF PowerSpec

-----------------------------------------------------------------------------
(* No bug exit, on a medium that loses power any number of times.          *)

(* Nothing the medium may have is stamped 0xffffffffffffffff.              *)
MediumStamped == \A p \in Positions : \A c \in medium[p] : c.ts < MaxTime

PowerExitInv == ExitInv /\ MediumStamped

(* It stays so if the medium has nothing new but what was put.             *)
LEMMA StillStamped ==
  ASSUME MediumStamped, StampedInv',
         \A p \in Positions : medium'[p] \subseteq medium[p] \cup {dev'[p]}
  PROVE  MediumStamped'
BY DEF MediumStamped, StampedInv

(* What a loss of power leaves was stamped before; the search it cuts      *)
(* short is forgotten.                                                     *)
LEMMA PowerLossExit ==
  ASSUME PowerInv, PowerExitInv, PowerLoss PROVE PowerExitInv'
<1>. USE DEF PowerExitInv, ExitInv
<1>1. StampedInv'
  <2>1. \A p \in Positions : dev'[p] \in medium[p]
    BY DEF PowerLoss, Dirty, PowerInv, MediumInv
  <2>. QED BY <2>1 DEF MediumStamped, StampedInv
<1>2. MediumStamped'
  BY <1>1 DEF PowerLoss, Synced, MediumStamped, StampedInv
<1>3. FoundInv' /\ AskedInv' /\ NoBugExit'
  <2>1. CASE pc = "idle" /\ UNCHANGED <<pc, locals, ret>>
    <3>1. FoundInv'
      BY <2>1 DEF locals, FoundInv
    <3>2. AskedInv' /\ NoBugExit'
      BY <2>1 DEF PowerLoss, AskedInv, NoBugExit
    <3>. QED BY <3>1, <3>2
  <2>2. CASE EndOp("crash")
    BY <2>2, EndOpExit DEF PowerLoss, Returns
  <2>. QED BY <2>1, <2>2 DEF PowerLoss
<1>. QED BY <1>1, <1>2, <1>3

(* Every step.                                                             *)
LEMMA PowerNextExit ==
  ASSUME StampsHaveRoom
  PROVE  PowerInv /\ PowerExitInv /\ [PowerNext]_pvars => PowerExitInv'
<1>. SUFFICES ASSUME PowerInv, PowerExitInv, [PowerNext]_pvars PROVE PowerExitInv'
  OBVIOUS
<1>1. ASSUME [Next]_vars PROVE ExitInv' /\ StampedInv'
  BY <1>1, NextExit DEF PowerInv, PowerExitInv, ExitInv
<1>2. CASE PutStep
  <2>1. \A p \in Positions : medium'[p] \subseteq medium[p] \cup {dev'[p]}
    BY <1>2 DEF PutStep, Put
  <2>. QED BY <1>1, <1>2, <2>1, StillStamped DEF PutStep, Next, PowerExitInv
<1>3. CASE QuietStep
  BY <1>1, <1>3, StillStamped DEF QuietStep, Next, PowerExitInv
<1>4. CASE io_close
  <2>1. ExitInv' /\ StampedInv'
    BY <1>1, <1>4 DEF io_close
  <2>2. MediumStamped'
    BY <1>4, <2>1 DEF io_close, vars, Synced, StampedInv, MediumStamped
  <2>. QED BY <2>1, <2>2 DEF PowerExitInv
<1>5. CASE Kill
  <2>1. \A p \in Positions : medium'[p] \subseteq medium[p] \cup {dev'[p]}
    BY <1>5 DEF Kill
  <2>. QED BY <1>1, <1>5, <2>1, StillStamped DEF Kill, Next, Fault, PowerExitInv
<1>6. CASE PowerLoss
  BY <1>6, PowerLossExit
<1>7. CASE UNCHANGED pvars
  BY <1>1, <1>7, StillStamped DEF pvars, PowerExitInv
<1>. QED BY <1>2, <1>3, <1>4, <1>5, <1>6, <1>7 DEF PowerNext

(* No check that reports a bug of the program and ends it is reached,      *)
(* whatever mixture of old and new blocks the losses of power left, if no  *)
(* timestamp comes near 0xffffffffffffffff (write_find_location,           *)
(* write_put_block, read_hintblock_loop_callback).                         *)
THEOREM NeverExitsAfterPowerLoss ==
  ASSUME StampsHaveRoom PROVE PowerSpec => []NoBugExit
<1>1. PowerInv /\ PowerExitInv /\ [PowerNext]_pvars => PowerExitInv'
  BY PowerNextExit
<1>2. PowerExitInv => NoBugExit
  BY DEF PowerExitInv, ExitInv
<1>3. PowerInit => PowerExitInv
  <2>. SUFFICES ASSUME PowerInit PROVE PowerExitInv
    OBVIOUS
  <2>1. ExitInv
    BY InitExit DEF PowerInit
  <2>2. MediumStamped
    BY <2>1 DEF PowerInit, Synced, ExitInv, StampedInv, MediumStamped
  <2>. QED BY <2>1, <2>2 DEF PowerExitInv
<1>. QED BY <1>1, <1>2, <1>3, PowerInvariance, PTL DEF PowerSpec

=============================================================================
