------------------------------- MODULE Layout -------------------------------
(***************************************************************************)
(* Where things are on a BDL device.                                       *)
(*                                                                         *)
(* A position is a number of blocks after the master header: position p is *)
(* byte header_size + p * block_size.  DeviceSize is the number of blocks, *)
(* the last one possibly incomplete, between the header and the end of the *)
(* file; Half is BDL_DEFAULT_HINTBLOCK_SPACING / 2 in blocks, so a region  *)
(* is 2 * Half positions that end with its hint block, with the backup of  *)
(* the hint block half way.  IntLimit is the first position whose byte     *)
(* offset does not fit the `int pos` of write_put_and_pad_block.           *)
(***************************************************************************)
EXTENDS Integers

CONSTANTS DeviceSize, Half, IntLimit

(* A region has room for data beside its backup: block_size is at most     *)
(* 8192 bytes and half a region is 4 MB.                                   *)
ASSUME HalfAssumption == Half \in Nat /\ Half >= 2

(* A large device: write_find_location leaves smaller ones to              *)
(* write_find_location_small, which ends the program.                      *)
ASSUME SizeAssumption == DeviceSize \in Nat /\ DeviceSize > 2 * Half

(* The end of the file does not cut through a hint block or a backup.      *)
ASSUME TailAssumption == \A k \in 1..DeviceSize : DeviceSize # k * Half + 1

ASSUME IntLimitAssumption == IntLimit \in Nat

Spacing == 2 * Half

(* Mutant: the block after the previous hint block, with the wrong sign.   *)
BlockstartMinus(h) == h - Spacing - 1

(* The blocks of the region that ends with the hint block at h.            *)
blockstart_min(h) == h - Spacing + 1

blockstart_max(h) == h - 1

backup_location(h) == h - Half

(* Mutant: the copy one block beyond the backup.                           *)
RecoveryOffByOne(h) == h - Half + 1

(* Where block_hintblock_recover_backup puts the copy of the hint block it *)
(* restores: location - BDL_HINTBLOCK_BACKUP_POSITION, and that constant   *)
(* is negative.                                                            *)
recovery_backup_location(h) == h + Half

loop_begin_orig == Spacing

(* What the loop of block_loop_hintblocks_worker visits.                   *)
HintPositions == {h \in 1..(DeviceSize - 1) : \E k \in 1..DeviceSize : h = k * Spacing}

Positions == 0..(DeviceSize - 1)

(* Mutant: the length of the block counted twice.                          *)
WritableTwice(p) == p + 2 < DeviceSize /\ p < IntLimit

(* io_seek and io_write refuse what does not end before the end of file; a *)
(* position that became negative in write_put_and_pad_block is beyond it.  *)
(* (From 4 GB on it would wrap to a low one, but no search gets past the   *)
(* first region that is refused, which stays free.)                        *)
io_writable(p) == p + 1 < DeviceSize /\ p < IntLimit

=============================================================================
