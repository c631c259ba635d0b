------------------------------- MODULE Blocks -------------------------------
(***************************************************************************)
(* What a position of the device holds, what the validation functions say  *)
(* of it, and the state of a region that is computed from its hint block.  *)
(***************************************************************************)
EXTENDS Layout

CONSTANTS
  MaxTime,   \* 0xffffffffffffffff
  Flags      \* the bits of application_data

ASSUME MaxTimeAssumption == MaxTime \in Nat \ {0}

Time == 0..MaxTime

(* "block" and "hint" have a correct checksum.  Of the rest, "oversize"    *)
(* declares more data than a block has room for, "junk" does not.          *)
Kinds == {"block", "hint", "junk", "oversize"}

Content == [kind : Kinds, ts : Time, app : SUBSET Flags, prev : Nat]

Block(ts, app) == [kind |-> "block", ts |-> ts, app |-> app, prev |-> 0]

HintBlock(prev) == [kind |-> "hint", ts |-> 0, app |-> {}, prev |-> prev]

(* Never written, or zeroed: a checksum of zeros is not zero.              *)
Junk == [kind |-> "junk", ts |-> 0, app |-> {}, prev |-> 0]

(* The same fields under another checksum or length.                       *)
Damaged(c, kind) == [kind |-> kind, ts |-> c.ts, app |-> c.app, prev |-> c.prev]

validate_block(c) == c.kind = "block"

validate_hintblock(c) == c.kind = "hint"

(* block_loop_blocks stops when validate_block's result is exactly 1, which*)
(* is what a bad length gives.  A bad checksum gives the difference of the *)
(* checksums instead, and goes on to the callback.  A hint block read as a *)
(* block has a checksum in the upper half of its length.                   *)
block_result_is_one(c) == c.kind \in {"oversize", "hint"}

-----------------------------------------------------------------------------
(* struct bdl_hintblock_state.  The members that follow from location are  *)
(* operators of Layout.                                                    *)
HintblockState ==
  [location : Nat, valid : BOOLEAN, highest : Time, prev : Nat]

NoState == [location |-> 0, valid |-> FALSE, highest |-> 0, prev |-> 0]

InRegion(h, p) == blockstart_min(h) <= p /\ p <= blockstart_max(h)

(* The end of block_get_hintblock_state.  Whether previous_block_pos is in *)
(* the region is not asked of a hint block that was just recovered.        *)
hintblock_state(d, h, recovered) ==
  LET prev  == d[h].prev
      valid == /\ validate_hintblock(d[h])
               /\ recovered \/ InRegion(h, prev)
               /\ validate_block(d[prev])
  IN  [location |-> h, valid |-> valid,
       highest  |-> IF valid THEN d[prev].ts ELSE 0,
       prev     |-> IF valid THEN prev ELSE 0]

(* Mutant: the backup is not skipped.                                      *)
NoSkip(p, h) == p

(* Mutant: the backup and the block after it are skipped.                  *)
SkipTwo(p, h) == IF p = backup_location(h) THEN p + 2 ELSE p

(* A data block is not put on the backup of its region's hint block.       *)
skip_backup(p, h) == IF p = backup_location(h) THEN p + 1 ELSE p

(* Mutant: the last block of a region is compared without its length.      *)
FullTooLate(st) == st.valid /\ st.prev > blockstart_max(st.location)

(* write_check_free_hintblock: no room after the last block of the region. *)
region_full(st) == st.valid /\ st.prev + 1 > blockstart_max(st.location)

free_location(st) ==
  IF st.valid THEN skip_backup(st.prev + 1, st.location)
              ELSE blockstart_min(st.location)

=============================================================================
