------------------------------- MODULE Header -------------------------------
(***************************************************************************)
(* The master header, in bytes: which sizes the commands and init_dev      *)
(* accept, what init_dev computes from them, what validate_header says of  *)
(* the header later, and where the loops then look for hint blocks, their  *)
(* backups and blocks of data.                                             *)
(***************************************************************************)
EXTENDS Integers

CONSTANTS
  DefaultBlock, MinBlock, MaxBlock, BlockDivisor,   \* BDL_*_BLOCKSIZE*
  DefaultPad, MinPad, PadDivisor,                   \* BDL_*_HEADER_PAD*
  RegionSize,                                       \* BDL_DEFAULT_HINTBLOCK_SPACING
  HeaderBytes,                                      \* sizeof(struct bdl_header)
  HintBytes,                                        \* sizeof(struct bdl_hint_block)
  IntSize                                           \* INT_MAX + 1

ASSUME SizesAssumption ==
  /\ {DefaultBlock, MinBlock, MaxBlock, BlockDivisor} \subseteq Nat \ {0}
  /\ {DefaultPad, MinPad, PadDivisor, HeaderBytes, HintBytes, IntSize} \subseteq Nat \ {0}
  /\ RegionSize \in Nat \ {0} /\ RegionSize % 2 = 0
  /\ HeaderBytes <= MinPad
  /\ HintBytes <= MinBlock
  /\ MaxBlock < RegionSize \div 2

(* The conversion of an integer to int.                                    *)
ToInt(n) ==
  LET low == n % (2 * IntSize)
  IN  IF low >= IntSize THEN low - 2 * IntSize ELSE low

Headers == [block_size : Nat, header_size : Nat, total_size : Nat]

NoHeader == [block_size |-> 0, header_size |-> 0, total_size |-> 0]

-----------------------------------------------------------------------------
(* bdl_init_dev, and once more init_dev, which ends the program instead.   *)
OrDefault(n, default) == IF n = 0 THEN default ELSE n

sizes_accepted(bs, pad) ==
  /\ bs \in MinBlock..MaxBlock /\ bs % BlockDivisor = 0
  /\ pad \in Nat /\ pad >= MinPad /\ pad % PadDivisor = 0

(* Mutant: room for one block only is asked for.                           *)
OneBlockFits(size, bs, pad) == size >= pad + bs

(* Mutant: no check of the size of the device.                             *)
AnyRoom(size, bs, pad) == TRUE

room_for_blocks(size, bs, pad) == size >= pad + bs * 2

new_header(size, bs, pad) ==
  [block_size |-> bs, header_size |-> pad,
   total_size |-> (size - pad) - ((size - pad) % bs)]

-----------------------------------------------------------------------------
(* block_get_validate_master_header can read the header at all.            *)
header_readable(size) == HeaderBytes < size

(* validate_header; the checksum fits.  total_size is unsigned and longer  *)
(* than the int that the size of the file became, so that a negative one   *)
(* compares as larger than any.                                            *)
validate_header(h, size) ==
  /\ h.total_size >= h.block_size * 2
  /\ ToInt(size) >= 0 => h.total_size <= ToInt(size)
  /\ h.block_size \in MinBlock..MaxBlock
  /\ h.block_size % BlockDivisor = 0
  /\ h.total_size % h.block_size = 0

-----------------------------------------------------------------------------
(* The k-th hint block of block_loop_hintblocks_large_device.              *)
hint_location(h, k) == h.header_size + k * RegionSize

(* The hint blocks on a device of this size.                               *)
Regions(h, size) == {k \in 1..size : hint_location(h, k) < size}

backup(h, k) == hint_location(h, k) - RegionSize \div 2

(* From blockstart_min to blockstart_max in steps of a block.              *)
region_positions(h, k) ==
  {p \in {hint_location(h, k - 1) + n * h.block_size : n \in 1..RegionSize} :
     p <= hint_location(h, k) - h.block_size}

(* Those that hold data: the backup is found by equality.                  *)
data_positions(h, k) == region_positions(h, k) \ {backup(h, k)}

=============================================================================
