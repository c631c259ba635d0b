# A verification project for Block Device Logger

Block Device Logger (BDL) keeps a log of timestamped blocks directly on a
device or in a file of fixed size. This directory holds TLA+ models of it,
the TLC configurations that check them, and proofs checked by TLAPS.

## The system

A device is a master header followed by regions of 8 MB. A region is a run of
blocks that ends with a *hint block*, which names the last block written in the
region; a *backup* of the hint block lies half way through the region. Nothing
but the header is initialized in advance: what has no valid checksum is free.

| Part | State | Operations | Interacts with |
|---|---|---|---|
| Layout (`defaults.h`, `blocks.h`) | none | positions of regions, hint blocks, backups | everything |
| Blocks and validation (`validate.c`, `crypt.c`, `blocks.c`) | contents of the device | `validate_block`, `validate_hintblock`, `block_get_hintblock_state` | called by every loop |
| Loops (`blocks.c`) | loop position, chosen region | `block_loop_hintblocks_large_device`, `block_loop_blocks`, `block_find_oldest_hintblock`, `block_hintblock_recover_backup` | call back into write, read, update, clear; recovery writes to the device |
| Write (`write.c`) | location found | find location, check timestamp and size, put block, hint block, backup | loops, io |
| Read (`read.c`) | count of printed blocks | find oldest region, scan, print | loops |
| Update (`update.c`) | count | scan, ask the application, put the block again | loops, write, the application's function |
| Clear (`clear.c`) | none | zero the hint blocks | loops, write |
| Input and output (`io.c`) | memory map, sync queue | open, read, write, sync | everything |
| Header (`init.c`, `validate.c`) | master header | init, validate | asked first by every operation |
| Session (`session.c`) | use count | start, close | io |
| Commands (`interface.c`, `bdl.c`) | result, exit status | open, close, init, clear, validate, read, write, help; the loop over standard input | parser, session, everything |
| Command line parser (`cmdline.c`) | arguments, pairs, which of them are used | parse, look up, convert, check that all are used | commands |

What is hard: an operation changes up to three blocks and can be killed between
them; the device is a ring, so the oldest entry is anywhere; damaged hint blocks
are repaired in the middle of reads; one result variable carries the verdict of
a checksum and the command to leave a loop; positions and timestamps meet their
limits; a full queue, a kill and a loss of power each leave other pages
unsynced; sessions are counted by commands, by the loop over standard input and
by applications alike; and two processes are not guarded against at all.
`PROJECT.json` lists each of these at its line under `hazards`.

## Modules

| Module | What it is |
|---|---|
| `Layout` | positions, in units of blocks after the header |
| `Blocks` | what a position holds, its validation, and the state of a region |
| `BlockLog` | the state machine: write, read, update, clear, kills and damage |
| `RingLog` | the abstract specification: a bounded log of the newest entries |
| `LogProperties` | what the device means as a log, and every property |
| `MCClear` | `LogProperties` with a variable that remembers whether a block was put since the last clear |
| `LogProofs` | the inductive invariant, type correctness, `HintsPointBack` |
| `ExitProofs` | `NoBugExit` and `ReadsChangeNoData` |
| `AscendProofs` | what every region holds, at every step: `RegionsAscend` and `KillNeedsNoRecovery` |
| `OrderProofs` | the order of the regions in the ring: `WriteIsAccepted` |
| `ReadProofs` | what a read has printed: `FullReadIsComplete`, `ReadIsComplete`, `ReadIsOldestFirst` |
| `RingProofs` | the refinement: `BlockLog` implements `RingLog` |
| `SyncQueue` | the ranges written to the memory map, and when they are synced (`io.c`) |
| `PowerLog` | `BlockLog` composed with `SyncQueue` on a medium that can lose power |
| `PowerProofs` | the invariant of `PowerLog`, what it promises, and `NoBugExit` from the invariants of both |
| `Header` | sizes in bytes: what `init_dev` computes, `validate_header` checks, and the loops make of it |
| `CommandLine` | the parser, and which arguments each command accepts |
| `Commands` | `bdl` and applications: sessions, commands, initialization, exit status |
| `CommandProperties` | what they promise |
| `MCCommands` | the command lines for the run of `Commands` |
| `CommandProofs` | proofs of those promises |

### State and actions

`dev` maps each position to a record: a kind (`block`, `hint`, or invalid in one
of two ways), a timestamp, application data, and for a hint block the position
it names. The two invalid kinds are told apart because the code does:
`validate_block` gives 1 for a length that does not fit in a block and the
difference of the checksums otherwise, and `block_loop_blocks` compares with 1.
Data and padding are left out; a checksum is whether it fits.

Each operation is a request (`bdl_write_block`, ...), a number of steps, and a
return. A step is the code between two places where something else may be seen
of it: a change of the device, a callback, a turn of a loop. `pc` says which
step is next and `pass` which callback the loop over the hint blocks has:

    write   free: write_hintblock_check_free_callback
            stamps: write_hintblock_check_timestamps, if all regions are full
            put_block, put_hint, put_backup: the three changes of the device
    read    oldest: block_find_oldest_hintblock, then
            scan: read_hintblock_loop_callback, with blocks: block_loop_blocks
    update  the same, with update's callbacks
    clear   clear: clear_hintblocks_loop_callback

At each hint block any of them may take `recover_main` and `recover_backup`, the
two changes of `block_hintblock_recover_backup`. An error is a return of `ERR`
and the like at the step where the code returns it; a "Bug:" message followed by
`exit` is the return `exit`.

The hint block callbacks of read and update are the same code but for the limit;
they share `scan_hintblock_loop_callback` and `AfterBlocks`, and an update has
the limit 0. The bug checks of the loops on their arguments
(`loop_end > file->size`, buffers that are too small, a first location that is
not valid) compare values the same function or its caller has just computed and
are not actions.

Faults: `Crash` kills the process between two steps; `TornCrash` kills it within
a copy, leaving old or new fields under a wrong checksum or length; `Decay` and
`HeaderDecay` damage what lies on the medium. The last three are bounded by
`MaxFaults`. A kill loses no completed copy, since the pages of the memory map
belong to the kernel; a loss of power does, and is in `PowerLog`.

### The log the device stands for

`Log` is the set of entries in the blocks a read would go through, without
`Leftovers`: when all regions are full, a new block lands on the first block of
the oldest region before the hint block is updated. A process killed there
leaves a region whose first block is later than its last; the entry it
overwrote is gone, and its own is not an entry until the hint block says so. A
read prints such a block, and it prints it among the oldest; `ReadIsComplete`
and `ReadIsOldestFirst` say exactly that.

`RingLog` starts empty and allows three changes: a later entry is appended, when
the log is full together with giving up the rest of its oldest region; the
oldest entry of a full log is lost; the application data of an entry changes.
`ImplementsRingLog` says that every step of `BlockLog` is one of them, or none.

All this is about timestamps that ascend, as the application is told to give
them. The code does not insist: the check of a write looks at one region only,
and faketimestamp gives a block another timestamp than the one compared. What is
left then is `RegionsAscend`, and `FullReadIsComplete`: once all regions are in
use, a read misses nothing. Before that it may. The scan begins with the region
that ends first and stops at the first unused region, so a region that came
later but ends with an earlier timestamp hides those before it.

### The medium below the log

In `PowerLog` the variable `dev` of `BlockLog` is what the process sees in its
memory map. `medium[p]` is the set of all contents the medium may have at `p`:
what it had at the last sync, and everything put there since, because the kernel
may write a page at any time or not at all. `queue` and `unsynced_write_bytes`
are those of `bdl_io_file`, with addresses in cells, of which a block has
`BlockCells`. A step of `BlockLog` that changes the device goes through
`io_write_block` in the same step (`PutStep`): data and padding are two ranges,
each may join an entry of the queue, find it full, or bring the count to
`BDL_MMAP_SYNC_SIZE`, and then `io_sync` writes the pages of all entries. A
recovery ends with `io_sync`. `io_close` syncs everything; a kill forgets the
queue and leaves its pages to the kernel; `PowerLoss` replaces `dev` by any
mixture of what `medium` allows, then the device is opened again.

A range that finds the queue full is itself in no entry when the queue is then
synced. If padding follows, the padding is the first entry of the empty queue
and takes the page along; a block without padding misses the queue, and only
`io_close`, a later put to the page or the kernel brings it to the medium. The
variable `astray` remembers these blocks and those a killed process left.

### Commands and sessions

In `Commands` a run of `bdl` begins in `main`; `request` is the command line
`bdl_interpret_command` works on. It refuses the line, or starts a session
around an operation (`start`, then `operate` or `init`), or opens and closes the
session of the user. After a command from `main` that left the session open,
`loop` is the loop over standard input, with its own limits and its own result;
`cleanup` and `exited` are the end of `main`. The pc `app` is a program that
uses the library instead: it nests sessions, gives any command and initializes.
What an operation does to the blocks is in `BlockLog`; here it has one of the
results that its state of the device allows: `clear` and `validate` succeed on a
device that is not initialized, `read` and `write` fail, and `write` on a small
device ends the program.

`disk` has the size of the device, what its start holds, the header and the size
it was initialized with. A device opened with a size after `@` is smaller. The
blank check of `init` reads through the `FILE` and the header is written through
the memory map, so only the first check of a session is sure to see the start;
any later one may find zeros (`check_blank_device`). `CommandLine` keeps of an
argument its kind, key and number. Pairs are numbered among pairs and arguments
among arguments, and the code marks the argument that has a pair's number;
`args_used` does the same.

## Runs

Passing runs (module `LogProperties`, `PowerLog` or `MCCommands`):

| Run | Question | Bounds |
|---|---|---|
| `LogOrdered` | Is the device the promised log while timestamps ascend and processes are killed? | three regions of two blocks and a backup, seven timestamps, limits 0 and 2 |
| `LogUpdate` | Do updates keep it one? | two regions, five timestamps, one flag |
| `LogUnordered` | What is left when timestamps do not ascend? | three regions of four blocks and a backup, timestamps 1 and 2, faketimestamp 0 and 2, limits 0 and 1 |
| `LogFaults` | What holds on a damaged device? | two regions, two faults, any number of kills and clears, writes with faketimestamp 2 |
| `LogEnds` | Does every operation end? | two regions, one fault, all operations |
| `PowerLoss` | What does a loss of power undo, and what survives it? | two regions, two timestamps, a queue of two ranges, a sync every 9 cells, two blocks to a page, one loss of power or torn block, any number of kills |
| `Commands` | Do sessions, exit status and initialization agree, whatever is typed? | five sizes of device, some 460 command lines, two sessions held by an application |

The bounds. Half a region is two blocks, the least that leaves data on both
sides of the backup, so every edge of a region is met; a region then holds two
entries. Three regions are the least in which the oldest can be neither first
nor last and each round of the scan can have a region to skip; with six entries
on the device, the seventh timestamp wraps, gives up the first region and makes
the second the oldest. Five timestamps do the same on two regions in
`LogUpdate`. In `LogUnordered` and `LogFaults` timestamps can be given again,
and the device is written around as long as faketimestamp allows; `LogUnordered`
has regions of four entries, so that a timestamp out of order can be in the
middle of a region and is not taken for a leftover, and three of them, so that a
region which comes later and begins with an earlier timestamp has regions on
both sides. Two faults are what it takes to damage a hint block and then what it
is recovered from, or to tear a recovery.

In `PowerLoss` a write puts three ranges to different pages, so a queue of two
is full within a single write, and two writes reach the size of a sync; a block
of two cells is also written in full, without padding. Writes and clears are
enough to put, recover and overwrite every kind of block; three timestamps or
updates multiply the states beyond the time of a run. In `Commands` a region is
24 bytes, and block sizes from 4 to 8 include some that divide half of it and
some that do not; the sizes of the device are too small for a header (4), too
small for two blocks (15), too small for a write (39), negative as an `int` of 7
bits (70, with two regions), and small again as one (130). Lines are all those
with up to two arguments of the alphabet of their command, and longer ones that
repeat keys, fill the argument table or go beyond it.

Fairness. `LogEnds` assumes `WF_vars(Step)`: a process that has been asked for
something and is not killed goes on. It is one sequential process, so the
scheduler of the operating system gives that much. Nothing obliges anyone to
make a request.

Deadlock is checked in all runs: there is always a request to make.

Violations, each of one statement of the documentation:

| Run | Statement | What the code does |
|---|---|---|
| `VClear` | a clear makes "all entries unreachable" (`bdl.h`) | the backups stay, and the next read restores the hint blocks from them |
| `VCorrupt` | a corrupted data block "is considered free space" (`README.md`) | it is printed if its length is in order: `*result == 1` (blocks.c:404) is not how a bad checksum is reported |
| `VBackup` | backups are "half way inside each region" | recovery subtracts a negative constant and overwrites the backup of the next region (blocks.c:149) |
| `VStamps` | new timestamps are larger than all existing ones | only the chosen region is compared (write.c:369) |
| `VLarge` | on a full device the oldest block is overwritten | from 2 GB on positions do not fit the `int pos` of `write_put_and_pad_block`; writes fail for good once the space below is used |

## Proofs

Everything about the log is for every value of the constants that satisfies the
assumptions of `Layout`, `Blocks` and `BlockLog`: any number of regions of any
size, any timestamps, any number of operations and kills. What a theorem
assumes beyond them is in its statement:

| Hypothesis | Meaning | Why |
|---|---|---|
| `StampsHaveRoom` | timestamp plus faketimestamp stays below 0xffffffffffffffff | the searches take that value for "none found yet" |
| `Undamaged` | no fault (`MaxFaults = 0`), and no clear | `LogFaults`, `VCorrupt` and `VBackup` show what damage does; after a clear the next operation restores hint blocks (`VClear`) |
| `Ordered` | the application gives each write a later timestamp than all before | it is told to; `LogUnordered` and `VStamps` show what happens otherwise |
| `PositionsFitInt` | the positions of the device fit the `int pos` of `write_put_and_pad_block` | `VLarge` |

The theorems build on each other:

    Invariance (IInv)                 any faults, any order
      NeverExits (ExitInv)            + StampsHaveRoom
        AscendInvariance (AscendInv)  + Undamaged
          RegionsAscend, KillNeedsNoRecovery, ReadInv: FullReadIsComplete
          RingInvariance (RingInv)    + Ordered
            WriteIsAccepted           + PositionsFitInt
            ReadIsComplete, ReadIsOldestFirst, ImplementsRingLog

Kills are in all of them.

### The log

`HintsPointBack` (a valid hint block or backup names a position before its hint
block) is not inductive by itself: what a write puts into a hint block comes
from its search, and what recovery puts comes from a backup that may be the
copy of another region's hint block. `IInv` adds that the loops are at hint
blocks (`LoopInv`), that the states a search holds belong to regions and name
positions before the hint block (`SearchInv`), that a block is put before its
hint block and beside the backup (`PutInv`), and that only writes put
(`WriteInv`). The step that needs care is recovery: the misplaced copy lies
*beyond* the hint block it was made from, so a position before the one is
before the other (`PutHint`, `RecoverBackupInv`). One lemma per action, then
`Invariance`; `TypeCorrect` and `HintsPointBackwards` follow.

`NeverExits` needs `StampsHaveRoom`: timestamp plus faketimestamp stays below
0xffffffffffffffff, which both searches take for "none found yet". Under it no
block has that timestamp (`StampedInv`), so the second search of a write
chooses the first region it visits (`FoundInv`); a read that goes on has not
reached its limit (`AskedInv`); and `PutInv` excludes the funny locations.

`ReadsKeepData` is an action property: what a read or a clear changes are hint
blocks and the places recovery copies them to, and no multiple of the spacing,
nor half a spacing beyond one, is a place of data (`HintsAreNoData`).

`RegionsAscend` follows from `AscendInv`, which says of every region what a kill
may find there: the blocks from the first to the one the hint block names are
valid and ascend, except that the first may be the leftover of a killed write;
regions come into use in their order; a valid backup names a valid block of a
region whose hint block is valid, and is never ahead of it. It holds only
because the place a write has found fits the device it finds it on (`PlaceInv`):
behind the last block of a region, or the first block of a region that is unused
or full, and later than the region's highest timestamp. The loops see the device
as it is (`SeenInv`), a write goes past full regions only (`PassedInv`), and
since every region is as described, recovery is never entered (`CalmInv`).
`OtherRegion` and `PutHintblock` do the work: a put leaves other regions alone,
and turns its own into another region of the same kind.

`RingInv` adds the order between regions. There is a region from which on, once
around the ring, each region begins later than the one before ends
(`RingSorted`); a region that still has room is the last (`LastIsNewest`); a
leftover is later than everything else on the device (`LeftoverIsLatest`).
`NewestInv` ties the timestamp of a write to the newest given so far and
`LowestInv` says that the search has the lowest of the regions it passed. A put
of a hint block then either extends the last region of the ring, begins the next
unused one, or turns the first into the last (`PutHintOrder`), and the timestamp
check of a write cannot refuse: that is `WriteIsAccepted`.

A read is described by how far it is (`ReadInv`): what has been printed is
exactly what was asked for and lies behind the position of the loop, counted
around the ring from where the scan began. The scan begins with the region that
ends first among those with anything asked for; this needs no order between
regions, and gives `FullReadIsComplete`. With `RingInv` it is the first in the
ring that has anything asked for, so what is printed ascends (`OldestFirstInv`),
and no region before it has anything to print, whence `ReadIsComplete` and
`ReadIsOldestFirst`.

`DeviceIsRingLog` maps each step to `RingLog`. An update is a `Retag`, or a
stutter where it changes a leftover (`UpdateRetags`). The put of a data block
changes nothing, as no hint block names it yet (`UnseenBlock`), unless all
regions are full: then it lands on the first block of the oldest region, which
is the oldest entry, and that is `DiscardOldest`, or a stutter where a leftover
of an earlier kill lies there (`BlockOnOldest`). The put of the hint block is
`Append`: in a region used again it gives up the rest of the oldest, and the
numbers `RingLog` wants, `Capacity - 1` and `RegionCapacity - 1`, come from
counting positions, which may be counted for entries since no two have the same
timestamp (`CountEntries`, `RingCounts`). All other steps are stutters.

### The medium

`PowerInvariance` extends `IInv` for any queue, page and block size, as long as
no block straddles two pages (`PageAssumption`). `MediumInv` says of everything
the medium may have what `HintsPointBack` says of the device: a loss of power
then leaves a device that satisfies `IInv`, although the mixture was never there
before (`HintsSurvivePowerLoss`). `DirtyIsQueued` is inductive with it, because
an entry that takes in a range covers whatever pages either of them had
(`GrownFacts`); `RecoveryInv` says that a hint block under recovery is queued or
on the medium, from which `RecoveriesAreDurable` follows. For `LossesAreBounded`
each unsynced block is counted by at least one cell since the last sync
(`WriteBlockBytes`, `PutStepLoss`). `NeverExitsAfterPowerLoss` adds `StampedInv`
for everything the medium may have, and stands on the invariants of both.

### The commands

In `CommandProofs` the use count is its own inductive invariant, together with
the type invariant, and `StatusTells` needs what each place of `main` and
`main_loop` knows of the failures so far. `InitializedIsValid` and
`BackupsStayFree` are arithmetic for all sizes: the first that rounding down
after the check for two blocks leaves two blocks, and that an `int` below its
limit converts to itself; the second that positions which are multiples of the
block size apart from the backup differ from it by a whole block or not at all.

`ArgumentsAreUsed` is about the getters, which mark the argument that has a
pair's number among the pairs. In the documented order nothing but pairs stands
before a pair, so counting the pairs up to it gives its own number
(`PairNumber`, `MarksItsPair`), and an argument that is not the data is only
marked if it is the first pair with one of the command's keys.

Only model-checked: `OperationsEnd`, as liveness under fairness is beyond the
prover. Every invariant and every other action property of the passing runs is a
theorem; the runs show them on small instances, check that the hypotheses can be
met, and show what is left without them.

## What is not modelled

- CRC32 itself, the clock, and the text of what is printed. A checksum is whether
  it fits; a timestamp is any of a set.
- Two processes on one device. Nothing in the code or its documentation provides
  for them.
- An update whose test function calls the library on the same session: it would
  need a stack of operations in `BlockLog`.
- Standard input and output in place of a memory map (where `mmap` fails, or with
  `no_mmap`, which no caller in the repository sets), and an `msync` that fails and
  is only warned of.
- Blocks that straddle two pages (8192 bytes and other sizes that do not divide a
  page) and sectors torn by a loss of power: in `PowerLog` a position has old or
  new contents as a whole. Torn blocks are `TornCrash`.
- What a loss of power does to the log as a whole: a hint block may be on the
  medium without the block it names, so `WriteIsAccepted`, `RegionsAscend` and
  `ReadIsComplete` are claims about kills only.
- The end of the device: `TailAssumption` leaves out a device whose last byte
  belongs to a hint block, which every operation refuses.
- A device used with another size than it was initialized with: `Commands` says
  whether its header is then valid, not what becomes of its regions.
- Digits and multipliers of the size after `@`, and argument texts.

Left to do: what updates promise while timestamps do not ascend, what is left of
the order of entries on a damaged device, and `PowerLoss` with updates on a
larger time budget.
