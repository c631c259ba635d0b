----------------------------- MODULE ReadProofs ------------------------------
(***************************************************************************)
(* A read of an undamaged device misses no entry once all regions are in   *)
(* use, in whatever order timestamps came; with ascending timestamps it    *)
(* misses none at all and prints them oldest first, on a device of any     *)
(* size.                                                                   *)
(***************************************************************************)
EXTENDS OrderProofs

(* The regions the scan has gone through, in its first and in its second   *)
(* round.                                                                  *)
Visited(h) == IF end = DeviceSize THEN begin <= h /\ h < i ELSE begin <= h \/ h < i

(* The blocks, when it is at block n of the region at i.                   *)
Done(n, h, p) == Visited(h) \/ (pc = "blocks" /\ h = i /\ p < n)

(* s has nothing but blocks of the device that were asked for ...          *)
PrintsOnly(n, s) ==
  \A k \in DOMAIN s : \E h \in HintPositions : \E p \in Written(dev, h) :
    InUse(dev, h) /\ s[k] = dev[p] /\ dev[p].ts >= op.ts /\ Done(n, h, p)

(* ... and every such entry the scan has gone past.                        *)
PrintsAll(n, s) ==
  \A h \in HintPositions : \A p \in Entries(dev, h) :
    InUse(dev, h) /\ dev[p].ts >= op.ts /\ Done(n, h, p) => \E k \in DOMAIN s : s[k] = dev[p]

(* The search for the first region to read.                                *)
SearchedInv ==
  op.kind = "read" /\ pass = "oldest" =>
    /\ out = <<>>
    /\ best # NoState => best.valid /\ best.highest >= op.ts
    /\ \A g \in HintPositions : g < i /\ InUse(dev, g) /\ Highest(dev, g) >= op.ts =>
         best # NoState /\ best.highest <= Highest(dev, g)

(* The scan begins with the region that ends first of those that end with  *)
(* what was asked for.                                                     *)
ScanInv ==
  op.kind = "read" /\ pass = "scan" =>
    /\ begin \in HintPositions /\ InUse(dev, begin)
    /\ \A g \in HintPositions : InUse(dev, g) /\ Highest(dev, g) >= op.ts =>
         Highest(dev, begin) <= Highest(dev, g)
    /\ \/ end = DeviceSize /\ begin <= i
       \/ end = begin
    /\ PrintsOnly(j, out) /\ PrintsAll(j, out)

(* A read may return s: it has printed as much as the limit allows, or gone *)
(* through all regions with something asked for, or met an unused region.  *)
MayReturn(n, s) ==
  /\ PrintsOnly(n, s) /\ PrintsAll(n, s)
  /\ op.limit # 0 => Len(s) <= op.limit
  /\ \/ op.limit # 0 /\ Len(s) = op.limit
     \/ \A h \in HintPositions : InUse(dev, h) /\ Highest(dev, h) >= op.ts => Visited(h)
     \/ pass = "scan" /\ pc = "callback" /\ ~InUse(dev, i)

(* What a step of a read comes to.                                         *)
Continues == pc' # "returned" /\ SearchedInv' /\ ScanInv'

Finishes == EndOp("ok") /\ \E n \in Nat : MayReturn(n, out')

ReadInv == SearchedInv /\ ScanInv /\ FullReadIsComplete

-----------------------------------------------------------------------------
(* The log is the entries of the regions, and what else is written in them *)
(* is a leftover.                                                          *)
LEMMA LogFacts ==
  ASSUME IInv, DeviceInv
  PROVE  /\ \A e : e \in Log <=> \E h \in HintPositions : \E p \in Entries(dev, h) :
                                   InUse(dev, h) /\ e = EntryOf(dev[p])
         /\ \A h \in HintPositions : \A p \in Written(dev, h) :
              InUse(dev, h) => p \in Entries(dev, h) \/ EntryOf(dev[p]) \in LeftoverEntries
<1>1. /\ LiveRegions = {h \in HintPositions : InUse(dev, h)}
      /\ \A h \in LiveRegions : Cells(h) = Written(dev, h)
      /\ \A h \in LiveRegions : \A p \in Cells(h) :
           p \in Leftovers <=> IsLeftover(dev, h, p)
  BY LiveFacts
<1>2. \A h \in LiveRegions : \A p \in Written(dev, h) :
        p \in Entries(dev, h) <=> p \notin Leftovers
  BY <1>1 DEF Entries
<1>3. \A p : p \in LiveCells <=>
        \E h \in HintPositions : InUse(dev, h) /\ p \in Entries(dev, h)
  <2>1. \A p : p \in LiveCells <=> \E h \in LiveRegions : p \in Cells(h) /\ p \notin Leftovers
    BY DEF LiveCells
  <2>. QED BY <1>1, <1>2, <2>1 DEF Entries
<1>4. \A e : e \in Log <=> \E p \in LiveCells : e = EntryOf(dev[p])
  BY DEF Log
<1>5. ASSUME NEW h \in HintPositions, NEW p \in Written(dev, h), InUse(dev, h)
      PROVE  p \in Entries(dev, h) \/ EntryOf(dev[p]) \in LeftoverEntries
  BY <1>1, <1>2, <1>5 DEF LeftoverEntries
<1>. QED BY <1>3, <1>4, <1>5

(* No entry of a region is asked for if its last block is not.             *)
LEMMA AskedRegion ==
  ASSUME IInv, DeviceInv, NEW h \in HintPositions, InUse(dev, h),
         NEW p \in Entries(dev, h), dev[p].ts >= op.ts
  PROVE  Highest(dev, h) >= op.ts
<1>1. dev \in [Positions -> Content] /\ RegionAscends(dev, h)
  BY DEF IInv, DataType, DeviceInv, RegionInv
<1>2. dev[p].ts <= Highest(dev, h) /\ Highest(dev, h) \in Nat
  BY <1>1, HighestEntry, StampsAreNumbers
<1>3. op.ts \in Nat /\ dev[p].ts \in Nat
  BY <1>1, RegionFacts, MaxTimeAssumption, StampsAreNumbers
  DEF IInv, DataType, Operations, Time, Entries, Written
<1>. QED BY <1>2, <1>3

(* What a scan has printed that went through all regions with something    *)
(* asked for.                                                              *)
LEMMA AllPrinted ==
  ASSUME IInv, DeviceInv, NEW n, NEW s, PrintsOnly(n, s), PrintsAll(n, s)
  PROVE  /\ \A k \in DOMAIN s : EntryOf(s[k]) \in Asked \cup LeftoverEntries
         /\ (\A h \in HintPositions : InUse(dev, h) /\ Highest(dev, h) >= op.ts => Visited(h))
              => \A e \in Asked : \E k \in DOMAIN s : e = EntryOf(s[k])
<1>1. ASSUME NEW k \in DOMAIN s PROVE EntryOf(s[k]) \in Asked \cup LeftoverEntries
  <2>0. PICK h \in HintPositions : \E p \in Written(dev, h) :
               InUse(dev, h) /\ s[k] = dev[p] /\ dev[p].ts >= op.ts
    BY <1>1 DEF PrintsOnly
  <2>1. PICK p \in Written(dev, h) : InUse(dev, h) /\ s[k] = dev[p] /\ dev[p].ts >= op.ts
    BY <2>0
  <2>2. EntryOf(dev[p]).ts = dev[p].ts
    BY DEF EntryOf
  <2>3. EntryOf(dev[p]) \in LeftoverEntries \/ EntryOf(dev[p]) \in Log
    BY <2>1, LogFacts
  <2>. QED BY <2>1, <2>2, <2>3 DEF Asked
<1>2. ASSUME \A h \in HintPositions : InUse(dev, h) /\ Highest(dev, h) >= op.ts => Visited(h),
             NEW e \in Asked
      PROVE  \E k \in DOMAIN s : e = EntryOf(s[k])
  <2>1. e \in Log /\ e.ts >= op.ts
    BY DEF Asked
  <2>2. PICK h \in HintPositions :
               InUse(dev, h) /\ \E p \in Entries(dev, h) : e = EntryOf(dev[p])
    BY <2>1, LogFacts
  <2>. PICK p \in Entries(dev, h) : e = EntryOf(dev[p])
    BY <2>2
  <2>3. dev[p].ts >= op.ts
    BY <2>1, <2>2 DEF EntryOf
  <2>4. Visited(h)
    BY <1>2, <2>2, <2>3, AskedRegion
  <2>5. \E k \in DOMAIN s : s[k] = dev[p]
    BY <2>2, <2>3, <2>4 DEF PrintsAll, Done
  <2>. QED BY <2>2, <2>5
<1>. QED BY <1>1, <1>2

(* The log is what the device holds.                                       *)
LEMMA SameLog ==
  ASSUME UNCHANGED dev
  PROVE  /\ Log' = Log /\ LiveRegions' = LiveRegions /\ LeftoverEntries' = LeftoverEntries
BY DEF Log, LiveCells, LiveRegions, LeftoverEntries, Leftovers, Cells, Region

-----------------------------------------------------------------------------
(* What a scan prints as it goes past a block or a region without printing.*)
LEMMA PrintsGoOn ==
  ASSUME UNCHANGED <<dev, op, out>>, PrintsOnly(j, out), PrintsAll(j, out),
         \A h \in HintPositions : InUse(dev, h) =>
           \A p \in Written(dev, h) : Done(j, h, p) => Done(j, h, p)',
         \A h \in HintPositions : InUse(dev, h) =>
           \A p \in Entries(dev, h) :
             Done(j, h, p)' /\ dev[p].ts >= op.ts => Done(j, h, p)
  PROVE  PrintsOnly(j, out)' /\ PrintsAll(j, out)'
<1>1. ASSUME NEW k \in DOMAIN out
      PROVE  \E h \in HintPositions : \E p \in Written(dev, h) :
               InUse(dev, h) /\ out[k] = dev[p] /\ dev[p].ts >= op.ts /\ Done(j, h, p)'
  BY DEF PrintsOnly
<1>2. PrintsOnly(j, out)'
  BY <1>1 DEF PrintsOnly, Done, Visited
<1>3. ASSUME NEW h \in HintPositions, NEW p \in Entries(dev, h), InUse(dev, h),
             dev[p].ts >= op.ts, Done(j, h, p)'
      PROVE  \E k \in DOMAIN out : out[k] = dev[p]
  BY <1>3 DEF PrintsAll
<1>4. PrintsAll(j, out)'
  BY <1>3 DEF PrintsAll, Done, Visited
<1>. QED BY <1>2, <1>4

(* The regions the scan has gone through when it goes on to the next.      *)
LEMMA VisitedNext ==
  ASSUME IInv, pc \in {"callback", "blocks"}, i' = i + Spacing, UNCHANGED <<begin, end>>,
         begin \in HintPositions, (end = DeviceSize /\ begin <= i) \/ end = begin,
         NEW h \in HintPositions
  PROVE  Visited(h)' <=> Visited(h) \/ h = i
<1>1. i \in HintPositions /\ i < end
  BY DEF IInv, LocalInv, LoopInv, InRegionStep
<1>2. /\ i \in Nat /\ h \in Nat /\ begin \in Nat /\ begin # DeviceSize
      /\ DeviceSize \in Nat /\ Spacing \in Nat \ {0}
  BY <1>1, HintPositionFacts, SizeAssumption, HalfAssumption DEF Spacing
<1>3. h < i + Spacing <=> h < i \/ h = i
  BY <1>2, NextRegion
<1>. QED BY <1>1, <1>2, <1>3 DEF Visited

(* A read that goes on has not printed as much as the limit allows.        *)
LEMMA LimitFacts ==
  ASSUME IInv, ExitInv, pc \notin {"idle", "returned"}
  PROVE  /\ op.limit \in Nat /\ out \in Seq(Content) /\ Len(out) \in Nat
         /\ op.limit # 0 => Len(out) < op.limit /\ Len(out) <= op.limit
<1>1. op.limit \in Nat /\ out \in Seq(Content)
  BY DEF IInv, DataType, Operations
<1>2. Len(out) \in Nat
  BY <1>1
<1>. QED BY <1>1, <1>2 DEF ExitInv, AskedInv

(* Requests.                                                               *)
LEMMA RequestRead ==
  ASSUME Undamaged, IInv, AscendInv, Request PROVE ReadInv'
<1>1. pc' # "returned" /\ (pass' = "oldest" => i' = loop_begin_orig /\ out' = <<>> /\ best' = NoState)
      /\ pass' # "scan"
  <2>1. CASE Return
    <3>1. pc = "returned" /\ pass = "none"
      BY <2>1 DEF Return, IInv, LocalInv, WriteInv
    <3>. QED BY <2>1, <3>1 DEF Return, locals
  <2>2. ASSUME NEW o, NEW p \in {"free", "oldest", "clear"}, NEW refusal, BeginOp(o, p, refusal)
        PROVE  /\ pc' # "returned" /\ pass' = p
               /\ i' = loop_begin_orig /\ out' = <<>> /\ best' = NoState
    <3>1. header /\ best = NoState
      BY <2>2 DEF BeginOp, AscendInv, CalmInv, SeenInv, IInv, LocalInv, WriteInv
    <3>. QED BY <2>2, <3>1 DEF BeginOp
  <2>. QED BY <2>1, <2>2
       DEF Request, bdl_write_block, bdl_read_blocks, bdl_read_update_application_data,
           bdl_clear_dev
<1>2. \A h \in HintPositions : ~(h < loop_begin_orig)
  BY HintPositionFacts, HalfAssumption DEF loop_begin_orig, Spacing
<1>. QED BY <1>1, <1>2 DEF ReadInv, SearchedInv, ScanInv, FullReadIsComplete, ReadIsComplete,
         Finished

(* Reading the state of a region.                                          *)
LEMMA HintblockStateRead ==
  ASSUME ReadInv, block_get_hintblock_state, op.kind = "read" PROVE Continues
<1>1. /\ pc = "hint" /\ pc' \in {"recover_main", "callback"}
      /\ UNCHANGED <<dev, op, out, pass, i, begin, end, best, j>>
  BY DEF block_get_hintblock_state, InLoop, device
<1>2. SearchedInv'
  BY <1>1 DEF ReadInv, SearchedInv
<1>3. ScanInv'
  <2>1. SUFFICES ASSUME pass = "scan" PROVE ScanInv'
    BY <1>1 DEF ScanInv
  <2>2. \A h, p : Done(j, h, p)' <=> Done(j, h, p)
    BY <1>1 DEF Done, Visited
  <2>3. PrintsOnly(j, out)' /\ PrintsAll(j, out)'
    BY <1>1, <2>1, <2>2, PrintsGoOn DEF ReadInv, ScanInv
  <2>. QED BY <1>1, <2>1, <2>3 DEF ReadInv, ScanInv
<1>. QED BY <1>1, <1>2, <1>3 DEF Continues

(* The search for the region that ends first of those that end with what   *)
(* was asked for.                                                          *)
LEMMA FindOldestRead ==
  ASSUME IInv, ExitInv, AscendInv, ReadInv, block_find_oldest_hintblock_loop_callback,
         op.kind = "read"
  PROVE  Continues
<1>1. /\ pc = "callback" /\ pass = "oldest" /\ ~Putting /\ pc' = "hint" /\ pass' = "oldest"
      /\ UNCHANGED <<dev, op, out>>
  BY DEF block_find_oldest_hintblock_loop_callback, Callback, NextHintblock, device, Putting
<1>2. /\ out = <<>>
      /\ best # NoState => best.valid /\ best.highest >= op.ts
      /\ \A g \in HintPositions : g < i /\ InUse(dev, g) /\ Highest(dev, g) >= op.ts =>
           best # NoState /\ best.highest <= Highest(dev, g)
  BY <1>1 DEF ReadInv, SearchedInv
<1>3. i \in HintPositions /\ cur.location = i /\ (cur.valid <=> InUse(dev, i))
      /\ (InUse(dev, i) => cur.highest = Highest(dev, i))
  BY <1>1, CurrentRegion
<1>4. /\ cur.highest \in Nat /\ best.highest \in Nat /\ MaxTime \in Nat /\ op.ts \in Nat
      /\ cur.highest < MaxTime
  BY MaxTimeAssumption
  DEF IInv, DataType, Operations, LocalInv, LocalType, HintblockState, Time, ExitInv, FoundInv
<1>5. cur # NoState
  BY <1>3, HintPositionFacts, HalfAssumption DEF NoState, Spacing
<1>6. \A g \in HintPositions : InUse(dev, g) => Highest(dev, g) \in Nat
  BY StampsAreNumbers DEF AscendInv, DeviceInv, RegionInv, IInv, DataType
<1>7. SearchedInv'
  <2>1. CASE cur.valid
    <3>1. /\ i' = i + Spacing
          /\ best' = IF cur.highest >= op.ts /\ cur.highest < LowestSoFar(best)
                     THEN cur ELSE best
      BY <2>1 DEF block_find_oldest_hintblock_loop_callback, NextHintblock
    <3>2. best' # NoState => best'.valid /\ best'.highest >= op.ts
      BY <1>2, <2>1, <3>1
    <3>3. cur.highest >= op.ts => best' # NoState /\ best'.highest <= cur.highest
      BY <1>4, <1>5, <3>1 DEF LowestSoFar
    <3>4. best # NoState => best' # NoState /\ best'.highest <= best.highest
      BY <1>4, <1>5, <3>1 DEF LowestSoFar
    <3>5. ASSUME NEW g \in HintPositions, g < i + Spacing, InUse(dev, g),
                 Highest(dev, g) >= op.ts
          PROVE  best' # NoState /\ best'.highest <= Highest(dev, g)
      <4>1. CASE g = i
        BY <1>3, <3>3, <3>5, <4>1
      <4>2. CASE g # i
        <5>1. g < i
          BY <1>1, <3>5, <4>2, NextRegion
        <5>2. best # NoState /\ best.highest <= Highest(dev, g)
          BY <1>2, <3>5, <5>1
        <5>3. best'.highest \in Nat
          BY <1>4, <3>1
        <5>. QED BY <1>4, <1>6, <3>4, <3>5, <5>2, <5>3
      <4>. QED BY <4>1, <4>2
    <3>. QED BY <1>1, <1>2, <3>1, <3>2, <3>5 DEF SearchedInv
  <2>2. CASE ~cur.valid
    <3>1. UNCHANGED best
      BY <2>2 DEF block_find_oldest_hintblock_loop_callback
    <3>2. ASSUME NEW g \in HintPositions, InUse(dev, g) PROVE g < i
      <4>1. g # i /\ ~(i < g)
        BY <1>3, <2>2, <3>2 DEF AscendInv, DeviceInv, UsedInOrder
      <4>2. g \in Nat /\ i \in Nat
        BY <1>3, HintPositionFacts
      <4>. QED BY <4>1, <4>2
    <3>. QED BY <1>1, <1>2, <3>1, <3>2 DEF SearchedInv
  <2>. QED BY <2>1, <2>2
<1>. QED BY <1>1, <1>7 DEF Continues, ScanInv

(* The scan goes past a region, goes into it, or ends with it.             *)
LEMMA ScanRead ==
  ASSUME IInv, ExitInv, AscendInv, ReadInv, scan_hintblock_loop_callback, op.kind = "read"
  PROVE  Continues \/ Finishes
<1>1. pc = "callback" /\ pass = "scan" /\ UNCHANGED <<dev, op, out>>
  BY DEF scan_hintblock_loop_callback, Callback, device
<1>2. i \in HintPositions /\ cur.location = i /\ (cur.valid <=> InUse(dev, i))
      /\ (InUse(dev, i) => cur.highest = Highest(dev, i))
  BY <1>1, CurrentRegion
<1>3. /\ begin \in HintPositions /\ InUse(dev, begin)
      /\ \A g \in HintPositions : InUse(dev, g) /\ Highest(dev, g) >= op.ts =>
           Highest(dev, begin) <= Highest(dev, g)
      /\ \/ end = DeviceSize /\ begin <= i
         \/ end = begin
      /\ PrintsOnly(j, out) /\ PrintsAll(j, out)
  BY <1>1 DEF ReadInv, ScanInv
<1>4. CASE ~cur.valid /\ EndOp("ok")
  <2>1. op.limit # 0 => Len(out) <= op.limit
    BY <1>1, LimitFacts
  <2>2. MayReturn(j, out') /\ j \in Nat
    BY <1>1, <1>2, <1>3, <1>4, <2>1 DEF MayReturn, IInv, LocalInv, LocalType
  <2>. QED BY <1>4, <2>2 DEF Finishes
<1>5. CASE cur.valid /\ cur.highest < op.ts /\ NextHintblock
  <2>1. pc' = "hint" /\ i' = i + Spacing /\ UNCHANGED <<pass, begin, end, j>>
    BY <1>5 DEF NextHintblock
  <2>2. \A h \in HintPositions : Visited(h)' <=> Visited(h) \/ h = i
    BY <1>1, <1>3, <2>1, VisitedNext
  <2>3. \A h \in HintPositions : \A p :
          /\ Done(j, h, p) <=> Visited(h)
          /\ Done(j, h, p)' <=> Visited(h) \/ h = i
    BY <1>1, <2>1, <2>2 DEF Done
  <2>4. ASSUME NEW p \in Entries(dev, i), dev[p].ts >= op.ts PROVE FALSE
    <3>1. Highest(dev, i) >= op.ts
      BY <1>2, <1>5, <2>4, AskedRegion DEF AscendInv
    <3>. QED BY <1>2, <1>5, <3>1, MaxTimeAssumption
         DEF IInv, DataType, Operations, LocalInv, LocalType, HintblockState, Time
  <2>5. PrintsOnly(j, out)' /\ PrintsAll(j, out)'
    BY <1>1, <1>3, <2>3, <2>4, PrintsGoOn
  <2>6. end = DeviceSize /\ begin <= i => begin <= i'
    <3>1. begin \in Nat /\ i \in Nat /\ Spacing \in Nat
      BY <1>2, <1>3, HintPositionFacts, HalfAssumption DEF Spacing
    <3>. QED BY <2>1, <3>1
  <2>. QED BY <1>1, <1>3, <2>1, <2>5, <2>6 DEF Continues, SearchedInv, ScanInv, ReadInv
<1>6. CASE pc' = "blocks" /\ j' = blockstart_min(i) /\ UNCHANGED <<pass, i, begin, end>>
  <2>1. \A h : Visited(h)' <=> Visited(h)
    BY <1>6 DEF Visited
  <2>2. \A h \in HintPositions : \A p \in Written(dev, h) :
          Done(j, h, p)' <=> Done(j, h, p)
    <3>1. \A p \in Written(dev, i) : ~(p < blockstart_min(i))
      BY <1>2, HintPositionFacts, HalfAssumption
      DEF Written, DataCells, blockstart_min, Spacing
    <3>. QED BY <1>1, <1>6, <2>1, <3>1 DEF Done
  <2>3. PrintsOnly(j, out)' /\ PrintsAll(j, out)'
    BY <1>1, <1>3, <2>2, PrintsGoOn DEF Entries
  <2>. QED BY <1>1, <1>3, <1>6, <2>3 DEF Continues, SearchedInv, ScanInv, ReadInv
<1>. QED BY <1>4, <1>5, <1>6 DEF scan_hintblock_loop_callback

(* The end of the loop over the hint blocks.                               *)
LEMMA LoopEndRead ==
  ASSUME IInv, ExitInv, AscendInv, ReadInv, op.kind = "read",
         \/ block_find_oldest_hintblock \/ block_loop_hintblocks_second_round
         \/ block_loop_hintblocks_end
  PROVE  Continues \/ Finishes
<1>1. pc = "hint" /\ i >= end /\ UNCHANGED <<dev, op, out>> /\ ~Putting
  BY DEF block_find_oldest_hintblock, block_loop_hintblocks_second_round,
         block_loop_hintblocks_end, LoopDone, device, Putting
<1>2. /\ i \in Nat /\ DeviceSize \in Nat /\ loop_begin_orig \in Nat
      /\ \A h \in HintPositions : h \in Nat /\ h < DeviceSize /\ loop_begin_orig <= h
  <2>1. i \in Nat /\ DeviceSize \in Nat /\ Spacing \in Nat
    BY SizeAssumption, HalfAssumption DEF IInv, LocalInv, LocalType, Spacing
  <2>2. \A h \in HintPositions : h \in Nat /\ h <= DeviceSize - 1 /\ Spacing <= h
    BY HintPositionFacts
  <2>. QED BY <2>1, <2>2 DEF loop_begin_orig
<1>3. CASE block_find_oldest_hintblock
  <2>1. pass = "oldest" /\ end = DeviceSize /\ (best # NoState => best = Region(best.location))
    BY <1>1, <1>3 DEF block_find_oldest_hintblock, LoopDone, AscendInv, PassedInv, SeenInv
  <2>2. /\ out = <<>>
        /\ best # NoState => best.valid /\ best.highest >= op.ts
        /\ \A g \in HintPositions : InUse(dev, g) /\ Highest(dev, g) >= op.ts =>
             best # NoState /\ best.highest <= Highest(dev, g)
    BY <1>1, <1>2, <2>1 DEF ReadInv, SearchedInv
  <2>3. PrintsOnly(j, out)
    BY <2>2 DEF PrintsOnly
  <2>4. CASE best.valid
    <3>1. /\ pc' = "hint" /\ pass' = "scan" /\ i' = best.location /\ begin' = best.location
          /\ end' = DeviceSize /\ j' = j
      BY <1>3, <2>4 DEF block_find_oldest_hintblock, BeginLoop
    <3>2. best # NoState /\ best.location \in HintPositions
      BY <2>4 DEF NoState, IInv, LocalInv, SearchInv, StateInv
    <3>3. InUse(dev, best.location) /\ best.highest = Highest(dev, best.location)
      <4>1. RegionAscends(dev, best.location) /\ dev \in [Positions -> Content]
        BY <3>2 DEF AscendInv, DeviceInv, RegionInv, IInv, DataType
      <4>2. /\ Region(best.location).valid <=> InUse(dev, best.location)
            /\ InUse(dev, best.location) =>
                 Region(best.location).highest = Highest(dev, best.location)
        BY <3>2, <4>1, RegionState DEF Region
      <4>3. best = Region(best.location)
        BY <2>1, <3>2
      <4>. HIDE DEF Region
      <4>. QED BY <2>4, <4>2, <4>3
    <3>4. \A h \in HintPositions : ~Visited(h)'
      BY <1>2, <3>1, <3>2 DEF Visited
    <3>5. PrintsOnly(j, out)' /\ PrintsAll(j, out)'
      BY <1>1, <2>2, <3>1, <3>4 DEF PrintsOnly, PrintsAll, Done
    <3>6. ScanInv'
      BY <1>1, <1>2, <2>2, <3>1, <3>2, <3>3, <3>5 DEF ScanInv
    <3>. QED BY <3>1, <3>6 DEF Continues, SearchedInv
  <2>5. CASE ~best.valid
    <3>1. EndOp("ok")
      BY <1>3, <2>5 DEF block_find_oldest_hintblock
    <3>2. \A g \in HintPositions : InUse(dev, g) => ~(Highest(dev, g) >= op.ts)
      BY <2>2, <2>5
    <3>3. PrintsAll(j, out)
      BY <3>2, AskedRegion DEF PrintsAll, AscendInv
    <3>4. MayReturn(j, out') /\ j \in Nat
      BY <1>1, <2>3, <3>2, <3>3, LimitFacts DEF MayReturn, IInv, LocalInv, LocalType
    <3>. QED BY <3>1, <3>4 DEF Finishes
  <2>. QED BY <2>4, <2>5
<1>4. CASE block_loop_hintblocks_second_round
  <2>1. /\ pass = "scan" /\ end = DeviceSize /\ pc' = "hint"
        /\ i' = loop_begin_orig /\ end' = begin /\ UNCHANGED <<pass, begin, j>>
    BY <1>4 DEF block_loop_hintblocks_second_round, LoopDone
  <2>2. /\ begin \in HintPositions /\ InUse(dev, begin)
        /\ \A g \in HintPositions : InUse(dev, g) /\ Highest(dev, g) >= op.ts =>
             Highest(dev, begin) <= Highest(dev, g)
        /\ PrintsOnly(j, out) /\ PrintsAll(j, out)
    BY <2>1 DEF ReadInv, ScanInv
  <2>3. ASSUME NEW h \in HintPositions PROVE Visited(h)' <=> Visited(h)
    <3>1. end' # DeviceSize /\ h < i /\ ~(h < i')
      BY <1>1, <1>2, <2>1, <2>2
    <3>. QED BY <2>1, <3>1 DEF Visited
  <2>4. \A h \in HintPositions : \A p : Done(j, h, p)' <=> Done(j, h, p)
    BY <1>1, <2>1, <2>3 DEF Done
  <2>5. PrintsOnly(j, out)' /\ PrintsAll(j, out)'
    BY <1>1, <2>2, <2>4, PrintsGoOn
  <2>. QED BY <1>1, <2>1, <2>2, <2>5 DEF Continues, SearchedInv, ScanInv
<1>5. CASE block_loop_hintblocks_end
  <2>1. EndOp("ok") /\ pass = "scan" /\ (end # DeviceSize \/ begin = loop_begin_orig)
    BY <1>5 DEF block_loop_hintblocks_end, LoopDone, AscendInv, CalmInv
  <2>2. /\ begin \in HintPositions /\ (end = DeviceSize \/ end = begin)
        /\ PrintsOnly(j, out) /\ PrintsAll(j, out)
    BY <2>1 DEF ReadInv, ScanInv
  <2>3. \A h \in HintPositions : Visited(h)
    BY <1>1, <1>2, <2>1, <2>2 DEF Visited
  <2>4. MayReturn(j, out') /\ j \in Nat
    BY <1>1, <2>2, <2>3, LimitFacts DEF MayReturn, IInv, LocalInv, LocalType
  <2>. QED BY <2>1, <2>4 DEF Finishes
<1>. QED BY <1>3, <1>4, <1>5

-----------------------------------------------------------------------------
(* The block the scan is at is printed if it is asked for.                 *)
LEMMA PrintBlock ==
  ASSUME IInv, AscendInv, AtBlock, UNCHANGED <<dev, op>>, out \in Seq(Content),
         PrintsOnly(j, out), PrintsAll(j, out),
         out' = IF dev[j].ts >= op.ts THEN Append(out, dev[j]) ELSE out
  PROVE  PrintsOnly(j + 1, out') /\ PrintsAll(j + 1, out')
<1>1. /\ pc = "blocks" /\ i \in HintPositions /\ InUse(dev, i) /\ j \in Written(dev, i)
      /\ j \in Nat
  BY AtBlockWritten DEF AtBlock, IInv, LocalInv, LocalType
<1>2. ASSUME NEW h \in HintPositions, NEW p \in Written(dev, h)
      PROVE  Done(j + 1, h, p) <=> Done(j, h, p) \/ (h = i /\ p = j)
  <2>1. p \in Nat
    BY RegionFacts DEF Written
  <2>2. p < j + 1 <=> p < j \/ p = j
    BY <1>1, <2>1
  <2>. QED BY <1>1, <2>2 DEF Done
<1>3. CASE dev[j].ts >= op.ts
  <2>1. /\ out' = Append(out, dev[j]) /\ DOMAIN out = 1..Len(out)
        /\ DOMAIN out' = 1..(Len(out) + 1) /\ Len(out) \in Nat
        /\ \A k \in DOMAIN out : out'[k] = out[k]
        /\ out'[Len(out) + 1] = dev[j]
    BY <1>3
  <2>2. ASSUME NEW k \in DOMAIN out'
        PROVE  \E h \in HintPositions : \E p \in Written(dev, h) :
                 InUse(dev, h) /\ out'[k] = dev[p] /\ dev[p].ts >= op.ts /\ Done(j + 1, h, p)
    <3>1. CASE k \in DOMAIN out
      <4>1. PICK h \in HintPositions : \E p \in Written(dev, h) :
              InUse(dev, h) /\ out[k] = dev[p] /\ dev[p].ts >= op.ts /\ Done(j, h, p)
        BY <3>1 DEF PrintsOnly
      <4>. QED BY <1>2, <2>1, <3>1, <4>1
    <3>2. CASE k = Len(out) + 1
      BY <1>1, <1>2, <1>3, <2>1, <3>2
    <3>. QED BY <2>1, <3>1, <3>2
  <2>3. ASSUME NEW h \in HintPositions, NEW p \in Entries(dev, h), InUse(dev, h),
               dev[p].ts >= op.ts, Done(j + 1, h, p)
        PROVE  \E k \in DOMAIN out' : out'[k] = dev[p]
    <3>1. CASE Done(j, h, p)
      <4>1. PICK k \in DOMAIN out : out[k] = dev[p]
        BY <2>3, <3>1 DEF PrintsAll
      <4>2. k \in DOMAIN out' /\ out'[k] = dev[p]
        BY <2>1, <4>1
      <4>. QED BY <4>2
    <3>2. CASE p = j
      <4>1. Len(out) + 1 \in DOMAIN out'
        BY <2>1
      <4>. QED BY <2>1, <3>2, <4>1
    <3>. QED BY <1>2, <2>3, <3>1, <3>2 DEF Entries
  <2>. QED BY <2>2, <2>3 DEF PrintsOnly, PrintsAll
<1>4. CASE ~(dev[j].ts >= op.ts)
  <2>1. out' = out
    BY <1>4
  <2>2. PrintsOnly(j + 1, out)
    BY <1>2 DEF PrintsOnly
  <2>3. PrintsAll(j + 1, out)
    BY <1>2, <1>4 DEF PrintsAll, Entries
  <2>. QED BY <2>1, <2>2, <2>3
<1>. QED BY <1>3, <1>4

(* The loop over the blocks of a region.                                   *)
LEMMA BlockLoopRead ==
  ASSUME IInv, ExitInv, AscendInv, ReadInv, op.kind = "read",
         \/ block_loop_blocks_skip_backup \/ block_loop_blocks_invalid
         \/ block_loop_blocks_end \/ read_block_loop_callback
  PROVE  Continues \/ Finishes
<1>1. pc = "blocks" /\ pass = "scan" /\ UNCHANGED <<dev, op>>
  BY DEF block_loop_blocks_skip_backup, block_loop_blocks_invalid, block_loop_blocks_end,
         read_block_loop_callback, AtBlock, device, ExitInv, FoundInv
<1>2. /\ begin \in HintPositions /\ InUse(dev, begin)
      /\ \A g \in HintPositions : InUse(dev, g) /\ Highest(dev, g) >= op.ts =>
           Highest(dev, begin) <= Highest(dev, g)
      /\ \/ end = DeviceSize /\ begin <= i
         \/ end = begin
      /\ PrintsOnly(j, out) /\ PrintsAll(j, out)
  BY <1>1 DEF ReadInv, ScanInv
<1>3. i \in HintPositions /\ RegionInv(dev, i) /\ InUse(dev, i) /\ cur.prev = dev[i].prev
  BY <1>1, CurrentRegion DEF AscendInv, SeenInv
<1>4. j \in Nat /\ \A h \in HintPositions : \A p \in Written(dev, h) : p \in Nat
  BY RegionFacts DEF Written, IInv, LocalInv, LocalType
<1>5. /\ op.limit \in Nat /\ out \in Seq(Content) /\ Len(out) \in Nat
      /\ op.limit # 0 => Len(out) < op.limit
  BY <1>1, LimitFacts
<1>6. ASSUME NextBlock, PrintsOnly(j + 1, out'), PrintsAll(j + 1, out') PROVE Continues
  <2>1. /\ pc' = "blocks" /\ pass' = "scan" /\ j' = j + 1 /\ UNCHANGED <<i, begin, end>>
    BY <1>1, <1>6 DEF NextBlock
  <2>2. PrintsOnly(j, out)' /\ PrintsAll(j, out)'
    BY <1>1, <1>6, <2>1 DEF PrintsOnly, PrintsAll, Done, Visited
  <2>. QED BY <1>1, <1>2, <2>1, <2>2 DEF Continues, SearchedInv, ScanInv
<1>7. CASE block_loop_blocks_skip_backup
  <2>1. j = backup_location(i) /\ NextBlock /\ out' = out
    BY <1>7 DEF block_loop_blocks_skip_backup
  <2>2. \A h \in HintPositions : \A p \in Written(dev, h) : Done(j + 1, h, p) <=> Done(j, h, p)
    <3>1. j \notin Written(dev, i)
      BY <1>3, <2>1, RegionFacts DEF Written
    <3>2. \A h \in HintPositions : \A p \in Written(dev, h) : p < j + 1 <=> p < j \/ p = j
      BY <1>4
    <3>. QED BY <1>1, <3>1, <3>2 DEF Done
  <2>3. PrintsOnly(j + 1, out) /\ PrintsAll(j + 1, out)
    BY <1>2, <2>2 DEF PrintsOnly, PrintsAll, Entries
  <2>. QED BY <1>6, <2>1, <2>3
<1>8. CASE block_loop_blocks_invalid
  BY <1>8, AtBlockWritten DEF block_loop_blocks_invalid, block_result_is_one, validate_block
<1>9. CASE block_loop_blocks_end
  <2>1. AfterBlocks(Len(out), FALSE) /\ out' = out
    BY <1>9 DEF block_loop_blocks_end
  <2>2. ~(op.limit # 0 /\ Len(out) > op.limit) /\ ~(op.limit # 0 /\ Len(out) = op.limit)
    BY <1>5
  <2>3. NextHintblock
    BY <2>1, <2>2 DEF AfterBlocks
  <2>4. pc' = "hint" /\ i' = i + Spacing /\ UNCHANGED <<pass, begin, end, j>>
    BY <2>3 DEF NextHintblock
  <2>5. \A h \in HintPositions : Visited(h)' <=> Visited(h) \/ h = i
    BY <1>1, <1>2, <2>4, VisitedNext
  <2>6. \A p \in Written(dev, i) : p < j
    <3>1. \A p \in Written(dev, i) : p <= dev[i].prev /\ p <= blockstart_max(i)
      BY <1>3, RegionFacts DEF Written, DataCells
    <3>2. dev[i].prev \in Nat /\ blockstart_max(i) \in Nat
      BY <1>3, RegionFacts DEF RegionInv, RegionAscends
    <3>. QED BY <1>3, <1>4, <1>9, <3>1, <3>2 DEF block_loop_blocks_end, PastLastBlock
  <2>7. \A h \in HintPositions : \A p \in Written(dev, h) :
          Done(j, h, p)' <=> Done(j, h, p)
    BY <1>1, <2>4, <2>5, <2>6 DEF Done
  <2>8. PrintsOnly(j, out)' /\ PrintsAll(j, out)'
    BY <1>1, <1>2, <2>1, <2>7, PrintsGoOn DEF Entries
  <2>9. end = DeviceSize /\ begin <= i => begin <= i'
    <3>1. begin \in Nat /\ i \in Nat /\ Spacing \in Nat
      BY <1>2, <1>3, HintPositionFacts, HalfAssumption DEF Spacing
    <3>. QED BY <2>4, <3>1
  <2>. QED BY <1>1, <1>2, <2>4, <2>8, <2>9 DEF Continues, SearchedInv, ScanInv
<1>10. CASE read_block_loop_callback
  <2>1. /\ AtBlock /\ out' = IF dev[j].ts >= op.ts THEN Append(out, dev[j]) ELSE out
    BY <1>10 DEF read_block_loop_callback
  <2>2. PrintsOnly(j + 1, out') /\ PrintsAll(j + 1, out')
    BY <1>1, <1>2, <1>5, <2>1, PrintBlock
  <2>3. CASE op.limit # 0 /\ Len(out') = op.limit
    <3>1. AfterBlocks(Len(out'), TRUE)
      BY <1>10, <2>3 DEF read_block_loop_callback
    <3>2. EndOp("ok")
      BY <1>5, <2>3, <3>1 DEF AfterBlocks
    <3>3. MayReturn(j + 1, out')
      BY <1>5, <2>2, <2>3 DEF MayReturn
    <3>4. j + 1 \in Nat
      BY <1>4
    <3>. QED BY <3>2, <3>3, <3>4 DEF Finishes
  <2>4. CASE ~(op.limit # 0 /\ Len(out') = op.limit)
    BY <1>6, <1>10, <2>2, <2>4 DEF read_block_loop_callback
  <2>. QED BY <2>3, <2>4
<1>. QED BY <1>7, <1>8, <1>9, <1>10

-----------------------------------------------------------------------------
(* What a read returns, unless it met an unused region.                    *)
LEMMA ReturnsComplete ==
  ASSUME IInv, DeviceInv, UNCHANGED <<dev, op>>, NEW n, MayReturn(n, out'),
         pass = "scan" /\ pc = "callback" /\ ~InUse(dev, i) =>
           \A h \in HintPositions : InUse(dev, h) /\ Highest(dev, h) >= op.ts => Visited(h)
  PROVE  ReadIsComplete'
<1>1. Log' = Log /\ LeftoverEntries' = LeftoverEntries /\ Asked' = Asked /\ op' = op
  BY SameLog DEF Asked
<1>2. \A k \in DOMAIN out' : EntryOf(out'[k]) \in Asked \cup LeftoverEntries
  BY AllPrinted DEF MayReturn
<1>3. Len(out') < op.limit \/ op.limit = 0 =>
        \A e \in Asked : \E k \in DOMAIN out' : e = EntryOf(out'[k])
  <2>1. SUFFICES ASSUME Len(out') < op.limit \/ op.limit = 0
                 PROVE  \A e \in Asked : \E k \in DOMAIN out' : e = EntryOf(out'[k])
    OBVIOUS
  <2>2. op.limit \in Nat
    BY DEF IInv, DataType, Operations
  <2>3. ~(op.limit # 0 /\ Len(out') = op.limit)
    BY <2>1, <2>2
  <2>4. \A h \in HintPositions : InUse(dev, h) /\ Highest(dev, h) >= op.ts => Visited(h)
    BY <2>3 DEF MayReturn
  <2>. QED BY <2>4, AllPrinted DEF MayReturn
<1>4. op.limit # 0 => Len(out') <= op.limit
  BY DEF MayReturn
<1>5. Printed' = {EntryOf(out'[k]) : k \in DOMAIN out'}
  BY DEF Printed, EntryOf
<1>. QED BY <1>1, <1>2, <1>3, <1>4, <1>5 DEF ReadIsComplete

(* An operation that is not over has returned nothing, nor has one that    *)
(* did not succeed.                                                        *)
LEMMA NothingRead ==
  ASSUME pass' \notin {"oldest", "scan"} \/ op'.kind # "read",
         pc' # "returned" \/ op'.kind # "read" \/ ret' # "ok"
  PROVE  ReadInv'
BY DEF ReadInv, SearchedInv, ScanInv, FullReadIsComplete, ReadIsComplete, Finished

(* Every step of a read is one of these.                                   *)
LEMMA ReadStep ==
  ASSUME IInv, ExitInv, AscendInv, ReadInv, Step, op.kind = "read"
  PROVE  (Continues \/ Finishes) /\ UNCHANGED <<dev, op>>
<1>1. ~recover_hintblock /\ ~recover_hintblock_backup /\ ~clear_hintblocks_loop_callback
  BY DEF AscendInv, CalmInv, recover_hintblock, recover_hintblock_backup,
         clear_hintblocks_loop_callback, Callback
<1>2. ~Putting /\ pass \notin {"free", "stamps"}
  BY DEF IInv, LocalInv, WriteInv
<1>3. /\ ~write_hintblock_check_free_callback /\ ~write_hintblock_check_timestamps
      /\ ~write_find_location_oldest /\ ~write_find_location_end
      /\ ~update_block_loop_callback
      /\ ~write_put_block_refused /\ ~write_checksum_and_put_block
      /\ ~write_update_hintblock /\ ~write_update_hintblock_backup
  BY <1>2
  DEF write_hintblock_check_free_callback, write_hintblock_check_timestamps, Callback,
      write_find_location_oldest, write_find_location_end, LoopDone,
      update_block_loop_callback, Putting, write_put_block_refused, ReadyToPut,
      write_checksum_and_put_block, write_update_hintblock, write_update_hintblock_backup
<1>4. UNCHANGED <<dev, op>>
  BY <1>1, <1>3
  DEF Step, block_get_hintblock_state, block_find_oldest_hintblock_loop_callback,
      scan_hintblock_loop_callback, block_find_oldest_hintblock,
      block_loop_hintblocks_second_round, block_loop_hintblocks_end,
      block_loop_blocks_skip_backup, block_loop_blocks_invalid, block_loop_blocks_end,
      read_block_loop_callback, device
<1>. QED BY <1>1, <1>3, <1>4, HintblockStateRead, FindOldestRead, ScanRead, LoopEndRead,
     BlockLoopRead DEF Step

(* Other operations print nothing.                                         *)
LEMMA OtherStep ==
  ASSUME Step PROVE op' = op
BY DEF Step, block_get_hintblock_state, recover_hintblock, recover_hintblock_backup,
       write_hintblock_check_free_callback, write_hintblock_check_timestamps,
       block_find_oldest_hintblock_loop_callback, scan_hintblock_loop_callback,
       clear_hintblocks_loop_callback, write_find_location_oldest,
       write_find_location_end, block_find_oldest_hintblock,
       block_loop_hintblocks_second_round, block_loop_hintblocks_end,
       block_loop_blocks_skip_backup, block_loop_blocks_invalid, block_loop_blocks_end,
       read_block_loop_callback, update_block_loop_callback, write_put_block_refused,
       write_checksum_and_put_block, write_update_hintblock,
       write_update_hintblock_backup

(* A kill is the only fault of an undamaged device.                        *)
LEMMA OnlyCrash == ASSUME Undamaged, AscendInv, Fault PROVE Crash
<1>1. ~(faults < MaxFaults)
  BY DEF Undamaged, AscendInv, CalmInv
<1>. QED BY <1>1 DEF Fault, TornCrash, Decay, HeaderDecay

(* Every step keeps the invariant.                                         *)
LEMMA NextRead ==
  ASSUME Undamaged
  PROVE  IInv /\ ExitInv /\ AscendInv /\ ReadInv /\ [Next]_vars => ReadInv'
<1>. SUFFICES ASSUME IInv, ExitInv, AscendInv, ReadInv, [Next]_vars PROVE ReadInv'
  OBVIOUS
<1>1. CASE Request
  BY <1>1, RequestRead
<1>2. CASE Step
  <2>1. CASE op.kind # "read"
    BY <1>2, <2>1, OtherStep, NothingRead
  <2>2. CASE op.kind = "read" /\ Continues
    <3>1. FullReadIsComplete'
      BY <2>2 DEF Continues, FullReadIsComplete, ReadIsComplete, Finished
    <3>. QED BY <2>2, <3>1 DEF Continues, ReadInv
  <2>3. CASE op.kind = "read" /\ Finishes
    <3>1. PICK n \in Nat : MayReturn(n, out')
      BY <2>3 DEF Finishes
    <3>2. UNCHANGED <<dev, op>> /\ DeviceInv
      BY <1>2, <2>3, ReadStep DEF AscendInv
    <3>3. FullReadIsComplete'
      <4>1. SUFFICES ASSUME LiveRegions' = HintPositions PROVE ReadIsComplete'
        BY DEF FullReadIsComplete
      <4>2. \A h \in HintPositions : InUse(dev, h)
        BY <3>2, <4>1, SameLog, LiveFacts
      <4>3. pass = "scan" /\ pc = "callback" => InUse(dev, i)
        BY <4>2 DEF IInv, LocalInv, LoopInv, InRegionStep
      <4>. QED BY <3>1, <3>2, <4>3, ReturnsComplete
    <3>4. pass' = "none"
      BY <2>3 DEF Finishes, EndOp
    <3>. QED BY <3>3, <3>4 DEF ReadInv, SearchedInv, ScanInv
  <2>. QED BY <1>2, <2>1, <2>2, <2>3, ReadStep
<1>3. CASE Fault
  BY <1>3, OnlyCrash, NothingRead DEF Crash, EndOp
<1>4. CASE UNCHANGED vars
  <2>1. LiveRegions' = LiveRegions /\ ReadIsComplete' = ReadIsComplete
    BY <1>4, SameLog DEF vars, ReadIsComplete, Finished, Printed, Asked
  <2>2. SearchedInv' /\ ScanInv'
    BY <1>4 DEF vars, ReadInv, SearchedInv, ScanInv, PrintsOnly, PrintsAll, Done, Visited
  <2>. QED BY <2>1, <2>2 DEF ReadInv, FullReadIsComplete
<1>. QED BY <1>1, <1>2, <1>3, <1>4 DEF Next

(* Nothing has been read.                                                  *)
LEMMA InitRead == Init => ReadInv
BY DEF Init, ReadInv, SearchedInv, ScanInv, FullReadIsComplete, ReadIsComplete, Finished

(* A read keeps to what was asked for, and goes past nothing of it.        *)
THEOREM ReadInvariance ==
  ASSUME StampsHaveRoom, Undamaged
  PROVE  Spec => [](IInv /\ ExitInv /\ AscendInv /\ ReadInv)
<1>1. IInv /\ ExitInv /\ AscendInv /\ ReadInv /\ [Next]_vars => ReadInv'
  BY NextRead
<1>. QED BY <1>1, InitRead, AscendInvariance, PTL DEF Spec

(* Once all regions are in use a read of an undamaged device misses no     *)
(* entry that was asked for, in whatever order the timestamps came, and    *)
(* wherever in the ring the first of them is (scan_hintblock_loop_callback,*)
(* block_find_oldest_hintblock).                                           *)
THEOREM FullReadsAreComplete ==
  ASSUME StampsHaveRoom, Undamaged PROVE Spec => []FullReadIsComplete
<1>1. ReadInv => FullReadIsComplete
  BY DEF ReadInv
<1>. QED BY <1>1, ReadInvariance, PTL

-----------------------------------------------------------------------------
(* What has been printed ascends, but for leftovers.                       *)
InOrder(s) ==
  \A k, l \in DOMAIN s :
    k < l /\ EntryOf(s[k]) \in Log /\ EntryOf(s[l]) \in Log => s[k].ts < s[l].ts

OldestFirstInv ==
  /\ op.kind = "read" => InOrder(out)
  /\ ReadIsComplete
  /\ ReadIsOldestFirst

(* Going around the ring from b on is the same as from o on, for all that  *)
(* does not come between o and b.                                          *)
LEMMA GoingAround ==
  ASSUME NEW o \in HintPositions, NEW b \in HintPositions,
         NEW h \in HintPositions, NEW g \in HintPositions,
         ~Before(o, h, b), ~Before(o, g, b), Before(b, h, g)
  PROVE  Before(o, h, g)
BY HintPositionFacts DEF Before

(* A leftover is not in the log, as it is later than all entries.          *)
LEMMA LogEntry ==
  ASSUME IInv, DeviceInv, OrderInv(dev), NEW h \in HintPositions, InUse(dev, h),
         NEW p \in Written(dev, h), EntryOf(dev[p]) \in Log
  PROVE  p \in Entries(dev, h)
<1>1. PICK g \in HintPositions :
             InUse(dev, g) /\ \E q \in Entries(dev, g) : EntryOf(dev[p]) = EntryOf(dev[q])
  BY LogFacts
<1>. PICK q \in Entries(dev, g) : EntryOf(dev[p]) = EntryOf(dev[q])
  BY <1>1
<1>2. dev \in [Positions -> Content] /\ RegionAscends(dev, g)
  BY DEF IInv, DataType, DeviceInv, RegionInv
<1>3. dev[q].ts <= Highest(dev, g) /\ Highest(dev, g) \in Nat
  BY <1>1, <1>2, HighestEntry, StampsAreNumbers
<1>4. dev[p].ts = dev[q].ts /\ dev[p].ts \in Nat
  BY <1>2, RegionFacts, StampsAreNumbers DEF EntryOf, Written
<1>5. ~IsLeftover(dev, h, p)
  BY <1>1, <1>3, <1>4 DEF OrderInv, LeftoverIsLatest, IsLeftover
<1>. QED BY <1>5 DEF Entries

(* An entry the scan has gone past is earlier than one it has not.         *)
LEMMA DoneBefore ==
  ASSUME IInv, DeviceInv, OrderInv(dev), ScanInv, op.kind = "read", pass = "scan", NEW n \in Nat,
         NEW h \in HintPositions, InUse(dev, h), NEW p \in Entries(dev, h),
         dev[p].ts >= op.ts, Done(n, h, p),
         NEW g \in HintPositions, InUse(dev, g), NEW q \in Entries(dev, g),
         dev[q].ts >= op.ts, ~Done(n, g, q)
  PROVE  dev[p].ts < dev[q].ts
<1>1. /\ begin \in HintPositions /\ InUse(dev, begin)
      /\ \A k \in HintPositions : InUse(dev, k) /\ Highest(dev, k) >= op.ts =>
           Highest(dev, begin) <= Highest(dev, k)
      /\ (end = DeviceSize /\ begin <= i) \/ end = begin
  BY DEF ScanInv
<1>2. /\ dev \in [Positions -> Content]
      /\ \A k \in HintPositions : RegionAscends(dev, k)
      /\ p \in Written(dev, h) /\ q \in Written(dev, g)
      /\ p \in Nat /\ q \in Nat /\ dev[p].ts \in Nat /\ dev[q].ts \in Nat
  BY RegionFacts, StampsAreNumbers DEF IInv, DataType, DeviceInv, RegionInv, Entries, Written
<1>3. CASE h = g
  <2>1. p < n /\ ~(q < n)
    BY <1>3 DEF Done
  <2>2. p < q
    BY <1>2, <2>1
  <2>. QED BY <1>2, <1>3, <2>2 DEF RegionAscends, Entries
<1>4. CASE h # g
  <2>1. /\ begin \in Nat /\ h \in Nat /\ g \in Nat /\ begin < DeviceSize
        /\ DeviceSize \in Nat /\ i \in Nat
    <3>1. begin \in Nat /\ h \in Nat /\ g \in Nat /\ begin <= DeviceSize - 1
      BY <1>1, HintPositionFacts
    <3>. QED BY <3>1, SizeAssumption DEF IInv, LocalInv, LocalType
  <2>2. Before(begin, h, g)
    <3>1. pc = "blocks" => i < end
      BY DEF IInv, LocalInv, LoopInv, InRegionStep
    <3>. QED BY <1>1, <1>4, <2>1, <3>1 DEF Done, Visited, Before
  <2>3. PICK o \in HintPositions : SortedFrom(dev, o)
    BY DEF OrderInv, RingSorted
  <2>4. /\ Highest(dev, h) >= op.ts /\ Highest(dev, g) >= op.ts
    BY AskedRegion
  <2>5. ~Before(o, h, begin) /\ ~Before(o, g, begin)
    <3>1. ASSUME NEW k \in HintPositions, InUse(dev, k), Highest(dev, k) >= op.ts
          PROVE  ~Before(o, k, begin)
      <4>1. Highest(dev, begin) <= Highest(dev, k)
        BY <1>1, <3>1
      <4>2. Highest(dev, begin) \in Nat /\ Highest(dev, k) \in Nat
        BY <1>1, <1>2, <3>1, StampsAreNumbers
      <4>3. ~(Highest(dev, k) < Highest(dev, begin))
        BY <4>1, <4>2
      <4>. QED BY <1>1, <1>2, <2>3, <3>1, <4>3, SortedHighest
    <3>. QED BY <2>4, <3>1
  <2>6. Before(o, h, g)
    BY <1>1, <2>2, <2>5, GoingAround
  <2>7. Highest(dev, h) < dev[q].ts
    BY <2>3, <2>6 DEF SortedFrom
  <2>8. dev[p].ts <= Highest(dev, h) /\ Highest(dev, h) \in Nat
    BY <1>2, HighestEntry, StampsAreNumbers
  <2>. QED BY <1>2, <2>7, <2>8
<1>. QED BY <1>3, <1>4

(* A scan that meets an unused region began with the first region that     *)
(* holds something asked for, and has gone through all that do.            *)
LEMMA UnusedIsLast ==
  ASSUME IInv, DeviceInv, OrderInv(dev), ScanInv, op.kind = "read", pass = "scan",
         pc = "callback", ~InUse(dev, i),
         NEW h \in HintPositions, InUse(dev, h), Highest(dev, h) >= op.ts
  PROVE  Visited(h)
<1>1. /\ begin \in HintPositions /\ InUse(dev, begin)
      /\ Highest(dev, begin) <= Highest(dev, h)
      /\ (end = DeviceSize /\ begin <= i) \/ end = begin
  BY DEF ScanInv
<1>2. i \in HintPositions /\ i < end
  BY DEF IInv, LocalInv, LoopInv, InRegionStep
<1>3. begin \in Nat /\ i \in Nat /\ h \in Nat /\ \A k \in HintPositions : loop_begin_orig <= k
  BY <1>1, <1>2, HintPositionFacts DEF loop_begin_orig
<1>4. \A k \in HintPositions : InUse(dev, k) => ~(i < k)
  BY <1>2 DEF DeviceInv, UsedInOrder
<1>5. end = DeviceSize
  BY <1>1, <1>2, <1>4
<1>6. h < i
  BY <1>2, <1>3, <1>4
<1>7. SortedFrom(dev, loop_begin_orig)
  BY <1>2 DEF OrderInv, RingSorted
<1>8. ~(h < begin)
  <2>1. SUFFICES ASSUME h < begin PROVE FALSE
    OBVIOUS
  <2>2. Before(loop_begin_orig, h, begin)
    BY <1>1, <1>3, <2>1, FirstHint, HintPositionFacts DEF Before
  <2>3. dev \in [Positions -> Content] /\ RegionAscends(dev, begin) /\ RegionAscends(dev, h)
    BY <1>1 DEF IInv, DataType, DeviceInv, RegionInv
  <2>4. Highest(dev, h) < Highest(dev, begin)
    BY <1>1, <1>7, <2>2, <2>3, FirstHint, SortedHighest
  <2>. QED BY <1>1, <2>3, <2>4, StampsAreNumbers
<1>. QED BY <1>3, <1>5, <1>6, <1>8 DEF Visited

-----------------------------------------------------------------------------
(* The block that is printed next is later than all that were printed.     *)
LEMMA PrintInOrder ==
  ASSUME IInv, ExitInv, AscendInv, RingInv, ReadInv, OldestFirstInv, read_block_loop_callback
  PROVE  InOrder(out') /\ op.kind = "read" /\ pass = "scan"
<1>1. /\ AtBlock /\ pc = "blocks" /\ op.kind = "read" /\ UNCHANGED <<dev, op>>
      /\ out' = IF dev[j].ts >= op.ts THEN Append(out, dev[j]) ELSE out
  BY DEF read_block_loop_callback, AtBlock, device
<1>2. pass = "scan"
  BY <1>1 DEF ExitInv, FoundInv
<1>3. InOrder(out) /\ out \in Seq(Content) /\ PrintsOnly(j, out) /\ ScanInv
      /\ DeviceInv /\ OrderInv(dev)
  BY <1>1, <1>2, LimitFacts DEF OldestFirstInv, ReadInv, ScanInv, AscendInv, RingInv
<1>4. CASE dev[j].ts >= op.ts
  <2>1. /\ out' = Append(out, dev[j])
        /\ DOMAIN out = 1..Len(out) /\ DOMAIN out' = 1..(Len(out) + 1) /\ Len(out) \in Nat
        /\ \A k \in DOMAIN out : out'[k] = out[k]
        /\ out'[Len(out) + 1] = dev[j]
    BY <1>1, <1>3, <1>4
  <2>2. /\ i \in HintPositions /\ InUse(dev, i) /\ j \in Written(dev, i) /\ j \in Nat
    BY <1>1, AtBlockWritten DEF IInv, LocalInv, LocalType
  <2>3. ~Done(j, i, j)
    <3>1. i \in Nat /\ i < end /\ (end = DeviceSize \/ end = begin)
      BY <1>1, <1>2, <1>3, <2>2, HintPositionFacts
      DEF IInv, LocalInv, LoopInv, InRegionStep, ScanInv
    <3>2. begin \in Nat
      BY <1>1, <1>2, <1>3, HintPositionFacts DEF ScanInv
    <3>. QED BY <2>2, <3>1, <3>2 DEF Done, Visited
  <2>4. ASSUME NEW k \in DOMAIN out, EntryOf(out[k]) \in Log, EntryOf(dev[j]) \in Log
        PROVE  out[k].ts < dev[j].ts
    <3>1. PICK h \in HintPositions : \E p \in Written(dev, h) :
            InUse(dev, h) /\ out[k] = dev[p] /\ dev[p].ts >= op.ts /\ Done(j, h, p)
      BY <1>3 DEF PrintsOnly
    <3>. PICK p \in Written(dev, h) :
            InUse(dev, h) /\ out[k] = dev[p] /\ dev[p].ts >= op.ts /\ Done(j, h, p)
      BY <3>1
    <3>2. p \in Entries(dev, h) /\ j \in Entries(dev, i)
      BY <1>3, <2>2, <2>4, LogEntry
    <3>. QED BY <1>1, <1>2, <1>3, <1>4, <2>2, <2>3, <3>2, DoneBefore
  <2>5. ASSUME NEW k \in DOMAIN out', NEW l \in DOMAIN out', k < l,
               EntryOf(out'[k]) \in Log, EntryOf(out'[l]) \in Log
        PROVE  out'[k].ts < out'[l].ts
    <3>1. k \in DOMAIN out /\ out'[k] = out[k]
      BY <2>1, <2>5
    <3>2. CASE l \in DOMAIN out
      BY <1>3, <2>1, <2>5, <3>1, <3>2 DEF InOrder
    <3>3. CASE l = Len(out) + 1
      BY <2>1, <2>4, <2>5, <3>1, <3>3
    <3>. QED BY <2>1, <3>2, <3>3
  <2>. QED BY <1>1, <1>2, <2>5 DEF InOrder
<1>. QED BY <1>1, <1>2, <1>3, <1>4

(* Nothing else prints.                                                    *)
LEMMA OnlyBlocksPrint ==
  ASSUME IInv, AscendInv, Step, op.kind = "read"
  PROVE  out' = out \/ read_block_loop_callback
<1>1. ~recover_hintblock /\ ~recover_hintblock_backup /\ ~clear_hintblocks_loop_callback
  BY DEF AscendInv, CalmInv, recover_hintblock, recover_hintblock_backup,
         clear_hintblocks_loop_callback, Callback
<1>. QED BY <1>1
     DEF Step, block_get_hintblock_state, write_hintblock_check_free_callback,
         write_hintblock_check_timestamps, block_find_oldest_hintblock_loop_callback,
         scan_hintblock_loop_callback, write_find_location_oldest,
         write_find_location_end, block_find_oldest_hintblock,
         block_loop_hintblocks_second_round, block_loop_hintblocks_end,
         block_loop_blocks_skip_backup, block_loop_blocks_invalid, block_loop_blocks_end,
         update_block_loop_callback, write_put_block_refused,
         write_checksum_and_put_block, write_update_hintblock,
         write_update_hintblock_backup

(* A read that returns from the search has printed nothing.                *)
LEMMA ReturnsFromScan ==
  ASSUME IInv, ExitInv, AscendInv, ReadInv, Step, op.kind = "read", pc' = "returned"
  PROVE  out' = <<>> \/ pass = "scan"
<1>1. ~recover_hintblock /\ ~recover_hintblock_backup /\ ~clear_hintblocks_loop_callback
  BY DEF AscendInv, CalmInv, recover_hintblock, recover_hintblock_backup,
         clear_hintblocks_loop_callback, Callback
<1>2. ~Putting /\ pass \notin {"free", "stamps", "clear"}
  BY DEF IInv, LocalInv, WriteInv, AscendInv, CalmInv
<1>3. pc = "blocks" => pass = "scan"
  BY DEF ExitInv, FoundInv
<1>4. pass \in {"oldest", "scan"}
  BY <1>1, <1>2, <1>3
  DEF Step, block_get_hintblock_state, write_hintblock_check_free_callback,
      write_hintblock_check_timestamps, block_find_oldest_hintblock_loop_callback,
      scan_hintblock_loop_callback, write_find_location_oldest, write_find_location_end,
      block_find_oldest_hintblock, block_loop_hintblocks_second_round,
      block_loop_hintblocks_end, block_loop_blocks_skip_backup, block_loop_blocks_invalid,
      block_loop_blocks_end, read_block_loop_callback, update_block_loop_callback,
      write_put_block_refused, write_checksum_and_put_block, write_update_hintblock,
      write_update_hintblock_backup, Callback, LoopDone, AtBlock, Putting, ReadyToPut
<1>5. pass = "oldest" => out = <<>>
  BY DEF ReadInv, SearchedInv
<1>6. read_block_loop_callback => pass = "scan"
  BY <1>3 DEF read_block_loop_callback, AtBlock
<1>. QED BY <1>4, <1>5, <1>6, OnlyBlocksPrint

(* What a read with a limit has not printed is later than what it has.     *)
LEMMA ReturnsOldest ==
  ASSUME IInv, DeviceInv, OrderInv(dev), UNCHANGED <<dev, op>>, op.kind = "read",
         InOrder(out'), NEW n \in Nat, PrintsOnly(n, out'), PrintsAll(n, out'),
         out' = <<>> \/ (pass = "scan" /\ ScanInv)
  PROVE  ReadIsOldestFirst'
<1>1. Log' = Log /\ Asked' = Asked /\ op' = op
  BY SameLog DEF Asked
<1>2. Printed' = {EntryOf(out'[k]) : k \in DOMAIN out'}
  BY DEF Printed, EntryOf
<1>3. ASSUME NEW e \in Asked \ Printed', NEW f \in Asked \cap Printed'
      PROVE  f.ts < e.ts
  <2>1. PICK k \in DOMAIN out' : f = EntryOf(out'[k])
    BY <1>2, <1>3
  <2>2. pass = "scan" /\ ScanInv
    BY <2>1
  <2>3. PICK h \in HintPositions : \E p \in Written(dev, h) :
          InUse(dev, h) /\ out'[k] = dev[p] /\ dev[p].ts >= op.ts /\ Done(n, h, p)
    BY <2>1 DEF PrintsOnly
  <2>. PICK p \in Written(dev, h) :
          InUse(dev, h) /\ out'[k] = dev[p] /\ dev[p].ts >= op.ts /\ Done(n, h, p)
    BY <2>3
  <2>4. p \in Entries(dev, h) /\ f.ts = dev[p].ts
    BY <1>3, <2>1, LogEntry DEF Asked, EntryOf
  <2>5. PICK g \in HintPositions :
          InUse(dev, g) /\ \E q \in Entries(dev, g) : e = EntryOf(dev[q])
    BY <1>3, LogFacts DEF Asked
  <2>. PICK q \in Entries(dev, g) : e = EntryOf(dev[q])
    BY <2>5
  <2>6. e.ts = dev[q].ts /\ dev[q].ts >= op.ts
    BY <1>3 DEF Asked, EntryOf
  <2>7. ~Done(n, g, q)
    <3>1. SUFFICES ASSUME Done(n, g, q) PROVE e \in Printed'
      BY <1>3
    <3>2. \E l \in DOMAIN out' : out'[l] = dev[q]
      BY <2>5, <2>6, <3>1 DEF PrintsAll
    <3>. QED BY <1>2, <3>2
  <2>. QED BY <2>2, <2>3, <2>4, <2>5, <2>6, <2>7, DoneBefore
<1>4. \A k, l \in DOMAIN out' :
        k < l /\ EntryOf(out'[k]) \in Log /\ EntryOf(out'[l]) \in Log
          => out'[k].ts < out'[l].ts
  BY DEF InOrder
<1>5. \A c : EntryOf(c)' = EntryOf(c')
  BY DEF EntryOf
<1>. QED BY <1>1, <1>3, <1>4, <1>5 DEF ReadIsOldestFirst, EntryOf

(* Every step keeps the order.                                             *)
LEMMA NextOldestFirst ==
  ASSUME Undamaged
  PROVE  IInv /\ ExitInv /\ AscendInv /\ RingInv /\ ReadInv /\ OldestFirstInv /\ [Next]_vars
           => OldestFirstInv'
<1>. SUFFICES ASSUME IInv, ExitInv, AscendInv, RingInv, ReadInv, OldestFirstInv, [Next]_vars
              PROVE  OldestFirstInv'
  OBVIOUS
<1>0. ASSUME op'.kind # "read" \/ out' = <<>> \/ InOrder(out)',
             pc' # "returned" \/ op'.kind # "read" \/ ret' # "ok"
      PROVE  OldestFirstInv'
  <2>1. out' = <<>> => InOrder(out)'
    BY DEF InOrder
  <2>. QED BY <1>0, <2>1 DEF OldestFirstInv, ReadIsComplete, ReadIsOldestFirst, Finished
<1>1. CASE Request
  <2>1. pc' # "returned" /\ out' = <<>>
    BY <1>1 DEF Request, bdl_write_block, bdl_read_blocks, bdl_read_update_application_data,
                bdl_clear_dev, BeginOp, Return, AscendInv, CalmInv
  <2>. QED BY <1>0, <2>1
<1>2. CASE Step
  <2>1. CASE op.kind # "read"
    BY <1>0, <1>2, <2>1, OtherStep
  <2>2. CASE op.kind = "read"
    <3>1. (Continues \/ Finishes) /\ UNCHANGED <<dev, op>>
      BY <1>2, <2>2, ReadStep
    <3>2. InOrder(out')
      BY <1>2, <2>2, OnlyBlocksPrint, PrintInOrder DEF OldestFirstInv
    <3>3. InOrder(out)'
      BY <3>1, <3>2, SameLog DEF InOrder, EntryOf
    <3>4. CASE Continues
      BY <3>3, <3>4
      DEF Continues, OldestFirstInv, ReadIsComplete, ReadIsOldestFirst, Finished
    <3>5. CASE Finishes
      <4>1. PICK n \in Nat : MayReturn(n, out')
        BY <3>5 DEF Finishes
      <4>2. DeviceInv /\ OrderInv(dev) /\ ScanInv
        BY DEF AscendInv, RingInv, ReadInv
      <4>3. pass = "scan" /\ pc = "callback" /\ ~InUse(dev, i) =>
              \A h \in HintPositions : InUse(dev, h) /\ Highest(dev, h) >= op.ts => Visited(h)
        BY <2>2, <4>2, UnusedIsLast
      <4>4. ReadIsComplete'
        BY <3>1, <4>1, <4>2, <4>3, ReturnsComplete
      <4>5. out' = <<>> \/ pass = "scan"
        BY <1>2, <2>2, <3>5, ReturnsFromScan DEF Finishes, EndOp
      <4>6. ReadIsOldestFirst'
        BY <2>2, <3>1, <3>2, <4>1, <4>2, <4>5, ReturnsOldest DEF MayReturn
      <4>. QED BY <3>3, <4>4, <4>6 DEF OldestFirstInv
    <3>. QED BY <3>1, <3>4, <3>5
  <2>. QED BY <2>1, <2>2
<1>3. CASE Fault
  <2>1. Crash
    BY <1>3, OnlyCrash
  <2>2. op' = op /\ out' = out /\ dev' = dev /\ ret' = "crash"
    BY <2>1 DEF Crash, EndOp, device
  <2>3. op.kind = "read" => InOrder(out)'
    BY <2>2, SameLog DEF OldestFirstInv, InOrder, EntryOf
  <2>. QED BY <1>0, <2>2, <2>3
<1>4. CASE UNCHANGED vars
  <2>1. Log' = Log /\ Asked' = Asked /\ LeftoverEntries' = LeftoverEntries
        /\ Printed' = Printed
    BY <1>4, SameLog DEF vars, Asked, Printed
  <2>2. InOrder(out)' <=> InOrder(out)
    BY <1>4, <2>1 DEF vars, InOrder, EntryOf
  <2>. QED BY <1>4, <2>1, <2>2
       DEF vars, OldestFirstInv, ReadIsComplete, ReadIsOldestFirst, Finished, EntryOf
<1>. QED BY <1>1, <1>2, <1>3, <1>4 DEF Next

(* Nothing has been printed.                                               *)
LEMMA InitOldestFirst == Init => OldestFirstInv
BY DEF Init, OldestFirstInv, InOrder, ReadIsComplete, ReadIsOldestFirst, Finished

(* With ascending timestamps a read goes through the entries in their      *)
(* order.                                                                  *)
THEOREM OldestFirstInvariance ==
  ASSUME StampsHaveRoom, Undamaged, Ordered
  PROVE  Spec => []OldestFirstInv
<1>1. IInv /\ ExitInv /\ AscendInv /\ RingInv /\ ReadInv /\ OldestFirstInv /\ [Next]_vars
        => OldestFirstInv'
  BY NextOldestFirst
<1>. QED BY <1>1, InitOldestFirst, RingInvariance, ReadInvariance, PTL DEF Spec

(* A read misses no entry that was asked for, at whatever step the writes  *)
(* before it were killed and however often they went around the ring       *)
(* (read_blocks).                                                          *)
THEOREM ReadsAreComplete ==
  ASSUME StampsHaveRoom, Undamaged, Ordered
  PROVE  Spec => []ReadIsComplete
<1>1. OldestFirstInv => ReadIsComplete
  BY DEF OldestFirstInv
<1>. QED BY <1>1, OldestFirstInvariance, PTL

(* It prints them oldest first, and a limit cuts off the newest            *)
(* (block_find_oldest_hintblock, the second round of the loop).            *)
THEOREM ReadsAreOldestFirst ==
  ASSUME StampsHaveRoom, Undamaged, Ordered
  PROVE  Spec => []ReadIsOldestFirst
<1>1. OldestFirstInv => ReadIsOldestFirst
  BY DEF OldestFirstInv
<1>. QED BY <1>1, OldestFirstInvariance, PTL

=============================================================================
