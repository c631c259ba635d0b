---------------------------- MODULE AscendProofs -----------------------------
(***************************************************************************)
(* While nothing is damaged or cleared, timestamps ascend within a region  *)
(* and a killed process leaves nothing to recover, on a device of any size *)
(* and with timestamps in any order.                                       *)
(***************************************************************************)
EXTENDS ExitProofs

Undamaged == MaxFaults = 0 /\ "clear" \notin Ops

-----------------------------------------------------------------------------
(* One region of a device d, as its hint block at h describes it.          *)
Span(h) == blockstart_min(h)..h

InUse(d, h) == validate_hintblock(d[h])

Full(d, h) == InUse(d, h) /\ d[h].prev = blockstart_max(h)

AllFull(d) == \A h \in HintPositions : Full(d, h)

Highest(d, h) == d[d[h].prev].ts

Written(d, h) == {p \in DataCells(h) : p <= d[h].prev}

HasLeftover(d, h) == d[blockstart_min(h)].ts > Highest(d, h)

IsLeftover(d, h, p) == p = blockstart_min(h) /\ HasLeftover(d, h)

(* The data blocks have no holes and ascend.  Only a full region is used   *)
(* again, so only a full region has a leftover.                            *)
RegionAscends(d, h) ==
  InUse(d, h) =>
    /\ d[h].prev \in DataCells(h)
    /\ \A p \in Written(d, h) : validate_block(d[p])
    /\ \A p, q \in Written(d, h) : p < q => d[p].ts < d[q].ts \/ IsLeftover(d, h, p)
    /\ HasLeftover(d, h) => Full(d, h)

(* The backup is never ahead of the hint block.                            *)
BackupFollows(d, h) ==
  validate_hintblock(d[backup_location(h)]) =>
    /\ InUse(d, h)
    /\ d[backup_location(h)].prev \in DataCells(h)
    /\ validate_block(d[d[backup_location(h)].prev])

RegionInv(d, h) == RegionAscends(d, h) /\ BackupFollows(d, h)

(* Regions are first used in the order of their positions.                 *)
UsedInOrder(d) ==
  \A g, h \in HintPositions : InUse(d, h) /\ g < h => InUse(d, g)

DeviceInv == UsedInOrder(dev) /\ \A h \in HintPositions : RegionInv(dev, h)

(* Nothing is ever recovered or cleared.                                   *)
CalmInv ==
  /\ header /\ faults = 0
  /\ op.kind # "clear" /\ pass # "clear"
  /\ pc \notin {"recover_main", "recover_backup"}

(* What the loop has read is what the device holds, up to the first put.   *)
SeenInv ==
  /\ pc \in {"callback", "blocks"} => cur = Region(i)
  /\ pc = "blocks" => cur.valid /\ j >= blockstart_min(i)
  /\ pass \in {"none", "free", "scan"} => best = NoState
  /\ pass \in {"stamps", "oldest"} /\ ~Putting /\ best # NoState =>
       best = Region(best.location)

(* A write goes past full regions only.                                    *)
PassedInv ==
  /\ pass \in {"free", "stamps", "oldest"} => end = DeviceSize
  /\ pass = "free" /\ ~Putting => \A h \in HintPositions : h < i => Full(dev, h)
  /\ pass = "stamps" /\ ~Putting => AllFull(dev)

(* The three places a write can find: the beginning of a region that was   *)
(* never used, after the last block of one, or the beginning of one that   *)
(* is used again.                                                          *)
PlaceFor(h) ==
  \/ /\ ~InUse(dev, h) /\ loc = blockstart_min(h)
     /\ \A g \in HintPositions : g < h => Full(dev, g)
  \/ InUse(dev, h) /\ ~Full(dev, h) /\ loc = skip_backup(dev[h].prev + 1, h)
  \/ AllFull(dev) /\ loc = blockstart_min(h)

PlaceInv ==
  /\ pc = "put_block" => cur = Region(cur.location)
  /\ pc \in {"put_block", "put_hint"} => PlaceFor(cur.location)
  /\ pc = "put_hint" =>
       /\ validate_block(dev[loc])
       /\ InUse(dev, cur.location) => dev[loc].ts > Highest(dev, cur.location)
  /\ pc = "put_backup" => InUse(dev, cur.location) /\ dev[cur.location].prev = loc

AscendInv == DeviceInv /\ CalmInv /\ SeenInv /\ PassedInv /\ PlaceInv

-----------------------------------------------------------------------------
(* Hint blocks are at least one region apart.                              *)
LEMMA SpacesApart ==
  ASSUME NEW g \in HintPositions, NEW h \in HintPositions, g < h
  PROVE  g + Spacing <= h
<1>. USE HalfAssumption, SizeAssumption
<1>1. PICK k \in 1..DeviceSize : g = k * Spacing
  BY DEF HintPositions
<1>2. PICK m \in 1..DeviceSize : h = m * Spacing
  BY DEF HintPositions
<1>3. Spacing \in Nat
  BY DEF Spacing
<1>4. CASE k < m
  BY <1>1, <1>2, <1>3, <1>4, MultiplyFacts
<1>5. CASE m < k
  BY <1>1, <1>2, <1>3, <1>5, MultiplyFacts
<1>6. CASE k = m
  BY <1>1, <1>2, <1>6
<1>. QED BY <1>4, <1>5, <1>6

(* Everything about a region lies between the hint block before it and its *)
(* own.                                                                    *)
LEMMA RegionFacts ==
  ASSUME NEW h \in HintPositions
  PROVE  /\ h \in Nat /\ Span(h) \subseteq Positions /\ Span(h) \subseteq Nat
         /\ DataCells(h) \subseteq Span(h) /\ DataCells(h) \subseteq 1..(h - 1)
         /\ h \in Span(h) \ DataCells(h)
         /\ backup_location(h) \in Span(h) \ DataCells(h) /\ backup_location(h) # h
         /\ blockstart_min(h) \in DataCells(h)
         /\ blockstart_max(h) \in DataCells(h)
         /\ blockstart_min(h) < blockstart_max(h)
BY HintPositionFacts, HalfAssumption, SizeAssumption
DEF Span, DataCells, blockstart_min, blockstart_max, backup_location, Spacing, Positions

(* Two regions have no position in common.                                 *)
LEMMA SpansDisjoint ==
  ASSUME NEW g \in HintPositions, NEW h \in HintPositions, g # h, NEW p \in Span(g)
  PROVE  p \notin Span(h)
<1>1. g \in Nat /\ h \in Nat
  BY HintPositionFacts
<1>2. g + Spacing <= h \/ h + Spacing <= g
  BY <1>1, SpacesApart
<1>. QED BY <1>1, <1>2, HalfAssumption DEF Span, blockstart_min, Spacing

(* What is read of a region that ascends.                                  *)
LEMMA RegionState ==
  ASSUME NEW d \in [Positions -> Content], NEW h \in HintPositions, RegionAscends(d, h)
  PROVE  /\ hintblock_state(d, h, FALSE).location = h
         /\ hintblock_state(d, h, FALSE).valid <=> InUse(d, h)
         /\ InUse(d, h) => /\ hintblock_state(d, h, FALSE).highest = Highest(d, h)
                           /\ hintblock_state(d, h, FALSE).prev = d[h].prev
         /\ ~InUse(d, h) => hintblock_state(d, h, FALSE).highest = 0
         /\ region_full(hintblock_state(d, h, FALSE)) <=> Full(d, h)
<1>. SUFFICES ASSUME NEW st, st = hintblock_state(d, h, FALSE)
              PROVE  /\ st.location = h
                     /\ st.valid <=> InUse(d, h)
                     /\ InUse(d, h) => st.highest = Highest(d, h) /\ st.prev = d[h].prev
                     /\ ~InUse(d, h) => st.highest = 0
                     /\ region_full(st) <=> Full(d, h)
  OBVIOUS
<1>1. CASE InUse(d, h)
  <2>1. d[h].prev \in DataCells(h) /\ validate_block(d[d[h].prev])
    BY <1>1, RegionFacts DEF RegionAscends, Written
  <2>2. InRegion(h, d[h].prev)
    BY <2>1 DEF InRegion, DataCells
  <2>3. /\ st.location = h /\ st.valid
        /\ st.highest = Highest(d, h) /\ st.prev = d[h].prev
    BY <1>1, <2>1, <2>2 DEF hintblock_state, InUse, Highest
  <2>4. d[h].prev \in Nat /\ d[h].prev <= blockstart_max(h) /\ h \in Nat
    BY <2>1, RegionFacts DEF DataCells
  <2>5. Full(d, h) <=> d[h].prev + 1 > blockstart_max(h)
    BY <1>1, <2>4 DEF Full, blockstart_max
  <2>6. region_full(st) <=> Full(d, h)
    BY <2>3, <2>5 DEF region_full
  <2>. QED BY <1>1, <2>3, <2>6
<1>2. CASE ~InUse(d, h)
  BY <1>2 DEF hintblock_state, InUse, region_full, Full
<1>. QED BY <1>1, <1>2

-----------------------------------------------------------------------------
(* Blocks that differ in their application data only, if at all.           *)
Alike(b, c) ==
  b.kind = c.kind /\ b.ts = c.ts /\ (b.kind = "hint" => b.prev = c.prev)

(* The hint block describes the same blocks of the region.                 *)
SameExtent(d, e, h) ==
  /\ InUse(e, h) <=> InUse(d, h)
  /\ Full(e, h) <=> Full(d, h)
  /\ InUse(d, h) => /\ e[h].prev = d[h].prev
                    /\ Highest(e, h) = Highest(d, h)
                    /\ Written(e, h) = Written(d, h)
  /\ hintblock_state(e, h, FALSE) = hintblock_state(d, h, FALSE)

(* A region whose blocks stay alike stays what it was.                     *)
LEMMA SameRegion ==
  ASSUME NEW d \in [Positions -> Content], NEW e \in [Positions -> Content],
         NEW h \in HintPositions, RegionAscends(d, h),
         \A q \in DataCells(h) \cup {h} : Alike(d[q], e[q])
  PROVE  /\ RegionAscends(e, h)
         /\ SameExtent(d, e, h)
         /\ InUse(d, h) => (HasLeftover(e, h) <=> HasLeftover(d, h))
<1>1. blockstart_min(h) \in DataCells(h)
  BY RegionFacts
<1>2. /\ InUse(e, h) <=> InUse(d, h)
      /\ Full(e, h) <=> Full(d, h)
      /\ InUse(d, h) => e[h].prev = d[h].prev
  BY <1>1 DEF Alike, InUse, Full, validate_hintblock
<1>3. ASSUME InUse(d, h)
      PROVE  /\ Highest(e, h) = Highest(d, h)
             /\ Written(e, h) = Written(d, h)
             /\ HasLeftover(e, h) <=> HasLeftover(d, h)
  <2>1. d[h].prev \in DataCells(h)
    BY <1>3 DEF RegionAscends
  <2>2. Highest(e, h) = Highest(d, h)
    BY <1>2, <1>3, <2>1 DEF Highest, Alike
  <2>. QED BY <1>1, <1>2, <1>3, <2>2 DEF Written, HasLeftover, Alike
<1>4. RegionAscends(e, h)
  <2>1. SUFFICES ASSUME InUse(d, h) PROVE RegionAscends(e, h)
    BY <1>2 DEF RegionAscends
  <2>2. \A p \in Written(d, h) : d[p].ts = e[p].ts /\ d[p].kind = e[p].kind
    BY DEF Alike, Written
  <2>. QED BY <1>2, <1>3, <2>1, <2>2 DEF RegionAscends, IsLeftover, validate_block
<1>5. hintblock_state(e, h, FALSE) = hintblock_state(d, h, FALSE)
  <2>1. CASE InUse(d, h)
    <3>1. d[h].prev \in DataCells(h)
      BY <2>1 DEF RegionAscends
    <3>. QED BY <1>2, <2>1, <3>1
         DEF hintblock_state, Alike, InUse, validate_hintblock, validate_block
  <2>2. CASE ~InUse(d, h)
    BY <1>2, <2>2 DEF hintblock_state, InUse
  <2>. QED BY <2>1, <2>2
<1>. QED BY <1>2, <1>3, <1>4, <1>5 DEF SameExtent

(* So does its backup.                                                     *)
LEMMA SameBackup ==
  ASSUME NEW d \in [Positions -> Content], NEW e \in [Positions -> Content],
         NEW h \in HintPositions, BackupFollows(d, h),
         \A q \in Span(h) : Alike(d[q], e[q])
  PROVE  BackupFollows(e, h)
<1>1. h \in Span(h) /\ backup_location(h) \in Span(h) /\ DataCells(h) \subseteq Span(h)
  BY RegionFacts
<1>. QED BY <1>1 DEF BackupFollows, Alike, InUse, validate_hintblock, validate_block

(* A put changes nothing in another region.                                *)
LEMMA OtherRegion ==
  ASSUME NEW d \in [Positions -> Content], NEW h \in HintPositions, NEW p \in Span(h),
         NEW c \in Content, NEW g \in HintPositions, g # h, RegionInv(d, g)
  PROVE  /\ RegionInv([d EXCEPT ![p] = c], g)
         /\ SameExtent(d, [d EXCEPT ![p] = c], g)
         /\ \A q \in Span(g) : [d EXCEPT ![p] = c][q] = d[q]
<1>. DEFINE e == [d EXCEPT ![p] = c]
<1>1. e \in [Positions -> Content]
  BY RegionFacts
<1>2. \A q \in Span(g) : e[q] = d[q]
  BY SpansDisjoint, RegionFacts
<1>3. DataCells(g) \cup {g} \subseteq Span(g)
  BY RegionFacts
<1>. HIDE DEF e
<1>4. \A q \in Span(g) : Alike(d[q], e[q])
  BY <1>2 DEF Alike
<1>. QED BY <1>1, <1>2, <1>3, <1>4, SameRegion, SameBackup DEF RegionInv, e

-----------------------------------------------------------------------------
(* A data block put after the last block of a region, or on the first one  *)
(* of a full region, leaves the region what it was.                        *)
LEMMA PutCell ==
  ASSUME NEW d \in [Positions -> Content], NEW h \in HintPositions, RegionInv(d, h),
         NEW p \in DataCells(h), NEW c \in Content, validate_block(c),
         InUse(d, h) => \/ p \notin Written(d, h)
                        \/ /\ Full(d, h) /\ p = blockstart_min(h)
                           /\ c.ts > Highest(d, h)
  PROVE  /\ RegionInv([d EXCEPT ![p] = c], h)
         /\ SameExtent(d, [d EXCEPT ![p] = c], h)
<1>. DEFINE e == [d EXCEPT ![p] = c]
            min == blockstart_min(h)
<1>0. /\ h \in Nat /\ p \in Positions /\ p # h /\ p # backup_location(h)
      /\ h \in Positions /\ backup_location(h) \in Positions
      /\ DataCells(h) \subseteq Positions /\ min \in DataCells(h)
      /\ min < blockstart_max(h) /\ DataCells(h) \subseteq Nat
  BY RegionFacts
<1>1. /\ e[h] = d[h] /\ e[backup_location(h)] = d[backup_location(h)] /\ e[p] = c
      /\ \A q \in DataCells(h) : q # p => e[q] = d[q]
      /\ \A q \in Positions : e[q] \in Content
  BY <1>0
<1>. HIDE DEF e
<1>2. /\ InUse(e, h) <=> InUse(d, h)
      /\ Full(e, h) <=> Full(d, h)
      /\ Written(e, h) = Written(d, h)
  BY <1>1 DEF InUse, Full, Written
<1>3. ASSUME InUse(d, h)
      PROVE  d[h].prev \in DataCells(h) /\ d[h].prev # p
  BY <1>0, <1>3 DEF RegionInv, RegionAscends, Written, Full
<1>4. InUse(d, h) => Highest(e, h) = Highest(d, h)
  BY <1>1, <1>3 DEF Highest
<1>5. hintblock_state(e, h, FALSE) = hintblock_state(d, h, FALSE)
  <2>1. CASE InUse(d, h)
    BY <1>1, <1>2, <1>3, <2>1 DEF hintblock_state, InUse
  <2>2. CASE ~InUse(d, h)
    BY <1>2, <2>2 DEF hintblock_state, InUse
  <2>. QED BY <2>1, <2>2
<1>6. RegionAscends(e, h)
  <2>1. SUFFICES ASSUME InUse(d, h) PROVE RegionAscends(e, h)
    BY <1>2 DEF RegionAscends
  <2>2. CASE p \notin Written(d, h)
    <3>1. p # min
      BY <1>0, <1>3, <2>1, <2>2 DEF Written, DataCells
    <3>2. \A q \in Written(d, h) : e[q] = d[q]
      BY <1>1, <2>2 DEF Written
    <3>3. HasLeftover(e, h) <=> HasLeftover(d, h)
      BY <1>0, <1>1, <1>4, <2>1, <3>1 DEF HasLeftover
    <3>. QED BY <1>1, <1>2, <2>1, <3>2, <3>3
         DEF RegionInv, RegionAscends, IsLeftover
  <2>3. CASE Full(d, h) /\ p = min /\ c.ts > Highest(d, h)
    <3>1. HasLeftover(e, h)
      BY <1>1, <1>4, <2>1, <2>3 DEF HasLeftover
    <3>2. \A q \in Written(d, h) : q # min => e[q] = d[q]
      BY <1>1, <2>3 DEF Written
    <3>3. \A q \in Written(d, h) : min <= q /\ q \in Nat
      BY <1>0 DEF Written, DataCells
    <3>4. ASSUME NEW q \in Written(d, h), NEW r \in Written(d, h), q < r
          PROVE  e[q].ts < e[r].ts \/ IsLeftover(e, h, q)
      <4>1. CASE q = min
        BY <3>1, <4>1 DEF IsLeftover
      <4>2. CASE q # min
        BY <1>0, <2>1, <3>2, <3>3, <3>4, <4>2 DEF RegionInv, RegionAscends, IsLeftover
      <4>. QED BY <4>1, <4>2
    <3>5. \A q \in Written(d, h) : validate_block(e[q])
      BY <1>1, <2>1, <2>3, <3>2 DEF RegionInv, RegionAscends
    <3>. QED BY <1>1, <1>2, <2>1, <2>3, <3>4, <3>5 DEF RegionInv, RegionAscends
  <2>. QED BY <2>1, <2>2, <2>3
<1>7. BackupFollows(e, h)
  BY <1>1, <1>2 DEF RegionInv, BackupFollows
<1>. QED BY <1>1, <1>2, <1>4, <1>5, <1>6, <1>7 DEF RegionInv, SameExtent, e

(* The next place in a region beside its backup: no data block lies        *)
(* between the last one and it.                                            *)
LEMMA NextPlace ==
  ASSUME NEW d \in [Positions -> Content], NEW h \in HintPositions, RegionAscends(d, h),
         InUse(d, h), ~Full(d, h), NEW p, p = skip_backup(d[h].prev + 1, h)
  PROVE  /\ p \in DataCells(h) /\ p \notin Written(d, h) /\ p # blockstart_min(h)
         /\ d[h].prev < p
         /\ {q \in DataCells(h) : q <= p} = Written(d, h) \cup {p}
<1>. DEFINE last == d[h].prev
<1>1. h \in Nat /\ Spacing <= h /\ last \in DataCells(h) /\ last < blockstart_max(h)
  <2>1. last \in DataCells(h) /\ last # blockstart_max(h)
    BY DEF RegionAscends, Full
  <2>. QED BY <2>1, RegionFacts, HintPositionFacts DEF DataCells, blockstart_max
<1>. HIDE DEF last
<1>2. /\ p \in DataCells(h) /\ last < p /\ p # blockstart_min(h)
      /\ \A q \in DataCells(h) : q <= p <=> q <= last \/ q = p
  BY <1>1, HalfAssumption
  DEF skip_backup, DataCells, blockstart_min, blockstart_max, backup_location, Spacing, last
<1>. QED BY <1>1, <1>2 DEF Written, DataCells, last

(* The hint block of a region is made to name the block that was put.      *)
LEMMA PutHintblock ==
  ASSUME NEW d \in [Positions -> Content], NEW h \in HintPositions, RegionInv(d, h),
         NEW p \in DataCells(h), validate_block(d[p]),
         \/ p = blockstart_min(h) /\ (InUse(d, h) => Full(d, h))
         \/ /\ InUse(d, h) /\ ~Full(d, h) /\ p = skip_backup(d[h].prev + 1, h)
            /\ d[p].ts > Highest(d, h)
  PROVE  LET e == [d EXCEPT ![h] = HintBlock(p)] IN
         /\ RegionInv(e, h)
         /\ InUse(e, h) /\ e[h].prev = p
         /\ ~HasLeftover(e, h) /\ Highest(e, h) = d[p].ts
         /\ \A q \in DataCells(h) : e[q] = d[q]
         /\ Written(e, h) = IF InUse(d, h) /\ ~Full(d, h) THEN Written(d, h) \cup {p} ELSE {p}
<1>. DEFINE e == [d EXCEPT ![h] = HintBlock(p)]
            min == blockstart_min(h)
<1>0. /\ h \in Nat /\ p \in Positions /\ p # h
      /\ h \in Positions /\ backup_location(h) \in Positions /\ backup_location(h) # h
      /\ DataCells(h) \subseteq Positions /\ min \in DataCells(h) /\ h \notin DataCells(h)
      /\ DataCells(h) \subseteq Nat
  BY RegionFacts
<1>1. /\ e[h] = HintBlock(p) /\ e[backup_location(h)] = d[backup_location(h)]
      /\ \A q \in DataCells(h) : e[q] = d[q]
  BY <1>0
<1>. HIDE DEF e
<1>2. InUse(e, h) /\ e[h].prev = p
  BY <1>1 DEF InUse, HintBlock, validate_hintblock
<1>3. Highest(e, h) = d[p].ts
  BY <1>1, <1>2 DEF Highest
<1>4. \A q \in DataCells(h) : d[q].ts \in Nat
  BY <1>0, MaxTimeAssumption DEF Content, Time
<1>5. BackupFollows(e, h)
  BY <1>1, <1>2 DEF RegionInv, BackupFollows
<1>6. CASE p = min /\ (InUse(d, h) => Full(d, h))
  <2>1. Written(e, h) = {p}
    BY <1>0, <1>2, <1>6 DEF Written, DataCells
  <2>2. ~HasLeftover(e, h)
    BY <1>0, <1>1, <1>3, <1>4, <1>6 DEF HasLeftover
  <2>3. RegionAscends(e, h)
    BY <1>0, <1>1, <1>2, <2>1, <2>2 DEF RegionAscends
  <2>. QED BY <1>1, <1>2, <1>3, <1>5, <1>6, <2>1, <2>2, <2>3 DEF RegionInv, e
<1>7. CASE /\ InUse(d, h) /\ ~Full(d, h) /\ p = skip_backup(d[h].prev + 1, h)
           /\ d[p].ts > Highest(d, h)
  <2>1. Written(e, h) = Written(d, h) \cup {p}
    BY <1>2, <1>7, NextPlace DEF Written, RegionInv
  <2>2. /\ d[h].prev \in Written(d, h) /\ min \in Written(d, h)
        /\ Written(d, h) \subseteq DataCells(h)
    BY <1>0, <1>7 DEF Written, RegionInv, RegionAscends, DataCells
  <2>3. \A q \in Written(d, h) : q < p /\ d[q].ts <= Highest(d, h)
    <3>1. TAKE q \in Written(d, h)
    <3>2. q <= d[h].prev /\ d[h].prev < p
      BY <1>7, NextPlace DEF Written, RegionInv
    <3>3. q < d[h].prev => d[q].ts < d[d[h].prev].ts
      BY <1>7, <2>2 DEF RegionInv, RegionAscends, IsLeftover
    <3>. QED BY <1>0, <1>4, <2>2, <3>2, <3>3 DEF Highest
  <2>4. ~HasLeftover(e, h)
    BY <1>0, <1>1, <1>3, <1>4, <1>7, <2>2, <2>3 DEF HasLeftover, Highest
  <2>5. ASSUME NEW q \in Written(e, h), NEW r \in Written(e, h), q < r
        PROVE  e[q].ts < e[r].ts
    <3>1. CASE r = p
      BY <1>0, <1>1, <1>4, <1>7, <2>1, <2>2, <2>3, <2>5, <3>1 DEF Highest
    <3>2. CASE r # p
      <4>1. r \in Written(d, h) /\ q \in Written(d, h)
        BY <1>0, <2>1, <2>2, <2>3, <2>5, <3>2
      <4>. QED BY <1>1, <1>7, <2>2, <2>5, <4>1 DEF RegionInv, RegionAscends, IsLeftover
    <3>. QED BY <3>1, <3>2
  <2>6. \A q \in Written(e, h) : validate_block(e[q])
    BY <1>1, <1>7, <2>1, <2>2 DEF RegionInv, RegionAscends
  <2>7. RegionAscends(e, h)
    BY <1>2, <2>4, <2>5, <2>6 DEF RegionAscends
  <2>. QED BY <1>1, <1>2, <1>3, <1>5, <1>7, <2>1, <2>4, <2>7 DEF RegionInv, e
<1>. QED BY <1>6, <1>7

(* And its backup after it.                                                *)
LEMMA PutBackup ==
  ASSUME NEW d \in [Positions -> Content], NEW h \in HintPositions, RegionInv(d, h),
         NEW p \in DataCells(h), validate_block(d[p]), InUse(d, h)
  PROVE  LET e == [d EXCEPT ![backup_location(h)] = HintBlock(p)] IN
         RegionInv(e, h) /\ SameExtent(d, e, h)
<1>. DEFINE e == [d EXCEPT ![backup_location(h)] = HintBlock(p)]
            b == backup_location(h)
<1>0. /\ h \in Positions /\ b \in Positions /\ b # h /\ p \in Nat
      /\ DataCells(h) \subseteq Positions /\ b \notin DataCells(h)
  BY RegionFacts
<1>1. /\ e[b] = HintBlock(p)
      /\ \A q \in DataCells(h) \cup {h} : e[q] = d[q]
  BY <1>0
<1>2. e \in [Positions -> Content]
  BY <1>0, MaxTimeAssumption DEF HintBlock, Content, Kinds, Time
<1>. HIDE DEF e
<1>3. RegionAscends(e, h) /\ SameExtent(d, e, h)
  BY <1>1, <1>2, SameRegion DEF RegionInv, Alike
<1>4. BackupFollows(e, h)
  BY <1>1 DEF BackupFollows, HintBlock, InUse
<1>. QED BY <1>3, <1>4 DEF RegionInv, e

-----------------------------------------------------------------------------
(* An operation that ends leaves nothing seen and nothing to be put.       *)
LEMMA EndOpAscend ==
  ASSUME NEW code, EndOp(code), UNCHANGED <<header, op, faults>>, CalmInv
  PROVE  CalmInv' /\ SeenInv' /\ PassedInv' /\ PlaceInv'
BY DEF EndOp, CalmInv, SeenInv, PassedInv, PlaceInv

(* A step that ends an operation and leaves the device alone.              *)
LEMMA LastStepAscend ==
  ASSUME AscendInv, NEW code, EndOp(code), UNCHANGED <<device, op, faults>>
  PROVE  AscendInv'
<1>1. DeviceInv'
  BY DEF AscendInv, DeviceInv, device
<1>. QED BY <1>1, EndOpAscend DEF AscendInv, device

(* A step of a search or a scan that leaves the device alone.              *)
LEMMA InnerStepAscend ==
  ASSUME AscendInv, UNCHANGED <<device, op, faults>>, ~Putting', pass' # "clear",
         pc' \notin {"recover_main", "recover_backup"}, SeenInv', PassedInv'
  PROVE  AscendInv'
BY DEF AscendInv, DeviceInv, CalmInv, PlaceInv, Putting, device

(* Requests, on a device whose header is valid.                            *)
LEMMA RequestAscend ==
  ASSUME Undamaged, IInv, AscendInv, Request PROVE AscendInv'
<1>1. ASSUME NEW o \in Operations, o.kind # "clear", NEW p \in {"free", "oldest"},
             NEW refusal, BeginOp(o, p, refusal)
      PROVE  AscendInv'
  <2>1. /\ pc = "idle" /\ pc' = "hint" /\ pass' = p /\ op' = o
        /\ i' = loop_begin_orig /\ end' = DeviceSize
        /\ UNCHANGED <<device, cur, best, j, loc, faults>>
    BY <1>1 DEF BeginOp, AscendInv, CalmInv
  <2>2. best = NoState
    BY <2>1 DEF AscendInv, SeenInv, IInv, LocalInv, WriteInv
  <2>3. \A h \in HintPositions : ~(h < loop_begin_orig)
    BY HintPositionFacts, HalfAssumption DEF loop_begin_orig, Spacing
  <2>4. SeenInv' /\ PassedInv'
    BY <2>1, <2>2, <2>3 DEF SeenInv, PassedInv
  <2>. QED BY <1>1, <2>1, <2>4 DEF AscendInv, DeviceInv, CalmInv, PlaceInv, device
<1>. USE StampsAssumption, FakesAssumption, LimitsAssumption, MaxTimeAssumption
<1>2. ASSUME NEW ts \in Stamps, NEW fake \in Fakes, NEW fits \in BOOLEAN,
             NEW app \in SUBSET Flags, bdl_write_block(ts, fake, fits, app)
      PROVE  AscendInv'
  <2>. DEFINE o == Operation("write", ts, fake, fits, app, 0)
  <2>1. o \in Operations /\ o.kind # "clear"
    BY DEF Operations, Operation, OpKinds, Time
  <2>2. BeginOp(o, "free", "ERR_CORRUPT")
    BY <1>2 DEF bdl_write_block
  <2>. HIDE DEF o
  <2>. QED BY <1>1, <2>1, <2>2
<1>3. ASSUME NEW ts \in Stamps \cup {0}, NEW limit \in Limits, bdl_read_blocks(ts, limit)
      PROVE  AscendInv'
  <2>. DEFINE o == Operation("read", ts, 0, TRUE, {}, limit)
  <2>1. o \in Operations /\ o.kind # "clear"
    BY DEF Operations, Operation, OpKinds, Time
  <2>2. BeginOp(o, "oldest", "ERR")
    BY <1>3 DEF bdl_read_blocks
  <2>. HIDE DEF o
  <2>. QED BY <1>1, <2>1, <2>2
<1>4. ASSUME NEW ts \in Stamps \cup {0}, NEW mask \in SUBSET Flags,
             bdl_read_update_application_data(ts, mask)
      PROVE  AscendInv'
  <2>. DEFINE o == Operation("update", ts, 0, TRUE, mask, 0)
  <2>1. o \in Operations /\ o.kind # "clear"
    BY DEF Operations, Operation, OpKinds, Time
  <2>2. BeginOp(o, "oldest", "ERR_CORRUPT")
    BY <1>4 DEF bdl_read_update_application_data
  <2>. HIDE DEF o
  <2>. QED BY <1>1, <2>1, <2>2
<1>5. CASE bdl_clear_dev
  BY <1>5 DEF bdl_clear_dev, BeginOp, Operation, Undamaged
<1>6. CASE Return
  <2>1. /\ pc = "returned" /\ pc' = "idle" /\ op' = NoOp
        /\ UNCHANGED <<device, locals, faults>>
    BY <1>6 DEF Return
  <2>2. NoOp.kind # "clear"
    BY DEF NoOp, Operation
  <2>3. SeenInv' /\ PassedInv' /\ PlaceInv'
    BY <2>1 DEF AscendInv, SeenInv, PassedInv, PlaceInv, Putting, locals, IInv, LocalInv,
                WriteInv
  <2>. QED BY <2>1, <2>2, <2>3 DEF AscendInv, DeviceInv, CalmInv, device, locals
<1>. QED BY <1>2, <1>3, <1>4, <1>5, <1>6 DEF Request

-----------------------------------------------------------------------------
(* A valid backup has a valid hint block, so reading the state of a region *)
(* never leads to a recovery.                                              *)
LEMMA HintblockStateAscend ==
  ASSUME IInv, AscendInv, block_get_hintblock_state PROVE AscendInv'
<1>1. i \in HintPositions
  BY DEF IInv, LocalInv, block_get_hintblock_state, InLoop, LoopInv
<1>2. BackupFollows(dev, i)
  BY <1>1 DEF AscendInv, DeviceInv, RegionInv
<1>3. /\ pc = "hint" /\ pc' = "callback" /\ cur' = Region(i)
      /\ UNCHANGED <<device, pass, op, out, ret, i, begin, end, best, loc, j, newest, faults>>
  BY <1>2 DEF block_get_hintblock_state, InLoop, BackupFollows, InUse, Region
<1>4. SeenInv' /\ PassedInv'
  BY <1>3 DEF AscendInv, SeenInv, PassedInv, Putting, Region, device
<1>. QED BY <1>3, <1>4, InnerStepAscend DEF AscendInv, CalmInv, Putting

(* The loop goes on: what was true of the regions before i and of i is     *)
(* true of the regions before the next.                                    *)
LEMMA NextRegion ==
  ASSUME IInv, pc \in {"callback", "blocks"}, NEW h \in HintPositions, h < i + Spacing, h # i
  PROVE  h < i
<1>1. i \in HintPositions
  BY DEF IInv, LocalInv, LoopInv, InRegionStep
<1>2. i \in Nat /\ h \in Nat /\ (i < h => i + Spacing <= h)
  BY <1>1, HintPositionFacts, SpacesApart
<1>. QED BY <1>2, HalfAssumption DEF Spacing

(* The region the loop is at, as its callback sees it.                     *)
LEMMA CurrentRegion ==
  ASSUME IInv, AscendInv, pc \in {"callback", "blocks"}
  PROVE  /\ i \in HintPositions /\ RegionInv(dev, i)
         /\ cur = hintblock_state(dev, i, FALSE)
         /\ cur.location = i
         /\ cur.valid <=> InUse(dev, i)
         /\ InUse(dev, i) => cur.highest = Highest(dev, i) /\ cur.prev = dev[i].prev
         /\ ~InUse(dev, i) => cur.highest = 0
         /\ region_full(cur) <=> Full(dev, i)
<1>1. i \in HintPositions
  BY DEF IInv, LocalInv, LoopInv, InRegionStep
<1>2. RegionInv(dev, i) /\ dev \in [Positions -> Content]
  BY <1>1 DEF AscendInv, DeviceInv, IInv, DataType
<1>3. cur = hintblock_state(dev, i, FALSE)
  BY DEF AscendInv, SeenInv, Region
<1>4. RegionAscends(dev, i)
  BY <1>2 DEF RegionInv
<1>. QED BY <1>1, <1>2, <1>3, <1>4, RegionState

(* The search for a free location goes past a full region, or has found    *)
(* one of the first two places.                                            *)
LEMMA CheckFreeAscend ==
  ASSUME IInv, AscendInv, write_hintblock_check_free_callback PROVE AscendInv'
<1>1. /\ pc = "callback" /\ pass = "free" /\ ~Putting
      /\ UNCHANGED <<device, op, best, faults>>
  BY DEF write_hintblock_check_free_callback, Callback, Putting
<1>2. \A h \in HintPositions : h < i => Full(dev, h)
  BY <1>1 DEF AscendInv, PassedInv
<1>3. CASE region_full(cur)
  <2>1. pc' = "hint" /\ i' = i + Spacing /\ UNCHANGED <<pass, end, cur>>
    BY <1>3 DEF write_hintblock_check_free_callback, NextHintblock
  <2>2. Full(dev, i)
    BY <1>1, <1>3, CurrentRegion
  <2>3. \A h \in HintPositions : h < i + Spacing => Full(dev, h)
    BY <1>1, <1>2, <2>2, NextRegion
  <2>4. SeenInv' /\ PassedInv'
    BY <1>1, <2>1, <2>3 DEF AscendInv, SeenInv, PassedInv, Putting, device
  <2>. QED BY <1>1, <2>1, <2>4, InnerStepAscend DEF Putting
<1>4. CASE ~region_full(cur)
  <2>1. /\ pc' = "put_block" /\ loc' = free_location(cur)
        /\ UNCHANGED <<pass, i, end, cur, j>>
    BY <1>4 DEF write_hintblock_check_free_callback
  <2>2. /\ cur.location = i /\ cur = hintblock_state(dev, i, FALSE)
        /\ cur.valid <=> InUse(dev, i)
        /\ InUse(dev, i) => cur.prev = dev[i].prev
        /\ ~Full(dev, i)
    BY <1>1, <1>4, CurrentRegion
  <2>3. PlaceInv'
    BY <1>1, <1>2, <2>1, <2>2
    DEF PlaceInv, PlaceFor, free_location, Region, device
  <2>4. SeenInv' /\ PassedInv'
    BY <1>1, <2>1 DEF AscendInv, SeenInv, PassedInv, Putting
  <2>. QED BY <1>1, <2>1, <2>3, <2>4 DEF AscendInv, DeviceInv, CalmInv, device
<1>. QED BY <1>3, <1>4

(* The searches for the region with the lowest timestamp.                  *)
LEMMA SearchAscend ==
  ASSUME IInv, AscendInv,
         \/ write_hintblock_check_timestamps
         \/ block_find_oldest_hintblock_loop_callback
  PROVE  AscendInv'
<1>1. /\ pc = "callback" /\ pass \in {"stamps", "oldest"} /\ ~Putting
      /\ UNCHANGED <<device, op, faults, pass, end, cur>>
      /\ pc' = "hint" /\ best' \in {best, cur}
  BY DEF write_hintblock_check_timestamps, block_find_oldest_hintblock_loop_callback,
         Callback, NextHintblock, Putting
<1>2. cur = Region(i) /\ cur = Region(cur.location)
  BY <1>1, CurrentRegion DEF AscendInv, SeenInv
<1>3. SeenInv' /\ PassedInv'
  BY <1>1, <1>2 DEF AscendInv, SeenInv, PassedInv, Putting, Region, device
<1>. QED BY <1>1, <1>3, InnerStepAscend DEF Putting

(* The scan.                                                               *)
LEMMA ScanAscend ==
  ASSUME IInv, AscendInv, scan_hintblock_loop_callback PROVE AscendInv'
<1>1. /\ pc = "callback" /\ pass = "scan" /\ UNCHANGED <<device, op, faults>>
  BY DEF scan_hintblock_loop_callback, Callback
<1>2. CASE EndOp("ok")
  BY <1>1, <1>2, LastStepAscend
<1>3. CASE ~EndOp("ok")
  <2>1. /\ UNCHANGED <<pass, end, cur, best>>
        /\ \/ pc' = "hint"
           \/ pc' = "blocks" /\ i' = i /\ j' = blockstart_min(i) /\ cur.valid
    BY <1>3 DEF scan_hintblock_loop_callback, NextHintblock
  <2>2. HintPositions \subseteq Nat /\ blockstart_min(i) \in Nat
    BY <1>1, CurrentRegion, RegionFacts DEF DataCells, HintPositions
  <2>3. pass' = "scan" /\ best' = NoState
    BY <1>1, <2>1 DEF AscendInv, SeenInv
  <2>4. pc' = "blocks" => cur' = Region(i)' /\ cur'.valid /\ j' >= blockstart_min(i')
    <3>1. SUFFICES ASSUME pc' = "blocks"
                   PROVE  cur' = Region(i)' /\ cur'.valid /\ j' >= blockstart_min(i')
      OBVIOUS
    <3>2. i' = i /\ j' = blockstart_min(i) /\ cur.valid /\ cur' = cur
      BY <2>1, <3>1
    <3>3. cur' = Region(i)'
      BY <1>1, <3>2 DEF AscendInv, SeenInv, Region, device
    <3>. QED BY <2>2, <3>2, <3>3
  <2>5. SeenInv' /\ PassedInv'
    BY <2>1, <2>3, <2>4 DEF SeenInv, PassedInv
  <2>. QED BY <1>1, <2>1, <2>3, <2>5, InnerStepAscend DEF Putting
<1>. QED BY <1>2, <1>3

-----------------------------------------------------------------------------
(* The end of the loop over the hint blocks.  A write that has gone past   *)
(* all regions has found all of them full.                                 *)
LEMMA LoopEndAscend ==
  ASSUME IInv, AscendInv,
         \/ write_find_location_oldest \/ write_find_location_end
         \/ block_find_oldest_hintblock
         \/ block_loop_hintblocks_second_round \/ block_loop_hintblocks_end
  PROVE  AscendInv'
<1>1. pc = "hint" /\ i >= end /\ UNCHANGED <<device, op, faults>>
  BY DEF write_find_location_oldest, write_find_location_end, block_find_oldest_hintblock,
         block_loop_hintblocks_second_round, block_loop_hintblocks_end, LoopDone, device
<1>2. ASSUME NEW p \in {"stamps", "scan"}, NEW first, BeginLoop(p, first),
             p = "stamps" => AllFull(dev)
      PROVE  AscendInv'
  <2>1. pc' = "hint" /\ pass' = p /\ end' = DeviceSize /\ best' = NoState
    BY <1>2 DEF BeginLoop
  <2>2. SeenInv' /\ PassedInv'
    BY <1>1, <1>2, <2>1 DEF SeenInv, PassedInv, device
  <2>. QED BY <1>1, <1>2, <2>1, <2>2, InnerStepAscend DEF Putting
<1>3. CASE write_find_location_oldest
  <2>1. AllFull(dev)
    <3>1. pass = "free" /\ ~Putting /\ end = DeviceSize
      BY <1>1, <1>3 DEF write_find_location_oldest, LoopDone, AscendInv, PassedInv, Putting
    <3>2. \A h \in HintPositions : h < i
      BY <1>1, <3>1, HintPositionFacts, SizeAssumption DEF IInv, LocalInv, LocalType
    <3>. QED BY <3>1, <3>2 DEF AscendInv, PassedInv, AllFull
  <2>. QED BY <1>2, <1>3, <2>1 DEF write_find_location_oldest
<1>4. CASE write_find_location_end
  <2>1. CASE best # NoState
    <3>1. /\ pass = "stamps" /\ ~Putting /\ pc' = "put_block"
          /\ loc' = blockstart_min(best.location) /\ cur' = best
          /\ UNCHANGED <<pass, end, best>>
      BY <1>1, <1>4, <2>1 DEF write_find_location_end, LoopDone, Putting
    <3>2. best = Region(best.location) /\ AllFull(dev)
      BY <2>1, <3>1 DEF AscendInv, SeenInv, PassedInv
    <3>3. PlaceInv'
      BY <1>1, <3>1, <3>2 DEF PlaceInv, PlaceFor, Region, device
    <3>4. SeenInv' /\ PassedInv'
      BY <1>1, <3>1 DEF AscendInv, SeenInv, PassedInv, Putting
    <3>. QED BY <1>1, <3>1, <3>3, <3>4 DEF AscendInv, DeviceInv, CalmInv, device
  <2>2. CASE best = NoState
    BY <1>1, <1>4, <2>2, LastStepAscend DEF write_find_location_end
  <2>. QED BY <2>1, <2>2
<1>5. CASE block_find_oldest_hintblock
  <2>1. BeginLoop("scan", best.location) \/ EndOp("ok")
    BY <1>5 DEF block_find_oldest_hintblock
  <2>2. CASE BeginLoop("scan", best.location)
    BY <1>2, <2>2
  <2>3. CASE EndOp("ok")
    BY <1>1, <2>3, LastStepAscend
  <2>. QED BY <2>1, <2>2, <2>3
<1>6. CASE block_loop_hintblocks_second_round
  <2>1. pass = "scan" /\ pc' = "hint" /\ UNCHANGED <<pass, best>>
    BY <1>1, <1>6 DEF block_loop_hintblocks_second_round, LoopDone
  <2>2. SeenInv' /\ PassedInv'
    BY <2>1 DEF AscendInv, SeenInv, PassedInv
  <2>. QED BY <1>1, <2>1, <2>2, InnerStepAscend DEF Putting
<1>7. CASE block_loop_hintblocks_end
  BY <1>1, <1>7, LastStepAscend DEF block_loop_hintblocks_end
<1>. QED BY <1>3, <1>4, <1>5, <1>6, <1>7

-----------------------------------------------------------------------------
(* The loop over the blocks goes on.                                       *)
LEMMA NextBlockSeen ==
  ASSUME IInv, AscendInv, pc = "blocks", pass = "scan", NextBlock,
         Region(i)' = Region(i)
  PROVE  SeenInv' /\ PassedInv'
<1>1. /\ pc' = "blocks" /\ pass' = "scan" /\ j' = j + 1
      /\ UNCHANGED <<i, end, cur, best>>
  BY DEF NextBlock
<1>2. j' >= blockstart_min(i')
  <2>1. i \in Nat /\ j \in Nat /\ j >= blockstart_min(i)
    BY DEF AscendInv, SeenInv, IInv, LocalInv, LocalType
  <2>. QED BY <1>1, <2>1, HalfAssumption DEF blockstart_min, Spacing
<1>. QED BY <1>1, <1>2 DEF AscendInv, SeenInv, PassedInv

(* And leaves the device alone, but for an update.                         *)
LEMMA BlockLoopAscend ==
  ASSUME IInv, ExitInv, AscendInv,
         \/ block_loop_blocks_skip_backup \/ block_loop_blocks_invalid
         \/ block_loop_blocks_end \/ read_block_loop_callback
  PROVE  AscendInv'
<1>1. /\ pc = "blocks" /\ pass = "scan" /\ ~Putting
      /\ UNCHANGED <<device, op, faults>>
  BY DEF block_loop_blocks_skip_backup, block_loop_blocks_invalid, block_loop_blocks_end,
         read_block_loop_callback, AtBlock, ExitInv, FoundInv, Putting
<1>2. NextBlock \/ EndOp("ok") \/ EndOp("exit") \/ (NextHintblock /\ UNCHANGED best)
  BY DEF block_loop_blocks_skip_backup, block_loop_blocks_invalid, block_loop_blocks_end,
         read_block_loop_callback, AfterBlocks
<1>3. CASE NextBlock
  <2>1. Region(i)' = Region(i) /\ pc' = "blocks" /\ pass' = "scan"
    BY <1>1, <1>3 DEF Region, NextBlock, device
  <2>. QED BY <1>1, <1>3, <2>1, NextBlockSeen, InnerStepAscend DEF Putting
<1>4. CASE EndOp("ok") \/ EndOp("exit")
  BY <1>1, <1>4, LastStepAscend
<1>5. CASE NextHintblock /\ UNCHANGED best
  <2>1. pc' = "hint" /\ pass' = "scan" /\ best' = best
    BY <1>1, <1>5 DEF NextHintblock
  <2>2. SeenInv' /\ PassedInv'
    BY <1>1, <2>1 DEF AscendInv, SeenInv, PassedInv
  <2>. QED BY <1>1, <2>1, <2>2, InnerStepAscend DEF Putting
<1>. QED BY <1>2, <1>3, <1>4, <1>5

(* The loop is at a block of the region it is in.                          *)
LEMMA AtBlockWritten ==
  ASSUME IInv, AscendInv, AtBlock
  PROVE  /\ i \in HintPositions /\ InUse(dev, i) /\ RegionInv(dev, i)
         /\ j \in Written(dev, i) /\ j \in DataCells(i)
         /\ validate_block(dev[j])
<1>1. pc = "blocks" /\ ~PastLastBlock /\ j # backup_location(i)
  BY DEF AtBlock
<1>2. /\ i \in HintPositions /\ RegionInv(dev, i) /\ InUse(dev, i)
      /\ cur.prev = dev[i].prev
  BY <1>1, CurrentRegion DEF AscendInv, SeenInv
<1>3. j >= blockstart_min(i) /\ j <= blockstart_max(i) /\ j <= cur.prev
  BY <1>1, <1>2, RegionFacts, HintPositionFacts
  DEF PastLastBlock, AscendInv, SeenInv, IInv, LocalInv, LocalType, HintblockState,
      blockstart_max
<1>4. j \in DataCells(i)
  BY <1>1, <1>2, <1>3, HintPositionFacts, HalfAssumption
  DEF DataCells, blockstart_min, blockstart_max, Spacing, IInv, LocalInv, LocalType
<1>5. j \in Written(dev, i)
  BY <1>2, <1>3, <1>4 DEF Written
<1>. QED BY <1>2, <1>4, <1>5 DEF RegionInv, RegionAscends

(* What a put does to the regions, from what it does to its own.           *)
LEMMA DevicePut ==
  ASSUME IInv, DeviceInv, NEW h \in HintPositions, NEW p \in Span(h), NEW c \in Content,
         dev' = [dev EXCEPT ![p] = c], RegionInv(dev', h),
         InUse(dev, h) => InUse(dev', h),
         InUse(dev', h) =>
           InUse(dev, h) \/ \A g \in HintPositions : g < h => InUse(dev, g)
  PROVE  /\ DeviceInv'
         /\ \A g \in HintPositions : g # h => SameExtent(dev, dev', g)
<1>1. ASSUME NEW g \in HintPositions, g # h
      PROVE  RegionInv(dev', g) /\ SameExtent(dev, dev', g)
  <2>1. dev \in [Positions -> Content] /\ RegionInv(dev, g)
    BY DEF IInv, DataType, DeviceInv
  <2>2. /\ RegionInv([dev EXCEPT ![p] = c], g)
        /\ SameExtent(dev, [dev EXCEPT ![p] = c], g)
    BY <1>1, <2>1, OtherRegion, ZenonT(60)
  <2>. DEFINE e == [dev EXCEPT ![p] = c]
  <2>3. RegionInv(e, g) /\ SameExtent(dev, e, g)
    BY <2>2
  <2>4. dev' = e
    OBVIOUS
  <2>. HIDE DEF e
  <2>. QED BY <2>3, <2>4
<1>2. \A g \in HintPositions : g # h => (InUse(dev', g) <=> InUse(dev, g))
  BY <1>1 DEF SameExtent
<1>3. UsedInOrder(dev')
  BY <1>2 DEF DeviceInv, UsedInOrder
<1>4. \A g \in HintPositions : RegionInv(dev', g)
  BY <1>1
<1>. QED BY <1>1, <1>3, <1>4 DEF DeviceInv

(* An update leaves every region what it was.                              *)
LEMMA UpdatePut ==
  ASSUME IInv, AscendInv, update_block_loop_callback
  PROVE  /\ DeviceInv'
         /\ \A h \in HintPositions : SameExtent(dev, dev', h)
         /\ \A p \in Positions : dev'[p].ts = dev[p].ts
<1>1. CASE dev' = dev
  BY <1>1 DEF AscendInv, DeviceInv, SameExtent
<1>2. CASE \E app \in SUBSET Flags : dev' = [dev EXCEPT ![j] = Updated(dev[j], app)]
  <2>1. PICK app \in SUBSET Flags : dev' = [dev EXCEPT ![j] = Updated(dev[j], app)]
    BY <1>2
  <2>. DEFINE c == Updated(dev[j], app)
  <2>2. /\ i \in HintPositions /\ RegionInv(dev, i)
        /\ j \in DataCells(i) /\ validate_block(dev[j]) /\ j \in Span(i) /\ j \in Positions
        /\ dev \in [Positions -> Content]
    BY AtBlockWritten, RegionFacts DEF update_block_loop_callback, IInv, DataType
  <2>3. c \in Content /\ Alike(dev[j], c) /\ c.ts = dev[j].ts
    BY <2>2 DEF Updated, Block, Content, Kinds, Alike, validate_block
  <2>. HIDE DEF c
  <2>4. dev' = [dev EXCEPT ![j] = c] /\ dev' \in [Positions -> Content]
    BY <2>1, <2>2, <2>3 DEF c
  <2>5. /\ \A q \in Span(i) : Alike(dev[q], dev'[q])
        /\ \A q \in Positions : dev'[q].ts = dev[q].ts
    BY <2>2, <2>3, <2>4, RegionFacts DEF Alike
  <2>6. DataCells(i) \cup {i} \subseteq Span(i)
    BY <2>2, RegionFacts
  <2>7. RegionInv(dev', i) /\ SameExtent(dev, dev', i)
    BY <2>2, <2>4, <2>5, <2>6, SameRegion, SameBackup DEF RegionInv
  <2>8. InUse(dev', i) <=> InUse(dev, i)
    BY <2>7 DEF SameExtent
  <2>9. DeviceInv' /\ \A g \in HintPositions : g # i => SameExtent(dev, dev', g)
    BY <2>2, <2>3, <2>4, <2>7, <2>8, DevicePut DEF AscendInv
  <2>. QED BY <2>5, <2>7, <2>9
<1>. QED BY <1>1, <1>2 DEF update_block_loop_callback

(* So it leaves everything it has seen what it was.                        *)
LEMMA UpdateAscend ==
  ASSUME IInv, ExitInv, AscendInv, update_block_loop_callback PROVE AscendInv'
<1>1. /\ pc = "blocks" /\ pass = "scan" /\ ~Putting /\ AtBlock
      /\ UNCHANGED <<header, op, faults>>
  BY DEF update_block_loop_callback, AtBlock, ExitInv, FoundInv, Putting
<1>2. NextBlock \/ EndOp("ok") \/ EndOp("ERR")
  BY DEF update_block_loop_callback
<1>3. DeviceInv' /\ hintblock_state(dev', i, FALSE) = Region(i)
  BY <1>1, UpdatePut, AtBlockWritten DEF SameExtent, Region
<1>4. CASE NextBlock
  <2>1. pc' = "blocks" /\ pass' = "scan" /\ i' = i
    BY <1>1, <1>4 DEF NextBlock
  <2>2. Region(i)' = Region(i)
    BY <1>3, <2>1 DEF Region
  <2>3. SeenInv' /\ PassedInv'
    BY <1>1, <1>4, <2>1, <2>2, NextBlockSeen
  <2>. QED BY <1>1, <1>3, <2>1, <2>3 DEF AscendInv, CalmInv, PlaceInv
<1>5. CASE EndOp("ok") \/ EndOp("ERR")
  BY <1>1, <1>3, <1>5, EndOpAscend DEF AscendInv
<1>. QED BY <1>2, <1>4, <1>5

-----------------------------------------------------------------------------
(* Once the timestamp was checked or corrected, a new block is later than  *)
(* the last one of its region.                                             *)
LEMMA NewBlockLater ==
  ASSUME StampsHaveRoom, IInv, ExitInv, ReadyToPut
  PROVE  NewBlock.ts > cur.highest
<1>1. op.ts \in Nat /\ cur.highest \in Nat
  BY MaxTimeAssumption
  DEF IInv, DataType, Operations, LocalInv, LocalType, HintblockState, Time
<1>2. NewBlock.ts = Stamp(op.ts, cur.highest)
  BY DEF NewBlock, Block
<1>3. CASE cur.highest < op.ts
  BY <1>1, <1>2, <1>3 DEF Stamp
<1>4. CASE cur.highest >= op.ts
  <2>1. op.ts \in Stamps /\ op.fake \in Fakes
    BY DEF IInv, LocalInv, WriteInv, ExitInv, AskedInv, ReadyToPut, Putting
  <2>2. op.ts + op.fake + 1 < MaxTime
    BY <2>1, Zenon DEF StampsHaveRoom
  <2>3. op.fake \in Nat /\ MaxTime \in Nat
    BY MaxTimeAssumption DEF IInv, DataType, Operations
  <2>4. cur.highest - op.ts <= op.fake
    BY <1>1, <1>4, <2>3 DEF ReadyToPut, TimestampError
  <2>5. cur.highest + 1 < MaxTime + 1
    BY <1>1, <2>2, <2>3, <2>4
  <2>6. (cur.highest + 1) % (MaxTime + 1) = cur.highest + 1
    BY <1>1, <2>3, <2>5
  <2>. QED BY <1>1, <1>2, <1>4, <2>6 DEF Stamp
<1>. QED BY <1>1, <1>3, <1>4

(* The place of a write, as the state of its region describes it.          *)
LEMMA PlaceFacts ==
  ASSUME IInv, AscendInv, pc \in {"put_block", "put_hint"}
  PROVE  /\ cur.location \in HintPositions /\ RegionInv(dev, cur.location)
         /\ loc \in DataCells(cur.location)
         /\ InUse(dev, cur.location) =>
              \/ loc \notin Written(dev, cur.location) /\ ~Full(dev, cur.location)
                 /\ loc = skip_backup(dev[cur.location].prev + 1, cur.location)
              \/ AllFull(dev) /\ Full(dev, cur.location)
                 /\ loc = blockstart_min(cur.location)
         /\ ~InUse(dev, cur.location) =>
              /\ loc = blockstart_min(cur.location)
              /\ \A g \in HintPositions : g < cur.location => InUse(dev, g)
<1>. DEFINE h == cur.location
<1>1. h \in HintPositions
  BY DEF IInv, LocalInv, PutInv, Putting
<1>2. RegionInv(dev, h) /\ dev \in [Positions -> Content]
  BY <1>1 DEF AscendInv, DeviceInv, IInv, DataType
<1>3. PlaceFor(h)
  BY DEF AscendInv, PlaceInv
<1>. HIDE DEF h
<1>4. CASE InUse(dev, h) /\ ~Full(dev, h)
  <2>1. loc = skip_backup(dev[h].prev + 1, h)
    BY <1>1, <1>3, <1>4 DEF PlaceFor, AllFull
  <2>. QED BY <1>1, <1>2, <1>4, <2>1, NextPlace DEF RegionInv, h
<1>5. CASE Full(dev, h)
  BY <1>1, <1>2, <1>3, <1>5, RegionFacts DEF PlaceFor, Full, h
<1>6. CASE ~InUse(dev, h)
  BY <1>1, <1>2, <1>3, <1>6, RegionFacts DEF PlaceFor, AllFull, Full, h
<1>. QED BY <1>4, <1>5, <1>6

(* What the write knows of the region before it puts.                      *)
LEMMA PlaceState ==
  ASSUME IInv, AscendInv, pc = "put_block"
  PROVE  /\ InUse(dev, cur.location) => cur.highest = Highest(dev, cur.location)
         /\ ~InUse(dev, cur.location) => cur.highest = 0
<1>. DEFINE h == cur.location
            st == hintblock_state(dev, h, FALSE)
<1>1. h \in HintPositions /\ RegionAscends(dev, h) /\ dev \in [Positions -> Content]
  BY PlaceFacts DEF RegionInv, IInv, DataType
<1>2. cur = st
  BY DEF AscendInv, PlaceInv, Region
<1>. HIDE DEF h
<1>3. /\ InUse(dev, h) => st.highest = Highest(dev, h)
      /\ ~InUse(dev, h) => st.highest = 0
  BY <1>1, RegionState
<1>. HIDE DEF st
<1>4. /\ InUse(dev, h) => cur.highest = Highest(dev, h)
      /\ ~InUse(dev, h) => cur.highest = 0
  BY <1>2, <1>3
<1>. QED BY <1>4 DEF h

(* The data block.                                                         *)
LEMMA PutBlockAscend ==
  ASSUME StampsHaveRoom, IInv, ExitInv, AscendInv, write_checksum_and_put_block
  PROVE  AscendInv'
<1>. DEFINE h == cur.location
<1>1. /\ pc = "put_block" /\ ReadyToPut /\ UNCHANGED <<header, op, faults>>
  BY DEF write_checksum_and_put_block, ReadyToPut
<1>2. CASE FunnyLocation \/ ~io_writable(loc)
  <2>1. dev' = dev /\ (EndOp("exit") \/ EndOp("ERR"))
    BY <1>2 DEF write_checksum_and_put_block
  <2>. QED BY <1>1, <2>1, LastStepAscend DEF device
<1>3. CASE ~FunnyLocation /\ io_writable(loc)
  <2>1. /\ dev' = [dev EXCEPT ![loc] = NewBlock]
        /\ pc' = "put_hint" /\ UNCHANGED <<locals, ret>>
    BY <1>3 DEF write_checksum_and_put_block
  <2>2. NewBlock \in Content /\ validate_block(NewBlock)
    BY NewBlockFacts DEF validate_block
  <2>3. /\ h \in HintPositions /\ RegionInv(dev, h) /\ loc \in DataCells(h)
        /\ loc \in Span(h) /\ loc \in Positions /\ dev \in [Positions -> Content]
    BY <1>1, PlaceFacts, RegionFacts DEF IInv, DataType
  <2>4. InUse(dev, h) => cur.highest = Highest(dev, h)
    BY <1>1, PlaceState
  <2>5. InUse(dev, h) => NewBlock.ts > Highest(dev, h)
    BY <1>1, <2>4, NewBlockLater
  <2>6. InUse(dev, h) => \/ loc \notin Written(dev, h)
                         \/ Full(dev, h) /\ loc = blockstart_min(h)
    BY <1>1, PlaceFacts
  <2>. DEFINE c == NewBlock
              p == loc
  <2>. HIDE DEF c, p, h
  <2>7. RegionInv(dev', h) /\ SameExtent(dev, dev', h)
    <3>1. dev' = [dev EXCEPT ![p] = c]
      BY <2>1 DEF c, p
    <3>2. p \in DataCells(h) /\ validate_block(c) /\ c \in Content
      BY <2>2, <2>3 DEF c, p
    <3>3. InUse(dev, h) => \/ p \notin Written(dev, h)
                           \/ Full(dev, h) /\ p = blockstart_min(h) /\ c.ts > Highest(dev, h)
      BY <2>5, <2>6 DEF c, p
    <3>4. /\ RegionInv([dev EXCEPT ![p] = c], h)
          /\ SameExtent(dev, [dev EXCEPT ![p] = c], h)
      BY <2>3, <3>2, <3>3, PutCell
    <3>. QED BY <3>1, <3>4
  <2>8. InUse(dev', h) <=> InUse(dev, h)
    BY <2>7 DEF SameExtent
  <2>9. /\ DeviceInv'
        /\ \A g \in HintPositions : SameExtent(dev, dev', g)
    BY <2>1, <2>2, <2>3, <2>7, <2>8, DevicePut DEF AscendInv
  <2>10. PlaceFor(h)'
    <3>1. PlaceFor(h) /\ loc' = loc /\ h' = h
      BY <1>1, <2>1 DEF AscendInv, PlaceInv, locals, h
    <3>2. \A g \in HintPositions :
             /\ InUse(dev', g) <=> InUse(dev, g)
             /\ Full(dev', g) <=> Full(dev, g)
             /\ InUse(dev, g) => dev'[g].prev = dev[g].prev
      BY <2>9 DEF SameExtent
    <3>. QED BY <2>3, <3>1, <3>2 DEF PlaceFor, AllFull
  <2>11. /\ dev'[loc] = NewBlock
         /\ InUse(dev', h) => dev'[loc].ts > Highest(dev', h)
    BY <2>1, <2>3, <2>5, <2>7 DEF SameExtent
  <2>12. PlaceInv'
    BY <2>1, <2>2, <2>10, <2>11 DEF PlaceInv, locals, h
  <2>13. SeenInv' /\ PassedInv'
    BY <1>1, <2>1 DEF AscendInv, SeenInv, PassedInv, Putting, locals
  <2>. QED BY <1>1, <2>1, <2>9, <2>12, <2>13 DEF AscendInv, CalmInv, locals
<1>. QED BY <1>2, <1>3

(* The hint block of its region.                                           *)
LEMMA PutHintAscend ==
  ASSUME IInv, AscendInv, write_update_hintblock
  PROVE  AscendInv'
<1>. DEFINE h == cur.location
<1>1. /\ pc = "put_hint" /\ UNCHANGED <<header, op, faults>>
  BY DEF write_update_hintblock
<1>2. CASE ~io_writable(h)
  BY <1>1, <1>2, LastStepAscend DEF write_update_hintblock, device
<1>3. CASE io_writable(h)
  <2>1. /\ dev' = [dev EXCEPT ![h] = HintBlock(loc)]
        /\ pc' = "put_backup" /\ UNCHANGED <<locals, ret>>
    BY <1>3 DEF write_update_hintblock
  <2>2. /\ h \in HintPositions /\ RegionInv(dev, h) /\ loc \in DataCells(h)
        /\ h \in Span(h) /\ h \in Positions /\ dev \in [Positions -> Content]
        /\ loc \in Nat
    BY <1>1, PlaceFacts, RegionFacts DEF IInv, DataType
  <2>3. /\ validate_block(dev[loc])
        /\ \/ loc = blockstart_min(h) /\ (InUse(dev, h) => Full(dev, h))
           \/ /\ InUse(dev, h) /\ ~Full(dev, h) /\ loc = skip_backup(dev[h].prev + 1, h)
              /\ dev[loc].ts > Highest(dev, h)
    BY <1>1, PlaceFacts DEF AscendInv, PlaceInv
  <2>4. /\ RegionInv([dev EXCEPT ![h] = HintBlock(loc)], h)
        /\ InUse([dev EXCEPT ![h] = HintBlock(loc)], h)
        /\ [dev EXCEPT ![h] = HintBlock(loc)][h].prev = loc
    <3>. DEFINE p == loc
    <3>. HIDE DEF p, h
    <3>1. /\ p \in DataCells(h) /\ validate_block(dev[p])
          /\ \/ p = blockstart_min(h) /\ (InUse(dev, h) => Full(dev, h))
             \/ /\ InUse(dev, h) /\ ~Full(dev, h) /\ p = skip_backup(dev[h].prev + 1, h)
                /\ dev[p].ts > Highest(dev, h)
      BY <2>2, <2>3 DEF p
    <3>2. /\ RegionInv([dev EXCEPT ![h] = HintBlock(p)], h)
          /\ InUse([dev EXCEPT ![h] = HintBlock(p)], h)
          /\ [dev EXCEPT ![h] = HintBlock(p)][h].prev = p
      BY <2>2, <3>1, PutHintblock
    <3>. QED BY <3>2 DEF p
  <2>5. RegionInv(dev', h) /\ InUse(dev', h) /\ dev'[h].prev = loc
    BY <2>1, <2>4
  <2>6. HintBlock(loc) \in Content
    BY <2>2, MaxTimeAssumption DEF HintBlock, Content, Kinds, Time
  <2>7. InUse(dev, h) \/ \A g \in HintPositions : g < h => InUse(dev, g)
    BY <1>1, PlaceFacts
  <2>8. DeviceInv'
    <3>. DEFINE c == HintBlock(loc)
    <3>. HIDE DEF c, h
    <3>1. dev' = [dev EXCEPT ![h] = c] /\ c \in Content
      BY <2>1, <2>6 DEF c
    <3>. QED BY <2>2, <2>5, <2>7, <3>1, DevicePut DEF AscendInv
  <2>9. PlaceInv' /\ SeenInv' /\ PassedInv'
    BY <1>1, <2>1, <2>5 DEF AscendInv, PlaceInv, SeenInv, PassedInv, Putting, locals
  <2>. QED BY <1>1, <2>1, <2>8, <2>9 DEF AscendInv, CalmInv, locals
<1>. QED BY <1>2, <1>3

(* And its backup.                                                         *)
LEMMA BackupPut ==
  ASSUME IInv, AscendInv, write_update_hintblock_backup
  PROVE  /\ DeviceInv'
         /\ \A g \in HintPositions : SameExtent(dev, dev', g)
         /\ \A g \in HintPositions : \A q \in DataCells(g) : dev'[q] = dev[q]
         /\ \A q \in Positions : dev'[q] = dev[q] \/ dev'[q].ts = 0
<1>. DEFINE h == cur.location
            b == backup_location(h)
            p == loc
<1>1. CASE dev' = dev
  BY <1>1 DEF AscendInv, DeviceInv, SameExtent
<1>2. CASE dev' = [dev EXCEPT ![b] = HintBlock(p)]
  <2>1. pc = "put_backup" /\ h \in HintPositions
    BY DEF write_update_hintblock_backup, IInv, LocalInv, PutInv, Putting
  <2>2. /\ RegionInv(dev, h) /\ InUse(dev, h) /\ dev[h].prev = loc
        /\ b \in Span(h) /\ b \in Positions /\ dev \in [Positions -> Content]
    BY <2>1, RegionFacts, HintPositionFacts
    DEF AscendInv, DeviceInv, PlaceInv, IInv, DataType
  <2>3. loc \in DataCells(h) /\ validate_block(dev[loc])
    BY <2>2 DEF RegionInv, RegionAscends, Written, DataCells
  <2>4. \A g \in HintPositions : b \notin DataCells(g)
    <3>1. \A g \in HintPositions : g # h => b \notin Span(g)
      BY <2>1, <2>2, SpansDisjoint
    <3>. QED BY <2>1, <3>1, RegionFacts
  <2>. HIDE DEF p, h
  <2>5. /\ RegionInv([dev EXCEPT ![b] = HintBlock(p)], h)
        /\ SameExtent(dev, [dev EXCEPT ![b] = HintBlock(p)], h)
    BY <2>1, <2>2, <2>3, PutBackup DEF p
  <2>6. RegionInv(dev', h) /\ InUse(dev', h) /\ SameExtent(dev, dev', h)
    BY <1>2, <2>2, <2>5 DEF SameExtent
  <2>. DEFINE c == HintBlock(p)
  <2>7. c \in Content /\ c.ts = 0
    BY <2>1, <2>3, RegionFacts, MaxTimeAssumption DEF HintBlock, Content, Kinds, Time, p
  <2>. HIDE DEF c, b
  <2>8. dev' = [dev EXCEPT ![b] = c]
    BY <1>2 DEF c
  <2>9. DeviceInv' /\ \A g \in HintPositions : g # h => SameExtent(dev, dev', g)
    BY <2>1, <2>2, <2>6, <2>7, <2>8, DevicePut DEF AscendInv
  <2>10. \A g \in HintPositions : \A q \in DataCells(g) : dev'[q] = dev[q]
    BY <2>2, <2>4, <2>8, RegionFacts
  <2>11. \A q \in Positions : dev'[q] = dev[q] \/ dev'[q].ts = 0
    BY <2>2, <2>7, <2>8
  <2>. QED BY <2>6, <2>9, <2>10, <2>11
<1>. QED BY <1>1, <1>2 DEF write_update_hintblock_backup

(* A write ends with it.                                                   *)
LEMMA PutBackupAscend ==
  ASSUME IInv, AscendInv, write_update_hintblock_backup
  PROVE  AscendInv'
<1>1. UNCHANGED <<header, op, faults>> /\ (EndOp("ok") \/ EndOp("ERR"))
  BY DEF write_update_hintblock_backup
<1>. QED BY <1>1, BackupPut, EndOpAscend DEF AscendInv

-----------------------------------------------------------------------------
(* A kill is the only fault, and leaves the device alone.                  *)
LEMMA FaultAscend == ASSUME Undamaged, IInv, AscendInv, Fault PROVE AscendInv'
<1>1. ~(faults < MaxFaults)
  BY DEF Undamaged, AscendInv, CalmInv
<1>2. Crash
  BY <1>1 DEF Fault, TornCrash, Decay, HeaderDecay
<1>. QED BY <1>2, LastStepAscend DEF Crash

(* A device that was never written to.                                     *)
LEMMA InitAscend == Init => AscendInv
<1>. SUFFICES ASSUME Init PROVE AscendInv
  OBVIOUS
<1>1. \A p \in Positions : dev[p].kind = "junk"
  BY DEF Init, Junk
<1>2. DeviceInv
  BY <1>1, HintPositionFacts
  DEF DeviceInv, UsedInOrder, RegionInv, RegionAscends, BackupFollows, InUse,
      validate_hintblock
<1>3. CalmInv /\ SeenInv /\ PassedInv /\ PlaceInv
  BY DEF Init, CalmInv, SeenInv, PassedInv, PlaceInv, NoOp, Operation
<1>. QED BY <1>2, <1>3 DEF AscendInv

(* Every step keeps it.                                                    *)
LEMMA NextAscend ==
  ASSUME StampsHaveRoom, Undamaged
  PROVE  IInv /\ ExitInv /\ AscendInv /\ [Next]_vars => AscendInv'
<1>. SUFFICES ASSUME IInv, ExitInv, AscendInv, [Next]_vars PROVE AscendInv'
  OBVIOUS
<1>1. CASE Request
  BY <1>1, RequestAscend
<1>2. CASE Step
  <2>1. ~recover_hintblock /\ ~recover_hintblock_backup /\ ~clear_hintblocks_loop_callback
    BY DEF AscendInv, CalmInv, recover_hintblock, recover_hintblock_backup,
           clear_hintblocks_loop_callback, Callback
  <2>2. write_put_block_refused => AscendInv'
    BY LastStepAscend DEF write_put_block_refused
  <2>. QED BY <1>2, <2>1, <2>2, HintblockStateAscend, CheckFreeAscend, SearchAscend,
       ScanAscend, LoopEndAscend, BlockLoopAscend, UpdateAscend, PutBlockAscend,
       PutHintAscend, PutBackupAscend DEF Step
<1>3. CASE Fault
  BY <1>3, FaultAscend
<1>4. CASE UNCHANGED vars
  <2>1. DeviceInv' /\ CalmInv'
    BY <1>4 DEF vars, AscendInv, DeviceInv, CalmInv
  <2>2. SeenInv' /\ PassedInv'
    BY <1>4 DEF vars, AscendInv, SeenInv, PassedInv, Region, Putting
  <2>3. PlaceInv'
    BY <1>4 DEF vars, AscendInv, PlaceInv, PlaceFor, Region
  <2>. QED BY <2>1, <2>2, <2>3 DEF AscendInv
<1>. QED BY <1>1, <1>2, <1>3, <1>4 DEF Next

-----------------------------------------------------------------------------
(* Whatever is written around, killed, updated and read, in whatever order *)
(* timestamps come.                                                        *)
THEOREM AscendInvariance ==
  ASSUME StampsHaveRoom, Undamaged PROVE Spec => [](IInv /\ ExitInv /\ AscendInv)
<1>1. IInv /\ ExitInv /\ [Next]_vars => ExitInv'
  BY NextExit
<1>2. IInv /\ ExitInv /\ AscendInv /\ [Next]_vars => AscendInv'
  BY NextAscend
<1>. QED BY <1>1, <1>2, InitExit, InitAscend, Invariance, PTL DEF Spec

(* What a read goes through, by the hint blocks on the device.             *)
LEMMA LiveFacts ==
  ASSUME IInv, DeviceInv
  PROVE  /\ LiveRegions = {h \in HintPositions : InUse(dev, h)}
         /\ \A h \in LiveRegions : /\ Cells(h) = Written(dev, h)
                                   /\ Region(h).prev = dev[h].prev
         /\ \A h \in LiveRegions : \A p \in Cells(h) :
              p \in Leftovers <=> IsLeftover(dev, h, p)
<1>1. dev \in [Positions -> Content]
  BY DEF IInv, DataType
<1>2. \A h \in HintPositions : RegionAscends(dev, h)
  BY DEF DeviceInv, RegionInv
<1>3. \A h \in HintPositions :
        /\ Region(h).valid <=> InUse(dev, h)
        /\ InUse(dev, h) => Region(h).prev = dev[h].prev
  BY <1>1, <1>2, RegionState DEF Region
<1>4. LiveRegions = {h \in HintPositions : InUse(dev, h)}
  BY <1>3 DEF LiveRegions
<1>5. ASSUME NEW h \in LiveRegions
      PROVE  Cells(h) = Written(dev, h) /\ Region(h).prev = dev[h].prev
  <2>1. h \in HintPositions /\ InUse(dev, h) /\ Region(h).prev = dev[h].prev
    BY <1>3, <1>4
  <2>2. dev[h].prev \in DataCells(h) /\ DataCells(h) \subseteq Nat
    BY <1>2, <2>1, RegionFacts DEF RegionAscends
  <2>3. h \in Nat /\ Spacing <= h
    BY <2>1, HintPositionFacts
  <2>. QED BY <2>1, <2>2, <2>3, HalfAssumption
       DEF Cells, Written, DataCells, blockstart_min, blockstart_max, Spacing
<1>6. ASSUME NEW h \in LiveRegions, NEW p \in Cells(h)
      PROVE  p \in Leftovers <=> IsLeftover(dev, h, p)
  <2>1. h \in HintPositions /\ p \in Span(h)
    BY <1>4, <1>5, <1>6, RegionFacts DEF Written
  <2>2. \A g \in LiveRegions : p = blockstart_min(g) => g = h
    <3>1. SUFFICES ASSUME NEW g \in LiveRegions, p = blockstart_min(g), g # h PROVE FALSE
      OBVIOUS
    <3>2. g \in HintPositions /\ p \in Span(g)
      BY <1>4, <3>1, RegionFacts
    <3>. QED BY <2>1, <3>1, <3>2, SpansDisjoint
  <2>3. \A g \in LiveRegions :
          dev[blockstart_min(g)].ts > dev[Region(g).prev].ts <=> HasLeftover(dev, g)
    BY <1>5 DEF HasLeftover, Highest
  <2>4. p \in Leftovers <=> \E g \in LiveRegions : p = blockstart_min(g) /\ HasLeftover(dev, g)
    BY <2>3 DEF Leftovers
  <2>. QED BY <2>2, <2>4 DEF IsLeftover
<1>. QED BY <1>4, <1>5, <1>6

(* Within a region there are no holes and the timestamps ascend, so its    *)
(* highest_timestamp is the highest: for timestamps in any order, with and *)
(* without faketimestamp (write_put_block, write_find_location).           *)
THEOREM TimestampsAscend ==
  ASSUME StampsHaveRoom, Undamaged PROVE Spec => []RegionsAscend
<1>1. ASSUME IInv, AscendInv PROVE RegionsAscend
  <2>1. SUFFICES ASSUME NEW h \in LiveRegions,
                        NEW p \in Cells(h) \ Leftovers, NEW q \in Cells(h) \ Leftovers
                 PROVE  validate_block(dev[p]) /\ (p < q => dev[p].ts < dev[q].ts)
    BY DEF RegionsAscend
  <2>2. /\ h \in HintPositions /\ InUse(dev, h) /\ RegionAscends(dev, h)
        /\ p \in Written(dev, h) /\ q \in Written(dev, h) /\ ~IsLeftover(dev, h, p)
    BY <1>1, <2>1, LiveFacts DEF AscendInv, DeviceInv, RegionInv
  <2>. QED BY <2>2 DEF RegionAscends
<1>. QED BY <1>1, AscendInvariance, PTL

(* A process that is killed, at whatever step of whatever operation,       *)
(* leaves a device on which nothing has to be recovered                    *)
(* (write_update_hintblock, block_hintblock_recover_backup).               *)
THEOREM KillsNeedNoRecovery ==
  ASSUME StampsHaveRoom, Undamaged PROVE Spec => []KillNeedsNoRecovery
<1>1. ASSUME IInv, AscendInv PROVE KillNeedsNoRecovery
  <2>1. SUFFICES ASSUME NEW h \in HintPositions, validate_hintblock(dev[backup_location(h)])
                 PROVE  /\ Region(h).valid
                        /\ InRegion(h, dev[backup_location(h)].prev)
                        /\ validate_block(dev[dev[backup_location(h)].prev])
    BY DEF KillNeedsNoRecovery
  <2>2. RegionInv(dev, h)
    BY <1>1 DEF AscendInv, DeviceInv
  <2>3. /\ InUse(dev, h) /\ dev[backup_location(h)].prev \in DataCells(h)
        /\ validate_block(dev[dev[backup_location(h)].prev])
    BY <2>1, <2>2 DEF RegionInv, BackupFollows
  <2>4. Region(h).valid
    BY <1>1, <2>2, <2>3, RegionState DEF IInv, DataType, RegionInv, Region
  <2>5. InRegion(h, dev[backup_location(h)].prev)
    BY <2>3 DEF DataCells, InRegion
  <2>. QED BY <2>3, <2>4, <2>5
<1>. QED BY <1>1, AscendInvariance, PTL

=============================================================================
