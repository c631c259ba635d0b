----------------------------- MODULE OrderProofs -----------------------------
(***************************************************************************)
(* With ascending timestamps the regions of an undamaged device are in the *)
(* order of their entries, from the oldest region on and around the ring,  *)
(* and every write that fits is accepted, on a device of any size.         *)
(***************************************************************************)
EXTENDS AscendProofs

(* Going around the ring from o on, g comes before h.                      *)
Before(o, g, h) == (g >= o /\ h < o) \/ ((g >= o <=> h >= o) /\ g < h)

Entries(d, h) == {p \in Written(d, h) : ~IsLeftover(d, h, p)}

SortedFrom(d, o) ==
  \A g, h \in HintPositions :
    InUse(d, g) /\ InUse(d, h) /\ Before(o, g, h) =>
      \A p \in Entries(d, h) : Highest(d, g) < d[p].ts

(* Before the device has been full once, the first region is the oldest.   *)
RingSorted(d) ==
  \E o \in HintPositions :
    SortedFrom(d, o) /\ (o # loop_begin_orig => \A h \in HintPositions : InUse(d, h))

(* A region that is not full is the one that was written last.             *)
LastIsNewest(d) ==
  \A g, h \in HintPositions :
    InUse(d, g) /\ InUse(d, h) /\ ~Full(d, h) /\ g # h => Highest(d, g) < Highest(d, h)

(* A leftover is later than everything, and at the beginning of the oldest *)
(* region of a full device.                                                *)
LeftoverIsLatest(d) ==
  \A h \in HintPositions : InUse(d, h) /\ HasLeftover(d, h) =>
    /\ AllFull(d)
    /\ \A g \in HintPositions : /\ Highest(d, g) < d[blockstart_min(h)].ts
                                /\ g # h => Highest(d, h) < Highest(d, g)

OrderInv(d) == RingSorted(d) /\ LastIsNewest(d) /\ LeftoverIsLatest(d)

(* The application gives a write a later timestamp than any on the device. *)
NewestInv ==
  /\ \A p \in Positions : dev[p].ts <= newest
  /\ op.kind = "write" /\ pc \in {"hint", "callback", "blocks", "put_block"} =>
       newest < op.ts
  /\ pc = "put_hint" => \A p \in Positions : p # loc => dev[p].ts < dev[loc].ts

(* The region that is used again is the oldest.                            *)
LowestInv ==
  /\ pass = "stamps" /\ ~Putting =>
       \A h \in HintPositions : h < i => best # NoState /\ best.highest <= Highest(dev, h)
  /\ pc \in {"put_block", "put_hint"} /\ AllFull(dev) =>
       \A h \in HintPositions : Highest(dev, cur.location) <= Highest(dev, h)

RingInv == OrderInv(dev) /\ NewestInv /\ LowestInv

-----------------------------------------------------------------------------
(* Before is an order of the regions, wherever it begins.                  *)
LEMMA BeforeFacts ==
  ASSUME NEW o \in HintPositions, NEW g \in HintPositions, NEW h \in HintPositions
  PROVE  /\ g # h => Before(o, g, h) \/ Before(o, h, g)
         /\ Before(o, g, h) => g # h /\ ~Before(o, h, g)
BY HintPositionFacts DEF Before

(* The timestamps of a device are numbers.                                 *)
LEMMA StampsAreNumbers ==
  ASSUME NEW d \in [Positions -> Content], NEW h \in HintPositions
  PROVE  /\ \A p \in Positions : d[p].ts \in Nat
         /\ \A p \in DataCells(h) : d[p].ts \in Nat
         /\ RegionAscends(d, h) /\ InUse(d, h) =>
              d[h].prev \in Positions /\ Highest(d, h) \in Nat
<1>1. \A p \in Positions : d[p].ts \in Nat
  BY MaxTimeAssumption DEF Content, Time
<1>2. DataCells(h) \subseteq Positions
  BY RegionFacts
<1>. QED BY <1>1, <1>2 DEF RegionAscends, Highest

(* The last block of a region is an entry, and no entry is later.          *)
LEMMA HighestEntry ==
  ASSUME NEW d \in [Positions -> Content], NEW h \in HintPositions, RegionAscends(d, h),
         InUse(d, h)
  PROVE  /\ d[h].prev \in Entries(d, h)
         /\ \A p \in Entries(d, h) : d[p].ts <= Highest(d, h)
<1>1. d[h].prev \in Written(d, h) /\ Written(d, h) \subseteq DataCells(h)
  BY RegionFacts DEF RegionAscends, Written
<1>2. Highest(d, h) \in Nat /\ \A p \in DataCells(h) : d[p].ts \in Nat
  BY StampsAreNumbers
<1>3. d[h].prev \in Entries(d, h)
  BY <1>1, <1>2 DEF Entries, IsLeftover, HasLeftover, Highest
<1>4. ASSUME NEW p \in Entries(d, h) PROVE d[p].ts <= Highest(d, h)
  <2>1. p \in Written(d, h) /\ ~IsLeftover(d, h, p) /\ p \in DataCells(h)
    BY <1>1 DEF Entries
  <2>2. p <= d[h].prev
    BY <2>1 DEF Written
  <2>3. CASE p = d[h].prev
    BY <1>2, <2>3 DEF Highest
  <2>4. CASE p # d[h].prev
    <3>1. p < d[h].prev
      BY <1>1, <2>1, <2>2, <2>4, RegionFacts
    <3>. QED BY <1>1, <1>2, <2>1, <3>1 DEF RegionAscends, Highest
  <2>. QED BY <2>3, <2>4
<1>. QED BY <1>3, <1>4

(* Of two regions that follow each other the second ends later.            *)
LEMMA SortedHighest ==
  ASSUME NEW d \in [Positions -> Content], NEW o \in HintPositions, SortedFrom(d, o),
         NEW g \in HintPositions, NEW h \in HintPositions, InUse(d, g), InUse(d, h),
         RegionAscends(d, h), Before(o, g, h)
  PROVE  Highest(d, g) < Highest(d, h)
BY HighestEntry DEF SortedFrom, Highest

(* No two regions end with the same timestamp.                             *)
LEMMA HighestDiffer ==
  ASSUME NEW d \in [Positions -> Content], RingSorted(d),
         NEW g \in HintPositions, NEW h \in HintPositions, g # h, InUse(d, g), InUse(d, h),
         RegionAscends(d, g), RegionAscends(d, h)
  PROVE  Highest(d, g) # Highest(d, h)
<1>1. PICK o \in HintPositions : SortedFrom(d, o)
  BY DEF RingSorted
<1>2. Highest(d, g) < Highest(d, h) \/ Highest(d, h) < Highest(d, g)
  BY <1>1, BeforeFacts, SortedHighest
<1>. QED BY <1>2, StampsAreNumbers

-----------------------------------------------------------------------------
(* Whatever leaves the extent of the regions and the timestamps of their   *)
(* entries alone leaves their order alone.                                 *)
LEMMA SameSorted ==
  ASSUME NEW d, NEW e, NEW o \in HintPositions, SortedFrom(d, o),
         \A h \in HintPositions : SameExtent(d, e, h),
         \A h \in HintPositions : InUse(d, h) =>
           \A p \in Entries(e, h) : p \in Entries(d, h) /\ e[p].ts = d[p].ts
  PROVE  SortedFrom(e, o)
BY DEF SortedFrom, SameExtent

(* The data block of a write is not seen yet, or the only leftover.        *)
LEMMA PutCellOrder ==
  ASSUME NEW d \in [Positions -> Content], \A h \in HintPositions : RegionInv(d, h),
         OrderInv(d), NEW h \in HintPositions, NEW p \in DataCells(h),
         NEW c \in Content, validate_block(c), \A q \in Positions : d[q].ts < c.ts,
         InUse(d, h) =>
           \/ p \notin Written(d, h) /\ ~Full(d, h)
           \/ AllFull(d) /\ p = blockstart_min(h),
         AllFull(d) => \A g \in HintPositions : Highest(d, h) <= Highest(d, g)
  PROVE  /\ OrderInv([d EXCEPT ![p] = c])
         /\ \A g \in HintPositions : SameExtent(d, [d EXCEPT ![p] = c], g)
<1>. DEFINE e == [d EXCEPT ![p] = c]
            min == blockstart_min(h)
<1>0. /\ p \in Span(h) /\ p \in Positions
      /\ \A g \in HintPositions : DataCells(g) \subseteq Positions
      /\ \A g \in HintPositions : RegionAscends(d, g)
  BY RegionFacts DEF RegionInv
<1>1. \A q \in Positions : e[q] = IF q = p THEN c ELSE d[q]
  OBVIOUS
<1>2. InUse(d, h) => Highest(d, h) < c.ts
  BY <1>0, StampsAreNumbers DEF Highest
<1>3. \A g \in HintPositions : SameExtent(d, e, g)
  <2>1. SameExtent(d, e, h)
    <3>1. RegionInv(d, h) /\ (AllFull(d) => Full(d, h))
      BY DEF AllFull
    <3>. QED BY <1>2, <3>1, PutCell
  <2>2. ASSUME NEW g \in HintPositions, g # h PROVE SameExtent(d, e, g)
    <3>1. RegionInv(d, g) /\ p \in Span(h)
      BY <1>0
    <3>. QED BY <2>2, <3>1, OtherRegion
  <2>. QED BY <2>1, <2>2
<1>. HIDE DEF e
<1>4. \A g \in HintPositions : InUse(d, g) => blockstart_min(g) \in Written(d, g)
  BY <1>0, RegionFacts DEF Written, RegionAscends, DataCells
<1>5. ASSUME NEW g \in HintPositions, g # h
      PROVE  p \notin DataCells(g)
  BY <1>0, <1>5, SpansDisjoint, RegionFacts
<1>6. ASSUME NEW g \in HintPositions, InUse(d, g)
      PROVE  /\ HasLeftover(e, g) => HasLeftover(d, g) \/ (g = h /\ p = min)
             /\ g # h => (HasLeftover(e, g) <=> HasLeftover(d, g))
             /\ \A q \in Entries(e, g) : q \in Entries(d, g) /\ e[q].ts = d[q].ts
  <2>1. /\ Highest(e, g) = Highest(d, g) /\ Written(e, g) = Written(d, g)
        /\ Written(d, g) \subseteq DataCells(g) /\ Written(d, g) \subseteq Positions
        /\ blockstart_min(g) \in Written(d, g)
    BY <1>0, <1>3, <1>4, <1>6 DEF SameExtent, Written
  <2>2. CASE g # h
    <3>1. \A q \in Written(d, g) : e[q] = d[q]
      BY <1>1, <1>5, <2>1, <2>2
    <3>. QED BY <2>1, <2>2, <3>1 DEF HasLeftover, Entries, IsLeftover
  <2>3. CASE g = h /\ p \notin Written(d, h)
    <3>1. \A q \in Written(d, g) : e[q] = d[q]
      BY <1>1, <2>1, <2>3
    <3>. QED BY <2>1, <2>3, <3>1 DEF HasLeftover, Entries, IsLeftover
  <2>4. CASE g = h /\ AllFull(d) /\ p = min
    <3>1. HasLeftover(e, g)
      BY <1>0, <1>1, <1>2, <1>6, <2>1, <2>4, StampsAreNumbers DEF HasLeftover
    <3>2. \A q \in Written(d, g) : q # min => e[q] = d[q]
      BY <1>1, <2>1, <2>4
    <3>. QED BY <2>1, <2>4, <3>1, <3>2 DEF Entries, IsLeftover
  <2>. QED BY <1>6, <2>2, <2>3, <2>4
<1>7. RingSorted(e)
  <2>1. PICK o \in HintPositions :
               /\ SortedFrom(d, o)
               /\ o # loop_begin_orig => \A g \in HintPositions : InUse(d, g)
    BY DEF OrderInv, RingSorted
  <2>2. SortedFrom(e, o)
    BY <1>3, <1>6, <2>1, SameSorted
  <2>. QED BY <1>3, <2>1, <2>2 DEF RingSorted, SameExtent
<1>8. LastIsNewest(e)
  BY <1>3 DEF OrderInv, LastIsNewest, SameExtent
<1>9. LeftoverIsLatest(e)
  <2>1. SUFFICES ASSUME NEW k \in HintPositions, InUse(e, k), HasLeftover(e, k)
                 PROVE  /\ AllFull(e)
                        /\ \A g \in HintPositions :
                             /\ Highest(e, g) < e[blockstart_min(k)].ts
                             /\ g # k => Highest(e, k) < Highest(e, g)
    BY DEF LeftoverIsLatest
  <2>2. InUse(d, k)
    BY <1>3, <2>1 DEF SameExtent
  <2>3. AllFull(d) => AllFull(e) /\ \A g \in HintPositions : Highest(e, g) = Highest(d, g)
    BY <1>3 DEF AllFull, SameExtent, Full
  <2>4. AllFull(d) => \A g \in HintPositions : InUse(d, g) /\ Highest(d, g) \in Nat
    BY <1>0, StampsAreNumbers DEF AllFull, Full
  <2>5. CASE k = h /\ p = min /\ AllFull(d)
    <3>1. e[blockstart_min(k)].ts = c.ts
      BY <1>0, <1>1, <2>5
    <3>2. \A g \in HintPositions : Highest(d, g) < c.ts
      BY <1>0, <2>4, <2>5, StampsAreNumbers DEF Highest
    <3>3. \A g \in HintPositions : g # h => Highest(d, h) < Highest(d, g)
      <4>1. TAKE g \in HintPositions
      <4>2. HAVE g # h
      <4>3. Highest(d, g) # Highest(d, h) /\ Highest(d, h) <= Highest(d, g)
        BY <1>0, <2>4, <2>5, <4>2, HighestDiffer DEF OrderInv
      <4>. QED BY <2>4, <2>5, <4>3
    <3>. QED BY <2>3, <2>5, <3>1, <3>2, <3>3
  <2>6. CASE HasLeftover(d, k)
    <3>1. /\ AllFull(d)
          /\ \A g \in HintPositions : /\ Highest(d, g) < d[blockstart_min(k)].ts
                                      /\ g # k => Highest(d, k) < Highest(d, g)
      BY <2>2, <2>6 DEF OrderInv, LeftoverIsLatest
    <3>2. k = h
      BY <2>4, <3>1
    <3>3. InUse(d, h) /\ p = min
      BY <2>4, <3>1 DEF AllFull
    <3>. QED BY <2>5, <3>1, <3>2, <3>3
  <2>7. CASE k = h /\ p = min /\ ~HasLeftover(d, k)
    <3>1. AllFull(d)
      BY <1>4, <2>2, <2>7
    <3>. QED BY <2>5, <2>7, <3>1
  <2>. QED BY <1>6, <2>1, <2>2, <2>6, <2>7
<1>. QED BY <1>3, <1>7, <1>8, <1>9 DEF OrderInv, e

(* When the region at o becomes the last one, some region is the first.    *)
LEMMA NextFirst ==
  ASSUME NEW o \in HintPositions
  PROVE  \E n \in HintPositions :
           \A g, h \in HintPositions : Before(n, g, h) /\ h # o => g # o /\ Before(o, g, h)
<1>0. \A h \in HintPositions : h \in Nat /\ Spacing <= h /\ h <= DeviceSize - 1
  BY HintPositionFacts
<1>1. \A h \in HintPositions : o < h => o + Spacing <= h
  BY SpacesApart
<1>2. Spacing \in Nat \ {0} /\ DeviceSize \in Nat
  BY HalfAssumption, SizeAssumption DEF Spacing
<1>3. CASE o + Spacing < DeviceSize
  <2>. DEFINE n == o + Spacing
  <2>1. n \in HintPositions /\ o < n
    BY <1>0, <1>2, <1>3, HintPositionFacts
  <2>2. \A h \in HintPositions : h # o => (h >= n <=> h >= o)
    BY <1>0, <1>1, <1>2
  <2>. HIDE DEF n
  <2>3. ASSUME NEW g \in HintPositions, NEW h \in HintPositions, Before(n, g, h), h # o
        PROVE  g # o /\ Before(o, g, h)
    <3>1. g # o
      BY <1>0, <2>1, <2>2, <2>3 DEF Before
    <3>. QED BY <1>0, <2>1, <2>2, <2>3, <3>1 DEF Before
  <2>. QED BY <2>1, <2>3
<1>4. CASE ~(o + Spacing < DeviceSize)
  <2>1. \A h \in HintPositions : h <= o
    BY <1>0, <1>1, <1>2, <1>4
  <2>2. ASSUME NEW g \in HintPositions, NEW h \in HintPositions,
               Before(loop_begin_orig, g, h), h # o
        PROVE  g # o /\ Before(o, g, h)
    <3>1. g < h
      BY <1>0, <1>2, <2>2 DEF Before, loop_begin_orig
    <3>2. g < o /\ h < o
      BY <1>0, <2>1, <2>2, <3>1
    <3>. QED BY <1>0, <3>1, <3>2 DEF Before
  <2>. QED BY <2>2, FirstHint
<1>. QED BY <1>3, <1>4

(* A hint block changes nothing in another region.                         *)
LEMMA OtherHint ==
  ASSUME NEW d \in [Positions -> Content], NEW h \in HintPositions, NEW p,
         HintBlock(p) \in Content, NEW g \in HintPositions, g # h, RegionInv(d, g)
  PROVE  SameExtent(d, [d EXCEPT ![h] = HintBlock(p)], g)
<1>. DEFINE c == HintBlock(p)
<1>1. c \in Content /\ h \in Span(h)
  BY RegionFacts
<1>. HIDE DEF c
<1>2. SameExtent(d, [d EXCEPT ![h] = c], g)
  BY <1>1, OtherRegion
<1>. QED BY <1>2 DEF c

(* The hint block that names the new block makes its region the last one   *)
(* of the ring, and the next one the first if the region is used again.    *)
LEMMA PutHintOrder ==
  ASSUME NEW d \in [Positions -> Content], \A h \in HintPositions : RegionInv(d, h),
         UsedInOrder(d), OrderInv(d), NEW h \in HintPositions, NEW p \in DataCells(h),
         validate_block(d[p]), \A q \in Positions : q # p => d[q].ts < d[p].ts,
         \/ /\ ~InUse(d, h) /\ p = blockstart_min(h)
            /\ \A g \in HintPositions : g < h => Full(d, g)
         \/ InUse(d, h) /\ ~Full(d, h) /\ p = skip_backup(d[h].prev + 1, h)
         \/ AllFull(d) /\ p = blockstart_min(h),
         AllFull(d) => \A g \in HintPositions : Highest(d, h) <= Highest(d, g)
  PROVE  OrderInv([d EXCEPT ![h] = HintBlock(p)])
<1>. DEFINE e == [d EXCEPT ![h] = HintBlock(p)]
<1>0. /\ \A g \in HintPositions : RegionAscends(d, g)
      /\ \A g \in HintPositions : InUse(d, g) => d[g].prev \in Positions
      /\ \A g \in HintPositions : InUse(d, g) => Highest(d, g) \in Nat
      /\ p \in Positions /\ p \in Span(h) /\ h \in Span(h) /\ h \in Positions
      /\ d[p].ts \in Nat
  BY RegionFacts, StampsAreNumbers DEF RegionInv
<1>1. ASSUME InUse(d, h) PROVE d[h].prev # p /\ (~Full(d, h) => Highest(d, h) < d[p].ts)
  <2>1. CASE Full(d, h)
    BY <2>1, RegionFacts, HintPositionFacts DEF Full, skip_backup, blockstart_min,
                                                blockstart_max
  <2>2. CASE ~Full(d, h)
    <3>1. p = skip_backup(d[h].prev + 1, h)
      BY <1>1, <2>2 DEF AllFull
    <3>2. d[h].prev < p
      BY <1>0, <1>1, <2>2, <3>1, NextPlace
    <3>3. d[h].prev \in Positions /\ p \in Positions
      BY <1>0, <1>1
    <3>4. \A m, n \in Positions : m < n => m # n
      BY SizeAssumption DEF Positions
    <3>5. d[h].prev # p
      BY <3>2, <3>3, <3>4
    <3>. QED BY <1>1, <3>3, <3>5 DEF Highest
  <2>. QED BY <2>1, <2>2
<1>2. /\ RegionInv(e, h) /\ InUse(e, h) /\ e[h].prev = p
      /\ ~HasLeftover(e, h) /\ Highest(e, h) = d[p].ts
      /\ \A q \in DataCells(h) : e[q] = d[q]
      /\ Written(e, h) = IF InUse(d, h) /\ ~Full(d, h) THEN Written(d, h) \cup {p} ELSE {p}
  <2>1. \/ p = blockstart_min(h) /\ (InUse(d, h) => Full(d, h))
        \/ /\ InUse(d, h) /\ ~Full(d, h) /\ p = skip_backup(d[h].prev + 1, h)
           /\ d[p].ts > Highest(d, h)
    BY <1>0, <1>1 DEF AllFull
  <2>2. RegionInv(d, h)
    OBVIOUS
  <2>. QED BY <2>1, <2>2, PutHintblock, ZenonT(60)
<1>3. HintBlock(p) \in Content
  BY <1>0, MaxTimeAssumption DEF HintBlock, Content, Kinds, Time, Positions
<1>4. ASSUME NEW g \in HintPositions, g # h
      PROVE  SameExtent(d, e, g) /\ \A q \in Span(g) : e[q] = d[q]
  <2>1. SameExtent(d, e, g)
    BY <1>0, <1>3, <1>4, OtherHint
  <2>2. \A q \in Span(g) : q # h
    BY <1>0, <1>4, SpansDisjoint
  <2>3. \A q \in Span(g) : e[q] = d[q]
    BY <2>2, RegionFacts
  <2>. QED BY <2>1, <2>3
<1>. HIDE DEF e
<1>5. ASSUME NEW g \in HintPositions, g # h, InUse(e, g)
      PROVE  /\ InUse(d, g) /\ Highest(e, g) = Highest(d, g) /\ Highest(d, g) < d[p].ts
             /\ HasLeftover(e, g) <=> HasLeftover(d, g)
             /\ \A q \in Entries(e, g) : q \in Entries(d, g) /\ e[q].ts = d[q].ts
  <2>1. InUse(d, g) /\ Highest(e, g) = Highest(d, g) /\ Written(e, g) = Written(d, g)
    BY <1>4, <1>5 DEF SameExtent
  <2>2. d[g].prev \in DataCells(g) /\ DataCells(g) \subseteq Span(g)
        /\ blockstart_min(g) \in Span(g)
    BY <1>0, <2>1, RegionFacts DEF RegionAscends
  <2>3. d[g].prev # p
    BY <1>0, <1>5, <2>2, SpansDisjoint
  <2>4. Highest(d, g) < d[p].ts
    BY <1>0, <2>1, <2>3 DEF Highest
  <2>5. HasLeftover(e, g) <=> HasLeftover(d, g)
    BY <1>4, <1>5, <2>1, <2>2 DEF HasLeftover
  <2>6. ASSUME NEW q \in Entries(e, g)
        PROVE  q \in Entries(d, g) /\ e[q].ts = d[q].ts
    BY <1>4, <1>5, <2>1, <2>2, <2>5 DEF Entries, IsLeftover, Written
  <2>. QED BY <2>1, <2>4, <2>5, <2>6
<1>6. ASSUME NEW g \in HintPositions, InUse(e, g), HasLeftover(e, g)
      PROVE  FALSE
  <2>1. g # h /\ InUse(d, g) /\ HasLeftover(d, g)
    BY <1>2, <1>5, <1>6
  <2>2. AllFull(d) /\ Highest(d, g) < Highest(d, h)
    BY <2>1 DEF OrderInv, LeftoverIsLatest
  <2>3. InUse(d, h) /\ Highest(d, h) <= Highest(d, g)
    BY <2>2 DEF AllFull, Full
  <2>. QED BY <1>0, <2>1, <2>2, <2>3
<1>7. LastIsNewest(e)
  <2>1. SUFFICES ASSUME NEW g \in HintPositions, NEW k \in HintPositions,
                        InUse(e, g), InUse(e, k), ~Full(e, k), g # k
                 PROVE  Highest(e, g) < Highest(e, k)
    BY DEF LastIsNewest
  <2>2. CASE k = h
    BY <1>2, <1>5, <2>1, <2>2
  <2>3. CASE k # h
    <3>1. InUse(d, k) /\ ~Full(d, k)
      BY <1>4, <2>1, <2>3 DEF SameExtent
    <3>2. k < h => Full(d, k) \/ InUse(d, h)
      BY <3>1 DEF AllFull
    <3>3. InUse(d, h)
      BY <2>3, <3>1, <3>2, HintPositionFacts DEF UsedInOrder
    <3>4. ~Full(d, h)
      BY <3>1, <3>3 DEF AllFull, Full
    <3>5. Highest(d, h) < Highest(d, k) /\ Highest(d, k) < Highest(d, h)
      BY <2>3, <3>1, <3>3, <3>4 DEF OrderInv, LastIsNewest
    <3>. QED BY <1>0, <3>1, <3>3, <3>5
  <2>. QED BY <2>2, <2>3
<1>8. ASSUME NEW o \in HintPositions, NEW n \in HintPositions, SortedFrom(d, o),
             \A g, k \in HintPositions :
               InUse(d, k) /\ Before(n, g, k) /\ k # h => g # h /\ Before(o, g, k),
             \A g \in HintPositions :
               InUse(d, h) /\ ~Full(d, h) /\ Before(n, g, h) => Before(o, g, h)
      PROVE  SortedFrom(e, n)
  <2>1. SUFFICES ASSUME NEW g \in HintPositions, NEW k \in HintPositions,
                        InUse(e, g), InUse(e, k), Before(n, g, k), NEW q \in Entries(e, k)
                 PROVE  Highest(e, g) < e[q].ts
    BY DEF SortedFrom
  <2>2. CASE k # h
    <3>1. InUse(d, k) /\ q \in Entries(d, k) /\ e[q].ts = d[q].ts
      BY <1>5, <2>1, <2>2
    <3>2. g # h /\ Before(o, g, k)
      BY <1>8, <2>1, <2>2, <3>1
    <3>3. InUse(d, g) /\ Highest(e, g) = Highest(d, g)
      BY <1>5, <2>1, <3>2
    <3>. QED BY <1>8, <3>1, <3>2, <3>3 DEF SortedFrom
  <2>3. CASE k = h
    <3>1. g # h
      BY <2>1, <2>3, BeforeFacts
    <3>2. InUse(d, g) /\ Highest(e, g) = Highest(d, g) /\ Highest(d, g) < d[p].ts
      BY <1>5, <2>1, <3>1
    <3>3. q \in Written(e, h)
      BY <2>1, <2>3 DEF Entries
    <3>4. CASE q = p
      BY <1>2, <3>2, <3>4
    <3>5. CASE q # p
      <4>1. InUse(d, h) /\ ~Full(d, h) /\ q \in Written(d, h)
        BY <1>2, <3>3, <3>5
      <4>2. q \in Entries(d, h)
        BY <1>0, <4>1 DEF Entries, IsLeftover, RegionAscends
      <4>3. Highest(d, g) < d[q].ts
        BY <1>8, <2>1, <2>3, <3>2, <4>1, <4>2 DEF SortedFrom
      <4>. QED BY <1>2, <3>2, <4>1, <4>3 DEF Written
    <3>. QED BY <3>4, <3>5
  <2>. QED BY <2>2, <2>3
<1>9. RingSorted(e)
  <2>1. PICK o \in HintPositions :
               /\ SortedFrom(d, o)
               /\ o # loop_begin_orig => \A g \in HintPositions : InUse(d, g)
    BY DEF OrderInv, RingSorted
  <2>2. (\A g \in HintPositions : InUse(d, g)) => \A g \in HintPositions : InUse(e, g)
    BY <1>2, <1>4 DEF SameExtent
  <2>3. CASE ~InUse(d, h)
    <3>1. o = loop_begin_orig
      BY <2>1, <2>3
    <3>2. ASSUME NEW g \in HintPositions, NEW k \in HintPositions,
                 InUse(d, k), Before(o, g, k), k # h
          PROVE  g # h
      <4>1. ~(h < k)
        BY <2>3, <3>2 DEF UsedInOrder
      <4>. QED BY <3>1, <3>2, <4>1, HintPositionFacts DEF Before, loop_begin_orig
    <3>3. SortedFrom(e, o)
      BY <1>8, <2>1, <2>3, <3>2
    <3>. QED BY <3>1, <3>3 DEF RingSorted
  <2>4. CASE InUse(d, h) /\ ~Full(d, h)
    <3>1. ASSUME NEW k \in HintPositions, InUse(d, k), k # h, Before(o, h, k)
          PROVE  FALSE
      <4>1. Highest(d, h) < Highest(d, k)
        BY <1>0, <2>1, <2>4, <3>1, SortedHighest
      <4>2. Highest(d, k) < Highest(d, h)
        BY <2>4, <3>1 DEF OrderInv, LastIsNewest
      <4>. QED BY <1>0, <2>4, <3>1, <4>1, <4>2
    <3>2. SortedFrom(e, o)
      BY <1>8, <2>1, <3>1
    <3>. QED BY <2>1, <2>2, <3>2 DEF RingSorted
  <2>5. CASE Full(d, h)
    <3>1. AllFull(d) /\ \A g \in HintPositions : Highest(d, h) <= Highest(d, g)
      BY <2>5 DEF Full
    <3>2. \A g \in HintPositions : InUse(d, g) /\ Full(d, g)
      BY <3>1 DEF AllFull, Full
    <3>3. o = h
      <4>1. SUFFICES ASSUME o # h PROVE FALSE
        OBVIOUS
      <4>2. Before(o, o, h)
        BY <4>1, HintPositionFacts DEF Before
      <4>3. Highest(d, o) < Highest(d, h)
        BY <1>0, <2>1, <3>2, <4>2, SortedHighest
      <4>. QED BY <1>0, <3>1, <3>2, <4>3
    <3>4. PICK n \in HintPositions :
                 \A g, k \in HintPositions : Before(n, g, k) /\ k # o => g # o /\ Before(o, g, k)
      BY NextFirst
    <3>5. SortedFrom(e, n)
      BY <1>8, <2>1, <3>2, <3>3, <3>4
    <3>. QED BY <2>2, <3>2, <3>5 DEF RingSorted
  <2>. QED BY <2>3, <2>4, <2>5
<1>10. LeftoverIsLatest(e)
  BY <1>6 DEF LeftoverIsLatest
<1>. QED BY <1>7, <1>9, <1>10 DEF OrderInv, e

(* A change of application data or of a backup leaves the order alone.     *)
LEMMA SameOrder ==
  ASSUME NEW d \in [Positions -> Content], NEW e, \A h \in HintPositions : RegionInv(d, h),
         OrderInv(d), \A h \in HintPositions : SameExtent(d, e, h),
         \A h \in HintPositions : \A p \in DataCells(h) : e[p].ts = d[p].ts
  PROVE  OrderInv(e)
<1>1. ASSUME NEW h \in HintPositions, InUse(d, h)
      PROVE  /\ InUse(e, h) /\ Highest(e, h) = Highest(d, h)
             /\ Full(e, h) <=> Full(d, h)
             /\ e[blockstart_min(h)].ts = d[blockstart_min(h)].ts
             /\ HasLeftover(e, h) <=> HasLeftover(d, h)
             /\ \A p \in Entries(e, h) : p \in Entries(d, h) /\ e[p].ts = d[p].ts
  <2>1. Written(e, h) = Written(d, h) /\ Highest(e, h) = Highest(d, h)
    BY <1>1 DEF SameExtent
  <2>2. blockstart_min(h) \in DataCells(h)
    BY RegionFacts
  <2>3. HasLeftover(e, h) <=> HasLeftover(d, h)
    BY <2>1, <2>2 DEF HasLeftover
  <2>4. \A p \in Entries(e, h) : p \in Entries(d, h) /\ e[p].ts = d[p].ts
    BY <2>1, <2>3 DEF Entries, IsLeftover, Written
  <2>. QED BY <1>1, <2>1, <2>2, <2>3, <2>4 DEF SameExtent
<1>2. \A h \in HintPositions : InUse(e, h) <=> InUse(d, h)
  BY DEF SameExtent
<1>3. RingSorted(e)
  <2>1. PICK o \in HintPositions :
               /\ SortedFrom(d, o)
               /\ o # loop_begin_orig => \A g \in HintPositions : InUse(d, g)
    BY DEF OrderInv, RingSorted
  <2>2. SortedFrom(e, o)
    BY <1>1, <2>1, SameSorted
  <2>. QED BY <1>2, <2>1, <2>2 DEF RingSorted
<1>4. LastIsNewest(e)
  BY <1>1, <1>2 DEF OrderInv, LastIsNewest
<1>5. LeftoverIsLatest(e)
  <2>1. SUFFICES ASSUME NEW h \in HintPositions, InUse(e, h), HasLeftover(e, h)
                 PROVE  /\ AllFull(e)
                        /\ \A g \in HintPositions :
                             /\ Highest(e, g) < e[blockstart_min(h)].ts
                             /\ g # h => Highest(e, h) < Highest(e, g)
    BY DEF LeftoverIsLatest
  <2>2. /\ AllFull(d)
        /\ \A g \in HintPositions : /\ Highest(d, g) < d[blockstart_min(h)].ts
                                    /\ g # h => Highest(d, h) < Highest(d, g)
    BY <1>1, <1>2, <2>1 DEF OrderInv, LeftoverIsLatest
  <2>. QED BY <1>1, <2>2 DEF AllFull, Full
<1>. QED BY <1>3, <1>4, <1>5 DEF OrderInv

-----------------------------------------------------------------------------
(* A step that ends an operation and leaves the device alone.              *)
LEMMA LastStepRing ==
  ASSUME RingInv, NEW code, EndOp(code), UNCHANGED <<dev, newest>>
  PROVE  RingInv'
<1>1. OrderInv(dev')
  BY DEF RingInv
<1>. QED BY <1>1 DEF RingInv, EndOp, NewestInv, LowestInv

(* A step of a search or a scan that leaves the device alone.              *)
LEMMA InnerStepRing ==
  ASSUME RingInv, pc \in {"hint", "callback", "blocks", "put_block"},
         UNCHANGED <<dev, newest, op>>, pc' # "put_hint", LowestInv'
  PROVE  RingInv'
<1>1. OrderInv(dev')
  BY DEF RingInv
<1>. QED BY <1>1 DEF RingInv, NewestInv

(* Requests.                                                               *)
LEMMA RequestRing ==
  ASSUME Ordered, Undamaged, AscendInv, RingInv, Request PROVE RingInv'
<1>1. ASSUME NEW o, NEW p \in {"free", "oldest"}, NEW refusal, BeginOp(o, p, refusal),
             o.kind = "write" => newest < o.ts
      PROVE  RingInv'
  <2>1. pc' = "hint" /\ pass' = p /\ op' = o /\ UNCHANGED <<dev, newest>>
    BY <1>1 DEF BeginOp, AscendInv, CalmInv, device
  <2>2. OrderInv(dev')
    BY <2>1 DEF RingInv
  <2>. QED BY <1>1, <2>1, <2>2 DEF RingInv, NewestInv, LowestInv
<1>2. ASSUME NEW ts \in Stamps, NEW fake \in Fakes, NEW fits \in BOOLEAN,
             NEW app \in SUBSET Flags, bdl_write_block(ts, fake, fits, app)
      PROVE  RingInv'
  <2>. DEFINE o == Operation("write", ts, fake, fits, app, 0)
  <2>1. ts > newest /\ BeginOp(o, "free", "ERR_CORRUPT")
    BY <1>2 DEF bdl_write_block
  <2>2. o.ts = ts
    BY DEF Operation
  <2>. HIDE DEF o
  <2>3. newest < o.ts
    BY <2>1, <2>2
  <2>. QED BY <1>1, <2>1, <2>3
<1>3. ASSUME NEW ts, NEW limit, bdl_read_blocks(ts, limit)
      PROVE  RingInv'
  <2>. DEFINE o == Operation("read", ts, 0, TRUE, {}, limit)
  <2>1. BeginOp(o, "oldest", "ERR") /\ o.kind = "read"
    BY <1>3 DEF bdl_read_blocks, Operation
  <2>. HIDE DEF o
  <2>. QED BY <1>1, <2>1
<1>4. ASSUME NEW ts, NEW mask, bdl_read_update_application_data(ts, mask)
      PROVE  RingInv'
  <2>. DEFINE o == Operation("update", ts, 0, TRUE, mask, 0)
  <2>1. BeginOp(o, "oldest", "ERR_CORRUPT") /\ o.kind = "update"
    BY <1>4 DEF bdl_read_update_application_data, Operation
  <2>. HIDE DEF o
  <2>. QED BY <1>1, <2>1
<1>5. ~bdl_clear_dev
  BY DEF bdl_clear_dev, BeginOp, Operation, Undamaged
<1>6. CASE Return
  <2>1. pc = "returned" /\ pc' = "idle" /\ UNCHANGED <<dev, newest, locals>>
    BY <1>6 DEF Return, device
  <2>2. OrderInv(dev')
    BY <2>1 DEF RingInv
  <2>. QED BY <2>1, <2>2 DEF RingInv, NewestInv, LowestInv, locals, Putting
<1>. QED BY <1>2, <1>3, <1>4, <1>5, <1>6 DEF Request

(* The search for a free location ends at a region that is not full.       *)
LEMMA CheckFreeRing ==
  ASSUME IInv, AscendInv, RingInv, write_hintblock_check_free_callback PROVE RingInv'
<1>1. pc = "callback" /\ pass = "free" /\ UNCHANGED <<dev, newest, op, pass>>
  BY DEF write_hintblock_check_free_callback, Callback, NextHintblock, device
<1>2. CASE region_full(cur)
  <2>1. pc' = "hint"
    BY <1>2 DEF write_hintblock_check_free_callback, NextHintblock
  <2>. QED BY <1>1, <2>1, InnerStepRing DEF LowestInv
<1>3. CASE ~region_full(cur)
  <2>1. pc' = "put_block"
    BY <1>3 DEF write_hintblock_check_free_callback
  <2>2. i \in HintPositions /\ ~Full(dev, i)
    BY <1>1, <1>3, CurrentRegion
  <2>3. LowestInv'
    BY <1>1, <2>1, <2>2 DEF LowestInv, AllFull
  <2>. QED BY <1>1, <2>1, <2>3, InnerStepRing
<1>. QED BY <1>2, <1>3

(* The second search keeps the region with the lowest timestamp so far.    *)
LEMMA SearchRing ==
  ASSUME IInv, ExitInv, AscendInv, RingInv, write_hintblock_check_timestamps
  PROVE  RingInv'
<1>1. /\ pc = "callback" /\ pass = "stamps" /\ ~Putting
      /\ pc' = "hint" /\ i' = i + Spacing /\ UNCHANGED <<dev, newest, op, pass>>
      /\ best' = IF cur.highest < LowestSoFar(best) THEN cur ELSE best
  BY DEF write_hintblock_check_timestamps, Callback, NextHintblock, device, Putting
<1>2. AllFull(dev) /\ i \in HintPositions
  BY <1>1, CurrentRegion DEF AscendInv, PassedInv
<1>3. /\ cur.location = i /\ cur.highest = Highest(dev, i)
      /\ cur.highest \in Nat /\ cur.highest < MaxTime
  <2>1. InUse(dev, i)
    BY <1>2 DEF AllFull, Full
  <2>2. cur.highest \in Nat /\ cur.highest < MaxTime
    BY MaxTimeAssumption DEF IInv, LocalInv, LocalType, HintblockState, Time, ExitInv, FoundInv
  <2>3. cur.location = i /\ cur.highest = Highest(dev, i)
    BY <1>1, <2>1, CurrentRegion
  <2>. QED BY <2>2, <2>3
<1>4. cur # NoState
  BY <1>2, <1>3, HintPositionFacts, HalfAssumption DEF NoState, Spacing
<1>5. \A h \in HintPositions : h < i => best # NoState /\ best.highest <= Highest(dev, h)
  BY <1>1 DEF RingInv, LowestInv
<1>6. best.highest \in Nat /\ MaxTime \in Nat
  BY MaxTimeAssumption DEF IInv, LocalInv, LocalType, HintblockState, Time
<1>7. /\ best' # NoState /\ best'.highest <= cur.highest
      /\ best # NoState => best'.highest <= best.highest
      /\ best'.highest \in Nat
  BY <1>1, <1>3, <1>4, <1>6 DEF LowestSoFar
<1>8. \A h \in HintPositions : Highest(dev, h) \in Nat
  <2>1. \A h \in HintPositions : RegionAscends(dev, h) /\ InUse(dev, h)
    BY <1>2 DEF AscendInv, DeviceInv, RegionInv, AllFull, Full
  <2>2. dev \in [Positions -> Content]
    BY DEF IInv, DataType
  <2>. QED BY <2>1, <2>2, StampsAreNumbers
<1>9. ASSUME NEW h \in HintPositions, h < i + Spacing
      PROVE  best' # NoState /\ best'.highest <= Highest(dev, h)
  <2>1. CASE h = i
    BY <1>3, <1>7, <2>1
  <2>2. CASE h # i
    <3>1. h < i
      BY <1>1, <1>9, <2>2, NextRegion
    <3>2. best # NoState /\ best.highest <= Highest(dev, h)
      BY <1>5, <3>1
    <3>. QED BY <1>6, <1>7, <1>8, <3>2
  <2>. QED BY <2>1, <2>2
<1>10. LowestInv'
  BY <1>1, <1>9 DEF LowestInv
<1>. QED BY <1>1, <1>10, InnerStepRing

(* It has gone past all regions.                                           *)
LEMMA LoopEndRing ==
  ASSUME IInv, ExitInv, AscendInv, RingInv,
         write_find_location_oldest \/ write_find_location_end
  PROVE  RingInv'
<1>1. CASE write_find_location_oldest
  <2>1. /\ pc = "hint" /\ pc' = "hint" /\ i' = loop_begin_orig
        /\ UNCHANGED <<dev, newest, op>>
    BY <1>1 DEF write_find_location_oldest, LoopDone, BeginLoop, device
  <2>2. \A h \in HintPositions : ~(h < loop_begin_orig)
    BY HintPositionFacts, HalfAssumption DEF loop_begin_orig, Spacing
  <2>3. LowestInv'
    BY <2>1, <2>2 DEF LowestInv
  <2>. QED BY <2>1, <2>3, InnerStepRing
<1>2. CASE write_find_location_end /\ best # NoState
  <2>1. /\ pc = "hint" /\ pass = "stamps" /\ ~Putting /\ i >= end
        /\ pc' = "put_block" /\ cur' = best /\ UNCHANGED <<dev, newest, op>>
    BY <1>2 DEF write_find_location_end, LoopDone, device, Putting
  <2>2. best = Region(best.location) /\ AllFull(dev)
    BY <1>2, <2>1 DEF AscendInv, SeenInv, PassedInv
  <2>. DEFINE h == best.location
  <2>3. h \in HintPositions
    BY <1>2 DEF IInv, LocalInv, SearchInv, StateInv
  <2>4. \A g \in HintPositions : g < i
    BY <2>1, HintPositionFacts, SizeAssumption
    DEF ExitInv, FoundInv, IInv, LocalInv, LocalType
  <2>5. \A g \in HintPositions : best.highest <= Highest(dev, g)
    BY <2>1, <2>4 DEF RingInv, LowestInv
  <2>6. best.highest = Highest(dev, h)
    <3>1. RegionAscends(dev, h) /\ InUse(dev, h) /\ dev \in [Positions -> Content]
      BY <2>2, <2>3 DEF AscendInv, DeviceInv, RegionInv, AllFull, Full, IInv, DataType
    <3>2. Region(h).highest = Highest(dev, h)
      BY <2>3, <3>1, RegionState DEF Region
    <3>. QED BY <2>2, <3>2
  <2>7. LowestInv'
    BY <2>1, <2>5, <2>6 DEF LowestInv, Putting
  <2>. QED BY <2>1, <2>7, InnerStepRing
<1>3. CASE write_find_location_end /\ best = NoState
  BY <1>3, LastStepRing DEF write_find_location_end, device
<1>. QED BY <1>1, <1>2, <1>3

(* The other steps of a search or a scan.                                  *)
LEMMA ScanRing ==
  ASSUME ExitInv, RingInv,
         \/ block_get_hintblock_state /\ pc' = "callback"
         \/ block_find_oldest_hintblock_loop_callback \/ scan_hintblock_loop_callback
         \/ block_find_oldest_hintblock
         \/ block_loop_hintblocks_second_round \/ block_loop_hintblocks_end
         \/ block_loop_blocks_skip_backup \/ block_loop_blocks_invalid
         \/ block_loop_blocks_end \/ read_block_loop_callback
  PROVE  RingInv'
<1>1. pc \in {"hint", "callback", "blocks"} /\ UNCHANGED <<dev, newest, op>>
  BY DEF block_get_hintblock_state, InLoop, block_find_oldest_hintblock_loop_callback,
         scan_hintblock_loop_callback, Callback, block_find_oldest_hintblock,
         block_loop_hintblocks_second_round, block_loop_hintblocks_end, LoopDone,
         block_loop_blocks_skip_backup, block_loop_blocks_invalid, block_loop_blocks_end,
         read_block_loop_callback, AtBlock, device
<1>2. CASE block_get_hintblock_state /\ pc' = "callback"
  BY <1>1, <1>2, InnerStepRing DEF block_get_hintblock_state, InLoop, RingInv, LowestInv, Putting
<1>3. CASE block_find_oldest_hintblock_loop_callback
  <2>1. pass' = "oldest" /\ pc' = "hint"
    BY <1>3 DEF block_find_oldest_hintblock_loop_callback, Callback, NextHintblock
  <2>. QED BY <1>1, <2>1, InnerStepRing DEF LowestInv
<1>4. CASE /\ ~(block_get_hintblock_state /\ pc' = "callback")
           /\ ~block_find_oldest_hintblock_loop_callback
  <2>1. \/ EndOp("ok") \/ EndOp("exit")
        \/ pass' = "scan" /\ pc' \in {"hint", "blocks"}
        \/ pass = "clear" /\ EndOp("ok")
    BY <1>4
    DEF scan_hintblock_loop_callback, Callback, block_find_oldest_hintblock, BeginLoop,
        block_loop_hintblocks_second_round, block_loop_hintblocks_end, LoopDone,
        block_loop_blocks_skip_backup, block_loop_blocks_invalid, block_loop_blocks_end,
        read_block_loop_callback, AtBlock, NextBlock, AfterBlocks, NextHintblock,
        ExitInv, FoundInv
  <2>2. CASE pass' = "scan" /\ pc' \in {"hint", "blocks"}
    BY <1>1, <2>2, InnerStepRing DEF LowestInv
  <2>. QED BY <1>1, <2>1, <2>2, LastStepRing
<1>. QED BY <1>2, <1>3, <1>4

-----------------------------------------------------------------------------
(* An update changes no timestamp.                                         *)
LEMMA UpdateRing ==
  ASSUME IInv, ExitInv, AscendInv, RingInv, update_block_loop_callback PROVE RingInv'
<1>1. /\ pc = "blocks" /\ pass = "scan" /\ UNCHANGED <<op, newest>>
      /\ NextBlock \/ EndOp("ok") \/ EndOp("ERR")
  BY DEF update_block_loop_callback, AtBlock, ExitInv, FoundInv
<1>2. /\ \A h \in HintPositions : SameExtent(dev, dev', h)
      /\ \A p \in Positions : dev'[p].ts = dev[p].ts
  BY UpdatePut
<1>3. OrderInv(dev')
  <2>1. \A h \in HintPositions : RegionInv(dev, h)
    BY DEF AscendInv, DeviceInv
  <2>2. \A h \in HintPositions : \A p \in DataCells(h) : dev'[p].ts = dev[p].ts
    BY <1>2, RegionFacts
  <2>3. dev \in [Positions -> Content]
    BY DEF IInv, DataType
  <2>. QED BY <1>2, <2>1, <2>2, <2>3, SameOrder DEF RingInv
<1>4. pc' \in {"blocks", "returned"} /\ pass' \in {"scan", "none"}
  BY <1>1 DEF NextBlock, EndOp
<1>5. NewestInv' /\ LowestInv'
  BY <1>1, <1>2, <1>4 DEF RingInv, NewestInv, LowestInv
<1>. QED BY <1>3, <1>5 DEF RingInv

(* The last block of a region is not later than the newest.                *)
LEMMA PlaceIsOlder ==
  ASSUME IInv, AscendInv, RingInv, pc = "put_block"
  PROVE  /\ cur.highest <= newest /\ newest < op.ts
         /\ newest \in Nat /\ op.ts \in Nat /\ cur.highest \in Nat
<1>. DEFINE h == cur.location
<1>1. /\ newest \in Nat /\ op.ts \in Nat /\ cur.highest \in Nat
      /\ dev \in [Positions -> Content]
  BY MaxTimeAssumption
  DEF IInv, DataType, Operations, LocalInv, LocalType, HintblockState, Time
<1>2. h \in HintPositions /\ RegionAscends(dev, h)
  BY PlaceFacts DEF RegionInv
<1>3. cur.highest <= newest
  <2>1. CASE InUse(dev, h)
    <3>1. cur.highest = Highest(dev, h)
      BY <2>1, PlaceState
    <3>2. dev[h].prev \in Positions
      BY <1>1, <1>2, <2>1, StampsAreNumbers
    <3>. QED BY <3>1, <3>2 DEF RingInv, NewestInv, Highest
  <2>2. CASE ~InUse(dev, h)
    <3>1. cur.highest = 0
      BY <2>2, PlaceState
    <3>. QED BY <1>1, <3>1
  <2>. QED BY <2>1, <2>2
<1>4. newest < op.ts
  BY DEF RingInv, NewestInv, IInv, LocalInv, WriteInv, Putting
<1>. QED BY <1>1, <1>3, <1>4

(* The data block keeps the timestamp the application gave it, and is not  *)
(* seen yet.                                                               *)
LEMMA BlockPut ==
  ASSUME IInv, AscendInv, RingInv, pc = "put_block", dev' = [dev EXCEPT ![loc] = NewBlock]
  PROVE  /\ OrderInv(dev') /\ \A g \in HintPositions : SameExtent(dev, dev', g)
         /\ NewBlock.ts = op.ts /\ newest < op.ts /\ newest \in Nat /\ op.ts \in Nat
         /\ \A q \in Positions : dev[q].ts \in Nat /\ dev[q].ts <= newest
         /\ \A q \in Positions : dev'[q] = IF q = loc THEN NewBlock ELSE dev[q]
<1>. DEFINE h == cur.location
<1>1. NewBlock \in Content /\ validate_block(NewBlock)
  BY NewBlockFacts DEF validate_block
<1>2. /\ h \in HintPositions /\ loc \in DataCells(h) /\ loc \in Positions
      /\ dev \in [Positions -> Content]
  BY PlaceFacts, RegionFacts DEF IInv, DataType
<1>3. NewBlock.ts = op.ts /\ newest < op.ts /\ newest \in Nat /\ op.ts \in Nat
  BY PlaceIsOlder DEF NewBlock, Block, Stamp
<1>4. \A q \in Positions : dev[q].ts \in Nat /\ dev[q].ts <= newest
  BY <1>2, MaxTimeAssumption DEF RingInv, NewestInv, Content, Time
<1>5. \A q \in Positions : dev[q].ts < NewBlock.ts
  BY <1>3, <1>4
<1>6. InUse(dev, h) => \/ loc \notin Written(dev, h) /\ ~Full(dev, h)
                       \/ AllFull(dev) /\ loc = blockstart_min(h)
  BY PlaceFacts
<1>7. AllFull(dev) => \A g \in HintPositions : Highest(dev, h) <= Highest(dev, g)
  BY DEF RingInv, LowestInv
<1>8. OrderInv(dev') /\ \A g \in HintPositions : SameExtent(dev, dev', g)
  <2>1. OrderInv(dev) /\ \A g \in HintPositions : RegionInv(dev, g)
    BY DEF RingInv, AscendInv, DeviceInv
  <2>. DEFINE c == NewBlock
              p == loc
              k == cur.location
  <2>2. /\ k \in HintPositions /\ p \in DataCells(k) /\ c \in Content /\ validate_block(c)
        /\ \A q \in Positions : dev[q].ts < c.ts
        /\ InUse(dev, k) => \/ p \notin Written(dev, k) /\ ~Full(dev, k)
                            \/ AllFull(dev) /\ p = blockstart_min(k)
        /\ AllFull(dev) => \A g \in HintPositions : Highest(dev, k) <= Highest(dev, g)
        /\ dev' = [dev EXCEPT ![p] = c]
    BY <1>1, <1>2, <1>5, <1>6, <1>7
  <2>. HIDE DEF c, p, k
  <2>3. /\ OrderInv([dev EXCEPT ![p] = c])
        /\ \A g \in HintPositions : SameExtent(dev, [dev EXCEPT ![p] = c], g)
    BY <1>2, <2>1, <2>2, PutCellOrder
  <2>. QED BY <2>2, <2>3
<1>9. \A q \in Positions : dev'[q] = IF q = loc THEN NewBlock ELSE dev[q]
  BY <1>2
<1>. QED BY <1>3, <1>4, <1>8, <1>9

LEMMA PutBlockRing ==
  ASSUME IInv, ExitInv, AscendInv, RingInv, write_checksum_and_put_block PROVE RingInv'
<1>. DEFINE h == cur.location
<1>1. pc = "put_block" /\ UNCHANGED op
  BY DEF write_checksum_and_put_block, ReadyToPut
<1>2. CASE FunnyLocation \/ ~io_writable(loc)
  <2>1. UNCHANGED <<dev, newest>> /\ (EndOp("exit") \/ EndOp("ERR"))
    BY <1>2 DEF write_checksum_and_put_block
  <2>. QED BY <2>1, LastStepRing
<1>3. CASE ~FunnyLocation /\ io_writable(loc)
  <2>1. /\ dev' = [dev EXCEPT ![loc] = NewBlock]
        /\ newest' = IF NewBlock.ts > newest THEN NewBlock.ts ELSE newest
        /\ pc' = "put_hint" /\ UNCHANGED <<locals, ret>>
    BY <1>3 DEF write_checksum_and_put_block
  <2>2. h \in HintPositions /\ loc \in Positions
    BY <1>1, PlaceFacts, RegionFacts
  <2>3. /\ OrderInv(dev') /\ \A g \in HintPositions : SameExtent(dev, dev', g)
        /\ NewBlock.ts = op.ts /\ newest < op.ts /\ newest \in Nat /\ op.ts \in Nat
        /\ \A q \in Positions : dev[q].ts \in Nat /\ dev[q].ts <= newest
        /\ \A q \in Positions : dev'[q] = IF q = loc THEN NewBlock ELSE dev[q]
    BY <1>1, <2>1, BlockPut
  <2>4. NewestInv'
    <3>1. newest' = op.ts /\ loc' = loc
      BY <2>1, <2>3 DEF locals
    <3>2. \A q \in Positions : dev'[q].ts <= op.ts
      BY <2>3
    <3>3. \A q \in Positions : q # loc => dev'[q].ts < dev'[loc].ts
      BY <2>2, <2>3
    <3>. QED BY <2>1, <3>1, <3>2, <3>3 DEF NewestInv
  <2>5. LowestInv'
    <3>1. AllFull(dev') =>
            AllFull(dev) /\ \A g \in HintPositions : Highest(dev', g) = Highest(dev, g)
      BY <2>3 DEF AllFull, SameExtent, Full
    <3>2. cur' = cur
      BY <2>1 DEF locals
    <3>3. AllFull(dev) => \A g \in HintPositions : Highest(dev, h) <= Highest(dev, g)
      BY <1>1 DEF RingInv, LowestInv
    <3>. QED BY <2>1, <2>2, <3>1, <3>2, <3>3 DEF LowestInv, Putting
  <2>. QED BY <2>3, <2>4, <2>5 DEF RingInv
<1>. QED BY <1>2, <1>3

(* The hint block.                                                         *)
LEMMA PutHintRing ==
  ASSUME IInv, AscendInv, RingInv, write_update_hintblock PROVE RingInv'
<1>. DEFINE h == cur.location
<1>1. pc = "put_hint" /\ UNCHANGED <<op, newest>>
  BY DEF write_update_hintblock
<1>2. CASE ~io_writable(h)
  BY <1>1, <1>2, LastStepRing DEF write_update_hintblock
<1>3. CASE io_writable(h)
  <2>1. /\ dev' = [dev EXCEPT ![h] = HintBlock(loc)]
        /\ pc' = "put_backup" /\ UNCHANGED <<locals, ret>>
    BY <1>3 DEF write_update_hintblock
  <2>2. /\ h \in HintPositions /\ loc \in DataCells(h) /\ h \in Positions
        /\ dev \in [Positions -> Content]
    BY <1>1, PlaceFacts, RegionFacts DEF IInv, DataType
  <2>3. /\ validate_block(dev[loc]) /\ PlaceFor(h)
        /\ \A q \in Positions : q # loc => dev[q].ts < dev[loc].ts
        /\ AllFull(dev) => \A g \in HintPositions : Highest(dev, h) <= Highest(dev, g)
    BY <1>1 DEF AscendInv, PlaceInv, RingInv, NewestInv, LowestInv
  <2>4. OrderInv(dev')
    <3>1. /\ OrderInv(dev) /\ \A g \in HintPositions : RegionInv(dev, g)
          /\ UsedInOrder(dev)
      BY DEF RingInv, AscendInv, DeviceInv
    <3>. DEFINE p == loc
                k == cur.location
    <3>2. /\ k \in HintPositions /\ p \in DataCells(k) /\ validate_block(dev[p])
          /\ \A q \in Positions : q # p => dev[q].ts < dev[p].ts
          /\ \/ /\ ~InUse(dev, k) /\ p = blockstart_min(k)
                /\ \A g \in HintPositions : g < k => Full(dev, g)
             \/ InUse(dev, k) /\ ~Full(dev, k) /\ p = skip_backup(dev[k].prev + 1, k)
             \/ AllFull(dev) /\ p = blockstart_min(k)
          /\ AllFull(dev) => \A g \in HintPositions : Highest(dev, k) <= Highest(dev, g)
          /\ dev' = [dev EXCEPT ![k] = HintBlock(p)]
      BY <2>1, <2>2, <2>3 DEF PlaceFor
    <3>. HIDE DEF p, k
    <3>3. OrderInv([dev EXCEPT ![k] = HintBlock(p)])
      BY <2>2, <3>1, <3>2, PutHintOrder
    <3>. QED BY <3>2, <3>3
  <2>5. NewestInv'
    <3>1. HintBlock(loc).ts = 0 /\ newest \in Nat
      BY MaxTimeAssumption DEF HintBlock, IInv, DataType, Time
    <3>2. \A q \in Positions : dev'[q] = dev[q] \/ dev'[q].ts = 0
      BY <2>1, <2>2, <3>1
    <3>. QED BY <1>1, <2>1, <3>1, <3>2 DEF RingInv, NewestInv
  <2>6. LowestInv'
    BY <2>1 DEF LowestInv, Putting
  <2>. QED BY <2>4, <2>5, <2>6 DEF RingInv
<1>. QED BY <1>2, <1>3

(* And its backup.                                                         *)
LEMMA PutBackupRing ==
  ASSUME IInv, AscendInv, RingInv, write_update_hintblock_backup PROVE RingInv'
<1>1. UNCHANGED newest /\ (EndOp("ok") \/ EndOp("ERR"))
  BY DEF write_update_hintblock_backup
<1>2. OrderInv(dev')
  <2>1. /\ \A h \in HintPositions : RegionInv(dev, h)
        /\ dev \in [Positions -> Content]
    BY DEF AscendInv, DeviceInv, IInv, DataType
  <2>2. \A h \in HintPositions : \A p \in DataCells(h) : dev'[p].ts = dev[p].ts
    BY BackupPut
  <2>. QED BY <2>1, <2>2, BackupPut, SameOrder DEF RingInv
<1>3. NewestInv' /\ LowestInv'
  <2>1. newest \in Nat
    BY MaxTimeAssumption DEF IInv, DataType, Time
  <2>2. \A q \in Positions : dev'[q].ts <= newest
    BY <2>1, BackupPut DEF RingInv, NewestInv
  <2>. QED BY <1>1, <2>2 DEF EndOp, NewestInv, LowestInv
<1>. QED BY <1>2, <1>3 DEF RingInv

-----------------------------------------------------------------------------
(* A device that was never written to.                                     *)
LEMMA InitRing == Init => RingInv
<1>. SUFFICES ASSUME Init PROVE RingInv
  OBVIOUS
<1>1. \A p \in Positions : dev[p].kind = "junk" /\ dev[p].ts = 0
  BY DEF Init, Junk
<1>2. \A h \in HintPositions : ~InUse(dev, h)
  BY <1>1, HintPositionFacts DEF InUse, validate_hintblock
<1>3. OrderInv(dev)
  BY <1>2, FirstHint DEF OrderInv, RingSorted, SortedFrom, LastIsNewest, LeftoverIsLatest
<1>4. NewestInv /\ LowestInv
  BY <1>1 DEF Init, NewestInv, LowestInv
<1>. QED BY <1>3, <1>4 DEF RingInv

(* Every step keeps it.                                                    *)
LEMMA NextRing ==
  ASSUME Undamaged, Ordered
  PROVE  IInv /\ ExitInv /\ AscendInv /\ RingInv /\ [Next]_vars => RingInv'
<1>. SUFFICES ASSUME IInv, ExitInv, AscendInv, RingInv, [Next]_vars PROVE RingInv'
  OBVIOUS
<1>1. CASE Request
  BY <1>1, RequestRing
<1>2. CASE Step
  <2>1. ~recover_hintblock /\ ~recover_hintblock_backup /\ ~clear_hintblocks_loop_callback
    BY DEF AscendInv, CalmInv, recover_hintblock, recover_hintblock_backup,
           clear_hintblocks_loop_callback, Callback
  <2>2. block_get_hintblock_state => pc' = "callback"
    <3>1. SUFFICES ASSUME block_get_hintblock_state PROVE pc' = "callback"
      OBVIOUS
    <3>2. i \in HintPositions
      BY <3>1 DEF block_get_hintblock_state, InLoop, IInv, LocalInv, LoopInv
    <3>3. BackupFollows(dev, i)
      BY <3>2 DEF AscendInv, DeviceInv, RegionInv
    <3>. QED BY <3>1, <3>3 DEF block_get_hintblock_state, BackupFollows, InUse
  <2>3. write_put_block_refused => RingInv'
    BY LastStepRing DEF write_put_block_refused, device
  <2>. QED BY <1>2, <2>1, <2>2, <2>3, CheckFreeRing, SearchRing, LoopEndRing, ScanRing,
       UpdateRing, PutBlockRing, PutHintRing, PutBackupRing DEF Step
<1>3. CASE Fault
  <2>1. ~(faults < MaxFaults)
    BY DEF Undamaged, AscendInv, CalmInv
  <2>2. Crash
    BY <1>3, <2>1 DEF Fault, TornCrash, Decay, HeaderDecay
  <2>. QED BY <2>2, LastStepRing DEF Crash, device
<1>4. CASE UNCHANGED vars
  <2>1. OrderInv(dev')
    BY <1>4 DEF vars, RingInv
  <2>. QED BY <1>4, <2>1 DEF vars, RingInv, NewestInv, LowestInv, Putting
<1>. QED BY <1>1, <1>2, <1>3, <1>4 DEF Next

(* The regions stay in the order of their entries.                         *)
THEOREM RingInvariance ==
  ASSUME StampsHaveRoom, Undamaged, Ordered
  PROVE  Spec => [](IInv /\ ExitInv /\ AscendInv /\ RingInv)
<1>1. IInv /\ ExitInv /\ AscendInv /\ RingInv /\ [Next]_vars => RingInv'
  BY NextRing
<1>. QED BY <1>1, InitRing, AscendInvariance, PTL DEF Spec

-----------------------------------------------------------------------------
(* The device is small enough for the `int pos` of write_put_and_pad_block.*)
PositionsFitInt == DeviceSize <= IntLimit

(* Then all of a region can be written to, as the end of the file does not *)
(* cut through a hint block.                                               *)
LEMMA RegionsAreWritable ==
  ASSUME PositionsFitInt, NEW h \in HintPositions, NEW p \in Span(h)
  PROVE  io_writable(p)
<1>. USE HalfAssumption, SizeAssumption, IntLimitAssumption
<1>1. PICK m \in 1..DeviceSize : h = m * Spacing
  BY DEF HintPositions
<1>2. h = (2 * m) * Half
  BY <1>1 DEF Spacing
<1>3. 2 * m <= h
  <2>1. Half * (2 * m) >= 2 * m
    BY MultiplyFacts
  <2>. QED BY <1>2, <2>1
<1>4. h \in Nat /\ h <= DeviceSize - 1
  BY HintPositionFacts
<1>5. DeviceSize # h + 1
  <2>1. 2 * m \in 1..DeviceSize
    BY <1>3, <1>4
  <2>. QED BY <1>2, <2>1, TailAssumption
<1>6. p \in Nat /\ p <= h
  BY RegionFacts DEF Span
<1>. QED BY <1>4, <1>5, <1>6 DEF io_writable, PositionsFitInt

(* No step of a write that fits returns an error.                          *)
LEMMA NextAccepted ==
  ASSUME PositionsFitInt, Undamaged
  PROVE  /\ IInv /\ AscendInv /\ RingInv /\ WriteIsAccepted /\ [Next]_vars /\ NoBugExit'
              => WriteIsAccepted'
<1>. SUFFICES ASSUME IInv, AscendInv, RingInv, WriteIsAccepted, [Next]_vars, NoBugExit'
              PROVE  WriteIsAccepted'
  OBVIOUS
<1>1. ASSUME op' = op, ret' = ret \/ ret' \in {"ok", "crash", "exit"}
      PROVE  WriteIsAccepted'
  BY <1>1 DEF WriteIsAccepted, NoBugExit
<1>2. CASE Request
  <2>1. ret' = "none"
    BY <1>2 DEF Request, bdl_write_block, bdl_read_blocks, bdl_read_update_application_data,
                bdl_clear_dev, BeginOp, Return, AscendInv, CalmInv
  <2>. QED BY <2>1 DEF WriteIsAccepted
<1>3. CASE Step
  <2>1. ~recover_hintblock /\ ~recover_hintblock_backup /\ ~clear_hintblocks_loop_callback
    BY DEF AscendInv, CalmInv, recover_hintblock, recover_hintblock_backup,
           clear_hintblocks_loop_callback, Callback
  <2>2. CASE \/ block_get_hintblock_state \/ write_hintblock_check_free_callback
             \/ write_hintblock_check_timestamps
             \/ block_find_oldest_hintblock_loop_callback \/ scan_hintblock_loop_callback
             \/ write_find_location_oldest \/ write_find_location_end
             \/ block_find_oldest_hintblock \/ block_loop_hintblocks_second_round
             \/ block_loop_hintblocks_end
             \/ block_loop_blocks_skip_backup \/ block_loop_blocks_invalid
             \/ block_loop_blocks_end \/ read_block_loop_callback
    <3>1. op' = op
      BY <2>2
      DEF block_get_hintblock_state, write_hintblock_check_free_callback,
          write_hintblock_check_timestamps, block_find_oldest_hintblock_loop_callback,
          scan_hintblock_loop_callback, write_find_location_oldest,
          write_find_location_end, block_find_oldest_hintblock,
          block_loop_hintblocks_second_round, block_loop_hintblocks_end,
          block_loop_blocks_skip_backup, block_loop_blocks_invalid,
          block_loop_blocks_end, read_block_loop_callback
    <3>2. ret' = ret \/ ret' \in {"ok", "exit"}
      BY <2>2
      DEF block_get_hintblock_state, write_hintblock_check_free_callback,
          write_hintblock_check_timestamps, block_find_oldest_hintblock_loop_callback,
          scan_hintblock_loop_callback, write_find_location_oldest,
          write_find_location_end, block_find_oldest_hintblock,
          block_loop_hintblocks_second_round, block_loop_hintblocks_end,
          block_loop_blocks_skip_backup, block_loop_blocks_invalid,
          block_loop_blocks_end, read_block_loop_callback, NextHintblock, BeginLoop,
          EndOp, NextBlock, AfterBlocks
    <3>. QED BY <1>1, <3>1, <3>2
  <2>3. CASE update_block_loop_callback
    BY <2>3 DEF update_block_loop_callback, WriteIsAccepted
  <2>4. CASE write_put_block_refused
    <3>1. cur.highest < op.ts
      BY <2>4, PlaceIsOlder DEF write_put_block_refused
    <3>2. TimestampError = "none"
      BY <3>1 DEF TimestampError
    <3>. QED BY <2>4, <3>2 DEF write_put_block_refused, WriteIsAccepted
  <2>5. ASSUME pc \in {"put_block", "put_hint"}
        PROVE  io_writable(loc) /\ io_writable(cur.location)
    BY <2>5, PlaceFacts, RegionFacts, RegionsAreWritable
  <2>6. CASE write_checksum_and_put_block
    <3>1. io_writable(loc)
      BY <2>5, <2>6 DEF write_checksum_and_put_block, ReadyToPut
    <3>. QED BY <1>1, <2>6, <3>1 DEF write_checksum_and_put_block, EndOp
  <2>7. CASE write_update_hintblock
    <3>1. io_writable(cur.location)
      BY <2>5, <2>7 DEF write_update_hintblock
    <3>. QED BY <1>1, <2>7, <3>1 DEF write_update_hintblock
  <2>8. CASE write_update_hintblock_backup
    <3>1. cur.location \in HintPositions
      BY <2>8 DEF write_update_hintblock_backup, IInv, LocalInv, PutInv, Putting
    <3>2. io_writable(backup_location(cur.location))
      BY <3>1, RegionFacts, RegionsAreWritable
    <3>. QED BY <1>1, <2>8, <3>2 DEF write_update_hintblock_backup, EndOp
  <2>. QED BY <1>3, <2>1, <2>2, <2>3, <2>4, <2>6, <2>7, <2>8 DEF Step
<1>4. CASE Fault
  <2>1. ~(faults < MaxFaults)
    BY DEF Undamaged, AscendInv, CalmInv
  <2>. QED BY <1>1, <1>4, <2>1 DEF Fault, TornCrash, Decay, HeaderDecay, Crash, EndOp
<1>5. CASE UNCHANGED vars
  BY <1>1, <1>5 DEF vars
<1>. QED BY <1>2, <1>3, <1>4, <1>5 DEF Next

(* A block that fits is accepted whenever its timestamp is later than all  *)
(* before it, also by a device that is full, and never for want of a place *)
(* or of a later timestamp (write_find_location, write_put_block).         *)
THEOREM WritesAreAccepted ==
  ASSUME StampsHaveRoom, Undamaged, Ordered, PositionsFitInt
  PROVE  Spec => []WriteIsAccepted
<1>1. Init => WriteIsAccepted
  BY DEF Init, WriteIsAccepted
<1>2. IInv /\ AscendInv /\ RingInv /\ WriteIsAccepted /\ [Next]_vars /\ NoBugExit'
        => WriteIsAccepted'
  BY NextAccepted
<1>3. ExitInv => NoBugExit
  BY DEF ExitInv
<1>. QED BY <1>1, <1>2, <1>3, RingInvariance, PTL DEF Spec

=============================================================================
