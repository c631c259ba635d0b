----------------------------- MODULE RingProofs -----------------------------
(***************************************************************************)
(* While nothing is damaged and timestamps ascend, the device implements   *)
(* the bounded log of RingLog: every step of a write, read or update, a    *)
(* kill included, appends the newest entry, discards the oldest, changes   *)
(* the application data of one, or leaves the log as it is.                *)
(***************************************************************************)
EXTENDS ReadProofs, FiniteSetTheorems

(* The positions of the entries, and the log they make.                    *)
EntryCells(d) == UNION {Entries(d, h) : h \in {g \in HintPositions : InUse(d, g)}}

EntriesAt(d, S) == {EntryOf(d[p]) : p \in S}

AllCells == UNION {DataCells(h) : h \in HintPositions}

(* The application gave the timestamp of the block that was put.           *)
GivenInv ==
  /\ op.kind = "write" => op.ts \in Stamps
  /\ pc = "put_hint" => dev[loc].ts \in Stamps

-----------------------------------------------------------------------------
(* The log is what the cells of the regions hold.                          *)
LEMMA LogIs == IInv /\ DeviceInv => Log = EntriesAt(dev, EntryCells(dev))
<1>. SUFFICES ASSUME IInv, DeviceInv PROVE Log = EntriesAt(dev, EntryCells(dev))
  OBVIOUS
<1>. QED BY LogFacts DEF EntriesAt, EntryCells

LEMMA LogIsNext == IInv' /\ DeviceInv' => Log' = EntriesAt(dev', EntryCells(dev'))
<1>1. (IInv /\ DeviceInv => Log = EntriesAt(dev, EntryCells(dev)))'
  BY LogIs, PTL
<1>. QED BY <1>1 DEF EntriesAt, EntryCells

(* Cells are positions of data.                                            *)
LEMMA CellFacts ==
  /\ AllCells \subseteq Positions
  /\ \A d : EntryCells(d) \subseteq AllCells
  /\ \A h \in HintPositions : DataCells(h) \subseteq AllCells
BY RegionFacts DEF AllCells, EntryCells, Entries, Written

(* Entries of different regions are apart, and all that one ends with is   *)
(* earlier than all the other has.                                         *)
LEMMA EntriesApart ==
  ASSUME NEW d \in [Positions -> Content], \A h \in HintPositions : RegionInv(d, h),
         NEW o \in HintPositions, SortedFrom(d, o),
         NEW g \in HintPositions, NEW h \in HintPositions, InUse(d, g), InUse(d, h),
         Before(o, g, h), NEW p \in Entries(d, g), NEW q \in Entries(d, h)
  PROVE  d[p].ts < d[q].ts
<1>1. d[p].ts <= Highest(d, g) /\ Highest(d, g) < d[q].ts
  BY HighestEntry DEF SortedFrom, RegionInv
<1>2. d[p].ts \in Nat /\ d[q].ts \in Nat /\ Highest(d, g) \in Nat
  BY StampsAreNumbers DEF Entries, Written, RegionInv
<1>. QED BY <1>1, <1>2

(* No two entries have the same timestamp.                                 *)
LEMMA StampsDiffer ==
  ASSUME NEW d \in [Positions -> Content], \A h \in HintPositions : RegionInv(d, h),
         RingSorted(d), NEW p \in EntryCells(d), NEW q \in EntryCells(d), p # q
  PROVE  d[p].ts # d[q].ts
<1>1. PICK g \in HintPositions : InUse(d, g) /\ p \in Entries(d, g)
  BY DEF EntryCells
<1>2. PICK h \in HintPositions : InUse(d, h) /\ q \in Entries(d, h)
  BY DEF EntryCells
<1>3. d[p].ts \in Nat /\ d[q].ts \in Nat /\ p \in Nat /\ q \in Nat
  BY <1>1, <1>2, StampsAreNumbers, RegionFacts DEF Entries, Written
<1>4. CASE g = h
  <2>1. (p < q => d[p].ts < d[q].ts) /\ (q < p => d[q].ts < d[p].ts)
    BY <1>1, <1>2, <1>4 DEF Entries, RegionInv, RegionAscends
  <2>. QED BY <1>3, <2>1
<1>5. CASE g # h
  <2>1. PICK o \in HintPositions : SortedFrom(d, o)
    BY DEF RingSorted
  <2>2. Before(o, g, h) \/ Before(o, h, g)
    BY <1>5, BeforeFacts
  <2>3. d[p].ts < d[q].ts \/ d[q].ts < d[p].ts
    BY <1>1, <1>2, <2>1, <2>2, EntriesApart
  <2>. QED BY <1>3, <2>3
<1>. QED BY <1>4, <1>5

-----------------------------------------------------------------------------
(* There are as many entries as cells, and never more than the device has. *)
LEMMA CellsAreFinite ==
  /\ IsFiniteSet(Positions) /\ IsFiniteSet(AllCells)
  /\ \A S : S \subseteq Positions => IsFiniteSet(S)
<1>1. IsFiniteSet(Positions)
  BY SizeAssumption, FS_Interval DEF Positions
<1>. QED BY <1>1, CellFacts, FS_Subset

LEMMA CountEntries ==
  ASSUME NEW d \in [Positions -> Content], NEW S \in SUBSET Positions
  PROVE  /\ IsFiniteSet(EntriesAt(d, S))
         /\ Cardinality(EntriesAt(d, S)) <= Cardinality(S)
         /\ (\A p, q \in S : p # q => d[p].ts # d[q].ts)
              => Cardinality(EntriesAt(d, S)) = Cardinality(S)
<1>. DEFINE f == [p \in S |-> EntryOf(d[p])]
            T == EntriesAt(d, S)
<1>1. IsFiniteSet(S)
  BY CellsAreFinite
<1>2. f \in Surjection(S, T)
  BY DEF Surjection, EntriesAt
<1>3. ASSUME \A p, q \in S : p # q => d[p].ts # d[q].ts
      PROVE  f \in Injection(S, T)
  <2>1. \A p \in S : f[p].ts = d[p].ts
    BY DEF EntryOf
  <2>2. f \in [S -> T]
    BY DEF EntriesAt
  <2>3. \A p, q \in S : f[p] = f[q] => p = q
    BY <1>3, <2>1
  <2>. QED BY <2>2, <2>3 DEF Injection, IsInjective
<1>. HIDE DEF f, T
<1>4. IsFiniteSet(T) /\ Cardinality(T) <= Cardinality(S)
  BY <1>1, <1>2, FS_Surjection
<1>5. f \in Injection(S, T) => Cardinality(T) = Cardinality(S)
  BY <1>1, <1>2, FS_Surjection
<1>. QED BY <1>3, <1>4, <1>5 DEF T

(* RingLog counts as LogProperties does.                                   *)
LEMMA RingCounts == \A S : Ring!Cardinality(S) = Cardinality(S)
BY DEF Ring!Cardinality, Cardinality

(* Every region has room for as many.                                      *)
LEMMA RegionsAreAlike ==
  ASSUME NEW h \in HintPositions
  PROVE  /\ IsFiniteSet(DataCells(h))
         /\ Cardinality(DataCells(h)) = Spacing - 2
<1>. DEFINE a == blockstart_min(h)
            b == blockstart_max(h)
            c == backup_location(h)
<1>1. h \in Nat /\ Spacing <= h /\ Spacing = 2 * Half /\ Half \in Nat /\ Half >= 2
  BY HintPositionFacts, HalfAssumption DEF Spacing
<1>2. a \in Int /\ b \in Int /\ a <= b /\ b - a + 1 = Spacing - 1 /\ c \in a..b
  BY <1>1 DEF blockstart_min, blockstart_max, backup_location
<1>3. DataCells(h) = (a..b) \ {c}
  BY DEF DataCells
<1>. HIDE DEF a, b, c
<1>4. IsFiniteSet(a..b) /\ Cardinality(a..b) = Spacing - 1
  BY <1>2, FS_Interval
<1>5. IsFiniteSet((a..b) \ {c}) /\ Cardinality((a..b) \ {c}) = Spacing - 1 - 1
  BY <1>2, <1>4, FS_RemoveElement
<1>. QED BY <1>1, <1>3, <1>5

-----------------------------------------------------------------------------
(* Whatever leaves the extent of the regions and their first timestamps    *)
(* alone leaves the cells of the entries alone.                            *)
LEMMA SameCells ==
  ASSUME NEW d, NEW e, \A h \in HintPositions : SameExtent(d, e, h),
         \A h \in HintPositions : InUse(d, h) =>
           e[blockstart_min(h)].ts = d[blockstart_min(h)].ts
  PROVE  EntryCells(e) = EntryCells(d)
<1>1. \A h \in HintPositions : InUse(e, h) <=> InUse(d, h)
  BY DEF SameExtent
<1>2. \A h \in HintPositions : InUse(d, h) => Entries(e, h) = Entries(d, h)
  BY DEF SameExtent, Entries, IsLeftover, HasLeftover
<1>. QED BY <1>1, <1>2 DEF EntryCells

(* Another block that is not an entry changes no entry, and another that   *)
(* is one changes only that.                                               *)
LEMMA OneCell ==
  ASSUME NEW d \in [Positions -> Content], \A h \in HintPositions : RegionInv(d, h),
         RingSorted(d), NEW p \in Positions, NEW c,
         EntryCells([d EXCEPT ![p] = c]) = EntryCells(d)
  PROVE  LET log == EntriesAt(d, EntryCells(d))
             new == EntriesAt([d EXCEPT ![p] = c], EntryCells([d EXCEPT ![p] = c]))
         IN  /\ p \notin EntryCells(d) => new = log
             /\ p \in EntryCells(d) =>
                  EntryOf(d[p]) \in log /\ new = (log \ {EntryOf(d[p])}) \cup {EntryOf(c)}
<1>. DEFINE S == EntryCells(d)
            e == [d EXCEPT ![p] = c]
<1>1. S \subseteq Positions
  BY CellFacts
<1>2. \A q \in S : q # p => e[q] = d[q]
  BY <1>1
<1>3. p \in S => e[p] = c
  BY <1>1
<1>4. \A q \in S : p \in S /\ q # p => EntryOf(d[q]) # EntryOf(d[p])
  BY StampsDiffer DEF EntryOf
<1>. HIDE DEF e, S
<1>5. p \notin S => EntriesAt(e, S) = EntriesAt(d, S)
  BY <1>2 DEF EntriesAt
<1>6. ASSUME p \in S
      PROVE  /\ EntryOf(d[p]) \in EntriesAt(d, S)
             /\ EntriesAt(e, S) = (EntriesAt(d, S) \ {EntryOf(d[p])}) \cup {EntryOf(c)}
  <2>1. EntriesAt(d, S) \ {EntryOf(d[p])} = EntriesAt(d, S \ {p})
    BY <1>4, <1>6 DEF EntriesAt
  <2>2. EntriesAt(e, S \ {p}) = EntriesAt(d, S \ {p})
    BY <1>2 DEF EntriesAt
  <2>3. EntriesAt(e, S) = EntriesAt(e, S \ {p}) \cup {EntryOf(c)}
    BY <1>3, <1>6 DEF EntriesAt
  <2>. QED BY <1>6, <2>1, <2>2, <2>3 DEF EntriesAt
<1>. QED BY <1>5, <1>6 DEF S, e

(* An update changes the application data of one entry, or only that of a  *)
(* leftover.                                                               *)
LEMMA UpdateRetags ==
  ASSUME IInv, AscendInv, RingInv, IInv', DeviceInv', update_block_loop_callback
  PROVE  Log' = Log \/ Ring!Retag
<1>1. CASE dev' = dev
  BY <1>1, SameLog
<1>2. CASE \E app \in SUBSET Flags : dev' = [dev EXCEPT ![j] = Updated(dev[j], app)]
  <2>1. PICK app \in SUBSET Flags : dev' = [dev EXCEPT ![j] = Updated(dev[j], app)]
    BY <1>2
  <2>. DEFINE c == Updated(dev[j], app)
  <2>2. /\ dev \in [Positions -> Content] /\ \A h \in HintPositions : RegionInv(dev, h)
        /\ RingSorted(dev) /\ j \in Positions
    BY AtBlockWritten, RegionFacts
    DEF IInv, DataType, AscendInv, DeviceInv, RingInv, OrderInv, update_block_loop_callback
  <2>3. EntryCells(dev') = EntryCells(dev)
    <3>1. \A h \in HintPositions : SameExtent(dev, dev', h)
      BY UpdatePut
    <3>2. \A h \in HintPositions : dev'[blockstart_min(h)].ts = dev[blockstart_min(h)].ts
      BY UpdatePut, RegionFacts
    <3>. QED BY <3>1, <3>2, SameCells
  <2>4. EntryOf(c) = [EntryOf(dev[j]) EXCEPT !.app = app]
    BY DEF EntryOf, Updated, Block
  <2>. HIDE DEF c
  <2>5. dev' = [dev EXCEPT ![j] = c]
    BY <2>1 DEF c
  <2>6. /\ Log = EntriesAt(dev, EntryCells(dev))
        /\ Log' = EntriesAt([dev EXCEPT ![j] = c], EntryCells([dev EXCEPT ![j] = c]))
    BY <2>5, LogIs, LogIsNext DEF AscendInv
  <2>7. \/ Log' = Log
        \/ EntryOf(dev[j]) \in Log /\ Log' = (Log \ {EntryOf(dev[j])}) \cup {EntryOf(c)}
    BY <2>2, <2>3, <2>5, <2>6, OneCell
  <2>. QED BY <2>4, <2>7 DEF Ring!Retag
<1>. QED BY <1>1, <1>2 DEF update_block_loop_callback

-----------------------------------------------------------------------------
(* On a full device the region at h that ends first is the oldest, and no  *)
(* other has a leftover.                                                   *)
LEMMA OldestOfAll ==
  ASSUME NEW d \in [Positions -> Content], \A g \in HintPositions : RegionInv(d, g),
         OrderInv(d), AllFull(d), NEW h \in HintPositions,
         \A g \in HintPositions : Highest(d, h) <= Highest(d, g)
  PROVE  /\ \A g \in HintPositions : g # h => Entries(d, g) = DataCells(g)
         /\ Entries(d, h) =
              DataCells(h) \ (IF HasLeftover(d, h) THEN {blockstart_min(h)} ELSE {})
         /\ \A p \in Entries(d, h), q \in EntryCells(d) \ Entries(d, h) : d[p].ts < d[q].ts
<1>1. \A g \in HintPositions : InUse(d, g) /\ RegionAscends(d, g) /\ Highest(d, g) \in Nat
  BY StampsAreNumbers DEF AllFull, Full, RegionInv
<1>2. \A g \in HintPositions : Written(d, g) = DataCells(g)
  <2>1. SUFFICES ASSUME NEW g \in HintPositions, NEW p \in DataCells(g)
                 PROVE  p <= d[g].prev
    BY DEF Written
  <2>2. d[g].prev = blockstart_max(g)
    BY DEF AllFull, Full
  <2>. QED BY <2>1, <2>2, RegionFacts DEF DataCells
<1>3. \A g \in HintPositions : g # h => ~HasLeftover(d, g)
  <2>1. SUFFICES ASSUME NEW g \in HintPositions, g # h, HasLeftover(d, g) PROVE FALSE
    OBVIOUS
  <2>2. Highest(d, g) < Highest(d, h)
    BY <1>1, <2>1 DEF OrderInv, LeftoverIsLatest
  <2>. QED BY <1>1, <2>1, <2>2
<1>4. \A g \in HintPositions : g # h => Entries(d, g) = DataCells(g)
  BY <1>2, <1>3 DEF Entries, IsLeftover
<1>5. Entries(d, h) =
        DataCells(h) \ (IF HasLeftover(d, h) THEN {blockstart_min(h)} ELSE {})
  BY <1>2 DEF Entries, IsLeftover
<1>6. ASSUME NEW p \in Entries(d, h), NEW q \in EntryCells(d) \ Entries(d, h)
      PROVE  d[p].ts < d[q].ts
  <2>1. PICK g \in HintPositions : InUse(d, g) /\ q \in Entries(d, g)
    BY DEF EntryCells
  <2>2. PICK o \in HintPositions : SortedFrom(d, o)
    BY DEF OrderInv, RingSorted
  <2>3. g # h
    BY <1>6, <2>1
  <2>4. CASE Before(o, h, g)
    BY <1>1, <2>1, <2>2, <2>4, EntriesApart
  <2>5. CASE Before(o, g, h)
    <3>1. Highest(d, g) < Highest(d, h)
      BY <1>1, <2>1, <2>2, <2>5, SortedHighest
    <3>. QED BY <1>1, <3>1
  <2>. QED BY <2>3, <2>4, <2>5, BeforeFacts
<1>. QED BY <1>4, <1>5, <1>6

(* So its cells are all there are, but for a leftover.                     *)
LEMMA FullCells ==
  ASSUME NEW d \in [Positions -> Content], \A g \in HintPositions : RegionInv(d, g),
         OrderInv(d), AllFull(d), NEW h \in HintPositions,
         \A g \in HintPositions : Highest(d, h) <= Highest(d, g)
  PROVE  EntryCells(d) =
           AllCells \ (IF HasLeftover(d, h) THEN {blockstart_min(h)} ELSE {})
<1>1. \A g \in HintPositions : InUse(d, g)
  BY DEF AllFull, Full
<1>2. EntryCells(d) = UNION {Entries(d, g) : g \in HintPositions}
  BY <1>1 DEF EntryCells
<1>3. \A g \in HintPositions : g # h => blockstart_min(h) \notin DataCells(g)
  <2>1. SUFFICES ASSUME NEW g \in HintPositions, g # h PROVE blockstart_min(h) \notin DataCells(g)
    OBVIOUS
  <2>2. blockstart_min(h) \in Span(h) /\ DataCells(g) \subseteq Span(g)
    BY RegionFacts
  <2>. QED BY <2>1, <2>2, SpansDisjoint
<1>4. \A g \in HintPositions : g # h => Entries(d, g) = DataCells(g)
  BY OldestOfAll
<1>5. Entries(d, h) =
        DataCells(h) \ (IF HasLeftover(d, h) THEN {blockstart_min(h)} ELSE {})
  BY OldestOfAll
<1>. QED BY <1>2, <1>3, <1>4, <1>5 DEF AllCells

(* A cell is an entry of its own region only.                              *)
LEMMA OwnRegion ==
  ASSUME NEW d, NEW h \in HintPositions, NEW p \in DataCells(h), p \in EntryCells(d)
  PROVE  InUse(d, h) /\ p \in Entries(d, h)
<1>1. PICK g \in HintPositions : InUse(d, g) /\ p \in Entries(d, g)
  BY DEF EntryCells
<1>2. p \in Span(g) /\ p \in Span(h)
  BY <1>1, RegionFacts DEF Entries, Written
<1>. QED BY <1>1, <1>2, SpansDisjoint

-----------------------------------------------------------------------------
(* A data block that is not seen yet changes nothing.                      *)
LEMMA UnseenBlock ==
  ASSUME IInv, AscendInv, RingInv, IInv', DeviceInv', pc = "put_block",
         dev' = [dev EXCEPT ![loc] = NewBlock],
         ~(AllFull(dev) /\ loc = blockstart_min(cur.location))
  PROVE  Log' = Log
<1>. DEFINE h == cur.location
<1>1. /\ h \in HintPositions /\ RegionInv(dev, h) /\ loc \in DataCells(h)
      /\ InUse(dev, h) => \/ loc \notin Written(dev, h) /\ ~Full(dev, h)
                             /\ loc = skip_backup(dev[h].prev + 1, h)
                          \/ AllFull(dev) /\ Full(dev, h) /\ loc = blockstart_min(h)
  BY PlaceFacts
<1>2. /\ dev \in [Positions -> Content] /\ \A g \in HintPositions : RegionInv(dev, g)
      /\ RingSorted(dev) /\ loc \in Positions /\ loc \in Span(h)
  BY <1>1, RegionFacts DEF IInv, DataType, AscendInv, DeviceInv, RingInv, OrderInv
<1>3. InUse(dev, h) => /\ loc \notin Written(dev, h) /\ loc # blockstart_min(h)
                       /\ ~Full(dev, h)
  BY <1>1, <1>2, NextPlace DEF RegionInv
<1>4. loc \notin EntryCells(dev)
  BY <1>1, <1>3, OwnRegion DEF Entries
<1>5. EntryCells(dev') = EntryCells(dev)
  <2>1. \A g \in HintPositions : SameExtent(dev, dev', g)
    BY BlockPut
  <2>2. ASSUME NEW g \in HintPositions, InUse(dev, g)
        PROVE  dev'[blockstart_min(g)].ts = dev[blockstart_min(g)].ts
    <3>1. blockstart_min(g) \in Span(g) /\ blockstart_min(g) \in Positions
      BY RegionFacts
    <3>2. loc # blockstart_min(g)
      BY <1>1, <1>2, <1>3, <2>2, <3>1, SpansDisjoint
    <3>. DEFINE b == blockstart_min(g)
    <3>3. b \in Positions /\ b # loc
      BY <3>1, <3>2
    <3>. HIDE DEF b
    <3>4. dev'[b] = dev[b]
      BY <3>3, BlockPut
    <3>. QED BY <3>4 DEF b
  <2>. QED BY <2>1, <2>2, SameCells
<1>6. /\ Log = EntriesAt(dev, EntryCells(dev))
      /\ Log' = EntriesAt([dev EXCEPT ![loc] = NewBlock],
                          EntryCells([dev EXCEPT ![loc] = NewBlock]))
  BY LogIs, LogIsNext DEF AscendInv
<1>. QED BY <1>2, <1>4, <1>5, <1>6, OneCell, ZenonT(60)

(* When all regions are full it takes the place of the oldest entry, or of *)
(* the leftover of a killed write.                                         *)
LEMMA BlockOnOldest ==
  ASSUME IInv, AscendInv, RingInv, IInv', DeviceInv', RingInv', pc = "put_block",
         dev' = [dev EXCEPT ![loc] = NewBlock],
         AllFull(dev), loc = blockstart_min(cur.location)
  PROVE  Log' = Log \/ Ring!DiscardOldest
<1>. DEFINE h == cur.location
<1>1. /\ h \in HintPositions /\ loc \in DataCells(h) /\ loc \in Positions
      /\ dev \in [Positions -> Content] /\ \A g \in HintPositions : RegionInv(dev, g)
      /\ OrderInv(dev) /\ RingSorted(dev)
      /\ \A g \in HintPositions : Highest(dev, h) <= Highest(dev, g)
  BY PlaceFacts, RegionFacts
  DEF IInv, DataType, AscendInv, DeviceInv, RingInv, OrderInv, LowestInv
<1>2. /\ OrderInv(dev') /\ \A g \in HintPositions : SameExtent(dev, dev', g)
      /\ NewBlock.ts = op.ts /\ newest < op.ts /\ newest \in Nat /\ op.ts \in Nat
      /\ \A q \in Positions : dev[q].ts \in Nat /\ dev[q].ts <= newest
      /\ \A q \in Positions : dev'[q] = IF q = loc THEN NewBlock ELSE dev[q]
  BY BlockPut
<1>3. /\ AllFull(dev') /\ \A g \in HintPositions : Highest(dev', g) = Highest(dev, g)
  BY <1>2 DEF AllFull, SameExtent, Full
<1>4. EntryCells(dev') = AllCells \ {loc}
  <2>1. dev' \in [Positions -> Content] /\ \A g \in HintPositions : RegionInv(dev', g)
    BY DEF IInv, DataType, DeviceInv
  <2>2. HasLeftover(dev', h)
    <3>1. dev[h].prev \in Positions
      BY <1>1, StampsAreNumbers DEF RegionInv, AllFull, Full
    <3>2. Highest(dev, h) <= newest
      BY <1>2, <3>1 DEF Highest
    <3>3. Highest(dev, h) \in Nat
      BY <1>2, <3>1 DEF Highest
    <3>4. dev'[blockstart_min(h)].ts = op.ts
      BY <1>1, <1>2
    <3>5. Highest(dev', h) = Highest(dev, h)
      BY <1>1, <1>3
    <3>6. newest < op.ts /\ newest \in Nat /\ op.ts \in Nat
      BY <1>2
    <3>. HIDE DEF h
    <3>7. Highest(dev, h) < op.ts
      BY <3>2, <3>3, <3>6
    <3>. QED BY <3>3, <3>4, <3>5, <3>6, <3>7 DEF HasLeftover
  <2>. QED BY <1>1, <1>2, <1>3, <2>1, <2>2, FullCells
<1>5. EntryCells(dev) = AllCells \ (IF HasLeftover(dev, h) THEN {loc} ELSE {})
  BY <1>1, FullCells
<1>6. /\ Log = EntriesAt(dev, EntryCells(dev))
      /\ Log' = EntriesAt(dev', EntryCells(dev'))
  BY LogIs, LogIsNext DEF AscendInv
<1>7. EntriesAt(dev', AllCells \ {loc}) = EntriesAt(dev, AllCells \ {loc})
  <2>1. \A q \in AllCells \ {loc} : dev'[q] = dev[q]
    BY <1>2, CellFacts
  <2>. QED BY <2>1 DEF EntriesAt
<1>8. CASE HasLeftover(dev, h)
  BY <1>4, <1>5, <1>6, <1>7, <1>8
<1>9. CASE ~HasLeftover(dev, h)
  <2>. DEFINE x == EntryOf(dev[loc])
  <2>1. EntryCells(dev) = AllCells /\ loc \in AllCells /\ loc \in EntryCells(dev)
    BY <1>1, <1>5, <1>9, CellFacts
  <2>2. \A p, q \in AllCells : p # q => dev[p].ts # dev[q].ts
    BY <1>1, <2>1, StampsDiffer
  <2>3. Cardinality(Log) = Cardinality(AllCells)
    BY <1>1, <1>6, <2>1, <2>2, CellFacts, CountEntries
  <2>4. x \in Log /\ Log' = Log \ {x}
    <3>1. \A q \in AllCells \ {loc} : EntryOf(dev[q]) # x
      BY <2>1, <2>2 DEF EntryOf
    <3>2. EntriesAt(dev, AllCells \ {loc}) = EntriesAt(dev, AllCells) \ {x}
      BY <3>1 DEF EntriesAt
    <3>3. x \in EntriesAt(dev, AllCells)
      BY <2>1 DEF EntriesAt
    <3>. QED BY <1>4, <1>6, <1>7, <2>1, <3>2, <3>3
  <2>5. \A q \in EntryCells(dev) \ {loc} : dev[loc].ts < dev[q].ts
    <3>1. SUFFICES ASSUME NEW q \in EntryCells(dev), q # loc PROVE dev[loc].ts < dev[q].ts
      OBVIOUS
    <3>2. InUse(dev, h) /\ loc \in Entries(dev, h) /\ RegionAscends(dev, h)
      BY <1>1, <2>1, OwnRegion DEF RegionInv
    <3>3. CASE q \in Entries(dev, h)
      <4>1. q \in DataCells(h) /\ q \in Written(dev, h) /\ loc \in Written(dev, h)
        BY <3>2, <3>3 DEF Entries, Written
      <4>2. loc < q
        BY <1>1, <3>1, <4>1, RegionFacts DEF DataCells
      <4>. QED BY <1>9, <3>2, <4>1, <4>2 DEF RegionAscends, IsLeftover
    <3>4. CASE q \notin Entries(dev, h)
      BY <1>1, <3>1, <3>2, <3>4, OldestOfAll
    <3>. QED BY <3>3, <3>4
  <2>6. Ring!IsOldest({x})
    BY <1>6, <2>5 DEF Ring!IsOldest, EntriesAt, EntryOf
  <2>7. Ring!Cardinality(Log) = Cardinality(UNION {DataCells(g) : g \in HintPositions})
    BY <2>3, RingCounts DEF AllCells
  <2>. HIDE DEF x
  <2>. QED BY <2>4, <2>6, <2>7 DEF Ring!DiscardOldest
<1>. QED BY <1>8, <1>9

-----------------------------------------------------------------------------
(* The cells of the entries in all regions but the one at h.               *)
OtherCells(d, h) == UNION {Entries(d, g) : g \in {k \in HintPositions : InUse(d, k) /\ k # h}}

LEMMA SplitCells ==
  ASSUME NEW d, NEW h \in HintPositions
  PROVE  /\ InUse(d, h) => EntryCells(d) = OtherCells(d, h) \cup Entries(d, h)
         /\ ~InUse(d, h) => EntryCells(d) = OtherCells(d, h)
         /\ OtherCells(d, h) \cap DataCells(h) = {}
<1>1. OtherCells(d, h) \cap DataCells(h) = {}
  <2>1. SUFFICES ASSUME NEW g \in HintPositions, g # h, NEW p \in Entries(d, g), p \in DataCells(h)
                 PROVE  FALSE
    BY DEF OtherCells
  <2>2. p \in Span(g) /\ p \in Span(h)
    BY <2>1, RegionFacts DEF Entries, Written
  <2>. QED BY <2>1, <2>2, SpansDisjoint
<1>. QED BY <1>1 DEF EntryCells, OtherCells

(* Once the hint block names it, the new block is an entry; a region that  *)
(* is used again has no other.                                             *)
LEMMA HintCells ==
  ASSUME IInv, AscendInv, RingInv, pc = "put_hint",
         dev' = [dev EXCEPT ![cur.location] = HintBlock(loc)]
  PROVE  LET given == IF AllFull(dev) THEN Entries(dev, cur.location) ELSE {}
         IN  /\ loc \notin EntryCells(dev)
             /\ EntryCells(dev') = (EntryCells(dev) \ given) \cup {loc}
             /\ \A q \in AllCells : dev'[q] = dev[q]
<1>. DEFINE h == cur.location
<1>1. /\ h \in HintPositions /\ RegionInv(dev, h) /\ loc \in DataCells(h)
      /\ dev \in [Positions -> Content] /\ loc \in Positions
      /\ \A g \in HintPositions : RegionInv(dev, g)
  BY PlaceFacts, RegionFacts DEF IInv, DataType, AscendInv, DeviceInv
<1>2. validate_block(dev[loc]) /\ PlaceFor(h) /\ (InUse(dev, h) => dev[loc].ts > Highest(dev, h))
  BY DEF AscendInv, PlaceInv
<1>3. InUse(dev, h) =>
        \/ loc \notin Written(dev, h) /\ ~Full(dev, h)
           /\ loc = skip_backup(dev[h].prev + 1, h)
        \/ AllFull(dev) /\ Full(dev, h) /\ loc = blockstart_min(h)
  BY PlaceFacts
<1>4. ~InUse(dev, h) => loc = blockstart_min(h)
  BY PlaceFacts
<1>5. loc \notin EntryCells(dev)
  <2>1. SUFFICES ASSUME loc \in EntryCells(dev) PROVE FALSE
    OBVIOUS
  <2>2. InUse(dev, h) /\ loc \in Entries(dev, h)
    BY <1>1, <2>1, OwnRegion
  <2>. QED BY <1>2, <1>3, <2>2 DEF Entries, IsLeftover, HasLeftover
<1>6. /\ InUse(dev', h) /\ ~HasLeftover(dev', h)
      /\ Written(dev', h) =
           IF InUse(dev, h) /\ ~Full(dev, h) THEN Written(dev, h) \cup {loc} ELSE {loc}
  <2>. DEFINE k == cur.location
              p == loc
  <2>1. /\ k \in HintPositions /\ RegionInv(dev, k) /\ p \in DataCells(k)
        /\ validate_block(dev[p])
        /\ \/ p = blockstart_min(k) /\ (InUse(dev, k) => Full(dev, k))
           \/ /\ InUse(dev, k) /\ ~Full(dev, k) /\ p = skip_backup(dev[k].prev + 1, k)
              /\ dev[p].ts > Highest(dev, k)
        /\ dev' = [dev EXCEPT ![k] = HintBlock(p)]
    BY <1>1, <1>2, <1>3, <1>4
  <2>. HIDE DEF k, p
  <2>2. LET e == [dev EXCEPT ![k] = HintBlock(p)] IN
        /\ InUse(e, k) /\ ~HasLeftover(e, k)
        /\ Written(e, k) =
             IF InUse(dev, k) /\ ~Full(dev, k) THEN Written(dev, k) \cup {p} ELSE {p}
    BY <1>1, <2>1, PutHintblock
  <2>3. /\ InUse(dev', k) /\ ~HasLeftover(dev', k)
        /\ Written(dev', k) =
             IF InUse(dev, k) /\ ~Full(dev, k) THEN Written(dev, k) \cup {p} ELSE {p}
    BY <2>1, <2>2
  <2>. QED BY <2>3 DEF k, p
<1>7. Entries(dev', h) =
        IF InUse(dev, h) /\ ~Full(dev, h) THEN Entries(dev, h) \cup {loc} ELSE {loc}
  <2>1. Entries(dev', h) = Written(dev', h)
    BY <1>6 DEF Entries, IsLeftover
  <2>2. InUse(dev, h) /\ ~Full(dev, h) => Entries(dev, h) = Written(dev, h)
    BY <1>1 DEF RegionInv, RegionAscends, Entries, IsLeftover
  <2>. QED BY <1>6, <2>1, <2>2
<1>8. \A g \in HintPositions : g # h =>
        (InUse(dev', g) <=> InUse(dev, g)) /\ (InUse(dev, g) => Entries(dev', g) = Entries(dev, g))
  <2>1. SUFFICES ASSUME NEW g \in HintPositions, g # h
                 PROVE  /\ InUse(dev', g) <=> InUse(dev, g)
                        /\ InUse(dev, g) => Entries(dev', g) = Entries(dev, g)
    OBVIOUS
  <2>2. HintBlock(loc) \in Content
    BY <1>1, RegionFacts, MaxTimeAssumption DEF HintBlock, Content, Kinds, Time
  <2>3. SameExtent(dev, dev', g)
    <3>. DEFINE p == loc
                k == cur.location
    <3>1. k \in HintPositions /\ HintBlock(p) \in Content /\ g # k /\ RegionInv(dev, g)
      BY <1>1, <2>1, <2>2
    <3>2. dev' = [dev EXCEPT ![k] = HintBlock(p)]
      OBVIOUS
    <3>. HIDE DEF p, k
    <3>3. SameExtent(dev, [dev EXCEPT ![k] = HintBlock(p)], g)
      BY <1>1, <3>1, OtherHint
    <3>. QED BY <3>2, <3>3
  <2>4. dev'[blockstart_min(g)] = dev[blockstart_min(g)]
    <3>1. blockstart_min(g) \in Span(g) /\ h \in Span(h)
      BY <1>1, RegionFacts
    <3>. QED BY <1>1, <2>1, <3>1, SpansDisjoint
  <2>. QED BY <2>3, <2>4 DEF SameExtent, Entries, IsLeftover, HasLeftover
<1>9. OtherCells(dev', h) = OtherCells(dev, h)
  BY <1>8 DEF OtherCells
<1>10. EntryCells(dev') = OtherCells(dev, h) \cup Entries(dev', h)
  BY <1>1, <1>6, <1>9, SplitCells
<1>11. EntryCells(dev') =
         (EntryCells(dev) \ (IF AllFull(dev) THEN Entries(dev, h) ELSE {})) \cup {loc}
  <2>1. /\ InUse(dev, h) => EntryCells(dev) = OtherCells(dev, h) \cup Entries(dev, h)
        /\ ~InUse(dev, h) => EntryCells(dev) = OtherCells(dev, h)
        /\ OtherCells(dev, h) \cap Entries(dev, h) = {}
    BY <1>1, SplitCells DEF Entries, Written
  <2>2. AllFull(dev) => Full(dev, h) /\ InUse(dev, h)
    BY <1>1 DEF AllFull, Full
  <2>3. CASE ~InUse(dev, h)
    BY <1>7, <1>10, <2>1, <2>2, <2>3
  <2>4. CASE InUse(dev, h) /\ ~Full(dev, h)
    BY <1>7, <1>10, <2>1, <2>2, <2>4
  <2>5. CASE InUse(dev, h) /\ Full(dev, h)
    BY <1>3, <1>7, <1>10, <2>1, <2>5
  <2>. QED BY <2>3, <2>4, <2>5
<1>12. ASSUME NEW q \in AllCells PROVE dev'[q] = dev[q]
  <2>1. PICK g \in HintPositions : q \in DataCells(g)
    BY DEF AllCells
  <2>2. q # h
    <3>1. q \in Span(g) /\ h \in Span(h) /\ h \notin DataCells(h)
      BY <1>1, <2>1, RegionFacts
    <3>. QED BY <1>1, <2>1, <3>1, SpansDisjoint
  <2>. QED BY <2>2
<1>. QED BY <1>5, <1>11, <1>12

(* That appends it, and gives up the rest of the oldest region if all were *)
(* full.                                                                   *)
LEMMA HintAppends ==
  ASSUME IInv, AscendInv, RingInv, GivenInv, IInv', DeviceInv', pc = "put_hint",
         dev' = [dev EXCEPT ![cur.location] = HintBlock(loc)]
  PROVE  \E e \in Ring!Entry : Ring!Append(e)
<1>. DEFINE h == cur.location
            e == EntryOf(dev[loc])
            given == IF AllFull(dev) THEN Entries(dev, h) ELSE {}
            C == EntryCells(dev)
            S == EntriesAt(dev, given)
<1>1. /\ h \in HintPositions /\ loc \in DataCells(h) /\ loc \in Positions /\ loc \in AllCells
      /\ dev \in [Positions -> Content] /\ \A g \in HintPositions : RegionInv(dev, g)
      /\ OrderInv(dev) /\ RingSorted(dev)
  BY PlaceFacts, RegionFacts, CellFacts
  DEF IInv, DataType, AscendInv, DeviceInv, RingInv, OrderInv
<1>2. /\ loc \notin C /\ EntryCells(dev') = (C \ given) \cup {loc}
      /\ \A q \in AllCells : dev'[q] = dev[q]
  BY HintCells
<1>3. C \subseteq AllCells /\ C \subseteq Positions /\ given \subseteq C
  BY <1>1, CellFacts DEF EntryCells, AllFull, Full
<1>4. \A p, q \in C : p # q => dev[p].ts # dev[q].ts
  BY <1>1, StampsDiffer
<1>5. e \in Ring!Entry
  <2>1. dev[loc].app \in SUBSET Flags
    BY <1>1 DEF Content
  <2>. QED BY <2>1 DEF GivenInv, Ring!Entry, EntryOf
<1>6. Log = EntriesAt(dev, C)
  BY LogIs DEF AscendInv
<1>7. Log' = (Log \ S) \cup {e}
  <2>1. Log' = EntriesAt(dev', (C \ given) \cup {loc})
    BY <1>2, LogIsNext
  <2>2. Log' = EntriesAt(dev, (C \ given) \cup {loc})
    BY <1>1, <1>2, <1>3, <2>1 DEF EntriesAt
  <2>3. EntriesAt(dev, C \ given) = EntriesAt(dev, C) \ S
    <3>1. \A p, q \in C : p # q => EntryOf(dev[p]) # EntryOf(dev[q])
      BY <1>4 DEF EntryOf
    <3>. QED BY <1>3, <3>1 DEF EntriesAt
  <2>4. EntriesAt(dev, (C \ given) \cup {loc}) = EntriesAt(dev, C \ given) \cup {e}
    BY DEF EntriesAt
  <2>. QED BY <1>6, <2>2, <2>3, <2>4
<1>8. \A x \in Log : x.ts < e.ts
  <2>1. \A q \in C : dev[q].ts < dev[loc].ts
    BY <1>2, <1>3 DEF RingInv, NewestInv
  <2>. QED BY <1>6, <2>1 DEF EntriesAt, EntryOf
<1>9. Ring!Cardinality(Log') <= Cardinality(UNION {DataCells(g) : g \in HintPositions})
  <2>1. dev' \in [Positions -> Content]
    BY DEF IInv, DataType
  <2>2. EntryCells(dev') \subseteq AllCells
    BY CellFacts
  <2>3. /\ EntryCells(dev') \in SUBSET Positions
        /\ Cardinality(EntryCells(dev')) <= Cardinality(AllCells)
        /\ IsFiniteSet(EntryCells(dev')) /\ IsFiniteSet(AllCells)
    BY <2>2, CellFacts, CellsAreFinite, FS_Subset
  <2>4. /\ IsFiniteSet(Log')
        /\ Cardinality(Log') <= Cardinality(EntryCells(dev'))
    BY <2>1, <2>3, CountEntries, LogIsNext
  <2>5. /\ Cardinality(Log') \in Nat /\ Cardinality(EntryCells(dev')) \in Nat
        /\ Cardinality(AllCells) \in Nat
    BY <2>3, <2>4, FS_CardinalityType
  <2>6. Cardinality(Log') <= Cardinality(AllCells)
    BY <2>3, <2>4, <2>5
  <2>. QED BY <2>6, RingCounts DEF AllCells
<1>10. S \in SUBSET Log
  BY <1>3, <1>6 DEF EntriesAt
<1>11. CASE ~AllFull(dev)
  <2>1. S = {}
    BY <1>11 DEF EntriesAt
  <2>2. Ring!IsOldest(S)
    BY <2>1 DEF Ring!IsOldest
  <2>. HIDE DEF e, S
  <2>. QED BY <1>5, <1>7, <1>8, <1>9, <1>10, <2>1, <2>2 DEF Ring!Append
<1>12. CASE AllFull(dev)
  <2>1. /\ \A g \in HintPositions : Highest(dev, h) <= Highest(dev, g)
        /\ InUse(dev, h) /\ HasLeftover(dev, h) /\ loc = blockstart_min(h)
    <3>1. InUse(dev, h) /\ Full(dev, h)
      BY <1>1, <1>12 DEF AllFull, Full
    <3>2. loc = blockstart_min(h)
      BY <3>1, PlaceFacts
    <3>3. dev[loc].ts > Highest(dev, h)
      BY <3>1 DEF AscendInv, PlaceInv
    <3>. QED BY <1>12, <3>1, <3>2, <3>3 DEF RingInv, LowestInv, HasLeftover
  <2>2. Ring!IsOldest(S)
    <3>1. \A p \in given, q \in C \ given : dev[p].ts < dev[q].ts
      BY <1>1, <1>12, <2>1, OldestOfAll
    <3>2. \A y \in Log \ S : \E q \in C \ given : y = EntryOf(dev[q])
      BY <1>6 DEF EntriesAt
    <3>. QED BY <3>1, <3>2 DEF Ring!IsOldest, EntriesAt, EntryOf
  <2>3. Ring!Cardinality(Log) = Cardinality(UNION {DataCells(g) : g \in HintPositions}) - 1
    <3>1. C = AllCells \ {loc}
      BY <1>1, <1>12, <2>1, FullCells
    <3>2. Cardinality(C) = Cardinality(AllCells) - 1
      BY <1>1, <3>1, CellsAreFinite, FS_RemoveElement
    <3>3. Cardinality(Log) = Cardinality(C)
      BY <1>1, <1>3, <1>4, <1>6, CountEntries
    <3>. QED BY <3>2, <3>3, RingCounts DEF AllCells
  <2>4. Ring!Cardinality(S) = Cardinality(DataCells(loop_begin_orig)) - 1
    <3>1. given = DataCells(h) \ {loc}
      BY <1>1, <1>12, <2>1, OldestOfAll
    <3>2. Cardinality(given) = Cardinality(DataCells(h)) - 1
      BY <1>1, <3>1, RegionsAreAlike, FS_RemoveElement
    <3>3. Cardinality(S) = Cardinality(given)
      <4>1. given \in SUBSET Positions /\ \A p, q \in given : p # q => dev[p].ts # dev[q].ts
        BY <1>3, <1>4
      <4>. HIDE DEF given
      <4>. QED BY <1>1, <4>1, CountEntries
    <3>4. Cardinality(DataCells(h)) = Cardinality(DataCells(loop_begin_orig))
      BY <1>1, RegionsAreAlike, FirstHint
    <3>. QED BY <3>2, <3>3, <3>4, RingCounts
  <2>. HIDE DEF e, S
  <2>. QED BY <1>5, <1>7, <1>8, <1>9, <1>10, <2>2, <2>3, <2>4 DEF Ring!Append
<1>. QED BY <1>11, <1>12

-----------------------------------------------------------------------------
(* The backup of a hint block says nothing of the log.                     *)
LEMMA BackupKeepsLog ==
  ASSUME IInv, AscendInv, IInv', DeviceInv', write_update_hintblock_backup
  PROVE  Log' = Log
<1>1. /\ \A g \in HintPositions : SameExtent(dev, dev', g)
      /\ \A g \in HintPositions : \A q \in DataCells(g) : dev'[q] = dev[q]
  BY BackupPut
<1>2. EntryCells(dev') = EntryCells(dev)
  BY <1>1, RegionFacts, SameCells
<1>3. \A q \in EntryCells(dev) : dev'[q] = dev[q]
  BY <1>1, CellFacts DEF AllCells
<1>4. EntriesAt(dev', EntryCells(dev')) = EntriesAt(dev, EntryCells(dev))
  BY <1>2, <1>3 DEF EntriesAt
<1>. QED BY <1>4, LogIs, LogIsNext DEF AscendInv

(* Only these steps change the device.                                     *)
LEMMA PutsOnly ==
  ASSUME AscendInv, Step
  PROVE  \/ dev' = dev
         \/ update_block_loop_callback
         \/ write_checksum_and_put_block
         \/ write_update_hintblock
         \/ write_update_hintblock_backup
BY DEF Step, AscendInv, CalmInv, device, block_get_hintblock_state, recover_hintblock,
       recover_hintblock_backup, write_hintblock_check_free_callback,
       write_hintblock_check_timestamps, block_find_oldest_hintblock_loop_callback,
       scan_hintblock_loop_callback, clear_hintblocks_loop_callback, Callback,
       write_find_location_oldest, write_find_location_end, block_find_oldest_hintblock,
       block_loop_hintblocks_second_round, block_loop_hintblocks_end,
       block_loop_blocks_skip_backup, block_loop_blocks_invalid, block_loop_blocks_end,
       read_block_loop_callback, write_put_block_refused

(* Every step of an operation is a step of the abstract log.               *)
LEMMA StepRefines ==
  ASSUME IInv, AscendInv, RingInv, GivenInv, IInv', AscendInv', RingInv', Step
  PROVE  Log' = Log \/ Ring!Next
<1>1. DeviceInv'
  BY DEF AscendInv
<1>2. CASE dev' = dev
  BY <1>2, SameLog
<1>3. CASE update_block_loop_callback
  BY <1>1, <1>3, UpdateRetags DEF Ring!Next
<1>4. CASE write_checksum_and_put_block /\ dev' # dev
  <2>1. pc = "put_block" /\ dev' = [dev EXCEPT ![loc] = NewBlock]
    BY <1>4 DEF write_checksum_and_put_block, ReadyToPut
  <2>. QED BY <1>1, <2>1, UnseenBlock, BlockOnOldest DEF Ring!Next
<1>5. CASE write_update_hintblock /\ dev' # dev
  <2>1. pc = "put_hint" /\ dev' = [dev EXCEPT ![cur.location] = HintBlock(loc)]
    BY <1>5 DEF write_update_hintblock
  <2>. QED BY <1>1, <2>1, HintAppends DEF Ring!Next
<1>6. CASE write_update_hintblock_backup
  BY <1>1, <1>6, BackupKeepsLog
<1>. QED BY <1>2, <1>3, <1>4, <1>5, <1>6, PutsOnly

(* So is what the application and a kill do: nothing.                      *)
LEMMA NextRefines ==
  ASSUME Undamaged
  PROVE  IInv /\ AscendInv /\ RingInv /\ GivenInv /\ [Next]_vars /\ IInv' /\ AscendInv' /\ RingInv'
           => [Ring!Next]_Log
<1>. SUFFICES ASSUME IInv, AscendInv, RingInv, GivenInv, [Next]_vars,
                     IInv', AscendInv', RingInv'
              PROVE  [Ring!Next]_Log
  OBVIOUS
<1>1. CASE Request
  <2>1. dev' = dev
    BY <1>1 DEF Request, bdl_write_block, bdl_read_blocks, bdl_read_update_application_data,
                bdl_clear_dev, Return, BeginOp, device
  <2>. QED BY <2>1, SameLog
<1>2. CASE Step
  BY <1>2, StepRefines
<1>3. CASE Fault
  <2>1. dev' = dev
    BY <1>3, OnlyCrash DEF Crash, device
  <2>. QED BY <2>1, SameLog
<1>4. CASE UNCHANGED vars
  BY <1>4, SameLog DEF vars
<1>. QED BY <1>1, <1>2, <1>3, <1>4 DEF Next

(* Only the put of the data block is followed by that of the hint block.   *)
LEMMA OnlyPutsBlock ==
  ASSUME Step PROVE pc' # "put_hint" \/ write_checksum_and_put_block
BY DEF Step, EndOp, NextHintblock, BeginLoop, NextBlock, AfterBlocks,
       block_get_hintblock_state, recover_hintblock, recover_hintblock_backup,
       write_hintblock_check_free_callback, write_hintblock_check_timestamps,
       block_find_oldest_hintblock_loop_callback, scan_hintblock_loop_callback,
       clear_hintblocks_loop_callback, LoopDone,
       write_find_location_oldest, write_find_location_end, block_find_oldest_hintblock,
       block_loop_hintblocks_second_round, block_loop_hintblocks_end, AtBlock,
       block_loop_blocks_skip_backup, block_loop_blocks_invalid, block_loop_blocks_end,
       read_block_loop_callback, update_block_loop_callback, write_put_block_refused,
       write_update_hintblock, write_update_hintblock_backup

(* What is put was given.                                                  *)
LEMMA NextGiven ==
  ASSUME Undamaged
  PROVE  IInv /\ AscendInv /\ RingInv /\ GivenInv /\ [Next]_vars => GivenInv'
<1>. SUFFICES ASSUME IInv, AscendInv, RingInv, GivenInv, [Next]_vars PROVE GivenInv'
  OBVIOUS
<1>1. CASE Request
  <2>1. pc' # "put_hint"
    BY <1>1 DEF Request, bdl_write_block, bdl_read_blocks, bdl_read_update_application_data,
                bdl_clear_dev, Return, BeginOp
  <2>2. op'.kind = "write" => op'.ts \in Stamps
    BY <1>1 DEF Request, bdl_write_block, bdl_read_blocks, bdl_read_update_application_data,
                bdl_clear_dev, Return, BeginOp, Operation, NoOp
  <2>. QED BY <2>1, <2>2 DEF GivenInv
<1>2. CASE Step
  <2>1. op' = op
    BY <1>2, OtherStep
  <2>2. CASE write_checksum_and_put_block /\ pc' = "put_hint"
    <3>1. /\ pc = "put_block" /\ dev' = [dev EXCEPT ![loc] = NewBlock] /\ loc' = loc
      BY <2>2 DEF write_checksum_and_put_block, ReadyToPut, locals, EndOp
    <3>2. dev'[loc] = NewBlock /\ NewBlock.ts = op.ts
      BY <3>1, BlockPut, PlaceFacts, RegionFacts
    <3>3. op.kind = "write"
      BY <3>1 DEF IInv, LocalInv, WriteInv, Putting
    <3>. QED BY <2>1, <3>1, <3>2, <3>3 DEF GivenInv
  <2>3. CASE pc' # "put_hint"
    BY <2>1, <2>3 DEF GivenInv
  <2>. QED BY <1>2, <2>2, <2>3, OnlyPutsBlock
<1>3. CASE Fault
  BY <1>3, OnlyCrash DEF Crash, EndOp, GivenInv
<1>4. CASE UNCHANGED vars
  BY <1>4 DEF vars, GivenInv
<1>. QED BY <1>1, <1>2, <1>3, <1>4 DEF Next

(* The device is the log the application was promised: as long as nothing  *)
(* damages it and each write is later than all before, no step of a write, *)
(* read or update, wherever it is killed, loses, reorders or invents an    *)
(* entry but for what RingLog allows (write_put_block,                     *)
(* update_block_loop_callback).                                            *)
THEOREM DeviceIsRingLog ==
  ASSUME StampsHaveRoom, Undamaged, Ordered
  PROVE  Spec => ImplementsRingLog
<1>1. Init => Ring!Init /\ GivenInv
  <2>. SUFFICES ASSUME Init PROVE Ring!Init /\ GivenInv
    OBVIOUS
  <2>1. GivenInv
    BY DEF Init, GivenInv, NoOp, Operation
  <2>2. \A h \in HintPositions : ~Region(h).valid
    BY HintPositionFacts DEF Init, Region, hintblock_state, Junk, validate_hintblock
  <2>3. Log = {}
    BY <2>2 DEF Log, LiveCells, LiveRegions
  <2>. QED BY <2>1, <2>3 DEF Ring!Init
<1>2. IInv /\ AscendInv /\ RingInv /\ GivenInv /\ [Next]_vars => GivenInv'
  BY NextGiven
<1>3. IInv /\ AscendInv /\ RingInv /\ GivenInv /\ [Next]_vars /\ IInv' /\ AscendInv' /\ RingInv'
        => [Ring!Next]_Log
  BY NextRefines
<1>4. Spec => [](IInv /\ ExitInv /\ AscendInv /\ RingInv)
  BY RingInvariance
<1>. QED BY <1>1, <1>2, <1>3, <1>4, PTL DEF Spec, ImplementsRingLog, Ring!Spec

=============================================================================
