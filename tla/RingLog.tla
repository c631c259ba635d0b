------------------------------ MODULE RingLog -------------------------------
(***************************************************************************)
(* What the logger promises while nothing damages the device: a bounded    *)
(* log that keeps the newest entries.  Entries arrive in the order of      *)
(* their timestamps; only a full log gives anything up, and then at most   *)
(* one region's worth of its oldest entries.                               *)
(***************************************************************************)
EXTENDS Naturals, FiniteSets

CONSTANTS
  EntryStamp, EntryTag, \* timestamps, and values of application_data
  Capacity,        \* entries the device has room for
  RegionCapacity   \* entries one region has room for

VARIABLE log

Entry == [ts : EntryStamp, app : EntryTag]

Init == log = {}

(* S holds the oldest entries of the log.                                  *)
IsOldest(S) == \A x \in S, y \in log \ S : x.ts < y.ts

(* A new entry is later than every entry there is.  Room is made for it by *)
(* giving up the rest of a region whose first block is already gone.       *)
Append(e) ==
  /\ \A x \in log : x.ts < e.ts
  /\ \E S \in SUBSET log :
       /\ IsOldest(S)
       /\ S # {} => /\ Cardinality(log) = Capacity - 1
                    /\ Cardinality(S) = RegionCapacity - 1
       /\ log' = (log \ S) \cup {e}
  /\ Cardinality(log') <= Capacity

(* The block of the new entry lands on the oldest one.                     *)
DiscardOldest ==
  /\ Cardinality(log) = Capacity
  /\ \E x \in log : IsOldest({x}) /\ log' = log \ {x}

(* The application data of an entry changes, and nothing else of it.       *)
Retag ==
  \E x \in log, app \in EntryTag : log' = (log \ {x}) \cup {[x EXCEPT !.app = app]}

Next ==
  \/ \E e \in Entry : Append(e)
  \/ DiscardOldest
  \/ Retag

Spec == Init /\ [][Next]_log

=============================================================================
