---------------------------- MODULE SectorCache ----------------------------
(***************************************************************************)
(* SectorLruCache: the sectored, byte-valid LRU cache that models the L2   *)
(* slices (and the L1 outside the R4 model).  This module holds the cache  *)
(* as data: a set of the cache is a sequence of line entries, most         *)
(* recently used first, and each operation is a function of one set.       *)
(*                                                                         *)
(* A sector of an entry is valid when all its bytes are known, reserved    *)
(* while a read of it is in flight, dirty when memory has not seen its     *)
(* last store.  Every request of the backends is one sector wide.          *)
(***************************************************************************)
EXTENDS Naturals, FiniteSets, SequencesExt

CONSTANTS Tag,           \* the lines of memory in play
          Sectors,       \* sectors of a line
          Byte,          \* bytes of a sector (32 in the code)
          Assoc,         \* assoc_
          FillLatency    \* time from a read's issue to its data; 0: at once

Sector == 0 .. Sectors - 1

ASSUME TagAssumption == IsFiniteSet(Tag)
ASSUME SectorsAssumption == Sectors \in Nat \ {0}
ASSUME ByteAssumption == IsFiniteSet(Byte) /\ Byte # {}
ASSUME AssocAssumption == Assoc \in Nat \ {0}
ASSUME FillLatencyAssumption == FillLatency \in Nat

Operation == {"Read", "Store", "Atomic"}

Entry == [tag : Tag, valid : SUBSET Sector, reserved : SUBSET Sector,
          dirty : SUBSET Sector, known : [Sector -> SUBSET Byte],
          until : [Sector -> Nat], since : [Sector -> Nat]]

(* One sector of one line, with the bytes of it the instruction touches.   *)
Request == [tag : Tag, sector : Sector, bytes : (SUBSET Byte) \ {{}},
            op : Operation, markDirty : BOOLEAN, streaming : BOOLEAN]

NewEntry(tag) ==
  [tag |-> tag, valid |-> {}, reserved |-> {}, dirty |-> {},
   known |-> [s \in Sector |-> {}],
   until |-> [s \in Sector |-> 0], since |-> [s \in Sector |-> 0]]

-----------------------------------------------------------------------------
(* What the operations do to one entry.                                    *)

\* Mutant of Refresh: completion times outlive their reads.
RefreshKeepsTime(e, now) ==
  LET ready == {s \in e.reserved : e.until[s] =< now}
  IN  [e EXCEPT !.reserved = @ \ ready,
                !.valid = @ \cup ready,
                !.known = [s \in Sector |-> IF s \in ready THEN Byte
                                                           ELSE @[s]]]

(* Reads in flight whose time has come complete their sectors.             *)
Refresh(e, now) ==
  LET ready == {s \in e.reserved : e.until[s] =< now}
  IN  [e EXCEPT !.reserved = @ \ ready,
                !.valid = @ \cup ready,
                !.known = [s \in Sector |-> IF s \in ready THEN Byte
                                                           ELSE @[s]],
                !.until = [s \in Sector |-> IF s \in ready THEN 0
                                                           ELSE @[s]]]

\* Mutant of ReserveOrFill: no case for a latency of 0.
ReserveAlways(e, s, now) ==
  [e EXCEPT !.reserved = @ \cup {s},
            !.until[s] = Max({@, now + FillLatency})]

(* The data of a read arrives at once, or after the latency.               *)
ReserveOrFill(e, s, now) ==
  IF FillLatency = 0
  THEN [e EXCEPT !.valid = @ \cup {s}, !.known[s] = Byte]
  ELSE [e EXCEPT !.reserved = @ \cup {s},
                 !.until[s] = Max({@, now + FillLatency})]

\* Mutant of MarkWritten: the last store's bytes only.
MarkWrittenLast(e, s, bytes) ==
  [e EXCEPT !.known[s] = bytes,
            !.valid = IF bytes = Byte THEN @ \cup {s} ELSE @ \ {s}]

(* A store supplies its bytes; a read in flight stays in flight.           *)
MarkWritten(e, s, bytes) ==
  [e EXCEPT !.known[s] = @ \cup bytes,
            !.valid = IF e.known[s] \cup bytes = Byte THEN @ \cup {s} ELSE @]

(* The age of a dirty sector is that of its oldest store not yet in memory. *)
MarkDirty(e, s, now) ==
  [e EXCEPT !.dirty = @ \cup {s},
            !.since[s] = IF s \in e.dirty THEN @ ELSE now]

(* A store may hit a dirty sector that is not fully readable yet.          *)
Lookup(e, r) ==
  IF r.sector \in e.valid \/ (r.op = "Store" /\ r.sector \in e.dirty)
  THEN "Hit"
  ELSE IF r.sector \in e.reserved THEN "HitReserved" ELSE "SectorMiss"

(* A streaming read leaves no data behind; a store fetches none.           *)
Allocates(r) == r.op = "Atomic" \/ (r.op = "Read" /\ ~r.streaming)

Fill(e, r, now) ==
  IF Allocates(r) THEN ReserveOrFill(e, r.sector, now) ELSE e

Write(e, r, now) ==
  LET written == IF r.op = "Store" THEN MarkWritten(e, r.sector, r.bytes)
                                   ELSE e
  IN  IF r.markDirty THEN MarkDirty(written, r.sector, now) ELSE written

(* The entry of a line already cached, after the access.                   *)
Touch(e, r, now) ==
  Write(IF Lookup(e, r) = "SectorMiss" THEN Fill(e, r, now) ELSE e, r, now)

-----------------------------------------------------------------------------
(* Operations on one set: what is left in it, what they hand the caller to *)
(* write back, and whether they throw.                                     *)

Place(set, e, r) == IF r.streaming THEN Append(set, e) ELSE Cons(e, set)

\* Mutant of Unfinished: the check is gone.
NeverUnfinished(e) == FALSE

(* capture_eviction refuses dirty bytes that a read in flight would bring. *)
Unfinished(e) == (e.dirty \cap e.reserved) \ e.valid # {}

(* The least recently used entry without a read in flight, else the last.  *)
Victim(set) ==
  LET idle == {i \in DOMAIN set : set[i].reserved = {}}
  IN  IF idle = {} THEN Len(set) ELSE Max(idle)

\* Mutant of Overfull: off by one.
OverfullLate(set) == Len(set) > Assoc + 1

Overfull(set) == Len(set) > Assoc

Returns(set, result) ==
  [set |-> set, result |-> result, out |-> {}, throws |-> FALSE]

EvictOne(set) ==
  LET victim == set[Victim(set)]
  IN  [set |-> RemoveAt(set, Victim(set)), result |-> "LineMiss",
       out |-> IF victim.dirty = {} THEN {} ELSE {victim},
       throws |-> Unfinished(victim)]

(* The walk that looks for the tag refreshes the entries it passes.        *)
RefreshUpTo(set, last, now) ==
  [i \in DOMAIN set |-> IF i =< last THEN Refresh(set[i], now) ELSE set[i]]

HitLine(set, i, r, now) ==
  LET walked == RefreshUpTo(set, i, now)
  IN  Returns(Place(RemoveAt(walked, i), Touch(walked[i], r, now), r),
              Lookup(walked[i], r))

(* evict_one refreshes again, for the same time: nothing changes.          *)
MissLine(set, r, now) ==
  LET walked == RefreshUpTo(set, Len(set), now)
      placed == Place(walked, Write(Fill(NewEntry(r.tag), r, now), r, now), r)
  IN  IF r.streaming /\ r.op = "Read" THEN Returns(walked, "LineMiss")
      ELSE IF Overfull(placed) THEN EvictOne(placed)
      ELSE Returns(placed, "LineMiss")

Access(set, r, now) ==
  LET found == {i \in DOMAIN set : set[i].tag = r.tag}
  IN  IF found = {} THEN MissLine(set, r, now)
                    ELSE HitLine(set, Min(found), r, now)

\* Mutant of DrainDirty: lines with incomplete dirty data are dropped.
DrainComplete(set, now) ==
  LET gone == {Refresh(set[i], now) : i \in DOMAIN set}
  IN  [set |-> <<>>,
       out |-> {e \in gone : e.dirty # {} /\ e.dirty \subseteq e.valid},
       throws |-> FALSE]

(* drain_dirty: everything leaves the set, the dirty lines to memory.      *)
DrainDirty(set, now) ==
  LET gone == {Refresh(set[i], now) : i \in DOMAIN set}
  IN  [set |-> <<>>, out |-> {e \in gone : e.dirty # {}},
       throws |-> \E e \in gone : Unfinished(e)]

(* Retained cleaning takes complete sectors that have been dirty for long. *)
Eligible(e, now, minAge) ==
  {s \in e.dirty \cap e.valid : e.since[s] + minAge =< now}

\* Mutant of Clean: the ages of what is clean again remain.
CleanKeepsAge(e, sectors) == [e EXCEPT !.dirty = @ \ sectors]

\* Mutant of Clean: the sectors stay dirty.
CleanKeepsDirty(e, sectors) ==
  [e EXCEPT !.since = [s \in Sector |-> IF s \in sectors THEN 0 ELSE @[s]]]

(* The sectors leave for memory and stay in the cache, clean.              *)
Clean(e, sectors) ==
  [e EXCEPT !.dirty = @ \ sectors,
            !.since = [s \in Sector |-> IF s \in sectors THEN 0 ELSE @[s]]]

-----------------------------------------------------------------------------
(* Checkpoints: what save writes of an entry, and what load makes of it.   *)

SavedEntry(e) ==
  [tag |-> e.tag, valid |-> e.valid, reserved |-> e.reserved,
   dirty |-> e.dirty, known |-> e.known,
   until |-> [s \in e.reserved |-> e.until[s]],
   since |-> [s \in e.dirty |-> e.since[s]]]

KnownSectors(image) == {s \in Sector : image.known[s] # {}}

(* The masks load insists on before it restores an entry.                  *)
Loadable(image) ==
  /\ KnownSectors(image) \cup image.reserved # {}
  /\ image.valid = {s \in Sector : image.known[s] = Byte}
  /\ image.dirty \subseteq KnownSectors(image) \cup image.reserved

RestoredEntry(image) ==
  [NewEntry(image.tag) EXCEPT
     !.valid = image.valid, !.reserved = image.reserved,
     !.dirty = image.dirty, !.known = image.known,
     !.until = [s \in Sector |-> IF s \in image.reserved
                                 THEN image.until[s] ELSE 0],
     !.since = [s \in Sector |-> IF s \in image.dirty
                                 THEN image.since[s] ELSE 0]]
=============================================================================
