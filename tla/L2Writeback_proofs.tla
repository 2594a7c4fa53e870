------------------------- MODULE L2Writeback_proofs -------------------------
(***************************************************************************)
(* Proofs about the L2 write-back path: for every geometry, policy, number *)
(* of lines and latency, the ledger of producers and the caches agree, no  *)
(* stored byte is lost on its way to memory, a checkpoint restores the     *)
(* cache it was taken of, and a drain stops where its limits say.          *)
(*                                                                         *)
(* The first part is about SectorCache: what its operations do to a well-  *)
(* formed entry and to a well-formed set.  The second, from "The cache as  *)
(* data" on, is about the caches and the ledger built from it.             *)
(***************************************************************************)
EXTENDS L2Writeback, Extremes, SequenceTheorems, FiniteSetTheorems, TLAPS

(* A sector with bytes, or with a read in flight that brings them.         *)
Backed(e, s) == e.known[s] # {} \/ s \in e.reserved

(* Masks, times and ages of an entry agree.                                *)
Shaped(e) == /\ e \in Entry
             /\ e.valid = {s \in Sector : e.known[s] = Byte}
             /\ \A s \in e.dirty : Backed(e, s)
             /\ \A s \in Sector : s \notin e.reserved => e.until[s] = 0
             /\ \A s \in Sector : s \notin e.dirty => e.since[s] = 0
             /\ FillLatency = 0 => e.reserved = {}

(* And it is there for some sector: no entry is empty.                     *)
Sound(e) == Shaped(e) /\ \E s \in Sector : Backed(e, s)

(* Byte b of sector s awaits its way to memory in entry e.                 *)
Keeps(e, s, b) == s \in e.dirty /\ (b \in e.known[s] \/ s \in e.reserved)

(* From e to f: the same line, and nothing it holds is lost.               *)
Retains(e, f) == /\ f.tag = e.tag
                 /\ e.dirty \subseteq f.dirty
                 /\ \A s \in Sector : Backed(e, s) => Backed(f, s)
                 /\ \A s \in Sector, b \in Byte : Keeps(e, s, b) => Keeps(f, s, b)

-----------------------------------------------------------------------------
(* Entries.                                                                *)

(* Entries are equal when their fields are.                                *)
LEMMA SameEntry ==
  ASSUME NEW e \in Entry, NEW f \in Entry, f.tag = e.tag, f.valid = e.valid,
         f.reserved = e.reserved, f.dirty = e.dirty,
         \A s \in Sector : /\ f.known[s] = e.known[s] /\ f.until[s] = e.until[s]
                           /\ f.since[s] = e.since[s]
  PROVE  f = e
<1>1. f.known = e.known /\ f.until = e.until /\ f.since = e.since
  BY DEF Entry
<1>. QED BY <1>1 DEF Entry

(* A refresh changes no dirty sector, and a second one nothing at all.     *)
LEMMA RefreshSound ==
  ASSUME NEW e, Shaped(e), NEW now \in Nat
  PROVE  /\ Shaped(Refresh(e, now)) /\ Retains(e, Refresh(e, now))
         /\ Refresh(e, now).dirty = e.dirty /\ Refresh(e, now).since = e.since
         /\ e.valid \subseteq Refresh(e, now).valid
         /\ \A s \in Refresh(e, now).reserved : ~(Refresh(e, now).until[s] =< now)
         /\ Refresh(Refresh(e, now), now) = Refresh(e, now)
         /\ Sound(e) => Sound(Refresh(e, now))
<1>. DEFINE ready == {s \in e.reserved : e.until[s] =< now}
            f == Refresh(e, now)
<1>1. /\ f \in Entry /\ f.tag = e.tag /\ f.dirty = e.dirty /\ f.since = e.since
      /\ f.reserved = e.reserved \ ready /\ f.valid = e.valid \cup ready
      /\ \A s \in Sector : /\ f.known[s] = IF s \in ready THEN Byte ELSE e.known[s]
                           /\ f.until[s] = IF s \in ready THEN 0 ELSE e.until[s]
  BY DEF Shaped, Entry, Refresh
<1>2. Byte # {} /\ e \in Entry /\ e.dirty \subseteq Sector
  BY ByteAssumption DEF Shaped, Entry
<1>3. \A s \in Sector : Backed(e, s) => Backed(f, s)
  BY <1>1, <1>2 DEF Backed
<1>4. \A s \in Sector, b \in Byte : Keeps(e, s, b) => Keeps(f, s, b)
  BY <1>1, <1>2 DEF Keeps
<1>5. Shaped(f)
  <2>1. f.valid = {s \in Sector : f.known[s] = Byte}
    BY <1>1, <1>2 DEF Shaped, Entry
  <2>2. \A s \in Sector : s \notin f.reserved => f.until[s] = 0
    BY <1>1 DEF Shaped
  <2>. QED BY <1>1, <1>2, <1>3, <2>1, <2>2 DEF Shaped
<1>. HIDE DEF f
<1>6. \A s \in f.reserved : ~(f.until[s] =< now)
  BY <1>1 DEF Shaped, Entry
<1>7. Refresh(f, now) = f
  <2>. DEFINE g == Refresh(f, now)
  <2>1. {s \in f.reserved : f.until[s] =< now} = {}
    BY <1>1 DEF Shaped, Entry
  <2>2. /\ g \in Entry /\ g.tag = f.tag /\ g.dirty = f.dirty /\ g.since = f.since
        /\ g.reserved = f.reserved /\ g.valid = f.valid
        /\ \A s \in Sector : g.known[s] = f.known[s] /\ g.until[s] = f.until[s]
    BY <1>1, <2>1 DEF Refresh, Entry
  <2>. HIDE DEF g
  <2>3. f \in Entry
    BY <1>1
  <2>4. g = f
    BY <2>2, <2>3, SameEntry
  <2>. QED BY <2>4 DEF g
<1>. USE DEF f
<1>. QED BY <1>1, <1>3, <1>4, <1>5, <1>7, <1>6 DEF Retains, Sound

(* A read brings its sector, at once or by a read in flight.               *)
LEMMA FillSound ==
  ASSUME NEW e, Shaped(e), NEW r \in Request, NEW now \in Nat
  PROVE  /\ Shaped(Fill(e, r, now)) /\ Retains(e, Fill(e, r, now))
         /\ Fill(e, r, now).dirty = e.dirty /\ Fill(e, r, now).since = e.since
         /\ Allocates(r) => \/ r.sector \in Fill(e, r, now).reserved
                            \/ Fill(e, r, now).known[r.sector] = Byte
<1>. DEFINE f == Fill(e, r, now)
            s == r.sector
<1>0. /\ e \in Entry /\ s \in Sector /\ e.dirty \subseteq Sector /\ Byte # {}
      /\ now + FillLatency \in Nat /\ e.until[s] \in Nat /\ s \in DOMAIN e.until
  BY ByteAssumption, FillLatencyAssumption DEF Shaped, Entry, Request
<1>1. CASE ~Allocates(r)
  <2>1. f = e
    BY <1>1 DEF Fill
  <2>. HIDE DEF f
  <2>. QED BY <1>1, <2>1 DEF Retains, f
<1>2. CASE Allocates(r) /\ FillLatency = 0
  <2>1. f = [e EXCEPT !.valid = @ \cup {s}, !.known[s] = Byte]
    BY <1>2 DEF Fill, ReserveOrFill
  <2>. HIDE DEF f, s
  <2>2. /\ f \in Entry /\ f.tag = e.tag /\ f.dirty = e.dirty /\ f.since = e.since
        /\ f.until = e.until /\ f.reserved = e.reserved /\ f.valid = e.valid \cup {s}
        /\ \A x \in Sector : f.known[x] = IF x = s THEN Byte ELSE e.known[x]
    BY <1>0, <2>1 DEF Entry
  <2>3. Shaped(f)
    BY <1>0, <2>2 DEF Shaped, Backed, Entry
  <2>. QED BY <1>0, <2>2, <2>3 DEF Retains, Backed, Keeps, f, s
<1>3. CASE Allocates(r) /\ FillLatency # 0
  <2>. DEFINE until == Max({e.until[s], now + FillLatency})
  <2>0. until \in Nat
    BY <1>0, LaterOf
  <2>. HIDE DEF until
  <2>1. f = [e EXCEPT !.reserved = @ \cup {s}, !.until[s] = until]
    BY <1>3 DEF Fill, ReserveOrFill, until
  <2>. HIDE DEF f, s
  <2>2. /\ f \in Entry /\ f.tag = e.tag /\ f.dirty = e.dirty /\ f.since = e.since
        /\ f.known = e.known /\ f.valid = e.valid /\ f.reserved = e.reserved \cup {s}
        /\ \A x \in Sector : f.until[x] = IF x = s THEN until ELSE e.until[x]
    BY <1>0, <2>0, <2>1 DEF Entry
  <2>3. Shaped(f)
    BY <1>0, <1>3, <2>2 DEF Shaped, Backed
  <2>. QED BY <1>0, <2>2, <2>3 DEF Retains, Backed, Keeps, f, s
<1>. QED BY <1>1, <1>2, <1>3

(* What is dirty has bytes, or a read in flight; a store brings its own.   *)
LEMMA WriteSound ==
  ASSUME NEW e, Shaped(e), NEW r \in Request, NEW now \in Nat,
         r.markDirty => r.op = "Store" \/ r.sector \in e.reserved
                                       \/ e.known[r.sector] = Byte
  PROVE  /\ Shaped(Write(e, r, now)) /\ Retains(e, Write(e, r, now))
         /\ Write(e, r, now).dirty = e.dirty \cup (IF r.markDirty THEN {r.sector} ELSE {})
         /\ r.op = "Store" => Backed(Write(e, r, now), r.sector)
         /\ r.markDirty =>
              \A b \in r.bytes : Keeps(Write(e, r, now), r.sector, b)
<1>. DEFINE s == r.sector
            w == IF r.op = "Store" THEN MarkWritten(e, s, r.bytes) ELSE e
            f == Write(e, r, now)
<1>0. /\ e \in Entry /\ s \in Sector /\ e.dirty \subseteq Sector /\ Byte # {}
      /\ r.bytes # {} /\ r.bytes \subseteq Byte
  BY ByteAssumption DEF Shaped, Entry, Request
<1>. HIDE DEF w
<1>1. /\ w \in Entry /\ w.tag = e.tag /\ w.dirty = e.dirty /\ w.since = e.since
      /\ w.until = e.until /\ w.reserved = e.reserved
      /\ \A x \in Sector : w.known[x] = IF x = s /\ r.op = "Store"
                                        THEN e.known[x] \cup r.bytes ELSE e.known[x]
      /\ w.valid = {x \in Sector : w.known[x] = Byte}
  <2>. HIDE DEF s
  <2>1. CASE r.op = "Store"
    <3>1. w = MarkWritten(e, s, r.bytes)
      BY <2>1 DEF w
    <3>2. CASE e.known[s] \cup r.bytes = Byte
      <4>1. w = [e EXCEPT !.known[s] = @ \cup r.bytes, !.valid = @ \cup {s}]
        BY <3>1, <3>2 DEF MarkWritten
      <4>2. /\ w \in Entry /\ w.tag = e.tag /\ w.dirty = e.dirty /\ w.since = e.since
            /\ w.until = e.until /\ w.reserved = e.reserved /\ w.valid = e.valid \cup {s}
            /\ \A x \in Sector : w.known[x] = IF x = s THEN e.known[x] \cup r.bytes
                                                       ELSE e.known[x]
        BY <1>0, <4>1 DEF Entry
      <4>. QED BY <1>0, <2>1, <3>2, <4>2 DEF Shaped
    <3>3. CASE e.known[s] \cup r.bytes # Byte
      <4>1. e.known[s] # Byte
        BY <1>0, <3>3
      <4>. QED BY <1>0, <2>1, <3>1, <3>3, <4>1 DEF MarkWritten, Entry, Shaped
    <3>. QED BY <3>2, <3>3
  <2>2. CASE r.op # "Store"
    BY <1>0, <2>2 DEF Shaped, w
  <2>. QED BY <2>1, <2>2
<1>2. f = IF r.markDirty THEN MarkDirty(w, s, now) ELSE w
  BY DEF Write, w
<1>. HIDE DEF f
<1>3. /\ f \in Entry /\ f.tag = e.tag /\ f.until = e.until /\ f.reserved = e.reserved
      /\ f.known = w.known /\ f.valid = w.valid
      /\ f.dirty = e.dirty \cup (IF r.markDirty THEN {s} ELSE {})
      /\ \A x \in Sector : x \notin f.dirty => f.since[x] = e.since[x]
  <2>1. CASE r.markDirty
    BY <1>0, <1>1, <1>2, <2>1 DEF MarkDirty, Entry
  <2>2. CASE ~r.markDirty
    BY <1>0, <1>1, <1>2, <2>2
  <2>. QED BY <2>1, <2>2
<1>4. /\ \A x \in Sector : e.known[x] \subseteq f.known[x]
      /\ r.op = "Store" => r.bytes \subseteq f.known[s]
      /\ f.valid = {x \in Sector : f.known[x] = Byte}
  <2>1. f.known = w.known /\ f.valid = w.valid
    BY <1>3
  <2>2. \A x \in Sector : e.known[x] \subseteq w.known[x]
    BY <1>1
  <2>3. r.op = "Store" => r.bytes \subseteq w.known[s]
    BY <1>0, <1>1
  <2>. QED BY <1>1, <2>1, <2>2, <2>3
<1>5. Retains(e, f)
  BY <1>0, <1>3, <1>4 DEF Retains, Backed, Keeps
<1>6. r.markDirty => \A b \in r.bytes : Keeps(f, s, b)
  BY <1>0, <1>3, <1>4 DEF Keeps
<1>7. Shaped(f)
  <2>1. \A x \in f.dirty : Backed(f, x)
    BY <1>0, <1>3, <1>4, <1>6 DEF Shaped, Backed, Keeps
  <2>. QED BY <1>3, <1>4, <2>1 DEF Shaped
<1>. QED BY <1>0, <1>3, <1>4, <1>5, <1>6, <1>7 DEF f, Backed

LEMMA RetainsOn ==
  ASSUME NEW e, NEW f, NEW g, Retains(e, f), Retains(f, g)
  PROVE  Retains(e, g)
BY DEF Retains

(* A request never marks a sector dirty for which it brings no data.       *)
Grounded(r) == r \in Request /\ (r.markDirty => r.op # "Read")

(* What an access to a cached line does to its entry.                      *)
LEMMA TouchSound ==
  ASSUME NEW e, Sound(e), NEW r, Grounded(r), NEW now \in Nat
  PROVE  /\ Sound(Touch(e, r, now)) /\ Retains(e, Touch(e, r, now))
         /\ Touch(e, r, now).dirty = e.dirty \cup (IF r.markDirty THEN {r.sector} ELSE {})
         /\ r.markDirty =>
              \A b \in r.bytes : Keeps(Touch(e, r, now), r.sector, b)
<1>. DEFINE f == IF Lookup(e, r) = "SectorMiss" THEN Fill(e, r, now) ELSE e
            t == Touch(e, r, now)
<1>1. r \in Request /\ r.op \in {"Read", "Store", "Atomic"} /\ r.sector \in Sector
  BY DEF Grounded, Request, Operation
<1>2. /\ Shaped(f) /\ Retains(e, f) /\ f.dirty = e.dirty
      /\ r.op = "Atomic" => r.sector \in f.reserved \/ f.known[r.sector] = Byte
  <2>1. CASE Lookup(e, r) = "SectorMiss"
    BY <1>1, <2>1, FillSound DEF Sound, Allocates
  <2>2. CASE Lookup(e, r) # "SectorMiss"
    <3>1. r.op = "Atomic" => r.sector \in e.valid \/ r.sector \in e.reserved
      BY <2>2 DEF Lookup
    <3>. QED BY <1>1, <2>2, <3>1 DEF Sound, Shaped, Retains
  <2>. QED BY <2>1, <2>2
<1>3. t = Write(f, r, now)
  BY DEF Touch
<1>. HIDE DEF f, t
<1>4. r.markDirty => r.op = "Store" \/ r.sector \in f.reserved \/ f.known[r.sector] = Byte
  BY <1>1, <1>2 DEF Grounded
<1>5. /\ Shaped(t) /\ Retains(f, t)
      /\ t.dirty = f.dirty \cup (IF r.markDirty THEN {r.sector} ELSE {})
      /\ r.markDirty => \A b \in r.bytes : Keeps(t, r.sector, b)
  BY <1>1, <1>2, <1>3, <1>4, WriteSound
<1>6. Retains(e, t)
  BY <1>2, <1>5, RetainsOn
<1>7. Sound(t)
  BY <1>5, <1>6 DEF Sound, Retains
<1>. QED BY <1>2, <1>5, <1>6, <1>7 DEF t

(* And what a miss of the line makes of a new one, where it allocates one. *)
LEMMA NewLineSound ==
  ASSUME NEW r, Grounded(r), ~(r.streaming /\ r.op = "Read"), NEW now \in Nat
  PROVE  LET n == Write(Fill(NewEntry(r.tag), r, now), r, now)
         IN  /\ Sound(n) /\ n.tag = r.tag
             /\ n.dirty = IF r.markDirty THEN {r.sector} ELSE {}
             /\ r.markDirty => \A b \in r.bytes : Keeps(n, r.sector, b)
<1>. DEFINE e == NewEntry(r.tag)
            f == Fill(e, r, now)
            n == Write(f, r, now)
<1>1. r \in Request /\ r.op \in {"Read", "Store", "Atomic"} /\ r.sector \in Sector
  BY DEF Grounded, Request, Operation
<1>2. Shaped(e) /\ e.tag = r.tag /\ e.dirty = {}
  <2>1. /\ e \in Entry /\ e.tag = r.tag /\ e.valid = {} /\ e.reserved = {} /\ e.dirty = {}
        /\ \A s \in Sector : e.known[s] = {} /\ e.until[s] = 0 /\ e.since[s] = 0
    BY <1>1 DEF NewEntry, Entry, Request
  <2>. HIDE DEF e
  <2>2. Shaped(e)
    BY <2>1, ByteAssumption DEF Shaped
  <2>. QED BY <2>1, <2>2
<1>. HIDE DEF e
<1>3. /\ Shaped(f) /\ Retains(e, f) /\ f.dirty = {}
      /\ Allocates(r) => r.sector \in f.reserved \/ f.known[r.sector] = Byte
  BY <1>1, <1>2, FillSound
<1>4. r.markDirty => r.op = "Store" \/ r.sector \in f.reserved \/ f.known[r.sector] = Byte
  BY <1>1, <1>3 DEF Grounded, Allocates
<1>. HIDE DEF f
<1>5. /\ Shaped(n) /\ Retains(f, n)
      /\ n.dirty = f.dirty \cup (IF r.markDirty THEN {r.sector} ELSE {})
      /\ r.op = "Store" => Backed(n, r.sector)
      /\ r.markDirty => \A b \in r.bytes : Keeps(n, r.sector, b)
  BY <1>1, <1>3, <1>4, WriteSound
<1>. HIDE DEF n
<1>6. Backed(n, r.sector)
  <2>1. CASE r.op = "Store"
    BY <1>5, <2>1
  <2>2. CASE r.op # "Store"
    <3>1. Backed(f, r.sector)
      BY <1>1, <1>3, <2>2, ByteAssumption DEF Allocates, Backed
    <3>. QED BY <1>1, <1>5, <3>1 DEF Retains
  <2>. QED BY <2>1, <2>2
<1>7. Sound(n) /\ n.tag = r.tag /\ n.dirty = IF r.markDirty THEN {r.sector} ELSE {}
  BY <1>1, <1>2, <1>3, <1>5, <1>6 DEF Sound, Retains
<1>. QED BY <1>5, <1>7 DEF n, f, e

(* Complete sectors that leave for memory take all their bytes along.      *)
LEMMA CleanSound ==
  ASSUME NEW e, Sound(e), NEW gone \in SUBSET (e.dirty \cap e.valid)
  PROVE  /\ Sound(Clean(e, gone)) /\ Clean(e, gone).tag = e.tag
         /\ Clean(e, gone).dirty = e.dirty \ gone
         /\ Clean(e, gone).valid = e.valid
         /\ \A s \in Sector : s \notin gone => Clean(e, gone).since[s] = e.since[s]
         /\ \A s \in Sector, b \in Byte :
              Keeps(e, s, b) => Keeps(Clean(e, gone), s, b) \/ (s \in gone /\ b \in e.known[s])
<1>. DEFINE f == Clean(e, gone)
<1>0. e \in Entry /\ e.valid = {s \in Sector : e.known[s] = Byte}
  BY DEF Sound, Shaped
<1>1. /\ f \in Entry /\ f.tag = e.tag /\ f.valid = e.valid /\ f.reserved = e.reserved
      /\ f.known = e.known /\ f.until = e.until /\ f.dirty = e.dirty \ gone
      /\ \A s \in Sector : f.since[s] = IF s \in gone THEN 0 ELSE e.since[s]
  BY <1>0 DEF Clean, Entry
<1>. HIDE DEF f
<1>2. Sound(f)
  BY <1>1 DEF Sound, Shaped, Backed
<1>3. \A s \in Sector, b \in Byte :
        Keeps(e, s, b) => Keeps(f, s, b) \/ (s \in gone /\ b \in e.known[s])
  BY <1>0, <1>1 DEF Keeps
<1>. QED BY <1>1, <1>2, <1>3 DEF f

(* When all that is eligible has left, nothing is eligible.                *)
LEMMA Settled ==
  ASSUME NEW e, Sound(e), NEW now \in Nat, NEW age
  PROVE  LET f == Refresh(e, now)
         IN  Eligible(Refresh(Clean(f, Eligible(f, now, age)), now), now, age) = {}
<1>. DEFINE f == Refresh(e, now)
            gone == Eligible(f, now, age)
            c == Clean(f, gone)
            d == Refresh(c, now)
<1>1. Sound(f) /\ f \in Entry /\ \A s \in f.reserved : ~(f.until[s] =< now)
  BY RefreshSound DEF Sound, Shaped
<1>. HIDE DEF f
<1>2. gone \in SUBSET (f.dirty \cap f.valid)
  BY DEF Eligible
<1>3. \A s : s \in f.dirty /\ s \in f.valid /\ f.since[s] + age =< now => s \in gone
  BY DEF Eligible
<1>. HIDE DEF gone
<1>4. /\ Sound(c) /\ c.dirty = f.dirty \ gone /\ c.valid = f.valid
      /\ \A s \in Sector : s \notin gone => c.since[s] = f.since[s]
  BY <1>1, <1>2, CleanSound
<1>5. c.reserved = f.reserved /\ c.until = f.until
  BY <1>1 DEF Clean, Entry
<1>. HIDE DEF c
<1>6. d.dirty = c.dirty /\ d.since = c.since
  BY <1>4, RefreshSound DEF Sound
<1>7. d.valid = c.valid
  <2>1. {s \in c.reserved : c.until[s] =< now} = {}
    BY <1>1, <1>5
  <2>2. c \in Entry
    BY <1>4 DEF Sound, Shaped
  <2>. QED BY <2>1, <2>2 DEF Refresh, Entry
<1>. HIDE DEF d
<1>8. Eligible(d, now, age) = {}
  <2>. SUFFICES ASSUME NEW s \in d.dirty \cap d.valid, d.since[s] + age =< now PROVE FALSE
    BY DEF Eligible
  <2>1. s \in f.dirty /\ s \in f.valid /\ s \notin gone /\ s \in Sector
    BY <1>1, <1>4, <1>6, <1>7 DEF Entry
  <2>2. d.since[s] = f.since[s]
    BY <1>4, <1>6, <2>1
  <2>. QED BY <1>3, <2>1, <2>2
<1>. QED BY <1>8 DEF f, gone, c, d

(* Dirty data that may leave is known whole.                               *)
LEMMA FinishedKnown ==
  ASSUME NEW e, Sound(e), ~Unfinished(e)
  PROVE  \A s \in Sector, b \in Byte : Keeps(e, s, b) => b \in e.known[s]
BY DEF Sound, Shaped, Unfinished, Keeps

(* A checkpoint's image passes load's checks and restores its entry.       *)
LEMMA RoundTrip ==
  ASSUME NEW e, Sound(e)
  PROVE  Loadable(SavedEntry(e)) /\ RestoredEntry(SavedEntry(e)) = e
<1>. DEFINE i == SavedEntry(e)
            f == RestoredEntry(i)
<1>1. /\ i.tag = e.tag /\ i.valid = e.valid /\ i.reserved = e.reserved
      /\ i.dirty = e.dirty /\ i.known = e.known
      /\ \A s \in e.reserved : i.until[s] = e.until[s]
      /\ \A s \in e.dirty : i.since[s] = e.since[s]
  BY DEF SavedEntry
<1>. HIDE DEF i
<1>2. e \in Entry /\ e.dirty \subseteq Sector /\ e.reserved \subseteq Sector
  BY DEF Sound, Shaped, Entry
<1>3. Loadable(i)
  BY <1>1, <1>2 DEF Loadable, KnownSectors, Sound, Shaped, Backed
<1>. DEFINE n == NewEntry(i.tag)
            until == [s \in Sector |-> IF s \in i.reserved THEN i.until[s] ELSE 0]
            since == [s \in Sector |-> IF s \in i.dirty THEN i.since[s] ELSE 0]
<1>4. \A s \in Sector : until[s] = e.until[s] /\ since[s] = e.since[s]
  BY <1>1 DEF Sound, Shaped
<1>5. until \in [Sector -> Nat] /\ since \in [Sector -> Nat]
  BY <1>2, <1>4 DEF Entry
<1>6. n \in Entry /\ n.tag = e.tag
  BY <1>1, <1>2 DEF NewEntry, Entry
<1>7. f = [n EXCEPT !.valid = i.valid, !.reserved = i.reserved, !.dirty = i.dirty,
                    !.known = i.known, !.until = until, !.since = since]
  BY DEF RestoredEntry
<1>. HIDE DEF n, until, since, f
<1>8. /\ f \in Entry /\ f.tag = n.tag /\ f.valid = i.valid /\ f.reserved = i.reserved
      /\ f.dirty = i.dirty /\ f.known = i.known /\ f.until = until /\ f.since = since
  BY <1>1, <1>2, <1>5, <1>6, <1>7 DEF Entry
<1>9. f = e
  BY <1>1, <1>2, <1>4, <1>6, <1>8, SameEntry
<1>. QED BY <1>3, <1>9 DEF f, i

-----------------------------------------------------------------------------
(* Sets.                                                                   *)

(* One entry for each line.                                                *)
SoundSet(set) == /\ set \in Seq(Entry)
                 /\ \A i \in DOMAIN set : Sound(set[i])
                 /\ \A i, j \in DOMAIN set : set[i].tag = set[j].tag => i = j

Cached(set, t) == \E i \in DOMAIN set : set[i].tag = t
DirtyIn(set, t, s) == \E i \in DOMAIN set : set[i].tag = t /\ s \in set[i].dirty
KeptIn(set, t, s, b) == \E i \in DOMAIN set : set[i].tag = t /\ Keeps(set[i], s, b)

LEMMA RemoveAtIs ==
  ASSUME NEW S, NEW set \in Seq(S), NEW i \in DOMAIN set
  PROVE  /\ RemoveAt(set, i) \in Seq(S)
         /\ Len(RemoveAt(set, i)) = Len(set) - 1
         /\ \A k \in DOMAIN RemoveAt(set, i) :
              RemoveAt(set, i)[k] = set[IF k < i THEN k ELSE k + 1]
<1>. DEFINE a == SubSeq(set, 1, i - 1)
            b == SubSeq(set, i + 1, Len(set))
<1>1. i \in 1 .. Len(set) /\ Len(set) \in Nat /\ \A k \in 1 .. Len(set) : set[k] \in S
  OBVIOUS
<1>2. /\ a \in Seq(S) /\ Len(a) = i - 1
      /\ \A k \in 1 .. i - 1 : a[k] = set[k]
  BY <1>1, SubSeqProperties
<1>3. /\ b \in Seq(S) /\ Len(b) = Len(set) - i
      /\ \A k \in 1 .. Len(set) - i : b[k] = set[k + i]
  BY <1>1, SubSeqProperties
<1>. HIDE DEF a, b
<1>4. /\ a \o b \in Seq(S) /\ Len(a \o b) = Len(set) - 1
      /\ \A k \in 1 .. Len(set) - 1 : (a \o b)[k] = set[IF k < i THEN k ELSE k + 1]
  BY <1>1, <1>2, <1>3
<1>5. RemoveAt(set, i) = a \o b
  BY DEF RemoveAt, a, b
<1>. DEFINE g == RemoveAt(set, i)
<1>. HIDE DEF g
<1>6. /\ g \in Seq(S) /\ Len(g) = Len(set) - 1
      /\ \A k \in 1 .. Len(set) - 1 : g[k] = set[IF k < i THEN k ELSE k + 1]
  BY <1>4, <1>5 DEF g
<1>7. \A k \in DOMAIN g : g[k] = set[IF k < i THEN k ELSE k + 1]
  BY <1>1, <1>6
<1>. QED BY <1>6, <1>7 DEF g

(* A line removed takes along what it holds, the others stay as they are.  *)
LEMMA RemoveSound ==
  ASSUME NEW set, SoundSet(set), NEW i \in DOMAIN set
  PROVE  /\ SoundSet(RemoveAt(set, i)) /\ Len(RemoveAt(set, i)) = Len(set) - 1
         /\ ~Cached(RemoveAt(set, i), set[i].tag)
         /\ \A j \in DOMAIN set : j # i =>
              \E k \in DOMAIN RemoveAt(set, i) : RemoveAt(set, i)[k] = set[j]
         /\ \A k \in DOMAIN RemoveAt(set, i) :
              \E j \in DOMAIN set : j # i /\ RemoveAt(set, i)[k] = set[j]
<1>. DEFINE g == RemoveAt(set, i)
            At(k) == IF k < i THEN k ELSE k + 1
<1>1. /\ g \in Seq(Entry) /\ Len(g) = Len(set) - 1 /\ set \in Seq(Entry)
      /\ \A k \in DOMAIN g : g[k] = set[At(k)]
  BY RemoveAtIs DEF SoundSet
<1>. HIDE DEF g
<1>2. /\ DOMAIN g = 1 .. Len(g) /\ DOMAIN set = 1 .. Len(set) /\ Len(set) \in Nat
      /\ i \in 1 .. Len(set)
  BY <1>1
<1>3. \A k \in DOMAIN g : At(k) \in DOMAIN set /\ At(k) # i
  BY <1>1, <1>2
<1>4. \A k, l \in DOMAIN g : At(k) = At(l) => k = l
  BY <1>1, <1>2
<1>5. \A j \in DOMAIN set : j # i => \E k \in DOMAIN g : j = At(k)
  <2>. SUFFICES ASSUME NEW j \in DOMAIN set, j # i
                PROVE  \E k \in DOMAIN g : j = At(k)
    OBVIOUS
  <2>1. CASE j < i
    <3>1. j \in DOMAIN g /\ At(j) = j
      BY <1>1, <1>2, <2>1
    <3>. QED BY <3>1
  <2>2. CASE j > i
    <3>1. j - 1 \in DOMAIN g /\ At(j - 1) = j
      BY <1>1, <1>2, <2>2
    <3>. QED BY <3>1
  <2>. QED BY <1>2, <2>1, <2>2
<1>. HIDE DEF At
<1>6. SoundSet(g)
  BY <1>1, <1>3, <1>4 DEF SoundSet
<1>7. ~Cached(g, set[i].tag)
  BY <1>1, <1>3 DEF SoundSet, Cached
<1>. QED BY <1>1, <1>3, <1>5, <1>6, <1>7 DEF g

(* A line that is not there is placed at either end.                       *)
LEMMA PlaceSound ==
  ASSUME NEW set, SoundSet(set), NEW e, Sound(e), ~Cached(set, e.tag), NEW r
  PROVE  /\ SoundSet(Place(set, e, r)) /\ Len(Place(set, e, r)) = Len(set) + 1
         /\ \A j \in DOMAIN set : \E k \in DOMAIN Place(set, e, r) : Place(set, e, r)[k] = set[j]
         /\ \E k \in DOMAIN Place(set, e, r) : Place(set, e, r)[k] = e
         /\ \A k \in DOMAIN Place(set, e, r) :
              Place(set, e, r)[k] = e \/ \E j \in DOMAIN set : Place(set, e, r)[k] = set[j]
<1>. DEFINE g == Place(set, e, r)
<1>0. e \in Entry /\ set \in Seq(Entry) /\ Len(set) \in Nat /\ DOMAIN set = 1 .. Len(set)
  BY DEF SoundSet, Sound, Shaped
<1>1. CASE r.streaming
  <2>1. g = Append(set, e)
    BY <1>1 DEF Place
  <2>. HIDE DEF g
  <2>2. /\ g \in Seq(Entry) /\ Len(g) = Len(set) + 1 /\ DOMAIN g = 1 .. Len(set) + 1
        /\ \A k \in 1 .. Len(set) : g[k] = set[k]
        /\ g[Len(set) + 1] = e
    BY <1>0, <2>1
  <2>3. \A k \in DOMAIN g : k = Len(set) + 1 \/ k \in DOMAIN set
    BY <1>0, <2>2
  <2>4. SoundSet(g)
    BY <1>0, <2>2, <2>3 DEF SoundSet, Cached
  <2>. QED BY <1>0, <2>2, <2>3, <2>4 DEF g
<1>2. CASE ~r.streaming
  <2>1. g = <<e>> \o set
    BY <1>2 DEF Place, Cons
  <2>. HIDE DEF g
  <2>2. /\ g \in Seq(Entry) /\ Len(g) = Len(set) + 1 /\ DOMAIN g = 1 .. Len(set) + 1
        /\ \A k \in 1 .. Len(set) : g[k + 1] = set[k] /\ k + 1 \in DOMAIN g
        /\ g[1] = e /\ 1 \in DOMAIN g
    BY <1>0, <2>1
  <2>3. \A k \in DOMAIN g : k = 1 \/ (k - 1 \in DOMAIN set /\ g[k] = set[k - 1])
    BY <1>0, <2>2
  <2>4. SoundSet(g)
    BY <1>0, <2>2, <2>3 DEF SoundSet, Cached
  <2>. QED BY <1>0, <2>2, <2>3, <2>4 DEF g
<1>. QED BY <1>1, <1>2

(* Reads complete along the walk; nothing else changes.                    *)
LEMMA WalkSound ==
  ASSUME NEW set, SoundSet(set), NEW last, NEW now \in Nat
  PROVE  /\ SoundSet(RefreshUpTo(set, last, now))
         /\ Len(RefreshUpTo(set, last, now)) = Len(set)
         /\ \A i \in DOMAIN set : /\ Retains(set[i], RefreshUpTo(set, last, now)[i])
                                  /\ RefreshUpTo(set, last, now)[i].dirty = set[i].dirty
<1>. DEFINE g == RefreshUpTo(set, last, now)
<1>1. /\ set \in Seq(Entry) /\ Len(set) \in Nat /\ DOMAIN set = 1 .. Len(set)
      /\ \A i \in DOMAIN set : Sound(set[i])
  BY DEF SoundSet
<1>2. /\ g = [i \in 1 .. Len(set) |-> g[i]]
      /\ \A i \in DOMAIN set : g[i] = IF i =< last THEN Refresh(set[i], now) ELSE set[i]
  BY <1>1 DEF RefreshUpTo
<1>. HIDE DEF g
<1>3. \A i \in DOMAIN set : Sound(g[i]) /\ Retains(set[i], g[i]) /\ g[i].dirty = set[i].dirty
  <2>. SUFFICES ASSUME NEW i \in DOMAIN set
                PROVE  Sound(g[i]) /\ Retains(set[i], g[i]) /\ g[i].dirty = set[i].dirty
    OBVIOUS
  <2>1. CASE i =< last
    <3>1. g[i] = Refresh(set[i], now)
      BY <1>2, <2>1
    <3>. QED BY <1>1, <3>1, RefreshSound DEF Sound
  <2>2. CASE ~(i =< last)
    <3>1. g[i] = set[i]
      BY <1>2, <2>2
    <3>. QED BY <1>1, <3>1 DEF Retains
  <2>. QED BY <2>1, <2>2
<1>4. \A i \in 1 .. Len(set) : g[i] \in Entry
  BY <1>1, <1>3 DEF Sound, Shaped
<1>5. g \in Seq(Entry) /\ Len(g) = Len(set) /\ DOMAIN g = DOMAIN set
  BY <1>1, <1>2, <1>4
<1>6. \A i, j \in DOMAIN g : g[i].tag = g[j].tag => i = j
  BY <1>3, <1>5 DEF SoundSet, Retains
<1>7. SoundSet(g)
  BY <1>3, <1>5, <1>6 DEF SoundSet
<1>. QED BY <1>3, <1>5, <1>7 DEF g

(* From one set to another: what is added, and what leaves with a line.    *)
Adds(set, g, r) ==
  /\ SoundSet(g)
  /\ \A t : Cached(g, t) => Cached(set, t) \/ t = r.tag
  /\ \A t, s : DirtyIn(g, t, s) <=>
       DirtyIn(set, t, s) \/ (r.markDirty /\ t = r.tag /\ s = r.sector)
  /\ \A t : \A s \in Sector, b \in Byte : KeptIn(set, t, s, b) => KeptIn(g, t, s, b)
  /\ r.markDirty => \A b \in r.bytes : KeptIn(g, r.tag, r.sector, b)

LEMMA WalkAdds ==
  ASSUME NEW set, SoundSet(set), NEW last, NEW now \in Nat
  PROVE  LET g == RefreshUpTo(set, last, now)
         IN  /\ \A t : Cached(g, t) <=> Cached(set, t)
             /\ \A t, s : DirtyIn(g, t, s) <=> DirtyIn(set, t, s)
             /\ \A t : \A s \in Sector, b \in Byte : KeptIn(set, t, s, b) => KeptIn(g, t, s, b)
<1>. DEFINE g == RefreshUpTo(set, last, now)
<1>1. /\ DOMAIN g = DOMAIN set
      /\ \A i \in DOMAIN set : Retains(set[i], g[i]) /\ g[i].dirty = set[i].dirty
  BY WalkSound DEF RefreshUpTo
<1>. HIDE DEF g
<1>2. \A i \in DOMAIN set : g[i].tag = set[i].tag
  BY <1>1 DEF Retains
<1>3. \A t : \A s \in Sector, b \in Byte : KeptIn(set, t, s, b) => KeptIn(g, t, s, b)
  BY <1>1, <1>2 DEF KeptIn, Retains
<1>4. \A t : Cached(g, t) <=> Cached(set, t)
  BY <1>1, <1>2 DEF Cached
<1>5. \A t, s : DirtyIn(g, t, s) <=> DirtyIn(set, t, s)
  BY <1>1, <1>2 DEF DirtyIn
<1>. QED BY <1>3, <1>4, <1>5 DEF g

(* A hit: the line is touched and moved to an end of the set.              *)
LEMMA HitAdds ==
  ASSUME NEW set, SoundSet(set), NEW r, Grounded(r), NEW now \in Nat,
         NEW i \in DOMAIN set, set[i].tag = r.tag
  PROVE  LET h == HitLine(set, i, r, now)
         IN  /\ Adds(set, h.set, r) /\ Len(h.set) = Len(set)
             /\ h.out = {} /\ h.throws = FALSE
<1>. DEFINE w == RefreshUpTo(set, i, now)
            rest == RemoveAt(w, i)
            e == Touch(w[i], r, now)
            g == Place(rest, e, r)
<1>1. /\ SoundSet(w) /\ Len(w) = Len(set) /\ i \in DOMAIN w
      /\ Len(set) \in Nat
      /\ w[i].tag = r.tag
  BY WalkSound DEF SoundSet, Retains
<1>2. /\ \A t : Cached(w, t) <=> Cached(set, t)
      /\ \A t, s : DirtyIn(w, t, s) <=> DirtyIn(set, t, s)
      /\ \A t : \A s \in Sector, b \in Byte : KeptIn(set, t, s, b) => KeptIn(w, t, s, b)
  BY WalkAdds
<1>. HIDE DEF w
<1>3. Sound(w[i])
  BY <1>1 DEF SoundSet
<1>4. /\ Sound(e) /\ Retains(w[i], e)
      /\ e.dirty = w[i].dirty \cup (IF r.markDirty THEN {r.sector} ELSE {})
      /\ r.markDirty => \A b \in r.bytes : Keeps(e, r.sector, b)
  BY <1>3, TouchSound
<1>5. e.tag = r.tag
  BY <1>1, <1>4 DEF Retains
<1>. HIDE DEF e
<1>6. /\ SoundSet(rest) /\ Len(rest) = Len(w) - 1 /\ ~Cached(rest, r.tag)
      /\ \A j \in DOMAIN w : j # i => \E k \in DOMAIN rest : rest[k] = w[j]
      /\ \A k \in DOMAIN rest : \E j \in DOMAIN w : j # i /\ rest[k] = w[j]
  BY <1>1, RemoveSound
<1>. HIDE DEF rest
<1>7. /\ SoundSet(g) /\ Len(g) = Len(rest) + 1
      /\ \A j \in DOMAIN rest : \E k \in DOMAIN g : g[k] = rest[j]
      /\ \E k \in DOMAIN g : g[k] = e
      /\ \A k \in DOMAIN g : g[k] = e \/ \E j \in DOMAIN rest : g[k] = rest[j]
  BY <1>4, <1>5, <1>6, PlaceSound
<1>. HIDE DEF g
<1>8. /\ \A j \in DOMAIN w : j # i => \E k \in DOMAIN g : g[k] = w[j]
      /\ \A k \in DOMAIN g : g[k] = e \/ \E j \in DOMAIN w : j # i /\ g[k] = w[j]
  <2>1. ASSUME NEW j \in DOMAIN w, j # i
        PROVE  \E k \in DOMAIN g : g[k] = w[j]
    <3>1. PICK k \in DOMAIN rest : rest[k] = w[j]
      BY <1>6, <2>1
    <3>. QED BY <1>7, <3>1
  <2>2. ASSUME NEW k \in DOMAIN g, g[k] # e
        PROVE  \E j \in DOMAIN w : j # i /\ g[k] = w[j]
    <3>1. PICK j \in DOMAIN rest : g[k] = rest[j]
      BY <1>7, <2>2
    <3>. QED BY <1>6, <3>1
  <2>. QED BY <2>1, <2>2
<1>9. \A t : Cached(g, t) => Cached(set, t) \/ t = r.tag
  <2>1. ASSUME NEW t, NEW k \in DOMAIN g, g[k].tag = t, t # r.tag
        PROVE  Cached(w, t)
    <3>1. PICK j \in DOMAIN w : g[k] = w[j]
      BY <1>5, <1>8, <2>1
    <3>. QED BY <2>1, <3>1 DEF Cached
  <2>. QED BY <1>2, <2>1 DEF Cached
<1>10. \A t, s : DirtyIn(g, t, s) <=>
         DirtyIn(w, t, s) \/ (r.markDirty /\ t = r.tag /\ s = r.sector)
  <2>. SUFFICES ASSUME NEW t, NEW s
                PROVE  DirtyIn(g, t, s) <=>
                         DirtyIn(w, t, s) \/ (r.markDirty /\ t = r.tag /\ s = r.sector)
    OBVIOUS
  <2>1. ASSUME DirtyIn(g, t, s)
        PROVE  DirtyIn(w, t, s) \/ (r.markDirty /\ t = r.tag /\ s = r.sector)
    BY <1>1, <1>4, <1>5, <1>8, <2>1 DEF DirtyIn
  <2>2. ASSUME DirtyIn(w, t, s) PROVE DirtyIn(g, t, s)
    BY <1>1, <1>4, <1>5, <1>7, <1>8, <2>2 DEF DirtyIn
  <2>3. ASSUME r.markDirty, t = r.tag, s = r.sector PROVE DirtyIn(g, t, s)
    BY <1>4, <1>5, <1>7, <2>3 DEF DirtyIn
  <2>. QED BY <2>1, <2>2, <2>3
<1>11. \A t : \A s \in Sector, b \in Byte : KeptIn(w, t, s, b) => KeptIn(g, t, s, b)
  BY <1>1, <1>4, <1>5, <1>7, <1>8 DEF KeptIn, Retains
<1>12. r.markDirty => \A b \in r.bytes : KeptIn(g, r.tag, r.sector, b)
  BY <1>4, <1>5, <1>7 DEF KeptIn
<1>13. Adds(set, g, r)
  BY <1>2, <1>7, <1>9, <1>10, <1>11, <1>12 DEF Adds
<1>14. Len(g) = Len(set)
  BY <1>1, <1>6, <1>7
<1>. QED BY <1>13, <1>14 DEF HitLine, Returns, g, e, rest, w

(* Sectors and bytes that lines handed to the caller take with them.       *)
Leaves(out, t, s) == \E e \in out : e.tag = t /\ s \in e.dirty
Carries(out, t, s, b) == \E e \in out : e.tag = t /\ s \in e.dirty /\ b \in e.known[s]

LEMMA VictimInSet ==
  ASSUME NEW set, SoundSet(set), set # <<>>
  PROVE  Victim(set) \in DOMAIN set
<1>. DEFINE idle == {i \in DOMAIN set : set[i].reserved = {}}
<1>1. Len(set) \in Nat /\ DOMAIN set = 1 .. Len(set) /\ Len(set) # 0
  BY DEF SoundSet
<1>2. CASE idle = {}
  BY <1>1, <1>2 DEF Victim
<1>3. CASE idle # {}
  <2>1. idle \in SUBSET (0 .. Len(set))
    BY <1>1
  <2>. HIDE DEF idle
  <2>2. Max(idle) \in idle
    BY <1>1, <1>3, <2>1, GreatestOf
  <2>. QED BY <1>3, <2>2 DEF Victim, idle
<1>. QED BY <1>2, <1>3

(* The victim takes along what it holds dirty, unless the eviction throws. *)
LEMMA EvictionEffect ==
  ASSUME NEW p, SoundSet(p), p # <<>>
  PROVE  LET a == EvictOne(p)
         IN  /\ SoundSet(a.set) /\ Len(a.set) = Len(p) - 1 /\ a.throws \in BOOLEAN
             /\ \A t : Cached(a.set, t) => Cached(p, t)
             /\ \A t, s : DirtyIn(a.set, t, s) <=> DirtyIn(p, t, s) /\ ~Leaves(a.out, t, s)
             /\ \A t, s : Leaves(a.out, t, s) => DirtyIn(p, t, s)
             /\ ~a.throws => \A t : \A s \in Sector, b \in Byte :
                  KeptIn(p, t, s, b) => KeptIn(a.set, t, s, b) \/ Carries(a.out, t, s, b)
             /\ FillLatency = 0 => ~a.throws
             /\ a.out \subseteq Entry
<1>. DEFINE v == Victim(p)
            g == RemoveAt(p, v)
            out == IF p[v].dirty = {} THEN {} ELSE {p[v]}
<1>0. EvictOne(p) = [set |-> g, result |-> "LineMiss", out |-> out, throws |-> Unfinished(p[v])]
  BY DEF EvictOne
<1>1. v \in DOMAIN p
  BY VictimInSet
<1>. HIDE DEF v
<1>2. Sound(p[v]) /\ p[v] \in Entry
  BY <1>1 DEF SoundSet, Sound, Shaped
<1>3. /\ SoundSet(g) /\ Len(g) = Len(p) - 1 /\ ~Cached(g, p[v].tag)
      /\ \A j \in DOMAIN p : j # v => \E k \in DOMAIN g : g[k] = p[j]
      /\ \A k \in DOMAIN g : \E j \in DOMAIN p : j # v /\ g[k] = p[j]
  BY <1>1, RemoveSound
<1>. HIDE DEF g
<1>4. \A t, s : Leaves(out, t, s) <=> t = p[v].tag /\ s \in p[v].dirty
  BY DEF Leaves
<1>5. \A t, s, b : Carries(out, t, s, b) <=> t = p[v].tag /\ s \in p[v].dirty /\ b \in p[v].known[s]
  BY DEF Carries
<1>6. out \subseteq Entry
  BY <1>2
<1>. HIDE DEF out
<1>7. \A t : Cached(g, t) => Cached(p, t)
  BY <1>3 DEF Cached
<1>8. \A t, s : DirtyIn(g, t, s) <=> DirtyIn(p, t, s) /\ ~Leaves(out, t, s)
  <2>. SUFFICES ASSUME NEW t, NEW s
                PROVE  DirtyIn(g, t, s) <=> DirtyIn(p, t, s) /\ ~Leaves(out, t, s)
    OBVIOUS
  <2>1. ASSUME DirtyIn(g, t, s) PROVE DirtyIn(p, t, s) /\ t # p[v].tag
    BY <1>3, <2>1 DEF DirtyIn, Cached
  <2>2. ASSUME DirtyIn(p, t, s), ~(t = p[v].tag /\ s \in p[v].dirty) PROVE DirtyIn(g, t, s)
    BY <1>3, <2>2 DEF DirtyIn
  <2>. QED BY <1>4, <2>1, <2>2
<1>9. \A t, s : Leaves(out, t, s) => DirtyIn(p, t, s)
  BY <1>1, <1>4 DEF DirtyIn
<1>10. ASSUME ~Unfinished(p[v])
       PROVE  \A t : \A s \in Sector, b \in Byte :
                KeptIn(p, t, s, b) => KeptIn(g, t, s, b) \/ Carries(out, t, s, b)
  <2>. SUFFICES ASSUME NEW t, NEW s \in Sector, NEW b \in Byte,
                       NEW i \in DOMAIN p, p[i].tag = t, Keeps(p[i], s, b)
                PROVE  KeptIn(g, t, s, b) \/ Carries(out, t, s, b)
    BY DEF KeptIn
  <2>1. CASE i = v
    BY <1>2, <1>5, <1>10, <2>1, FinishedKnown DEF Keeps
  <2>2. CASE i # v
    BY <1>3, <2>2 DEF KeptIn
  <2>. QED BY <2>1, <2>2
<1>11. FillLatency = 0 => ~Unfinished(p[v])
  BY <1>2 DEF Unfinished, Sound, Shaped
<1>12. Unfinished(p[v]) \in BOOLEAN
  BY DEF Unfinished
<1>. QED BY <1>0, <1>3, <1>6, <1>7, <1>8, <1>9, <1>10, <1>11, <1>12

(* What a set and the lines handed out account for after an access.        *)
Accounts(set, r, a) ==
  /\ SoundSet(a.set) /\ a.throws \in BOOLEAN /\ a.out \subseteq Entry
  /\ \A t : Cached(a.set, t) => Cached(set, t) \/ t = r.tag
  /\ \A t, s : DirtyIn(a.set, t, s) <=>
       /\ DirtyIn(set, t, s) \/ (r.markDirty /\ t = r.tag /\ s = r.sector)
       /\ ~Leaves(a.out, t, s)
  /\ \A t, s : Leaves(a.out, t, s) =>
       DirtyIn(set, t, s) \/ (r.markDirty /\ t = r.tag /\ s = r.sector)
  /\ ~a.throws => \A t : \A s \in Sector, b \in Byte :
       (KeptIn(set, t, s, b) \/ (r.markDirty /\ t = r.tag /\ s = r.sector /\ b \in r.bytes))
         => KeptIn(a.set, t, s, b) \/ Carries(a.out, t, s, b)
  /\ FillLatency = 0 => ~a.throws

(* A step that evicts nothing accounts for what it adds.                   *)
LEMMA AddsAccounts ==
  ASSUME NEW set, NEW r, NEW g, Adds(set, g, r), NEW res
  PROVE  Accounts(set, r, Returns(g, res))
<1>1. \A t, s, b : ~Leaves({}, t, s) /\ ~Carries({}, t, s, b)
  BY DEF Leaves, Carries
<1>. QED BY <1>1 DEF Accounts, Adds, Returns

LEMMA EvictionAccounts ==
  ASSUME NEW set, NEW r, NEW p, Adds(set, p, r), p # <<>>
  PROVE  Accounts(set, r, EvictOne(p))
<1>. DEFINE a == EvictOne(p)
<1>1. /\ SoundSet(a.set) /\ a.throws \in BOOLEAN
      /\ \A t : Cached(a.set, t) => Cached(p, t)
      /\ \A t, s : DirtyIn(a.set, t, s) <=> DirtyIn(p, t, s) /\ ~Leaves(a.out, t, s)
      /\ \A t, s : Leaves(a.out, t, s) => DirtyIn(p, t, s)
      /\ ~a.throws => \A t : \A s \in Sector, b \in Byte :
           KeptIn(p, t, s, b) => KeptIn(a.set, t, s, b) \/ Carries(a.out, t, s, b)
      /\ FillLatency = 0 => ~a.throws
      /\ a.out \subseteq Entry
  BY EvictionEffect DEF Adds
<1>. HIDE DEF a
<1>2. Accounts(set, r, a)
  BY <1>1 DEF Accounts, Adds
<1>. QED BY <1>2 DEF a

(* A miss: the line is placed if the request leaves data behind, and one   *)
(* line is evicted if there is one too many.                               *)
LEMMA MissAccounts ==
  ASSUME NEW set, SoundSet(set), Len(set) =< Assoc, NEW r, Grounded(r),
         ~Cached(set, r.tag), NEW now \in Nat
  PROVE  /\ Accounts(set, r, MissLine(set, r, now))
         /\ Len(MissLine(set, r, now).set) =< Assoc
<1>. DEFINE w == RefreshUpTo(set, Len(set), now)
            n == Write(Fill(NewEntry(r.tag), r, now), r, now)
            p == Place(w, n, r)
<1>0. Len(set) \in Nat /\ Assoc \in Nat
  BY AssocAssumption DEF SoundSet
<1>1. SoundSet(w) /\ Len(w) = Len(set)
  BY WalkSound
<1>2. /\ \A t : Cached(w, t) <=> Cached(set, t)
      /\ \A t, s : DirtyIn(w, t, s) <=> DirtyIn(set, t, s)
      /\ \A t : \A s \in Sector, b \in Byte : KeptIn(set, t, s, b) => KeptIn(w, t, s, b)
  BY WalkAdds
<1>3. MissLine(set, r, now) =
        IF r.streaming /\ r.op = "Read" THEN Returns(w, "LineMiss")
        ELSE IF Overfull(p) THEN EvictOne(p) ELSE Returns(p, "LineMiss")
  BY DEF MissLine
<1>. HIDE DEF w
<1>4. CASE r.streaming /\ r.op = "Read"
  <2>1. ~r.markDirty
    BY <1>4 DEF Grounded
  <2>2. Adds(set, w, r)
    BY <1>1, <1>2, <2>1 DEF Adds
  <2>3. MissLine(set, r, now) = Returns(w, "LineMiss")
    BY <1>3, <1>4
  <2>. QED BY <1>0, <1>1, <2>2, <2>3, AddsAccounts DEF Returns
<1>5. CASE ~(r.streaming /\ r.op = "Read")
  <2>1. /\ Sound(n) /\ n.tag = r.tag
        /\ n.dirty = IF r.markDirty THEN {r.sector} ELSE {}
        /\ r.markDirty => \A b \in r.bytes : Keeps(n, r.sector, b)
    BY <1>5, NewLineSound
  <2>. HIDE DEF n
  <2>2. /\ SoundSet(p) /\ Len(p) = Len(w) + 1
        /\ \A j \in DOMAIN w : \E k \in DOMAIN p : p[k] = w[j]
        /\ \E k \in DOMAIN p : p[k] = n
        /\ \A k \in DOMAIN p : p[k] = n \/ \E j \in DOMAIN w : p[k] = w[j]
    BY <1>1, <1>2, <2>1, PlaceSound
  <2>. HIDE DEF p
  <2>3. \A t, s : DirtyIn(p, t, s) <=>
          DirtyIn(w, t, s) \/ (r.markDirty /\ t = r.tag /\ s = r.sector)
    <3>1. \A t, s : DirtyIn(p, t, s) <=>
            DirtyIn(w, t, s) \/ (t = n.tag /\ s \in n.dirty)
      BY <2>2 DEF DirtyIn
    <3>. QED BY <2>1, <3>1
  <2>4. \A t : \A s \in Sector, b \in Byte : KeptIn(w, t, s, b) => KeptIn(p, t, s, b)
    BY <2>2 DEF KeptIn
  <2>5. r.markDirty => \A b \in r.bytes : KeptIn(p, r.tag, r.sector, b)
    BY <2>1, <2>2 DEF KeptIn
  <2>6. \A t : Cached(p, t) => Cached(w, t) \/ t = r.tag
    BY <2>1, <2>2 DEF Cached
  <2>7. Adds(set, p, r)
    BY <1>2, <2>2, <2>3, <2>4, <2>5, <2>6 DEF Adds
  <2>8. Len(p) = Len(set) + 1 /\ p # <<>>
    BY <1>0, <1>1, <2>2
  <2>9. CASE Overfull(p)
    <3>1. MissLine(set, r, now) = EvictOne(p)
      BY <1>3, <1>5, <2>9
    <3>2. Len(EvictOne(p).set) = Len(p) - 1
      BY <2>2, <2>8, EvictionEffect
    <3>. QED BY <1>0, <2>7, <2>8, <3>1, <3>2, EvictionAccounts
  <2>10. CASE ~Overfull(p)
    <3>1. MissLine(set, r, now) = Returns(p, "LineMiss")
      BY <1>3, <1>5, <2>10
    <3>2. Len(p) =< Assoc
      BY <1>0, <2>8, <2>10 DEF Overfull
    <3>. QED BY <2>7, <3>1, <3>2, AddsAccounts DEF Returns
  <2>. QED BY <2>9, <2>10
<1>. QED BY <1>4, <1>5

(* Whatever is accessed: nothing dirty appears but what the request marks, *)
(* nothing dirty goes but what is handed out, and no stored byte is lost.  *)
LEMMA AccessAccounts ==
  ASSUME NEW set, SoundSet(set), Len(set) =< Assoc, NEW r, Grounded(r), NEW now \in Nat
  PROVE  /\ Accounts(set, r, Access(set, r, now))
         /\ Len(Access(set, r, now).set) =< Assoc
<1>. DEFINE found == {i \in DOMAIN set : set[i].tag = r.tag}
<1>1. Access(set, r, now) = IF found = {} THEN MissLine(set, r, now)
                                          ELSE HitLine(set, Min(found), r, now)
  BY DEF Access
<1>2. CASE found = {}
  <2>1. ~Cached(set, r.tag)
    BY <1>2 DEF Cached
  <2>. QED BY <1>1, <1>2, <2>1, MissAccounts
<1>3. CASE found # {}
  <2>1. Min(found) \in found
    <3>1. found \in SUBSET Nat
      BY DEF SoundSet
    <3>. QED BY <1>3, <3>1, LeastOf
  <2>2. PICK i \in DOMAIN set : set[i].tag = r.tag /\ i = Min(found)
    BY <2>1
  <2>3. Access(set, r, now) = HitLine(set, i, r, now)
    BY <1>1, <1>3, <2>2
  <2>. HIDE DEF found
  <2>4. set[i].tag = r.tag
    BY <2>2
  <2>5. LET h == HitLine(set, i, r, now)
        IN  /\ Adds(set, h.set, r) /\ Len(h.set) = Len(set)
            /\ h.out = {} /\ h.throws = FALSE
    BY <2>4, HitAdds
  <2>. DEFINE h == HitLine(set, i, r, now)
  <2>6. \E g, res : h = Returns(g, res)
    BY DEF HitLine
  <2>7. Adds(set, h.set, r) /\ Len(h.set) = Len(set)
    BY <2>5
  <2>. HIDE DEF h
  <2>8. PICK g, res : h = Returns(g, res)
    BY <2>6
  <2>9. g = h.set
    BY <2>8 DEF Returns
  <2>10. Accounts(set, r, h)
    BY <2>7, <2>8, <2>9, AddsAccounts
  <2>. QED BY <2>3, <2>7, <2>10 DEF h
<1>. QED BY <1>2, <1>3

(* Flushing a set: every dirty line leaves, complete unless it throws.     *)
LEMMA FlushAccounts ==
  ASSUME NEW set, SoundSet(set), NEW now \in Nat
  PROVE  LET a == DrainDirty(set, now)
         IN  /\ a.set = <<>> /\ a.throws \in BOOLEAN /\ a.out \subseteq Entry
             /\ \A t, s : Leaves(a.out, t, s) <=> DirtyIn(set, t, s)
             /\ ~a.throws => \A t : \A s \in Sector, b \in Byte :
                  KeptIn(set, t, s, b) => Carries(a.out, t, s, b)
             /\ FillLatency = 0 => ~a.throws
<1>. DEFINE gone == {Refresh(set[i], now) : i \in DOMAIN set}
            out == {e \in gone : e.dirty # {}}
            throws == \E e \in gone : Unfinished(e)
<1>0. DrainDirty(set, now) = [set |-> <<>>, out |-> out, throws |-> throws]
  BY DEF DrainDirty
<1>1. \A i \in DOMAIN set : /\ Sound(Refresh(set[i], now)) /\ Refresh(set[i], now) \in Entry
                            /\ Refresh(set[i], now).tag = set[i].tag
                            /\ Refresh(set[i], now).dirty = set[i].dirty
                            /\ Retains(set[i], Refresh(set[i], now))
  BY RefreshSound DEF SoundSet, Sound, Shaped, Retains
<1>2. \A e \in gone : Sound(e) /\ e \in Entry
  BY <1>1
<1>3. \A t, s : Leaves(out, t, s) <=> DirtyIn(set, t, s)
  <2>1. ASSUME NEW t, NEW s, Leaves(out, t, s) PROVE DirtyIn(set, t, s)
    BY <1>1, <2>1 DEF Leaves, DirtyIn
  <2>2. ASSUME NEW t, NEW s, DirtyIn(set, t, s) PROVE Leaves(out, t, s)
    <3>1. PICK i \in DOMAIN set : set[i].tag = t /\ s \in set[i].dirty
      BY <2>2 DEF DirtyIn
    <3>2. Refresh(set[i], now) \in out
      BY <1>1, <3>1
    <3>. QED BY <1>1, <3>1, <3>2 DEF Leaves
  <2>. QED BY <2>1, <2>2
<1>4. ASSUME ~throws
      PROVE  \A t : \A s \in Sector, b \in Byte : KeptIn(set, t, s, b) => Carries(out, t, s, b)
  <2>. SUFFICES ASSUME NEW t, NEW s \in Sector, NEW b \in Byte,
                       NEW i \in DOMAIN set, set[i].tag = t, Keeps(set[i], s, b)
                PROVE  Carries(out, t, s, b)
    BY DEF KeptIn
  <2>. DEFINE e == Refresh(set[i], now)
  <2>1. Sound(e) /\ e.tag = t /\ Keeps(e, s, b) /\ e \in gone
    BY <1>1 DEF Retains
  <2>. HIDE DEF e, gone
  <2>2. s \in e.dirty /\ b \in e.known[s]
    BY <1>4, <2>1, FinishedKnown DEF Keeps
  <2>. QED BY <2>1, <2>2 DEF Carries
<1>5. FillLatency = 0 => ~throws
  BY <1>2 DEF Unfinished, Sound, Shaped
<1>6. throws \in BOOLEAN /\ out \subseteq Entry
  BY <1>2
<1>. HIDE DEF gone, out, throws
<1>. DEFINE a == DrainDirty(set, now)
<1>. HIDE DEF a
<1>7. a.set = <<>> /\ a.out = out /\ a.throws = throws
  BY <1>0 DEF a
<1>. QED BY <1>3, <1>4, <1>5, <1>6, <1>7 DEF a

-----------------------------------------------------------------------------
(* The cache as data: what holds of l2 and of l2' alike.                   *)

Fits(sets) == /\ sets \in [SetIndex -> Seq(Entry)]
              /\ \A n \in SetIndex : /\ SoundSet(sets[n]) /\ Len(sets[n]) =< Assoc
                                     /\ \A i \in DOMAIN sets[n] : SetOf[sets[n][i].tag] = n

PlacesOf(sets) == {p \in Position : /\ p[2] \in DOMAIN sets[p[1]]
                                    /\ p[3] \in sets[p[1]][p[2]].dirty}
SectorsIn(sets) == {<<sets[p[1]][p[2]].tag, p[3]>> : p \in PlacesOf(sets)}

(* Sector s of line t, byte b of it, wherever they belong in the cache.    *)
DirtyOf(sets, t, s) == DirtyIn(sets[SetOf[t]], t, s)
KeptOf(sets, t, s, b) == KeptIn(sets[SetOf[t]], t, s, b)

LEMMA Places ==
  /\ IsFiniteSet(Position)
  /\ \A p \in Position : /\ p[1] \in SetIndex /\ p[2] \in 1 .. Assoc /\ p[3] \in Sector
                         /\ p = <<p[1], p[2], p[3]>>
                         /\ p[1] \in Nat /\ p[2] \in Nat /\ p[3] \in Nat
<1>. DEFINE pairs == SetIndex \X (1 .. Assoc)
            deep == pairs \X Sector
            f == [x \in deep |-> <<x[1][1], x[1][2], x[2]>>]
<1>0. NumSets - 1 \in Int /\ Assoc \in Int /\ Sectors - 1 \in Int
  BY SetsAssumption, AssocAssumption, SectorsAssumption
<1>1. IsFiniteSet(SetIndex) /\ IsFiniteSet(1 .. Assoc) /\ IsFiniteSet(Sector)
  BY <1>0, FS_Interval DEF SetIndex, Sector
<1>2. IsFiniteSet(pairs)
  BY <1>1, FS_Product
<1>3. IsFiniteSet(deep)
  BY <1>1, <1>2, FS_Product
<1>4. f \in Surjection(deep, Position)
  <2>1. f \in [deep -> Position]
    BY DEF Position
  <2>2. ASSUME NEW p \in Position PROVE \E x \in deep : f[x] = p
    <3>1. <<<<p[1], p[2]>>, p[3]>> \in deep
      BY DEF Position
    <3>2. f[<<<<p[1], p[2]>>, p[3]>>] = p
      BY <3>1 DEF Position
    <3>. QED BY <3>1, <3>2
  <2>. HIDE DEF f, deep
  <2>. QED BY <2>1, <2>2 DEF Surjection
<1>5. IsFiniteSet(Position)
  BY <1>3, <1>4, FS_Surjection
<1>6. \A p \in Position : /\ p[1] \in SetIndex /\ p[2] \in 1 .. Assoc /\ p[3] \in Sector
                          /\ p = <<p[1], p[2], p[3]>>
  BY DEF Position
<1>. QED BY <1>0, <1>5, <1>6 DEF SetIndex, Sector

(* A sector is dirty in one place at most: counting the places counts the  *)
(* sectors.                                                                *)
LEMMA OnePlaceEach ==
  ASSUME NEW sets, Fits(sets)
  PROVE  /\ IsFiniteSet(PlacesOf(sets)) /\ IsFiniteSet(SectorsIn(sets))
         /\ Cardinality(SectorsIn(sets)) = Cardinality(PlacesOf(sets))
<1>. DEFINE P == PlacesOf(sets)
            S == SectorsIn(sets)
            f == [p \in P |-> <<sets[p[1]][p[2]].tag, p[3]>>]
<1>1. IsFiniteSet(P)
  BY Places, FS_Subset DEF PlacesOf
<1>2. \A p, q \in P : f[p] = f[q] => p = q
  <2>. SUFFICES ASSUME NEW p \in P, NEW q \in P, f[p] = f[q] PROVE p = q
    OBVIOUS
  <2>1. p \in Position /\ q \in Position /\ p[2] \in DOMAIN sets[p[1]] /\ q[2] \in DOMAIN sets[q[1]]
    BY DEF PlacesOf
  <2>2. sets[p[1]][p[2]].tag = sets[q[1]][q[2]].tag /\ p[3] = q[3]
    OBVIOUS
  <2>3. p[1] \in SetIndex /\ q[1] \in SetIndex
    BY <2>1, Places
  <2>4. p[1] = q[1]
    BY <2>1, <2>2, <2>3 DEF Fits
  <2>5. p[2] = q[2]
    BY <2>1, <2>2, <2>3, <2>4 DEF Fits, SoundSet
  <2>. QED BY <2>1, <2>2, <2>4, <2>5, Places
<1>3. f \in [P -> S] /\ \A t \in S : \E p \in P : f[p] = t
  BY DEF SectorsIn
<1>. HIDE DEF f, P, S
<1>4. f \in Bijection(P, S)
  BY <1>2, <1>3 DEF Bijection, Injection, Surjection, IsInjective
<1>5. ExistsBijection(P, S)
  BY <1>4 DEF ExistsBijection
<1>6. IsFiniteSet(S) /\ Cardinality(S) = Cardinality(P)
  BY <1>1, <1>5, FS_Bijection
<1>. QED BY <1>1, <1>6 DEF P, S

(* The dirty sectors are those the sets hold dirty.                        *)
LEMMA DirtyWhere ==
  ASSUME NEW sets, Fits(sets)
  PROVE  /\ SectorsIn(sets) \subseteq Tag \X Sector
         /\ \A t \in Tag, s \in Sector : <<t, s>> \in SectorsIn(sets) <=> DirtyOf(sets, t, s)
<1>1. ASSUME NEW p \in PlacesOf(sets)
      PROVE  /\ p[1] \in SetIndex /\ p[3] \in Sector /\ p[2] \in DOMAIN sets[p[1]]
             /\ sets[p[1]][p[2]] \in Entry /\ p[3] \in sets[p[1]][p[2]].dirty
             /\ sets[p[1]][p[2]].tag \in Tag /\ SetOf[sets[p[1]][p[2]].tag] = p[1]
  <2>1. /\ p[1] \in SetIndex /\ p[3] \in Sector /\ p[2] \in DOMAIN sets[p[1]]
        /\ p[3] \in sets[p[1]][p[2]].dirty
    BY Places DEF PlacesOf
  <2>2. Sound(sets[p[1]][p[2]]) /\ SetOf[sets[p[1]][p[2]].tag] = p[1]
    BY <2>1 DEF Fits, SoundSet
  <2>. QED BY <2>1, <2>2 DEF Sound, Shaped, Entry
<1>2. SectorsIn(sets) \subseteq Tag \X Sector
  BY <1>1 DEF SectorsIn
<1>3. ASSUME NEW t \in Tag, NEW s \in Sector, <<t, s>> \in SectorsIn(sets)
      PROVE  DirtyOf(sets, t, s)
  <2>1. PICK p \in PlacesOf(sets) : <<t, s>> = <<sets[p[1]][p[2]].tag, p[3]>>
    BY <1>3 DEF SectorsIn
  <2>. QED BY <1>1, <2>1 DEF DirtyOf, DirtyIn
<1>4. ASSUME NEW t \in Tag, NEW s \in Sector, DirtyOf(sets, t, s)
      PROVE  <<t, s>> \in SectorsIn(sets)
  <2>. DEFINE n == SetOf[t]
  <2>1. PICK i \in DOMAIN sets[n] : sets[n][i].tag = t /\ s \in sets[n][i].dirty
    BY <1>4 DEF DirtyOf, DirtyIn
  <2>2. n \in SetIndex
    BY SetsAssumption
  <2>. HIDE DEF n
  <2>3. Len(sets[n]) \in Nat /\ DOMAIN sets[n] = 1 .. Len(sets[n]) /\ Len(sets[n]) =< Assoc
    BY <2>2 DEF Fits, SoundSet
  <2>4. i \in 1 .. Assoc
    BY <2>1, <2>3, AssocAssumption
  <2>5. <<n, i, s>> \in Position
    BY <2>2, <2>4 DEF Position
  <2>6. <<n, i, s>> \in PlacesOf(sets)
    BY <2>1, <2>5 DEF PlacesOf
  <2>. QED BY <2>1, <2>6 DEF SectorsIn
<1>. QED BY <1>2, <1>3, <1>4

-----------------------------------------------------------------------------
(* Bookkeeping: what a step must do to the sets for the ledger to follow.  *)

LEMMA OutMeans ==
  ASSUME NEW out, out \subseteq Entry
  PROVE  /\ SectorsOf(out) \subseteq Tag \X Sector
         /\ \A t \in Tag, s \in Sector : <<t, s>> \in SectorsOf(out) <=> Leaves(out, t, s)
         /\ \A t \in Tag, s \in Sector, b \in Byte :
              <<t, s, b>> \in BytesOf(out) <=> Carries(out, t, s, b)
<1>1. \A e \in out : /\ e.tag \in Tag /\ e.dirty \subseteq Sector
  BY DEF Entry
<1>2. \A x : x \in SectorsOf(out) <=> \E e \in out : \E s \in e.dirty : x = <<e.tag, s>>
  BY DEF SectorsOf
<1>3. \A x : x \in BytesOf(out) <=>
        \E e \in out : \E s \in e.dirty : \E b \in e.known[s] : x = <<e.tag, s, b>>
  BY DEF BytesOf
<1>4. SectorsOf(out) \subseteq Tag \X Sector
  BY <1>1, <1>2
<1>5. \A t \in Tag, s \in Sector : <<t, s>> \in SectorsOf(out) <=> Leaves(out, t, s)
  BY <1>2 DEF Leaves
<1>6. \A t \in Tag, s \in Sector, b \in Byte :
        <<t, s, b>> \in BytesOf(out) <=> Carries(out, t, s, b)
  BY <1>3 DEF Carries
<1>. QED BY <1>4, <1>5, <1>6

(* The sets g follow from the sets f: marked becomes dirty, out leaves.    *)
Follows(f, g, marked, out) ==
  /\ Fits(g) /\ marked \subseteq Tag \X Sector /\ out \subseteq Entry
  /\ \A t \in Tag, s \in Sector :
       /\ DirtyOf(g, t, s) <=> (DirtyOf(f, t, s) \/ <<t, s>> \in marked) /\ ~Leaves(out, t, s)
       /\ Leaves(out, t, s) => DirtyOf(f, t, s) \/ <<t, s>> \in marked

(* And no byte written, or kept before, is missing afterwards.             *)
Saves(f, g, written, out) ==
  \A t \in Tag, s \in Sector, b \in Byte :
    KeptOf(f, t, s, b) \/ <<t, s, b>> \in written
      => KeptOf(g, t, s, b) \/ Carries(out, t, s, b)

LEMMA BooksAgree ==
  ASSUME NEW f, Fits(f), NEW g, NEW marked, NEW out, Follows(f, g, marked, out)
  PROVE  /\ SectorsOf(out) \subseteq SectorsIn(f) \cup marked
         /\ (SectorsIn(f) \cup marked) \ SectorsOf(out) = SectorsIn(g)
<1>1. /\ SectorsIn(f) \subseteq Tag \X Sector /\ SectorsIn(g) \subseteq Tag \X Sector
      /\ marked \subseteq Tag \X Sector /\ SectorsOf(out) \subseteq Tag \X Sector
  BY DirtyWhere, OutMeans DEF Follows
<1>2. \A t \in Tag, s \in Sector :
        /\ <<t, s>> \in SectorsIn(f) <=> DirtyOf(f, t, s)
        /\ <<t, s>> \in SectorsIn(g) <=> DirtyOf(g, t, s)
        /\ <<t, s>> \in SectorsOf(out) <=> Leaves(out, t, s)
  BY DirtyWhere, OutMeans DEF Follows
<1>3. \A t \in Tag, s \in Sector :
        /\ <<t, s>> \in SectorsOf(out) => <<t, s>> \in SectorsIn(f) \cup marked
        /\ <<t, s>> \in SectorsIn(g) <=>
             <<t, s>> \in (SectorsIn(f) \cup marked) \ SectorsOf(out)
  BY <1>2 DEF Follows
<1>. QED BY <1>1, <1>3

LEMMA BytesSafe ==
  ASSUME NEW f, NEW g, NEW old \in SUBSET (Tag \X Sector \X Byte),
         NEW written \in SUBSET (Tag \X Sector \X Byte), NEW out, out \subseteq Entry,
         Saves(f, g, written, out),
         \A x \in old : KeptOf(f, x[1], x[2], x[3])
  PROVE  \A x \in (old \cup written) \ BytesOf(out) : KeptOf(g, x[1], x[2], x[3])
<1>. SUFFICES ASSUME NEW x \in (old \cup written) \ BytesOf(out)
              PROVE  KeptOf(g, x[1], x[2], x[3])
  OBVIOUS
<1>1. x[1] \in Tag /\ x[2] \in Sector /\ x[3] \in Byte /\ x = <<x[1], x[2], x[3]>>
  OBVIOUS
<1>2. KeptOf(f, x[1], x[2], x[3]) \/ <<x[1], x[2], x[3]>> \in written
  BY <1>1
<1>3. ~Carries(out, x[1], x[2], x[3])
  BY <1>1, OutMeans
<1>. QED BY <1>1, <1>2, <1>3 DEF Saves

(* A cleared cache.                                                        *)
LEMMA ClearedSets ==
  LET f == [n \in SetIndex |-> <<>>]
  IN  /\ Fits(f) /\ SectorsIn(f) = {}
<1>. DEFINE f == [n \in SetIndex |-> <<>>]
<1>1. f \in [SetIndex -> Seq(Entry)] /\ \A n \in SetIndex : f[n] = <<>>
  OBVIOUS
<1>. HIDE DEF f
<1>2. \A n \in SetIndex : DOMAIN f[n] = {} /\ Len(f[n]) = 0
  BY <1>1
<1>3. Fits(f)
  BY <1>1, <1>2, AssocAssumption DEF Fits, SoundSet
<1>4. SectorsIn(f) = {}
  <2>1. \A p \in Position : DOMAIN f[p[1]] = {}
    BY <1>2, Places
  <2>. QED BY <2>1 DEF SectorsIn, PlacesOf
<1>. QED BY <1>3, <1>4 DEF f

-----------------------------------------------------------------------------
(* The drain's order and its budget.                                       *)

Before(D, p) == {q \in D : Precedes(q, p)}
FirstOf(D, budget) == {p \in D : Cardinality(Before(D, p)) < budget}

LEMMA Order ==
  /\ \A p \in Position : ~Precedes(p, p)
  /\ \A p, q, x \in Position : Precedes(p, q) /\ Precedes(q, x) => Precedes(p, x)
  /\ \A p, q \in Position : Precedes(p, q) \/ Precedes(q, p) \/ p = q
<1>. USE Places DEF Precedes
<1>1. \A p \in Position : ~Precedes(p, p)
  OBVIOUS
<1>2. ASSUME NEW p \in Position, NEW q \in Position, NEW x \in Position,
             Precedes(p, q), Precedes(q, x)
      PROVE  Precedes(p, x)
  <2>1. /\ p[1] \in Nat /\ p[2] \in Nat /\ p[3] \in Nat
        /\ q[1] \in Nat /\ q[2] \in Nat /\ q[3] \in Nat
        /\ x[1] \in Nat /\ x[2] \in Nat /\ x[3] \in Nat
    OBVIOUS
  <2>. QED BY ONLY <1>2, <2>1 DEF Precedes
<1>3. ASSUME NEW p \in Position, NEW q \in Position, ~Precedes(p, q), ~Precedes(q, p)
      PROVE  p = q
  <2>1. p[1] = q[1] /\ p[2] = q[2] /\ p[3] = q[3]
    BY <1>3
  <2>. QED BY <2>1
<1>. QED BY <1>1, <1>2, <1>3

(* Of an ordered set, its first members up to the budget: that many, or    *)
(* all of them.                                                            *)
LEMMA FirstMembers ==
  ASSUME NEW D \in SUBSET Position, NEW budget \in Nat
  PROVE  LET F == FirstOf(D, budget)
         IN  /\ IsFiniteSet(F) /\ Cardinality(F) \in Nat /\ Cardinality(F) =< budget
             /\ F = D \/ Cardinality(F) = budget
<1>. DEFINE F == FirstOf(D, budget)
            rank(p) == Cardinality(Before(D, p))
<1>1. IsFiniteSet(D)
  BY Places, FS_Subset
<1>2. \A S \in SUBSET D : IsFiniteSet(S) /\ Cardinality(S) \in Nat
  BY <1>1, FS_Subset, FS_CardinalityType
<1>3. \A p \in D : Before(D, p) \in SUBSET D /\ rank(p) \in Nat
  BY <1>2 DEF Before
<1>4. ASSUME NEW p \in D, NEW q \in D, Precedes(p, q) PROVE rank(p) < rank(q)
  <2>1. Before(D, p) \in SUBSET Before(D, q) /\ p \in Before(D, q) /\ p \notin Before(D, p)
    BY <1>4, Order DEF Before
  <2>2. IsFiniteSet(Before(D, q))
    BY <1>2, <1>3
  <2>3. Cardinality(Before(D, p)) =< Cardinality(Before(D, q))
    BY <2>1, <2>2, FS_Subset
  <2>4. Cardinality(Before(D, p)) # Cardinality(Before(D, q))
    BY <2>1, <2>2, FS_Subset
  <2>. QED BY <1>3, <2>3, <2>4
<1>5. F \in SUBSET D /\ IsFiniteSet(F) /\ Cardinality(F) \in Nat
  BY <1>2 DEF FirstOf
<1>6. Cardinality(F) =< budget
  <2>. DEFINE f == [p \in F |-> rank(p)]
              T == 0 .. budget - 1
  <2>1. \A p \in F : f[p] = rank(p) /\ rank(p) \in T
    BY <1>3 DEF FirstOf
  <2>. HIDE DEF rank
  <2>2. f \in [F -> T]
    BY <2>1
  <2>3. \A p, q \in F : f[p] = f[q] => p = q
    <3>. SUFFICES ASSUME NEW p \in F, NEW q \in F, f[p] = f[q] PROVE p = q
      OBVIOUS
    <3>1. p \in D /\ q \in D /\ rank(p) = rank(q) /\ rank(p) \in Nat
      BY <1>3, <1>5, <2>1
    <3>2. ~Precedes(p, q) /\ ~Precedes(q, p)
      BY <1>4, <3>1
    <3>. QED BY <3>1, <3>2, Order
  <2>. HIDE DEF f, F
  <2>4. f \in Injection(F, T)
    BY <2>2, <2>3 DEF Injection, IsInjective
  <2>5. IsFiniteSet(T) /\ Cardinality(T) = budget
    BY FS_Interval
  <2>. QED BY <2>4, <2>5, FS_Injection
<1>7. ASSUME F # D PROVE Cardinality(F) >= budget
  <2>. DEFINE rest == D \ F
              ranks == {rank(p) : p \in rest}
  <2>1. ranks \in SUBSET Nat /\ ranks # {}
    BY <1>3, <1>5, <1>7
  <2>2. Min(ranks) \in ranks /\ \A x \in ranks : Min(ranks) =< x
    BY <2>1, LeastOf
  <2>3. PICK p \in rest : \A q \in rest : rank(p) =< rank(q)
    BY <2>2
  <2>. HIDE DEF ranks
  <2>4. ASSUME NEW q \in Before(D, p) PROVE q \in F
    <3>1. q \in D /\ Precedes(q, p) /\ p \in D
      BY <2>4 DEF Before
    <3>2. rank(q) < rank(p) /\ rank(q) \in Nat /\ rank(p) \in Nat
      BY <1>3, <1>4, <3>1
    <3>3. ~(rank(p) =< rank(q))
      BY <3>2
    <3>. QED BY <2>3, <3>1, <3>3
  <2>5. Cardinality(Before(D, p)) =< Cardinality(F)
    <3>1. Before(D, p) \in SUBSET F
      BY <2>4
    <3>. HIDE DEF F
    <3>. QED BY <1>5, <3>1, FS_Subset
  <2>6. ~(rank(p) < budget) /\ rank(p) \in Nat
    BY <1>3 DEF FirstOf
  <2>. QED BY <1>5, <2>5, <2>6
<1>. HIDE DEF F
<1>8. F = D \/ Cardinality(F) = budget
  BY <1>5, <1>6, <1>7
<1>. QED BY <1>5, <1>6, <1>8 DEF F

(* The line as the drain finds it, and the sectors it takes from it.       *)
LineAt(n, i, now) == IF Visited(n, i, now) THEN Refresh(l2[n][i], now) ELSE l2[n][i]
TakenOf(n, i, now) == {s \in Sector : <<n, i, s>> \in Drained(now)}

LEMMA DrainIs ==
  ASSUME NEW now
  PROVE  /\ DrainL2(now).sets = [n \in SetIndex |-> [i \in DOMAIN l2[n] |->
                                   Clean(LineAt(n, i, now), TakenOf(n, i, now))]]
         /\ DrainL2(now).out = {[LineAt(p[1], p[2], now) EXCEPT !.dirty = {p[3]}]
                                : p \in Drained(now)}
         /\ DrainL2(now).throws = FALSE
         /\ Drained(now) = FirstOf(Drainable(now), Budget)
         /\ Drainable(now) \in SUBSET Position
BY DEF DrainL2, LineAt, TakenOf, Drained, FirstOf, Before, Drainable

LEMMA BudgetIs ==
  ASSUME Fits(l2)
  PROVE  /\ DirtyCount \in Nat /\ DirtyCount = Cardinality(PlacesOf(l2))
         /\ DirtyPlaces = PlacesOf(l2) /\ DirtySectors = SectorsIn(l2)
         /\ Excess \in Nat /\ Budget \in Nat /\ Budget =< Excess
         /\ Budget = Excess \/ (MaxPerKernel > 0 /\ Budget = MaxPerKernel)
         /\ MaxPerKernel > 0 => Budget =< MaxPerKernel
<1>1. DirtyPlaces = PlacesOf(l2)
  BY DEF DirtyPlaces, PlacesOf, Resident
<1>2. DirtyCount \in Nat /\ DirtyCount = Cardinality(PlacesOf(l2))
  BY <1>1, OnePlaceEach, FS_CardinalityType DEF DirtyCount
<1>3. DirtySectors = SectorsIn(l2)
  BY <1>1 DEF DirtySectors, SectorsIn
<1>4. HighWatermark \in Nat /\ Target \in Nat /\ MaxPerKernel \in Nat
  BY DrainAssumption
<1>5. Excess \in Nat
  BY <1>2, <1>4 DEF Excess
<1>. HIDE DEF Excess
<1>6. /\ Budget \in Nat /\ Budget =< Excess
      /\ Budget = Excess \/ (MaxPerKernel > 0 /\ Budget = MaxPerKernel)
      /\ MaxPerKernel > 0 => Budget =< MaxPerKernel
  <2>1. CASE MaxPerKernel = 0
    BY <1>5, <2>1 DEF Budget
  <2>2. CASE MaxPerKernel # 0
    <3>1. Budget = Min({Excess, MaxPerKernel})
      BY <2>2 DEF Budget
    <3>. QED BY <1>4, <1>5, <2>2, <3>1, EarlierOf
  <2>. QED BY <2>1, <2>2
<1>. QED BY <1>1, <1>2, <1>3, <1>5, <1>6

(* What is taken of a line was complete and dirty in it.                   *)
LEMMA DrainLine ==
  ASSUME Fits(l2), NEW now \in Nat, NEW n \in SetIndex, NEW i \in DOMAIN l2[n]
  PROVE  LET e == LineAt(n, i, now)
         IN  /\ Sound(e) /\ Retains(l2[n][i], e) /\ e.dirty = l2[n][i].dirty
             /\ TakenOf(n, i, now) \in SUBSET (e.dirty \cap e.valid)
             /\ \A s \in Sector : <<n, i, s>> \in Drainable(now) => s \in l2[n][i].dirty
<1>. DEFINE e == LineAt(n, i, now)
            c == l2[n][i]
            D == Drainable(now)
<1>1. Sound(c)
  BY DEF Fits, SoundSet
<1>2. Sound(Refresh(c, now)) /\ Retains(c, Refresh(c, now)) /\ Refresh(c, now).dirty = c.dirty
  BY <1>1, RefreshSound DEF Sound
<1>3. Sound(e) /\ Retains(c, e) /\ e.dirty = c.dirty
  <2>1. CASE Visited(n, i, now)
    BY <1>2, <2>1 DEF LineAt
  <2>2. CASE ~Visited(n, i, now)
    BY <1>1, <2>2 DEF LineAt, Retains
  <2>. QED BY <2>1, <2>2
<1>4. \A s \in Sector : <<n, i, s>> \in D => s \in Eligible(Refresh(c, now), now, MinAge)
  BY DEF Drainable
<1>5. \A s \in Sector : <<n, i, s>> \in D => s \in Refresh(c, now).valid /\ s \in c.dirty
  BY <1>2, <1>4 DEF Eligible
<1>6. ASSUME NEW s \in TakenOf(n, i, now) PROVE s \in e.dirty /\ s \in e.valid
  <2>. DEFINE p == <<n, i, s>>
  <2>1. s \in Sector /\ p \in D /\ Cardinality(Before(D, p)) < Budget
    BY <1>6 DEF TakenOf, Drained, Before
  <2>2. D \in SUBSET Position /\ p \in Position /\ s \in Nat
    BY <2>1, Places DEF Drainable, Sector
  <2>3. {q \in D : Precedes(q, <<n, i, 0>>)} \in SUBSET Before(D, p)
    <3>1. ASSUME NEW q \in D, Precedes(q, <<n, i, 0>>) PROVE Precedes(q, p)
      <4>1. q[1] \in Nat /\ q[2] \in Nat /\ q[3] \in Nat
        BY <2>2, Places
      <4>. QED BY <2>2, <3>1, <4>1 DEF Precedes
    <3>. QED BY <3>1 DEF Before
  <2>4. IsFiniteSet(Before(D, p))
    <3>1. Before(D, p) \in SUBSET Position
      BY <2>2 DEF Before
    <3>. QED BY <3>1, Places, FS_Subset
  <2>5. Visited(n, i, now)
    <3>. DEFINE small == {q \in D : Precedes(q, <<n, i, 0>>)}
                large == Before(D, p)
    <3>1. /\ Cardinality(small) =< Cardinality(large)
          /\ Cardinality(small) \in Nat /\ Cardinality(large) \in Nat
      <4>. HIDE DEF small, large
      <4>. QED BY <2>3, <2>4, FS_Subset, FS_CardinalityType DEF small, large
    <3>. QED BY <2>1, <3>1, BudgetIs DEF Visited
  <2>6. e = Refresh(c, now)
    BY <2>5 DEF LineAt
  <2>. QED BY <1>3, <1>5, <2>1, <2>6
<1>. QED BY <1>3, <1>5, <1>6

(* What the drain leaves of each line, and what it hands to memory.        *)
LEMMA DrainLeaves ==
  ASSUME Fits(l2), NEW now \in Nat
  PROVE  LET g == DrainL2(now).sets
             out == DrainL2(now).out
         IN  /\ Fits(g) /\ out \subseteq Entry
             /\ \A n \in SetIndex : DOMAIN g[n] = DOMAIN l2[n]
             /\ \A n \in SetIndex : \A i \in DOMAIN l2[n] :
                  /\ g[n][i] = Clean(LineAt(n, i, now), TakenOf(n, i, now))
                  /\ g[n][i].tag = l2[n][i].tag
                  /\ g[n][i].dirty = l2[n][i].dirty \ TakenOf(n, i, now)
                  /\ \A s \in Sector, b \in Byte :
                       Keeps(l2[n][i], s, b) =>
                         \/ Keeps(g[n][i], s, b)
                         \/ s \in TakenOf(n, i, now) /\ b \in LineAt(n, i, now).known[s]
             /\ \A e \in out : \E p \in Drained(now) :
                  e = [LineAt(p[1], p[2], now) EXCEPT !.dirty = {p[3]}]
             /\ \A p \in Drained(now) :
                  [LineAt(p[1], p[2], now) EXCEPT !.dirty = {p[3]}] \in out
<1>. DEFINE g == DrainL2(now).sets
            out == DrainL2(now).out
<1>1. /\ g = [n \in SetIndex |-> [i \in DOMAIN l2[n] |->
                Clean(LineAt(n, i, now), TakenOf(n, i, now))]]
      /\ out = {[LineAt(p[1], p[2], now) EXCEPT !.dirty = {p[3]}] : p \in Drained(now)}
  BY DrainIs
<1>. HIDE DEF g, out
<1>2. /\ \A n \in SetIndex : /\ l2[n] \in Seq(Entry) /\ Len(l2[n]) \in Nat
                             /\ DOMAIN l2[n] = 1 .. Len(l2[n])
                             /\ g[n] = [i \in 1 .. Len(l2[n]) |-> g[n][i]]
      /\ \A n \in SetIndex : \A i \in DOMAIN l2[n] :
           g[n][i] = Clean(LineAt(n, i, now), TakenOf(n, i, now))
      /\ g = [n \in SetIndex |-> g[n]]
  <2>1. \A n \in SetIndex : l2[n] \in Seq(Entry)
    BY DEF Fits
  <2>. QED BY <1>1, <2>1
<1>3. ASSUME NEW n \in SetIndex, NEW i \in DOMAIN l2[n]
      PROVE  /\ Sound(g[n][i]) /\ g[n][i].tag = l2[n][i].tag
             /\ g[n][i].dirty = l2[n][i].dirty \ TakenOf(n, i, now)
             /\ \A s \in Sector, b \in Byte :
                  Keeps(l2[n][i], s, b) =>
                    \/ Keeps(g[n][i], s, b)
                    \/ s \in TakenOf(n, i, now) /\ b \in LineAt(n, i, now).known[s]
             /\ LineAt(n, i, now) \in Entry
  <2>. DEFINE e == LineAt(n, i, now)
  <2>1. /\ Sound(e) /\ Retains(l2[n][i], e) /\ e.dirty = l2[n][i].dirty
        /\ TakenOf(n, i, now) \in SUBSET (e.dirty \cap e.valid)
    BY DrainLine
  <2>2. g[n][i] = Clean(e, TakenOf(n, i, now))
    BY <1>2
  <2>. HIDE DEF e
  <2>3. /\ Sound(g[n][i]) /\ g[n][i].tag = e.tag
        /\ g[n][i].dirty = e.dirty \ TakenOf(n, i, now)
        /\ \A s \in Sector, b \in Byte :
             Keeps(e, s, b) => \/ Keeps(g[n][i], s, b)
                               \/ s \in TakenOf(n, i, now) /\ b \in e.known[s]
    BY <2>1, <2>2, CleanSound
  <2>. QED BY <2>1, <2>3 DEF Retains, Sound, Shaped, e
<1>4. Fits(g)
  <2>1. \A n \in SetIndex : g[n] \in Seq(Entry) /\ Len(g[n]) = Len(l2[n])
    <3>. SUFFICES ASSUME NEW n \in SetIndex
                  PROVE  g[n] \in Seq(Entry) /\ Len(g[n]) = Len(l2[n])
      OBVIOUS
    <3>1. \A i \in 1 .. Len(l2[n]) : g[n][i] \in Entry
      BY <1>2, <1>3 DEF Sound, Shaped
    <3>. DEFINE h == g[n]
    <3>2. h = [i \in 1 .. Len(l2[n]) |-> h[i]] /\ Len(l2[n]) \in Nat
      BY <1>2
    <3>3. \A i \in 1 .. Len(l2[n]) : h[i] \in Entry
      BY <3>1
    <3>. HIDE DEF h
    <3>4. h \in Seq(Entry) /\ Len(h) = Len(l2[n])
      BY <3>2, <3>3
    <3>. QED BY <3>4 DEF h
  <2>2. \A n \in SetIndex : DOMAIN g[n] = DOMAIN l2[n]
    BY <1>2
  <2>3. ASSUME NEW n \in SetIndex PROVE SoundSet(g[n])
    <3>1. \A i, j \in DOMAIN g[n] : g[n][i].tag = g[n][j].tag => i = j
      BY <1>3, <2>2 DEF Fits, SoundSet
    <3>2. \A i \in DOMAIN g[n] : Sound(g[n][i])
      BY <1>3, <2>2
    <3>. QED BY <2>1, <3>1, <3>2 DEF SoundSet
  <2>4. \A n \in SetIndex : \A i \in DOMAIN g[n] : SetOf[g[n][i].tag] = n
    BY <1>3, <2>2 DEF Fits
  <2>5. g \in [SetIndex -> Seq(Entry)]
    BY <1>2, <2>1
  <2>6. \A n \in SetIndex : Len(g[n]) =< Assoc
    BY <2>1 DEF Fits
  <2>. QED BY <2>3, <2>4, <2>5, <2>6 DEF Fits
<1>5. out \subseteq Entry
  <2>1. ASSUME NEW p \in Drained(now)
        PROVE  [LineAt(p[1], p[2], now) EXCEPT !.dirty = {p[3]}] \in Entry
    <3>1. p \in Position /\ p[2] \in DOMAIN l2[p[1]]
      BY DEF Drained, Drainable, Resident
    <3>2. p[1] \in SetIndex /\ p[3] \in Sector
      BY <3>1, Places
    <3>3. LineAt(p[1], p[2], now) \in Entry
      BY <1>3, <3>1, <3>2
    <3>. QED BY <3>2, <3>3 DEF Entry
  <2>. QED BY <1>1, <2>1
<1>6. \A n \in SetIndex : DOMAIN g[n] = DOMAIN l2[n]
  BY <1>2
<1>7. /\ \A e \in out : \E p \in Drained(now) :
           e = [LineAt(p[1], p[2], now) EXCEPT !.dirty = {p[3]}]
      /\ \A p \in Drained(now) : [LineAt(p[1], p[2], now) EXCEPT !.dirty = {p[3]}] \in out
  BY <1>1
<1>. QED BY <1>2, <1>3, <1>4, <1>5, <1>6, <1>7 DEF g, out

LEMMA DrainFollows ==
  ASSUME Fits(l2), NEW now \in Nat
  PROVE  LET a == DrainL2(now)
         IN  /\ Follows(l2, a.sets, {}, a.out) /\ Saves(l2, a.sets, {}, a.out)
             /\ PlacesOf(a.sets) = PlacesOf(l2) \ Drained(now)
             /\ Drained(now) \in SUBSET PlacesOf(l2)
<1>. DEFINE g == DrainL2(now).sets
            out == DrainL2(now).out
            D == Drained(now)
<1>1. /\ Fits(g) /\ out \subseteq Entry
      /\ \A n \in SetIndex : DOMAIN g[n] = DOMAIN l2[n]
      /\ \A n \in SetIndex : \A i \in DOMAIN l2[n] :
           /\ g[n][i].tag = l2[n][i].tag
           /\ g[n][i].dirty = l2[n][i].dirty \ TakenOf(n, i, now)
           /\ \A s \in Sector, b \in Byte :
                Keeps(l2[n][i], s, b) =>
                  \/ Keeps(g[n][i], s, b)
                  \/ s \in TakenOf(n, i, now) /\ b \in LineAt(n, i, now).known[s]
      /\ \A e \in out : \E p \in D : e = [LineAt(p[1], p[2], now) EXCEPT !.dirty = {p[3]}]
      /\ \A p \in D : [LineAt(p[1], p[2], now) EXCEPT !.dirty = {p[3]}] \in out
  BY DrainLeaves
<1>. HIDE DEF g, out
<1>2. \A p \in D : /\ p \in Position /\ p[1] \in SetIndex /\ p[2] \in DOMAIN l2[p[1]]
                   /\ p[3] \in Sector /\ p[3] \in TakenOf(p[1], p[2], now)
  <2>1. \A p \in D : p \in Position /\ p[2] \in DOMAIN l2[p[1]]
    BY DEF Drained, Drainable, Resident
  <2>. QED BY <2>1, Places DEF TakenOf
<1>3. \A n \in SetIndex : \A i \in DOMAIN l2[n] : \A s \in TakenOf(n, i, now) :
        /\ <<n, i, s>> \in D /\ s \in Sector /\ s \in l2[n][i].dirty
        /\ LineAt(n, i, now) \in Entry /\ LineAt(n, i, now).tag = l2[n][i].tag
  <2>. SUFFICES ASSUME NEW n \in SetIndex, NEW i \in DOMAIN l2[n],
                       NEW s \in TakenOf(n, i, now)
                PROVE  /\ <<n, i, s>> \in D /\ s \in Sector /\ s \in l2[n][i].dirty
                       /\ LineAt(n, i, now) \in Entry
                       /\ LineAt(n, i, now).tag = l2[n][i].tag
    OBVIOUS
  <2>1. <<n, i, s>> \in D
    BY DEF TakenOf
  <2>2. s \in Sector /\ s \in l2[n][i].dirty /\ Sound(LineAt(n, i, now))
        /\ Retains(l2[n][i], LineAt(n, i, now))
    BY DrainLine DEF TakenOf
  <2>. QED BY <2>1, <2>2 DEF Retains, Sound, Shaped
<1>. HIDE DEF D
<1>4. \A t \in Tag, s \in Sector : Leaves(out, t, s) =>
        \E i \in DOMAIN l2[SetOf[t]] : l2[SetOf[t]][i].tag = t /\ s \in TakenOf(SetOf[t], i, now)
  <2>. SUFFICES ASSUME NEW t \in Tag, NEW s \in Sector, NEW e \in out,
                       e.tag = t, s \in e.dirty
                PROVE  \E i \in DOMAIN l2[SetOf[t]] :
                         l2[SetOf[t]][i].tag = t /\ s \in TakenOf(SetOf[t], i, now)
    BY DEF Leaves
  <2>1. PICK p \in D : e = [LineAt(p[1], p[2], now) EXCEPT !.dirty = {p[3]}]
    BY <1>1
  <2>2. /\ p[1] \in SetIndex /\ p[2] \in DOMAIN l2[p[1]] /\ p[3] \in TakenOf(p[1], p[2], now)
    BY <1>2
  <2>3. e.tag = l2[p[1]][p[2]].tag /\ e.dirty = {p[3]}
    <3>. DEFINE c == LineAt(p[1], p[2], now)
    <3>1. c \in Entry /\ c.tag = l2[p[1]][p[2]].tag
      BY <1>3, <2>2
    <3>. HIDE DEF c
    <3>2. e = [c EXCEPT !.dirty = {p[3]}]
      BY <2>1 DEF c
    <3>. QED BY <3>1, <3>2 DEF Entry
  <2>4. SetOf[l2[p[1]][p[2]].tag] = p[1]
    BY <2>2 DEF Fits
  <2>. QED BY <2>2, <2>3, <2>4
<1>5. \A n \in SetIndex : \A i \in DOMAIN l2[n] : \A s \in TakenOf(n, i, now) :
        /\ Leaves(out, l2[n][i].tag, s)
        /\ \A b \in LineAt(n, i, now).known[s] : Carries(out, l2[n][i].tag, s, b)
  <2>. SUFFICES ASSUME NEW n \in SetIndex, NEW i \in DOMAIN l2[n], NEW s \in TakenOf(n, i, now)
                PROVE  /\ Leaves(out, l2[n][i].tag, s)
                       /\ \A b \in LineAt(n, i, now).known[s] : Carries(out, l2[n][i].tag, s, b)
    OBVIOUS
  <2>. DEFINE e == [LineAt(n, i, now) EXCEPT !.dirty = {s}]
  <2>1. /\ <<n, i, s>> \in D /\ LineAt(n, i, now) \in Entry
        /\ LineAt(n, i, now).tag = l2[n][i].tag
    BY <1>3
  <2>2. e \in out
    BY <1>1, <2>1
  <2>3. e.tag = l2[n][i].tag /\ e.dirty = {s} /\ e.known = LineAt(n, i, now).known
    BY <2>1 DEF Entry
  <2>. HIDE DEF e
  <2>. QED BY <2>2, <2>3 DEF Leaves, Carries
<1>6. ASSUME NEW t \in Tag, NEW s \in Sector
      PROVE  /\ DirtyOf(g, t, s) <=> DirtyOf(l2, t, s) /\ ~Leaves(out, t, s)
             /\ Leaves(out, t, s) => DirtyOf(l2, t, s)
  <2>. DEFINE n == SetOf[t]
  <2>0. n \in SetIndex
    BY SetsAssumption
  <2>1. \A i, j \in DOMAIN l2[n] : l2[n][i].tag = l2[n][j].tag => i = j
    BY <2>0 DEF Fits, SoundSet
  <2>2. Leaves(out, t, s) <=> \E i \in DOMAIN l2[n] : l2[n][i].tag = t /\ s \in TakenOf(n, i, now)
    BY <1>4, <1>5, <2>0
  <2>3. DirtyOf(g, t, s) <=> \E i \in DOMAIN l2[n] : /\ l2[n][i].tag = t
                                                     /\ s \in l2[n][i].dirty \ TakenOf(n, i, now)
    <3>1. DirtyOf(g, t, s) <=> \E i \in DOMAIN g[n] : g[n][i].tag = t /\ s \in g[n][i].dirty
      BY DEF DirtyOf, DirtyIn
    <3>. QED BY <1>1, <2>0, <3>1
  <2>4. DirtyOf(l2, t, s) <=> \E i \in DOMAIN l2[n] : l2[n][i].tag = t /\ s \in l2[n][i].dirty
    BY DEF DirtyOf, DirtyIn
  <2>. HIDE DEF n
  <2>. QED BY <1>3, <2>0, <2>1, <2>2, <2>3, <2>4
<1>7. Follows(l2, g, {}, out)
  BY <1>1, <1>6 DEF Follows
<1>8. Saves(l2, g, {}, out)
  <2>. SUFFICES ASSUME NEW t \in Tag, NEW s \in Sector, NEW b \in Byte, KeptOf(l2, t, s, b)
                PROVE  KeptOf(g, t, s, b) \/ Carries(out, t, s, b)
    BY DEF Saves
  <2>. DEFINE n == SetOf[t]
  <2>0. n \in SetIndex
    BY SetsAssumption
  <2>1. PICK i \in DOMAIN l2[n] : l2[n][i].tag = t /\ Keeps(l2[n][i], s, b)
    BY DEF KeptOf, KeptIn
  <2>. HIDE DEF n
  <2>2. CASE Keeps(g[n][i], s, b)
    BY <1>1, <2>0, <2>1, <2>2 DEF KeptOf, KeptIn, n
  <2>3. CASE s \in TakenOf(n, i, now) /\ b \in LineAt(n, i, now).known[s]
    BY <1>5, <2>0, <2>1, <2>3
  <2>. QED BY <1>1, <2>0, <2>1, <2>2, <2>3
<1>9. D \in SUBSET PlacesOf(l2)
  BY <1>2, <1>3 DEF PlacesOf
<1>10. PlacesOf(g) = PlacesOf(l2) \ D
  <2>1. ASSUME NEW p \in Position PROVE p \in PlacesOf(g) <=> p \in PlacesOf(l2) /\ p \notin D
    <3>1. p[1] \in SetIndex /\ p[3] \in Sector /\ p = <<p[1], p[2], p[3]>>
      BY Places
    <3>2. p \in PlacesOf(g) <=> /\ p[2] \in DOMAIN l2[p[1]]
                                /\ p[3] \in l2[p[1]][p[2]].dirty \ TakenOf(p[1], p[2], now)
      BY <1>1, <3>1 DEF PlacesOf
    <3>3. p \in PlacesOf(l2) <=> /\ p[2] \in DOMAIN l2[p[1]]
                                 /\ p[3] \in l2[p[1]][p[2]].dirty
      BY DEF PlacesOf
    <3>4. p[2] \in DOMAIN l2[p[1]] => (p[3] \in TakenOf(p[1], p[2], now) <=> p \in D)
      BY <1>2, <1>3, <3>1
    <3>. QED BY <3>2, <3>3, <3>4
  <2>. QED BY <2>1 DEF PlacesOf
<1>. QED BY <1>7, <1>8, <1>9, <1>10 DEF g, out, D

(* A flush empties the sets, and a request changes the set of its line.    *)
LEMMA FlushFollows ==
  ASSUME Fits(l2), NEW now \in Nat
  PROVE  LET a == FlushL2(now)
         IN  /\ Follows(l2, a.sets, {}, a.out)
             /\ ~a.throws => Saves(l2, a.sets, {}, a.out)
             /\ a.throws \in BOOLEAN /\ (FillLatency = 0 => ~a.throws)
<1>. DEFINE flushed == [n \in SetIndex |-> DrainDirty(l2[n], now)]
            g == [n \in SetIndex |-> flushed[n].set]
            out == UNION {flushed[n].out : n \in SetIndex}
            throws == \E n \in SetIndex : flushed[n].throws
<1>0. FlushL2(now) = [sets |-> g, out |-> out, throws |-> throws]
  BY DEF FlushL2
<1>1. ASSUME NEW n \in SetIndex
      PROVE  /\ flushed[n].set = <<>> /\ flushed[n].throws \in BOOLEAN
             /\ flushed[n].out \subseteq Entry
             /\ \A t, s : Leaves(flushed[n].out, t, s) <=> DirtyIn(l2[n], t, s)
             /\ ~flushed[n].throws => \A t : \A s \in Sector, b \in Byte :
                  KeptIn(l2[n], t, s, b) => Carries(flushed[n].out, t, s, b)
             /\ FillLatency = 0 => ~flushed[n].throws
  <2>1. flushed[n] = DrainDirty(l2[n], now) /\ SoundSet(l2[n])
    BY DEF Fits
  <2>. QED BY <2>1, FlushAccounts
<1>. HIDE DEF flushed
<1>2. g = [n \in SetIndex |-> <<>>]
  BY <1>1
<1>3. Fits(g) /\ \A n \in SetIndex : g[n] = <<>>
  BY <1>2, ClearedSets
<1>. HIDE DEF g
<1>4. /\ out \subseteq Entry
      /\ \A e : e \in out <=> \E n \in SetIndex : e \in flushed[n].out
  BY <1>1
<1>. HIDE DEF out
<1>5. \A t, s : Leaves(out, t, s) <=> \E n \in SetIndex : DirtyIn(l2[n], t, s)
  <2>1. \A t, s : Leaves(out, t, s) <=> \E n \in SetIndex : Leaves(flushed[n].out, t, s)
    BY <1>4 DEF Leaves
  <2>. QED BY <1>1, <2>1
<1>6. \A t \in Tag : \A s : Leaves(out, t, s) <=> DirtyOf(l2, t, s)
  <2>1. \A t \in Tag : SetOf[t] \in SetIndex
    BY SetsAssumption
  <2>2. \A n \in SetIndex : \A t, s : DirtyIn(l2[n], t, s) => n = SetOf[t]
    BY DEF Fits, DirtyIn
  <2>. QED BY <1>5, <2>1, <2>2 DEF DirtyOf
<1>7. \A t \in Tag : \A s : ~DirtyOf(g, t, s)
  <2>1. \A t \in Tag : DOMAIN g[SetOf[t]] = {}
    BY <1>3, SetsAssumption
  <2>. QED BY <2>1 DEF DirtyOf, DirtyIn
<1>8. Follows(l2, g, {}, out)
  BY <1>3, <1>4, <1>6, <1>7 DEF Follows
<1>9. ~throws => Saves(l2, g, {}, out)
  <2>. SUFFICES ASSUME ~throws, NEW t \in Tag, NEW s \in Sector, NEW b \in Byte,
                       KeptOf(l2, t, s, b)
                PROVE  Carries(out, t, s, b)
    BY DEF Saves
  <2>. DEFINE n == SetOf[t]
  <2>1. n \in SetIndex /\ KeptIn(l2[n], t, s, b)
    BY SetsAssumption DEF KeptOf
  <2>2. Carries(flushed[n].out, t, s, b)
    BY <1>1, <2>1
  <2>. QED BY <1>4, <2>1, <2>2 DEF Carries
<1>10. throws \in BOOLEAN /\ (FillLatency = 0 => ~throws)
  BY <1>1
<1>. HIDE DEF throws
<1>. DEFINE a == FlushL2(now)
<1>. HIDE DEF a
<1>11. a.sets = g /\ a.out = out /\ a.throws = throws
  BY <1>0 DEF a
<1>. QED BY <1>8, <1>9, <1>10, <1>11 DEF a

LEMMA AccessFollows ==
  ASSUME Fits(l2), NEW r \in Requests, NEW now \in Nat
  PROVE  LET a == Access(l2[SetOf[r.tag]], r, now)
             marked == Marked(r)
             written == {<<r.tag, r.sector, b>> : b \in IF r.markDirty THEN r.bytes ELSE {}}
             g == [l2 EXCEPT ![SetOf[r.tag]] = a.set]
         IN  /\ Follows(l2, g, marked, a.out)
             /\ ~a.throws => Saves(l2, g, written, a.out)
             /\ written \in SUBSET (Tag \X Sector \X Byte)
             /\ a.throws \in BOOLEAN /\ (FillLatency = 0 => ~a.throws)
<1>. DEFINE n == SetOf[r.tag]
            a == Access(l2[n], r, now)
            marked == Marked(r)
            written == {<<r.tag, r.sector, b>> : b \in IF r.markDirty THEN r.bytes ELSE {}}
            g == [l2 EXCEPT ![n] = a.set]
<1>1. /\ Grounded(r) /\ r.tag \in Tag /\ r.sector \in Sector /\ r.bytes \subseteq Byte
      /\ n \in SetIndex
  BY SetsAssumption DEF Requests, Grounded, Request
<1>2. SoundSet(l2[n]) /\ Len(l2[n]) =< Assoc /\ l2 \in [SetIndex -> Seq(Entry)]
  BY <1>1 DEF Fits
<1>3. Accounts(l2[n], r, a) /\ Len(a.set) =< Assoc
  BY <1>1, <1>2, AccessAccounts
<1>. HIDE DEF a
<1>4. a.set \in Seq(Entry)
  BY <1>3 DEF Accounts, SoundSet
<1>5. /\ g \in [SetIndex -> Seq(Entry)]
      /\ \A m \in SetIndex : g[m] = IF m = n THEN a.set ELSE l2[m]
  BY <1>1, <1>2, <1>4
<1>6. /\ marked \subseteq Tag \X Sector
      /\ \A t, s : <<t, s>> \in marked <=> r.markDirty /\ t = r.tag /\ s = r.sector
      /\ \A t, s, b : <<t, s, b>> \in written <=>
           r.markDirty /\ t = r.tag /\ s = r.sector /\ b \in r.bytes
      /\ written \in SUBSET (Tag \X Sector \X Byte)
  <2>1. CASE r.markDirty
    <3>1. marked = {<<r.tag, r.sector>>} /\ written = {<<r.tag, r.sector, b>> : b \in r.bytes}
      BY <2>1 DEF Marked
    <3>. HIDE DEF marked, written
    <3>. QED BY <1>1, <2>1, <3>1
  <2>2. CASE ~r.markDirty
    <3>1. marked = {} /\ written = {}
      BY <2>2 DEF Marked
    <3>. HIDE DEF marked, written
    <3>. QED BY <2>2, <3>1
  <2>. QED BY <2>1, <2>2
<1>. HIDE DEF g, marked, written
<1>7. Fits(g)
  <2>1. ASSUME NEW m \in SetIndex
        PROVE  /\ SoundSet(g[m]) /\ Len(g[m]) =< Assoc
               /\ \A i \in DOMAIN g[m] : SetOf[g[m][i].tag] = m
    <3>1. CASE m = n
      <4>1. SoundSet(a.set) /\ \A t : Cached(a.set, t) => Cached(l2[n], t) \/ t = r.tag
        BY <1>3 DEF Accounts
      <4>2. \A i \in DOMAIN a.set : Cached(l2[n], a.set[i].tag) \/ a.set[i].tag = r.tag
        BY <4>1 DEF Cached
      <4>3. \A t : Cached(l2[n], t) => SetOf[t] = n
        BY <1>1 DEF Fits, Cached
      <4>4. g[m] = a.set
        BY <1>5, <3>1
      <4>. QED BY <1>3, <3>1, <4>1, <4>2, <4>3, <4>4 DEF n
    <3>2. CASE m # n
      BY <1>5, <3>2 DEF Fits
    <3>. QED BY <3>1, <3>2
  <2>. QED BY <1>5, <2>1 DEF Fits
<1>8. \A t \in Tag : SetOf[t] \in SetIndex
  BY SetsAssumption
<1>9. \A t, s : Leaves(a.out, t, s) => SetOf[t] = n
  <2>1. \A t, s : Leaves(a.out, t, s) =>
          DirtyIn(l2[n], t, s) \/ (r.markDirty /\ t = r.tag /\ s = r.sector)
    BY <1>3 DEF Accounts
  <2>2. \A t, s : DirtyIn(l2[n], t, s) => SetOf[t] = n
    BY <1>1 DEF Fits, DirtyIn
  <2>. QED BY <2>1, <2>2 DEF n
<1>10. ASSUME NEW t \in Tag, NEW s \in Sector
       PROVE  /\ DirtyOf(g, t, s) <=>
                   (DirtyOf(l2, t, s) \/ <<t, s>> \in marked) /\ ~Leaves(a.out, t, s)
              /\ Leaves(a.out, t, s) => DirtyOf(l2, t, s) \/ <<t, s>> \in marked
  <2>1. CASE SetOf[t] = n
    <3>1. g[SetOf[t]] = a.set
      BY <1>5, <1>8, <2>1
    <3>2. /\ DirtyIn(a.set, t, s) <=>
               /\ DirtyIn(l2[n], t, s) \/ (r.markDirty /\ t = r.tag /\ s = r.sector)
               /\ ~Leaves(a.out, t, s)
          /\ Leaves(a.out, t, s) =>
               DirtyIn(l2[n], t, s) \/ (r.markDirty /\ t = r.tag /\ s = r.sector)
      BY <1>3 DEF Accounts
    <3>. QED BY <1>6, <2>1, <3>1, <3>2 DEF DirtyOf
  <2>2. CASE SetOf[t] # n
    <3>1. g[SetOf[t]] = l2[SetOf[t]] /\ t # r.tag
      BY <1>5, <1>8, <2>2 DEF n
    <3>. QED BY <1>6, <1>9, <2>2, <3>1 DEF DirtyOf
  <2>. QED BY <2>1, <2>2
<1>11. Follows(l2, g, marked, a.out)
  <2>1. a.out \subseteq Entry
    BY <1>3 DEF Accounts
  <2>. QED BY <1>6, <1>7, <1>10, <2>1 DEF Follows
<1>12. ~a.throws => Saves(l2, g, written, a.out)
  <2>. SUFFICES ASSUME ~a.throws, NEW t \in Tag, NEW s \in Sector, NEW b \in Byte,
                       KeptOf(l2, t, s, b) \/ <<t, s, b>> \in written
                PROVE  KeptOf(g, t, s, b) \/ Carries(a.out, t, s, b)
    BY DEF Saves
  <2>1. CASE SetOf[t] = n
    <3>1. g[SetOf[t]] = a.set
      BY <1>5, <1>8, <2>1
    <3>2. \/ KeptIn(l2[n], t, s, b)
          \/ r.markDirty /\ t = r.tag /\ s = r.sector /\ b \in r.bytes
      BY <1>6, <2>1 DEF KeptOf
    <3>3. KeptIn(a.set, t, s, b) \/ Carries(a.out, t, s, b)
      BY <1>3, <3>2 DEF Accounts
    <3>. QED BY <3>1, <3>3 DEF KeptOf
  <2>2. CASE SetOf[t] # n
    <3>1. g[SetOf[t]] = l2[SetOf[t]] /\ t # r.tag
      BY <1>5, <1>8, <2>2 DEF n
    <3>. QED BY <1>6, <3>1 DEF KeptOf
  <2>. QED BY <2>1, <2>2
<1>13. a.throws \in BOOLEAN /\ (FillLatency = 0 => ~a.throws)
  BY <1>3 DEF Accounts
<1>14. /\ Follows(l2, g, marked, a.out)
       /\ ~a.throws => Saves(l2, g, written, a.out)
       /\ written \in SUBSET (Tag \X Sector \X Byte)
       /\ a.throws \in BOOLEAN /\ (FillLatency = 0 => ~a.throws)
  BY <1>6, <1>11, <1>12, <1>13
<1>. QED BY ONLY <1>14 DEF a, g, marked, written, n

(* Nothing cleaned, nothing changed.                                       *)
LEMMA NothingFollows ==
  ASSUME Fits(l2)
  PROVE  Follows(l2, l2, {}, {}) /\ Saves(l2, l2, {}, {})
BY DEF Follows, Saves, Leaves

LEMMA CleaningFollows ==
  ASSUME Fits(l2), NEW now \in Nat
  PROVE  LET a == Cleaning(now)
         IN  /\ Follows(l2, a.sets, {}, a.out)
             /\ ~a.throws => Saves(l2, a.sets, {}, a.out)
             /\ a.throws \in BOOLEAN /\ (FillLatency = 0 => ~a.throws)
<1>. DEFINE a == Cleaning(now)
<1>1. CASE policy.preserve /\ policy.drain /\ Budget > 0
  <2>1. a = DrainL2(now)
    BY <1>1 DEF Cleaning
  <2>. HIDE DEF a
  <2>2. a.throws = FALSE
    BY <2>1, DrainIs
  <2>3. Follows(l2, a.sets, {}, a.out) /\ Saves(l2, a.sets, {}, a.out)
    BY <2>1, DrainFollows
  <2>. QED BY <2>2, <2>3 DEF a
<1>2. CASE ~(policy.preserve /\ policy.drain /\ Budget > 0) /\ ~policy.preserve /\ policy.flush
  <2>1. a = FlushL2(now)
    BY <1>2 DEF Cleaning
  <2>. HIDE DEF a
  <2>2. /\ Follows(l2, a.sets, {}, a.out)
        /\ ~a.throws => Saves(l2, a.sets, {}, a.out)
        /\ a.throws \in BOOLEAN /\ (FillLatency = 0 => ~a.throws)
    BY <2>1, FlushFollows
  <2>. QED BY <2>2 DEF a
<1>3. CASE ~(policy.preserve /\ policy.drain /\ Budget > 0) /\ ~(~policy.preserve /\ policy.flush)
  <2>1. a = [sets |-> l2, out |-> {}, throws |-> FALSE]
    BY <1>3 DEF Cleaning
  <2>. HIDE DEF a
  <2>2. a.sets = l2 /\ a.out = {} /\ a.throws = FALSE
    BY <2>1
  <2>. QED BY <2>2, NothingFollows DEF a
<1>. QED BY <1>1, <1>2, <1>3

-----------------------------------------------------------------------------
(* The invariant.                                                          *)

(* The sets are sound, the ledger's producers are those of their dirty     *)
(* sectors, and they keep every byte that memory has not got.              *)
Books == /\ Fits(l2) /\ owners = SectorsIn(l2)
         /\ stale \in SUBSET (Tag \X Sector \X Byte)
         /\ \A x \in stale : KeptOf(l2, x[1], x[2], x[3])

(* The one exception left is the eviction that meets a read in flight.     *)
Rest == /\ policy \in Policies /\ inKernel \in BOOLEAN
        /\ kernelBase \in Nat /\ kernelMaxTs \in Nat
        /\ failure \in {"none", "evict"} /\ (FillLatency = 0 => failure # "evict")

(* That the ledger stays in agreement needs sets that hold a line once and *)
(* where it belongs; that nothing stored is lost needs masks that say what *)
(* an entry holds.  TypeOK, LedgerAgrees and NothingLost say neither.      *)
IInv == Books /\ Rest

(* When the books agree, the count at a kernel's boundary does.            *)
LEMMA BoundaryAgrees ==
  ASSUME Books'
  PROVE  BoundaryCheck' = "none"
<1>1. DirtyPlaces' = PlacesOf(l2')
  BY DEF DirtyPlaces, PlacesOf, Resident
<1>2. Cardinality(owners') = Cardinality(PlacesOf(l2'))
  BY OnePlaceEach DEF Books
<1>. QED BY <1>1, <1>2 DEF BoundaryCheck, DirtyCount

LEMMA InitBooks == Init => IInv
<1>. SUFFICES ASSUME Init PROVE IInv
  OBVIOUS
<1>1. Fits(l2) /\ SectorsIn(l2) = {}
  BY ClearedSets DEF Init
<1>. QED BY <1>1 DEF Init, IInv, Books, Rest

LEMMA AccessKeeps ==
  ASSUME IInv, L2Access
  PROVE  IInv'
<1>1. PICK r \in Requests, now \in kernelBase .. MaxTime :
        LET access == Access(l2[SetOf[r.tag]], r, now)
            marked == Marked(r)
            written == {<<r.tag, r.sector, b>> : b \in IF r.markDirty THEN r.bytes ELSE {}}
        IN /\ IF access.throws
              THEN failure' = "evict" /\ UNCHANGED <<l2, owners, stale>>
              ELSE /\ l2' = [l2 EXCEPT ![SetOf[r.tag]] = access.set]
                   /\ WriteBack(marked, written, access.out)
                   /\ failure' = IF Owned(marked, access.out) THEN "none" ELSE "owner"
           /\ kernelMaxTs' = Max({kernelMaxTs, now})
  BY DEF L2Access
<1>. DEFINE a == Access(l2[SetOf[r.tag]], r, now)
            marked == Marked(r)
            written == {<<r.tag, r.sector, b>> : b \in IF r.markDirty THEN r.bytes ELSE {}}
            g == [l2 EXCEPT ![SetOf[r.tag]] = a.set]
<1>2. /\ IF a.throws
         THEN failure' = "evict" /\ UNCHANGED <<l2, owners, stale>>
         ELSE /\ l2' = g
              /\ WriteBack(marked, written, a.out)
              /\ failure' = IF Owned(marked, a.out) THEN "none" ELSE "owner"
      /\ kernelMaxTs' = Max({kernelMaxTs, now})
  BY <1>1
<1>3. Fits(l2) /\ now \in Nat /\ kernelMaxTs \in Nat
  BY DEF IInv, Books, Rest
<1>4. /\ Follows(l2, g, marked, a.out)
      /\ ~a.throws => Saves(l2, g, written, a.out)
      /\ written \in SUBSET (Tag \X Sector \X Byte)
      /\ a.throws \in BOOLEAN /\ (FillLatency = 0 => ~a.throws)
  BY <1>3, AccessFollows
<1>. HIDE DEF a, marked, written, g
<1>5. /\ policy' = policy /\ inKernel' = inKernel /\ kernelBase' = kernelBase
      /\ kernelMaxTs' \in Nat
  BY <1>2, <1>3, LaterOf DEF L2Access
<1>6. CASE a.throws
  BY <1>2, <1>4, <1>5, <1>6 DEF IInv, Books, Rest
<1>7. CASE ~a.throws
  <2>1. /\ l2' = g /\ owners' = (owners \cup marked) \ SectorsOf(a.out)
        /\ stale' = (stale \cup written) \ BytesOf(a.out)
        /\ failure' = IF Owned(marked, a.out) THEN "none" ELSE "owner"
    BY <1>2, <1>7 DEF WriteBack
  <2>2. /\ SectorsOf(a.out) \subseteq owners \cup marked
        /\ owners' = SectorsIn(g)
    BY <1>3, <1>4, <2>1, BooksAgree DEF IInv, Books
  <2>3. failure' = "none"
    BY <2>1, <2>2 DEF Owned
  <2>4. \A x \in stale' : KeptOf(g, x[1], x[2], x[3])
    <3>1. stale \in SUBSET (Tag \X Sector \X Byte) /\ \A x \in stale : KeptOf(l2, x[1], x[2], x[3])
      BY DEF IInv, Books
    <3>2. Saves(l2, g, written, a.out)
      BY <1>4, <1>7
    <3>3. a.out \subseteq Entry
      BY <1>4 DEF Follows
    <3>4. \A x \in (stale \cup written) \ BytesOf(a.out) : KeptOf(g, x[1], x[2], x[3])
      BY <1>4, <3>1, <3>2, <3>3, BytesSafe
    <3>. QED BY <2>1, <3>4
  <2>5. Books'
    BY <1>4, <2>1, <2>2, <2>4 DEF IInv, Books, Follows
  <2>6. Rest'
    BY <1>5, <2>3 DEF IInv, Rest
  <2>. QED BY <2>5, <2>6 DEF IInv
<1>. QED BY <1>6, <1>7

LEMMA BeginKeeps ==
  ASSUME IInv, BeginKernel
  PROVE  IInv'
<1>1. Books'
  <2>1. CASE policy.preserve
    BY <2>1 DEF BeginKernel, IInv, Books
  <2>2. CASE ~policy.preserve
    <3>1. /\ l2' = [n \in SetIndex |-> <<>>] /\ owners' = {} /\ stale' = {}
      BY <2>2 DEF BeginKernel, DiscardDirty
    <3>. QED BY <3>1, ClearedSets DEF Books
  <2>. QED BY <2>1, <2>2
<1>2. failure' = "none"
  BY <1>1, BoundaryAgrees DEF BeginKernel
<1>3. /\ policy' = policy /\ inKernel' = TRUE /\ kernelMaxTs' = 0 /\ kernelBase' = kernelBase
  BY DEF BeginKernel
<1>4. Rest'
  BY <1>2, <1>3 DEF IInv, Rest
<1>. QED BY <1>1, <1>4 DEF IInv

LEMMA L1HitKeeps ==
  ASSUME IInv, L1Hit
  PROVE  IInv'
<1>1. PICK now \in kernelBase .. MaxTime : kernelMaxTs' = Max({kernelMaxTs, now})
  BY DEF L1Hit
<1>2. now \in Nat /\ kernelMaxTs \in Nat
  BY DEF IInv, Rest
<1>3. kernelMaxTs' \in Nat
  BY <1>1, <1>2, LaterOf
<1>4. /\ policy' = policy /\ l2' = l2 /\ owners' = owners /\ inKernel' = inKernel
      /\ kernelBase' = kernelBase /\ failure' = failure /\ stale' = stale
  BY DEF L1Hit
<1>. QED BY <1>3, <1>4 DEF IInv, Books, Rest

LEMMA EndKeeps ==
  ASSUME IInv, EndKernel
  PROVE  IInv'
<1>. DEFINE a == Cleaning(kernelMaxTs + 1)
<1>1. /\ IF a.throws
         THEN failure' = "evict" /\ UNCHANGED <<l2, owners, stale>>
         ELSE /\ l2' = a.sets /\ WriteBack({}, {}, a.out)
              /\ failure' = IF Owned({}, a.out) THEN BoundaryCheck' ELSE "owner"
      /\ IF failure' = "none"
         THEN /\ kernelBase' = Max({kernelBase, kernelMaxTs + KernelGap})
              /\ inKernel' = FALSE
         ELSE UNCHANGED <<kernelBase, inKernel>>
      /\ policy' = policy /\ kernelMaxTs' = kernelMaxTs
  BY DEF EndKernel
<1>2. Fits(l2) /\ kernelMaxTs \in Nat /\ kernelBase \in Nat /\ KernelGap \in Nat
  BY DrainAssumption DEF IInv, Books, Rest
<1>3. /\ Follows(l2, a.sets, {}, a.out)
      /\ ~a.throws => Saves(l2, a.sets, {}, a.out)
      /\ a.throws \in BOOLEAN /\ (FillLatency = 0 => ~a.throws)
  BY <1>2, CleaningFollows
<1>. HIDE DEF a
<1>4. kernelMaxTs' \in Nat /\ kernelBase' \in Nat /\ inKernel' \in BOOLEAN
  <2>1. Max({kernelBase, kernelMaxTs + KernelGap}) \in Nat
    BY <1>2, LaterOf
  <2>2. inKernel \in BOOLEAN
    BY DEF IInv, Rest
  <2>. QED BY <1>1, <1>2, <2>1, <2>2
<1>5. CASE a.throws
  BY <1>1, <1>3, <1>4, <1>5 DEF IInv, Books, Rest
<1>6. CASE ~a.throws
  <2>1. /\ l2' = a.sets /\ owners' = owners \ SectorsOf(a.out)
        /\ stale' = stale \ BytesOf(a.out)
        /\ failure' = IF Owned({}, a.out) THEN BoundaryCheck' ELSE "owner"
    BY <1>1, <1>6 DEF WriteBack
  <2>2. SectorsOf(a.out) \subseteq owners \cup {} /\ owners' = SectorsIn(a.sets)
    BY <1>2, <1>3, <2>1, BooksAgree DEF IInv, Books
  <2>3. \A x \in stale' : KeptOf(a.sets, x[1], x[2], x[3])
    <3>1. stale \in SUBSET (Tag \X Sector \X Byte) /\ \A x \in stale : KeptOf(l2, x[1], x[2], x[3])
      BY DEF IInv, Books
    <3>2. Saves(l2, a.sets, {}, a.out) /\ a.out \subseteq Entry
      BY <1>3, <1>6 DEF Follows
    <3>3. \A x \in (stale \cup {}) \ BytesOf(a.out) : KeptOf(a.sets, x[1], x[2], x[3])
      BY <3>1, <3>2, BytesSafe
    <3>. QED BY <2>1, <3>3
  <2>4. Books'
    BY <1>3, <2>1, <2>2, <2>3 DEF IInv, Books, Follows
  <2>5. failure' = "none"
    BY <2>1, <2>2, <2>4, BoundaryAgrees DEF Owned
  <2>6. Rest'
    BY <1>1, <1>4, <2>5 DEF IInv, Rest
  <2>. QED BY <2>4, <2>6 DEF IInv
<1>. QED BY <1>3, <1>5, <1>6

(* IInv holds at the start and survives every step.                        *)
THEOREM Invariance == Spec => []IInv
<1>1. IInv /\ [Next]_vars => IInv'
  <2>. SUFFICES ASSUME IInv, [Next]_vars PROVE IInv'
    OBVIOUS
  <2>1. CASE BeginKernel
    BY <2>1, BeginKeeps
  <2>2. CASE L2Access
    BY <2>2, AccessKeeps
  <2>3. CASE L1Hit
    BY <2>3, L1HitKeeps
  <2>4. CASE EndKernel
    BY <2>4, EndKeeps
  <2>5. CASE UNCHANGED vars
    BY <2>5 DEF vars, times, IInv, Books, Rest
  <2>. QED BY <2>1, <2>2, <2>3, <2>4, <2>5 DEF Next
<1>. QED BY <1>1, InitBooks, PTL DEF Spec

-----------------------------------------------------------------------------
(* What follows from it.                                                   *)

(* Every set is a sequence of at most Assoc entries of the right shape.    *)
THEOREM TypeCorrect == Spec => []TypeOK
<1>1. IInv => TypeOK
  <2>. SUFFICES ASSUME IInv PROVE TypeOK
    OBVIOUS
  <2>1. owners \subseteq Tag \X Sector
    BY DirtyWhere DEF IInv, Books
  <2>. QED BY <2>1 DEF IInv, Books, Rest, Fits, TypeOK
<1>. QED BY <1>1, Invariance, PTL

(* The ledger's producers are the dirty sectors of the caches after every  *)
(* step, so that it never throws: not for a writeback without a producer,  *)
(* not for a count that differs at a kernel's boundary.                    *)
THEOREM ProducersKnown == Spec => []LedgerAgrees
<1>1. IInv => LedgerAgrees
  BY BudgetIs DEF IInv, Books, Rest, LedgerAgrees
<1>. QED BY <1>1, Invariance, PTL

(* No byte memory has not got is missing from the cache.                   *)
THEOREM StoresKept == Spec => []NothingLost
<1>1. IInv => NothingLost
  BY DEF IInv, Books, NothingLost, KeptOf, KeptIn, Keeps, Holds
<1>. QED BY <1>1, Invariance, PTL

(* When fills complete at once no eviction throws.                         *)
THEOREM EvictionNeverThrows == Spec => []EvictionPossible
<1>1. IInv => EvictionPossible
  BY DEF IInv, Rest, EvictionPossible
<1>. QED BY <1>1, Invariance, PTL

(* Any reachable cache can be saved, and load restores what was saved.     *)
THEOREM CheckpointRestores == Spec => []CheckpointExact
<1>1. IInv => CheckpointExact
  <2>. SUFFICES ASSUME IInv, NEW n \in SetIndex
                PROVE  /\ Cardinality(Tags(n)) = Len(l2[n]) /\ Len(l2[n]) =< Assoc
                       /\ \A t \in Tags(n) : SetOf[t] = n
                       /\ \A i \in DOMAIN l2[n] :
                            LET image == SavedEntry(l2[n][i])
                            IN  Loadable(image) /\ RestoredEntry(image) = l2[n][i]
    BY DEF CheckpointExact
  <2>1. /\ SoundSet(l2[n]) /\ Len(l2[n]) =< Assoc
        /\ \A i \in DOMAIN l2[n] : SetOf[l2[n][i].tag] = n
    BY DEF IInv, Books, Fits
  <2>2. DOMAIN l2[n] = 1 .. Len(l2[n]) /\ Len(l2[n]) \in Nat
    BY <2>1 DEF SoundSet
  <2>3. Cardinality(Tags(n)) = Len(l2[n])
    <3>. DEFINE I == 1 .. Len(l2[n])
                f == [i \in I |-> l2[n][i].tag]
    <3>1. \A i, j \in I : f[i] = f[j] => i = j
      BY <2>1, <2>2 DEF SoundSet
    <3>2. f \in [I -> Tags(n)] /\ \A t \in Tags(n) : \E i \in I : f[i] = t
      BY <2>2 DEF Tags
    <3>3. IsFiniteSet(I) /\ Cardinality(I) = Len(l2[n])
      BY <2>2, FS_Interval
    <3>. HIDE DEF f, I
    <3>4. f \in Bijection(I, Tags(n))
      BY <3>1, <3>2 DEF Bijection, Injection, Surjection, IsInjective
    <3>5. ExistsBijection(I, Tags(n))
      BY <3>4 DEF ExistsBijection
    <3>. QED BY <3>3, <3>5, FS_Bijection
  <2>4. \A i \in DOMAIN l2[n] : LET image == SavedEntry(l2[n][i])
                                IN  Loadable(image) /\ RestoredEntry(image) = l2[n][i]
    BY <2>1, RoundTrip DEF SoundSet
  <2>5. \A t \in Tags(n) : SetOf[t] = n
    BY <2>1 DEF Tags
  <2>. QED BY <2>1, <2>3, <2>4, <2>5
<1>. QED BY <1>1, Invariance, PTL

(* A drain that stops before its budget is spent leaves nothing eligible.  *)
LEMMA DrainedAll ==
  ASSUME Fits(l2), NEW now \in Nat, Drained(now) = Drainable(now),
         Cardinality(Drained(now)) < Budget,
         NEW n \in SetIndex, NEW i \in DOMAIN l2[n]
  PROVE  Eligible(Refresh(DrainL2(now).sets[n][i], now), now, MinAge) = {}
<1>. DEFINE D == Drainable(now)
            c == l2[n][i]
            f == Refresh(c, now)
            g == DrainL2(now).sets[n][i]
<1>1. D \in SUBSET Position /\ IsFiniteSet(D)
  BY Places, FS_Subset DEF Drainable
<1>2. Visited(n, i, now)
  <2>. DEFINE first == {q \in D : Precedes(q, <<n, i, 0>>)}
  <2>1. first \in SUBSET D
    OBVIOUS
  <2>2. Visited(n, i, now) <=> Cardinality(first) < Budget
    BY DEF Visited
  <2>. HIDE DEF first
  <2>3. /\ Cardinality(first) =< Cardinality(D)
        /\ Cardinality(first) \in Nat /\ Cardinality(D) \in Nat
    BY <1>1, <2>1, FS_Subset, FS_CardinalityType
  <2>. QED BY <2>2, <2>3, BudgetIs
<1>3. Sound(c) /\ f.dirty \subseteq Sector
  <2>1. Sound(c)
    BY DEF Fits, SoundSet
  <2>2. f \in Entry
    BY <2>1, RefreshSound DEF Sound, Shaped
  <2>. QED BY <2>1, <2>2 DEF Entry
<1>4. TakenOf(n, i, now) = Eligible(f, now, MinAge)
  <2>1. i \in 1 .. Assoc
    <3>1. Len(c) = Len(c) /\ Len(l2[n]) \in Nat /\ DOMAIN l2[n] = 1 .. Len(l2[n]) /\ Len(l2[n]) =< Assoc
      BY DEF Fits, SoundSet
    <3>. QED BY <3>1, AssocAssumption
  <2>2. \A s \in Sector : <<n, i, s>> \in D <=> s \in Eligible(f, now, MinAge)
    <3>1. \A s \in Sector : <<n, i, s>> \in Position
      BY <2>1 DEF Position
    <3>. QED BY <3>1 DEF Drainable, Resident
  <2>3. Eligible(f, now, MinAge) \subseteq Sector
    BY <1>3 DEF Eligible
  <2>. QED BY <2>2, <2>3 DEF TakenOf
<1>5. g = Clean(f, Eligible(f, now, MinAge))
  <2>1. g = Clean(LineAt(n, i, now), TakenOf(n, i, now))
    BY DrainLeaves
  <2>. QED BY <1>2, <1>4, <2>1 DEF LineAt
<1>. HIDE DEF g
<1>6. Eligible(Refresh(g, now), now, MinAge) = {}
  BY <1>3, <1>5, Settled
<1>. QED BY <1>6 DEF g

(* What the end of a kernel does to the number of dirty sectors.           *)
LEMMA DrainCounts ==
  ASSUME IInv, EndKernel, policy.preserve, policy.drain
  PROVE  \E taken \in Nat :
           /\ DirtyCount' \in Nat /\ DirtyCount' = DirtyCount - taken
           /\ taken =< Budget
           /\ taken = Budget \/ Drainable(kernelMaxTs + 1)' = {}
<1>. DEFINE now == kernelMaxTs + 1
            a == Cleaning(now)
<1>1. Fits(l2) /\ now \in Nat
  BY DEF IInv, Books, Rest
<1>2. Fits(l2')
  BY EndKeeps DEF IInv, Books
<1>3. /\ DirtyCount = Cardinality(PlacesOf(l2)) /\ Budget \in Nat
      /\ IsFiniteSet(PlacesOf(l2))
  BY <1>1, BudgetIs, OnePlaceEach
<1>4. DirtyCount' = Cardinality(PlacesOf(l2')) /\ DirtyCount' \in Nat
  <2>1. DirtyPlaces' = PlacesOf(l2')
    BY DEF DirtyPlaces, PlacesOf, Resident
  <2>2. DirtyCount' = Cardinality(PlacesOf(l2'))
    BY <2>1 DEF DirtyCount
  <2>. QED BY <1>2, <2>2, OnePlaceEach, FS_CardinalityType
<1>5. a.throws \in BOOLEAN /\ (~a.throws => l2' = a.sets) /\ kernelMaxTs' = kernelMaxTs
  BY <1>1, CleaningFollows DEF EndKernel
<1>6. CASE Budget = 0
  <2>1. a = [sets |-> l2, out |-> {}, throws |-> FALSE]
    BY <1>6 DEF Cleaning
  <2>. HIDE DEF a
  <2>2. l2' = l2
    BY <1>5, <2>1
  <2>3. DirtyCount' = DirtyCount - 0
    BY <1>3, <1>4, <2>2
  <2>. QED BY <1>4, <1>6, <2>3
<1>7. CASE Budget # 0
  <2>. DEFINE F == Drained(now)
  <2>1. a = DrainL2(now)
    BY <1>3, <1>7 DEF Cleaning
  <2>2. l2' = DrainL2(now).sets
    BY <1>5, <2>1, DrainIs
  <2>3. PlacesOf(l2') = PlacesOf(l2) \ F /\ F \in SUBSET PlacesOf(l2)
    BY <1>1, <2>2, DrainFollows
  <2>4. /\ Cardinality(F) \in Nat /\ Cardinality(F) =< Budget
        /\ F = Drainable(now) \/ Cardinality(F) = Budget
    BY <1>3, DrainIs, FirstMembers
  <2>5. DirtyCount' = DirtyCount - Cardinality(F)
    <3>1. PlacesOf(l2) \cap F = F
      BY <2>3
    <3>. HIDE DEF F
    <3>2. Cardinality(PlacesOf(l2) \ F) = Cardinality(PlacesOf(l2)) - Cardinality(PlacesOf(l2) \cap F)
      BY <1>3, FS_Difference
    <3>. QED BY <1>3, <1>4, <2>3, <3>1, <3>2
  <2>6. ASSUME Cardinality(F) # Budget PROVE Drainable(now)' = {}
    <3>1. F = Drainable(now) /\ Cardinality(F) < Budget
      BY <1>3, <2>4, <2>6
    <3>2. Drainable(now)' = {p \in Position :
             /\ p[2] \in DOMAIN l2'[p[1]]
             /\ p[3] \in Eligible(Refresh(l2'[p[1]][p[2]], now), now, MinAge)}
      BY <1>5 DEF Drainable, Resident
    <3>3. \A p \in Position : p[1] \in SetIndex /\ DOMAIN l2'[p[1]] = DOMAIN l2[p[1]]
      BY <1>1, <2>2, Places, DrainLeaves
    <3>4. \A p \in Position : p[2] \in DOMAIN l2'[p[1]] =>
            Eligible(Refresh(l2'[p[1]][p[2]], now), now, MinAge) = {}
      BY <1>1, <2>2, <3>1, <3>3, DrainedAll
    <3>. QED BY <3>2, <3>4
  <2>. QED BY <1>4, <2>4, <2>5, <2>6
<1>. QED BY <1>6, <1>7

(* A drain starts over the watermark only, takes no more than its limits,  *)
(* and stops short of them only when nothing complete and old is left.     *)
THEOREM DrainStops == Spec => DrainExact
<1>. DEFINE taken == DirtyCount - DirtyCount'
            Exact == /\ taken > 0 => /\ DirtyCount > HighWatermark
                                     /\ DirtyCount' >= Target
                                     /\ ~Limited(taken - 1)
                     /\ \/ DirtyCount =< HighWatermark
                        \/ DirtyCount' =< Target
                        \/ Limited(taken)
                        \/ Drainable(kernelMaxTs + 1)' = {}
<1>1. ASSUME IInv, EndKernel, policy.preserve, policy.drain PROVE Exact
  <2>1. /\ DirtyCount \in Nat /\ Excess \in Nat /\ Budget \in Nat /\ Budget =< Excess
        /\ Budget = Excess \/ (MaxPerKernel > 0 /\ Budget = MaxPerKernel)
        /\ MaxPerKernel > 0 => Budget =< MaxPerKernel
    BY <1>1, BudgetIs DEF IInv, Books
  <2>2. PICK n \in Nat : /\ DirtyCount' \in Nat /\ DirtyCount' = DirtyCount - n /\ n =< Budget
                         /\ n = Budget \/ Drainable(kernelMaxTs + 1)' = {}
    BY <1>1, DrainCounts
  <2>3. HighWatermark \in Nat /\ Target \in Nat /\ MaxPerKernel \in Nat
    BY DrainAssumption
  <2>4. Excess = IF DirtyCount > HighWatermark /\ DirtyCount > Target
                 THEN DirtyCount - Target ELSE 0
    BY DEF Excess
  <2>5. taken = n
    BY <2>1, <2>2
  <2>. DEFINE d == DirtyCount
              e == DirtyCount'
              x == Excess
              b == Budget
              none == Drainable(kernelMaxTs + 1)' = {}
  <2>. HIDE DEF d, e, x, b, none
  <2>6. taken > 0 => d > HighWatermark /\ e >= Target /\ ~Limited(taken - 1)
    BY <2>1, <2>2, <2>3, <2>4, <2>5 DEF Limited, d, e, x, b
  <2>7. d =< HighWatermark \/ e =< Target \/ Limited(taken) \/ none
    BY <2>1, <2>2, <2>3, <2>4, <2>5 DEF Limited, d, e, x, b, none
  <2>. QED BY <2>6, <2>7 DEF d, e, none
<1>2. IInv /\ [Next]_vars =>
        [EndKernel /\ policy.preserve /\ policy.drain => Exact]_vars
  BY <1>1
<1>. QED BY <1>2, Invariance, PTL DEF Spec, DrainExact
=============================================================================
