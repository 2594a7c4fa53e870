---------------------------- MODULE L2Writeback ----------------------------
(***************************************************************************)
(* The L2 of the backend under the write-back policy: the sector requests  *)
(* of a kernel, the emission of evicted dirty sectors, the drain or flush  *)
(* at a kernel's end, the clearing at a kernel's start, and the semantic   *)
(* ledger that keeps for each dirty sector the kernel that produced it and *)
(* throws when a written-back sector has no producer, or when its count    *)
(* disagrees with the caches at a kernel boundary.                         *)
(*                                                                         *)
(* The slices of the L2 are concatenated: set n of the model is a set of a *)
(* slice, in the order in which the drain visits them.                     *)
(***************************************************************************)
EXTENDS SectorCache

CONSTANTS NumSets, SetOf,         \* sets of all slices; the set of each line
          Policies,               \* combinations of the options in Policy
          HighWatermark, Target,  \* l2_dirty_drain_*_sectors
          MaxPerKernel,           \* 0: no limit
          MinAge,                 \* l2_dirty_drain_latency
          KernelGap,              \* kernel_gap
          MaxTime                 \* bound: time stamps of requests

SetIndex == 0 .. NumSets - 1

(* preserve_l2 keeps the L2 from kernel to kernel, flush_l2_on_reset writes *)
(* back what is dirty before it is cleared, l2_dirty_drain cleans an L2 that *)
(* is kept, l2_streaming_fill lets requests bring data in without a wait.  *)
Policy == [preserve: BOOLEAN, flush: BOOLEAN, drain: BOOLEAN, stream: BOOLEAN]

ASSUME SetsAssumption == NumSets \in Nat \ {0} /\ SetOf \in [Tag -> SetIndex]
ASSUME PolicyAssumption == Policies \subseteq Policy
ASSUME DrainAssumption ==
  {HighWatermark, Target, MaxPerKernel, MinAge, KernelGap, MaxTime}
    \subseteq Nat

VARIABLES policy,     \* the policy of this run
          l2,         \* set number -> entries, most recently used first
          owners,     \* the ledger's dirty_owners_: sectors with a producer
          inKernel,   \* between begin_kernel and end_kernel
          kernelBase, \* time at which the kernel starts
          kernelMaxTs, \* latest time stamp of the kernel
          failure,    \* the exception that ended the run, "none" so far
          stale       \* bytes whose last store memory has not got (history)

times == <<kernelBase, kernelMaxTs>>
vars == <<policy, l2, owners, inKernel, times, failure, stale>>

Position == SetIndex \X (1 .. Assoc) \X Sector     \* set, position, sector

Init == /\ policy \in Policies
        /\ l2 = [n \in SetIndex |-> <<>>]
        /\ owners = {} /\ stale = {}
        /\ kernelBase = 0 /\ kernelMaxTs = 0
        /\ inKernel = FALSE /\ failure = "none"

Resident(n, i) == i \in DOMAIN l2[n]

(* dirty_sector_count over all slices.                                     *)
DirtyPlaces == {p \in Position : Resident(p[1], p[2])
                               /\ p[3] \in l2[p[1]][p[2]].dirty}
DirtyCount == Cardinality(DirtyPlaces)
DirtySectors == {<<l2[p[1]][p[2]].tag, p[3]>> : p \in DirtyPlaces}

SectorsOf(out) == UNION {{<<e.tag, s>> : s \in e.dirty} : e \in out}
BytesOf(out) == UNION {UNION {{<<e.tag, s, b>> : b \in e.known[s]}
                              : s \in e.dirty} : e \in out}

(* The ledger throws for a written-back sector that has no producer.       *)
Owned(marked, out) == SectorsOf(out) \subseteq owners \cup marked

(* emit_l2_writeback: each sector written back loses its producer.         *)
WriteBack(marked, written, out) ==
  /\ owners' = (owners \cup marked) \ SectorsOf(out)
  /\ stale' = (stale \cup written) \ BytesOf(out)

(* check_dirty_count, at the kernel's entry and exit.                      *)
BoundaryCheck == IF Cardinality(owners) = DirtyCount THEN "none"
                                                     ELSE "boundary"

-----------------------------------------------------------------------------
(* A request reaches the L2: process_inst, from the lookup to the eviction.*)
(* An exception ends the run: the state it leaves is never used again.     *)

(* should_stream_l2_fill: every atomic, and kernels and data it singles out.*)
Requests == {r \in Request : /\ r.markDirty = (r.op # "Read")
                             /\ r.streaming => policy.stream
                             /\ r.op = "Atomic" => r.streaming = policy.stream}

(* mark_dirty: the sector a request leaves dirty gets its producer.         *)
Marked(r) == IF r.markDirty THEN {<<r.tag, r.sector>>} ELSE {}

L2Access ==
  /\ inKernel /\ failure = "none"
  /\ \E r \in Requests, now \in kernelBase .. MaxTime :
       LET access == Access(l2[SetOf[r.tag]], r, now)
           written == {<<r.tag, r.sector, b>> : b \in IF r.markDirty THEN r.bytes
                                                                     ELSE {}}
       IN /\ IF access.throws
             THEN failure' = "evict" /\ UNCHANGED <<l2, owners, stale>>
             ELSE /\ l2' = [l2 EXCEPT ![SetOf[r.tag]] = access.set]
                  /\ WriteBack(Marked(r), written, access.out)
                  /\ failure' = IF Owned(Marked(r), access.out)
                                THEN "none" ELSE "owner"
          /\ kernelMaxTs' = Max({kernelMaxTs, now})
  /\ UNCHANGED <<policy, inKernel, kernelBase>>

(* A read that the L1 answers advances the kernel's time, and nothing else. *)
L1Hit ==
  /\ inKernel /\ failure = "none"
  /\ \E now \in kernelBase .. MaxTime : kernelMaxTs' = Max({kernelMaxTs, now})
  /\ UNCHANGED <<policy, l2, owners, inKernel, kernelBase, failure, stale>>

(* discard_dirty_without_service: what a cleared cache held dirty is lost  *)
(* on purpose.                                                             *)
DiscardDirty == owners' = {} /\ stale' = {}

(* The head of the kernel loop.                                            *)
BeginKernel ==
  /\ ~inKernel /\ failure = "none"
  /\ kernelBase =< MaxTime
  /\ IF policy.preserve THEN UNCHANGED <<l2, owners, stale>>
     ELSE /\ l2' = [n \in SetIndex |-> <<>>]
          /\ DiscardDirty
  /\ inKernel' = TRUE
  /\ kernelMaxTs' = 0
  /\ failure' = BoundaryCheck'
  /\ UNCHANGED <<policy, kernelBase>>

-----------------------------------------------------------------------------
(* The tail of the kernel loop.                                            *)

Precedes(p, q) == \/ p[1] < q[1]
                  \/ p[1] = q[1] /\ p[2] < q[2]
                  \/ p[1] = q[1] /\ p[2] = q[2] /\ p[3] < q[3]

Drainable(now) ==
  {p \in Position : /\ Resident(p[1], p[2])
                  /\ p[3] \in Eligible(Refresh(l2[p[1]][p[2]], now), now,
                                       MinAge)}

\* Mutant of Excess: everything over the watermark's trigger is excess.
ExcessIsAll == IF DirtyCount > HighWatermark THEN DirtyCount ELSE 0

Excess == IF DirtyCount > HighWatermark /\ DirtyCount > Target
          THEN DirtyCount - Target ELSE 0
Budget == IF MaxPerKernel = 0 THEN Excess ELSE Min({Excess, MaxPerKernel})

\* Mutant of Drained: one sector over the budget.
DrainedOneMore(now) ==
  {p \in Drainable(now) :
     Cardinality({q \in Drainable(now) : Precedes(q, p)}) =< Budget}

(* The eligible sectors visited while the budget lasts, in cache order.    *)
Drained(now) ==
  {p \in Drainable(now) :
     Cardinality({q \in Drainable(now) : Precedes(q, p)}) < Budget}

(* Entries behind the last sector of the budget are not even refreshed.    *)
Visited(n, i, now) ==
  Cardinality({q \in Drainable(now) : Precedes(q, <<n, i, 0>>)}) < Budget

DrainL2(now) ==
  LET line(n, i) == IF Visited(n, i, now) THEN Refresh(l2[n][i], now)
                                          ELSE l2[n][i]
      cleaned(n, i) == {s \in Sector : <<n, i, s>> \in Drained(now)}
  IN  [sets |-> [n \in SetIndex |-> [i \in DOMAIN l2[n] |->
                   Clean(line(n, i), cleaned(n, i))]],
       out |-> {[line(p[1], p[2]) EXCEPT !.dirty = {p[3]}]
                : p \in Drained(now)},
       throws |-> FALSE]

FlushL2(now) ==
  LET flushed == [n \in SetIndex |-> DrainDirty(l2[n], now)]
  IN  [sets |-> [n \in SetIndex |-> flushed[n].set],
       out |-> UNION {flushed[n].out : n \in SetIndex},
       throws |-> \E n \in SetIndex : flushed[n].throws]

(* drain_l2_dirty, or flush_l2_dirty of the command-line backend.          *)
Cleaning(now) ==
  IF policy.preserve /\ policy.drain /\ Budget > 0 THEN DrainL2(now)
  ELSE IF ~policy.preserve /\ policy.flush THEN FlushL2(now)
  ELSE [sets |-> l2, out |-> {}, throws |-> FALSE]

EndKernel ==
  /\ inKernel /\ failure = "none"
  /\ LET cleaning == Cleaning(kernelMaxTs + 1)
     IN  IF cleaning.throws
         THEN failure' = "evict" /\ UNCHANGED <<l2, owners, stale>>
         ELSE /\ l2' = cleaning.sets
              /\ WriteBack({}, {}, cleaning.out)
              /\ failure' = IF Owned({}, cleaning.out) THEN BoundaryCheck'
                                                       ELSE "owner"
  /\ IF failure' = "none"
     THEN /\ kernelBase' = Max({kernelBase, kernelMaxTs + KernelGap})
          /\ inKernel' = FALSE
     ELSE UNCHANGED <<kernelBase, inKernel>>
  /\ UNCHANGED <<policy, kernelMaxTs>>

Next == BeginKernel \/ L2Access \/ L1Hit \/ EndKernel

Spec == Init /\ [][Next]_vars

-----------------------------------------------------------------------------
(* Properties.                                                             *)

(* Every set is a sequence of at most Assoc entries of the right shape.    *)
TypeOK == /\ policy \in Policies
          /\ l2 \in [SetIndex -> Seq(Entry)]
          /\ \A n \in SetIndex : Len(l2[n]) =< Assoc
          /\ owners \subseteq Tag \X Sector
          /\ stale \subseteq Tag \X Sector \X Byte
          /\ inKernel \in BOOLEAN
          /\ kernelBase \in Nat /\ kernelMaxTs \in Nat
          /\ failure \in {"none", "evict", "owner", "boundary"}

(* The caches and the ledger agree, after every step, on which sectors are *)
(* dirty, so no writeback lacks its producer and no kernel boundary fails  *)
(* the count: nothing dirty vanishes, nothing is written back twice.       *)
LedgerAgrees == /\ owners = DirtySectors
                /\ failure \notin {"owner", "boundary"}

(* A byte whose last store memory has not got is in the cache, in a dirty  *)
(* sector, known or brought by the read in flight: a miss that reads       *)
(* memory never reads a stale byte into an entry.                          *)
Holds(e, s, b) == s \in e.dirty /\ (b \in e.known[s] \/ s \in e.reserved)
NothingLost ==
  \A x \in stale : \E i \in DOMAIN l2[SetOf[x[1]]] :
     /\ l2[SetOf[x[1]]][i].tag = x[1]
     /\ Holds(l2[SetOf[x[1]]][i], x[2], x[3])

(* A checkpoint of any reachable cache passes the checks of load, and what *)
(* load makes of it is the cache that was saved: masks, ages, completion   *)
(* times and recency.                                                      *)
Tags(n) == {l2[n][i].tag : i \in DOMAIN l2[n]}
CheckpointExact ==
  \A n \in SetIndex :
    /\ Cardinality(Tags(n)) = Len(l2[n]) /\ Len(l2[n]) =< Assoc
    /\ \A t \in Tags(n) : SetOf[t] = n
    /\ \A i \in DOMAIN l2[n] :
         LET image == SavedEntry(l2[n][i])
         IN  Loadable(image) /\ RestoredEntry(image) = l2[n][i]

(* With fills that complete at once, as run_memgen and the hardware        *)
(* profiles set them, no eviction meets dirty data whose read is in flight.         *)
EvictionPossible == FillLatency = 0 => failure # "evict"

(* A drain starts only over the high watermark, stops at its target or its *)
(* limit, and stops earlier only when nothing is left that is complete and *)
(* old: what it leaves dirty is then partial or young.                     *)
Limited(taken) == MaxPerKernel > 0 /\ taken >= MaxPerKernel
DrainExact ==
  [][EndKernel /\ policy.preserve /\ policy.drain =>
       LET taken == DirtyCount - DirtyCount'
       IN  /\ taken > 0 => /\ DirtyCount > HighWatermark
                           /\ DirtyCount' >= Target
                           /\ ~Limited(taken - 1)
           /\ \/ DirtyCount =< HighWatermark
              \/ DirtyCount' =< Target
              \/ Limited(taken)
              \/ Drainable(kernelMaxTs + 1)' = {}]_vars
=============================================================================
