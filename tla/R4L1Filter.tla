---------------------------- MODULE R4L1Filter ----------------------------
(***************************************************************************)
(* R4L1ReadFilter: the L1 of the production backend.  Per SM and set, up   *)
(* to `ways` lines under the CLOCK policy, found through a hash map from   *)
(* tag to slot; reads are accepted only inside the allocations declared    *)
(* for the kernel, looked up through the allocation found last.            *)
(*                                                                         *)
(* Addresses and sizes are in bytes of a small memory; a request is one    *)
(* aligned sector and the number of its bytes up to the last requested.    *)
(***************************************************************************)
EXTENDS Naturals, FiniteSets, SequencesExt

CONSTANTS Sms,                   \* sms_
          NumSets, Index,        \* sets; index() of each line offset
          WaysFor,               \* ways_for: shared profile -> ways
          Declared,              \* allocation lists kernels may declare
          SectorBytes, LineSectors,
          MaxAddress             \* bound: bytes of memory in play

Sm == 0 .. Sms - 1
SetIndex == 0 .. NumSets - 1
LineBytes == SectorBytes * LineSectors
Line == 0 .. MaxAddress \div LineBytes
Sector == 0 .. LineSectors - 1
SectorAddress == {a \in 0 .. MaxAddress - 1 : a % SectorBytes = 0}
Shared == DOMAIN WaysFor

ASSUME SizesAssumption ==
  {Sms, NumSets, SectorBytes, LineSectors, MaxAddress} \subseteq Nat \ {0}
ASSUME IndexAssumption == Index \in [Line -> SetIndex]
ASSUME WaysAssumption == \A shared \in Shared : WaysFor[shared] \in Nat \ {0}

Allocation == [id : Nat, base : Nat, bytes : Nat]

ASSUME DeclaredAssumption == Declared \subseteq Seq(Allocation)

VARIABLES ready, ways,
          allocations,           \* sorted by base
          lastAllocation,        \* position of the allocation found last
          data,                  \* per SM and set: nodes, lookup, hand
          answer                 \* the last read and its outcome (history)

vars == <<ready, ways, allocations, lastAllocation, data, answer>>

EmptySet == [nodes |-> <<>>, lookup |-> <<>>, hand |-> 1]
NoAnswer == [outcome |-> "none"]
Begun == [outcome |-> "kernel"]

Init == /\ ready = FALSE /\ ways = 0
        /\ allocations = <<>> /\ lastAllocation = 1
        /\ data = [sm \in Sm |-> [k \in SetIndex |-> EmptySet]]
        /\ answer = NoAnswer

-----------------------------------------------------------------------------
(* begin_kernel.                                                           *)

End(a) == a.base + a.bytes

(* Aligned, in order, apart, with identities of their own.                 *)
WellFormed(list) ==
  /\ list # <<>>
  /\ \A i \in DOMAIN list : /\ list[i].id # 0 /\ list[i].base # 0
                            /\ list[i].base % LineBytes = 0
                            /\ list[i].bytes # 0
  /\ \A i \in DOMAIN list \ {1} : End(list[i - 1]) =< list[i].base
  /\ \A i, j \in DOMAIN list : list[i].id = list[j].id => i = j

(* The orders std::sort may leave: that of equal bases is unspecified.     *)
Orders(list) == {order \in [DOMAIN list -> DOMAIN list] : IsInjective(order)}
ByBase(list) ==
  {sorted \in {[i \in DOMAIN list |-> list[order[i]]] : order \in Orders(list)} :
     \A i, j \in DOMAIN sorted : i < j => sorted[i].base =< sorted[j].base}

\* Mutant of ResetFinder: the finder survives into the next kernel.
KeepFinder == UNCHANGED lastAllocation

ResetFinder == lastAllocation' = 1

\* Mutant of ResetSets: cache contents survive into the next kernel.
KeepSets == UNCHANGED data

(* Nothing cached survives into the kernel.                                *)
ResetSets == data' = [sm \in Sm |-> [k \in SetIndex |-> EmptySet]]

(* A list that is not well formed makes it throw, before it changes a thing.*)
BeginKernel ==
  \E shared \in Shared, list \in Declared : \E sorted \in ByBase(list) :
    /\ WellFormed(sorted)
    /\ allocations' = sorted
    /\ ways' = WaysFor[shared]
    /\ ResetFinder
    /\ ResetSets
    /\ ready' = TRUE
    /\ answer' = Begun

-----------------------------------------------------------------------------
(* require_span.                                                           *)

Inside(a, address) == a.base =< address /\ address < End(a)

(* The allocation found last, if it has the address, else the one with the *)
(* greatest base at or below it; 0 when there is none.                     *)
Candidate(address) ==
  LET below == {i \in DOMAIN allocations : allocations[i].base =< address}
  IN  IF Inside(allocations[lastAllocation], address) THEN lastAllocation
      ELSE IF below = {} THEN 0 ELSE Max(below)

Found(address) == /\ Candidate(address) # 0
                  /\ Inside(allocations[Candidate(address)], address)

\* Mutant of FitsSpan: the last byte may lie one past the end.
FitsLoosely(a, address, bytes) == address + bytes =< End(a) + 1

FitsSpan(a, address, bytes) == address + bytes =< End(a)

Accepted(address, bytes) ==
  Found(address) /\ FitsSpan(allocations[Candidate(address)], address, bytes)

(* The finder moves even when the span turns out to be too long.           *)
MoveFinder(address) ==
  lastAllocation' = IF Found(address) THEN Candidate(address)
                                      ELSE lastAllocation

-----------------------------------------------------------------------------
(* access.  Slots are counted from 1.                                      *)

Around(slot) == IF slot > ways THEN slot - ways ELSE slot

(* How many referenced lines the hand passes before it stops.              *)
Passed(set) ==
  LET stops == {d \in 0 .. ways - 1 : ~set.nodes[Around(set.hand + d)].ref}
  IN  IF stops = {} THEN ways ELSE Min(stops)

PassedSlots(set) == {Around(set.hand + d) : d \in 0 .. Passed(set) - 1}

\* Mutant of Forget: the victim's tag stays in the lookup map.
ForgetNothing(lookup, tag) == lookup

Forget(lookup, tag) == [t \in DOMAIN lookup \ {tag} |-> lookup[t]]

Remember(lookup, tag, slot) ==
  [t \in DOMAIN lookup \cup {tag} |-> IF t = tag THEN slot ELSE lookup[t]]

\* Mutant of NewNode: a line arrives without its reference bit.
NewNodeUnreferenced(tag, s) == [tag |-> tag, mask |-> {s}, ref |-> FALSE]

NewNode(tag, s) == [tag |-> tag, mask |-> {s}, ref |-> TRUE]

Touched(node, s) == [tag |-> node.tag, mask |-> node.mask \cup {s}, ref |-> TRUE]

Swept(node) == [tag |-> node.tag, mask |-> node.mask, ref |-> FALSE]

HitLine(set, tag, s) ==
  [nodes |-> [set.nodes EXCEPT ![set.lookup[tag]] = Touched(@, s)],
   lookup |-> set.lookup,
   hand |-> set.hand]

FillLine(set, tag, s) ==
  [nodes |-> Append(set.nodes, NewNode(tag, s)),
   lookup |-> Remember(set.lookup, tag, Len(set.nodes) + 1),
   hand |-> set.hand]

(* The hand takes the reference bits of the lines it passes and stops at   *)
(* the first line without one, or, after a full turn, where it started.    *)
ReplaceLine(set, tag, s) ==
  LET slot == Around(set.hand + Passed(set))
      swept == [i \in DOMAIN set.nodes |->
                  IF i \in PassedSlots(set) THEN Swept(set.nodes[i])
                                           ELSE set.nodes[i]]
  IN  [nodes |-> [swept EXCEPT ![slot] = NewNode(tag, s)],
       lookup |-> Remember(Forget(set.lookup, set.nodes[slot].tag), tag, slot),
       hand |-> Around(slot + 1)]

Outcome(set, tag, s) ==
  IF tag \notin DOMAIN set.lookup THEN "line_miss"
  ELSE IF s \in set.nodes[set.lookup[tag]].mask THEN "hit" ELSE "sector_miss"

AfterRead(set, tag, s) ==
  IF tag \in DOMAIN set.lookup THEN HitLine(set, tag, s)
  ELSE IF Len(set.nodes) < ways THEN FillLine(set, tag, s)
  ELSE ReplaceLine(set, tag, s)

Access ==
  \E sm \in Sm, address \in SectorAddress, bytes \in 1 .. SectorBytes :
    /\ ready
    /\ MoveFinder(address)
    /\ IF Accepted(address, bytes)
       THEN LET offset == address - allocations[Candidate(address)].base
                tag == address \div LineBytes
                s == (offset % LineBytes) \div SectorBytes
                k == Index[offset \div LineBytes]
            IN  /\ data' = [data EXCEPT ![sm][k] = AfterRead(@, tag, s)]
                /\ answer' = [outcome |-> Outcome(data[sm][k], tag, s),
                              read |-> <<sm, tag, s>>]
       ELSE answer' = NoAnswer /\ UNCHANGED data
    /\ UNCHANGED <<ready, ways, allocations>>

(* require_sector alone, as for every store: the finder moves, no line.    *)
RequireSector ==
  /\ ready
  /\ \E address \in SectorAddress : MoveFinder(address)
  /\ answer' = NoAnswer
  /\ UNCHANGED <<ready, ways, allocations, data>>

Next == BeginKernel \/ Access \/ RequireSector

Spec == Init /\ [][Next]_vars

-----------------------------------------------------------------------------
(* Properties.                                                             *)

Node == [tag : Line, mask : SUBSET Sector, ref : BOOLEAN]
SetOK(set) == /\ set.nodes \in Seq(Node) /\ Len(set.nodes) =< ways
              /\ DOMAIN set.lookup \subseteq Line
              /\ set.hand \in 1 .. (IF ways = 0 THEN 1 ELSE ways)

(* Every set has at most `ways` lines and its hand on one of them, and the *)
(* finder is at an allocation of this kernel.                              *)
TypeOK == /\ ready \in BOOLEAN /\ ways \in Nat
          /\ \A sm \in Sm, k \in SetIndex : SetOK(data[sm][k])
          /\ ready => lastAllocation \in DOMAIN allocations

(* The lookup map and the slots describe the same lines: each tag once, at *)
(* the slot the map says, so that a line is never cached twice and a slot  *)
(* taken from a line is never found under that line's tag.                 *)
LookupExact ==
  \A sm \in Sm, k \in SetIndex :
    LET set == data[sm][k]
    IN  /\ DOMAIN set.lookup = {set.nodes[i].tag : i \in DOMAIN set.nodes}
        /\ \A i \in DOMAIN set.nodes : set.lookup[set.nodes[i].tag] = i

(* CLOCK gives the line that arrived last a second chance: once a set is   *)
(* full, the slot behind the hand is referenced, so with two ways or more  *)
(* the next miss takes another line.                                       *)
NewestProtected ==
  \A sm \in Sm, k \in SetIndex :
    LET set == data[sm][k]
        newest == IF set.hand = 1 THEN ways ELSE set.hand - 1
    IN  Len(set.nodes) = ways /\ ways > 1
          => /\ set.nodes[newest].ref
             /\ Around(set.hand + Passed(set)) # newest

(* Whatever allocation was found last, a read is accepted exactly when all *)
(* of its bytes lie in one allocation of this kernel.                      *)
SpanExact ==
  ready => \A address \in SectorAddress, bytes \in 1 .. SectorBytes :
             Accepted(address, bytes) <=>
               \E i \in DOMAIN allocations :
                 /\ allocations[i].base =< address
                 /\ address + bytes =< End(allocations[i])

(* The filter is a read filter: hits exactly on what this SM has read in   *)
(* this kernel and not lost since, one line lost at a time.                *)
Held == UNION {UNION {{<<sm, n.tag, s>> : n \in {m \in ToSet(data[sm][k].nodes)
                                                 : s \in m.mask}}
                      : s \in Sector} : sm \in Sm, k \in SetIndex}
Filter == INSTANCE ReadFilter WITH held <- Held
ReadsFiltered == Filter!Spec
=============================================================================
