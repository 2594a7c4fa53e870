------------------------- MODULE R4L1Filter_proofs -------------------------
(***************************************************************************)
(* The inductive invariant of R4L1Filter and the theorems it gives, for    *)
(* every number of SMs, sets and ways, every memory and every collection   *)
(* of allocation lists; and that the filter implements ReadFilter.         *)
(***************************************************************************)
EXTENDS R4L1Filter, Extremes, TLAPS

Lookups == UNION {[tags -> Nat] : tags \in SUBSET Line}
SetRecord == [nodes : Seq(Node), lookup : Lookups, hand : Nat]

TagsOf(set) == {set.nodes[i].tag : i \in DOMAIN set.nodes}

(* The slot behind the hand: that of the line which arrived last, once the *)
(* set is full.                                                            *)
Newest(set) == IF set.hand = 1 THEN ways ELSE set.hand - 1

(* One set: the map and the slots agree, the hand moves only once the set  *)
(* is full, and the line that arrived last is referenced.                  *)
SetInv(set) ==
  /\ set \in SetRecord
  /\ Len(set.nodes) =< ways
  /\ set.hand \in 1 .. (IF ways = 0 THEN 1 ELSE ways)
  /\ DOMAIN set.lookup = TagsOf(set)
  /\ \A i \in DOMAIN set.nodes : set.lookup[set.nodes[i].tag] = i
  /\ \A i \in DOMAIN set.nodes : set.nodes[i].mask # {}
  /\ Len(set.nodes) < ways => set.hand = 1
  /\ Len(set.nodes) = ways /\ ways > 1 => set.nodes[Newest(set)].ref

Data == [Sm -> [SetIndex -> SetRecord]]

AllocationsInv ==
  /\ allocations \in Seq(Allocation)
  /\ ready => WellFormed(allocations) /\ lastAllocation \in DOMAIN allocations

IInv == /\ ready \in BOOLEAN /\ ways \in Nat
        /\ ready => ways > 0
        /\ AllocationsInv
        /\ data \in Data
        /\ \A sm \in Sm, k \in SetIndex : SetInv(data[sm][k])

-----------------------------------------------------------------------------
USE SizesAssumption, IndexAssumption, WaysAssumption, DeclaredAssumption

(* Quotients by a size.                                                    *)
LEMMA Quotient ==
  ASSUME NEW a \in Nat, NEW d \in Nat \ {0}
  PROVE  /\ a \div d \in Nat /\ a % d \in 0 .. d - 1
         /\ a = d * (a \div d) + (a % d)
OBVIOUS

LEMMA QuotientBelow ==
  ASSUME NEW a \in Nat, NEW d \in Nat \ {0}, NEW n \in Nat \ {0}, a < d * n
  PROVE  a \div d \in 0 .. n - 1
OBVIOUS

LEMMA QuotientMonotone ==
  ASSUME NEW a \in Nat, NEW b \in Nat, NEW d \in Nat \ {0}, a =< b
  PROVE  a \div d =< b \div d
OBVIOUS

-----------------------------------------------------------------------------
(* The hand stops on a slot of the set, and never on the newest line's.    *)
LEMMA Sweep ==
  ASSUME NEW set, SetInv(set), ways \in Nat \ {0}, Len(set.nodes) = ways
  PROVE  /\ Passed(set) \in 0 .. ways
         /\ Around(set.hand + Passed(set)) \in 1 .. ways
         /\ ways > 1 => Around(set.hand + Passed(set)) # Newest(set)
<1>. DEFINE stops == {d \in 0 .. ways - 1 : ~set.nodes[Around(set.hand + d)].ref}
<1>1. set.hand \in 1 .. ways
  BY DEF SetInv
<1>2. stops \in SUBSET Nat
  OBVIOUS
<1>3. CASE stops = {}
  <2>1. Passed(set) = ways
    BY <1>3 DEF Passed
  <2>2. Around(set.hand + ways) = set.hand
    BY <1>1 DEF Around
  <2>. QED BY <1>1, <2>1, <2>2 DEF Newest
<1>4. CASE stops # {}
  <2>1. Passed(set) = Min(stops)
    BY <1>4 DEF Passed
  <2>. HIDE DEF stops
  <2>2. Passed(set) \in stops
    BY <1>2, <1>4, <2>1, LeastOf
  <2>. USE DEF stops
  <2>3. Passed(set) \in 0 .. ways - 1
    BY <2>2
  <2>. DEFINE at == set.hand + Passed(set)
  <2>4. at \in Nat /\ 1 =< at /\ at < ways + ways
    BY <1>1, <2>3
  <2>. HIDE DEF at
  <2>5. Around(at) \in 1 .. ways
    BY <2>4 DEF Around
  <2>. USE DEF at
  <2>6. ~set.nodes[Around(at)].ref
    BY <2>2
  <2>. QED BY <2>5, <2>6, <2>3 DEF SetInv
<1>. QED BY <1>3, <1>4

-----------------------------------------------------------------------------
(* What one accepted read does to its set.                                 *)

LEMMA HitKeeps ==
  ASSUME NEW set, SetInv(set), ways \in Nat \ {0},
         NEW tag \in DOMAIN set.lookup, NEW s \in Sector
  PROVE  SetInv(HitLine(set, tag, s))
<1>. DEFINE slot == set.lookup[tag]
            node == Touched(set.nodes[slot], s)
            after == [nodes |-> [set.nodes EXCEPT ![slot] = node],
                      lookup |-> set.lookup, hand |-> set.hand]
<1>1. /\ set \in SetRecord
      /\ DOMAIN set.lookup = TagsOf(set)
      /\ \A i \in DOMAIN set.nodes : set.lookup[set.nodes[i].tag] = i
  BY DEF SetInv
<1>2. slot \in DOMAIN set.nodes /\ set.nodes[slot].tag = tag
  BY <1>1 DEF TagsOf
<1>3. set.nodes \in Seq(Node) /\ set.nodes[slot] \in Node
  BY <1>1, <1>2 DEF SetRecord
<1>4. HitLine(set, tag, s) = after
  BY DEF HitLine
<1>5. node \in Node /\ node.tag = tag /\ node.mask # {} /\ node.ref
  BY <1>2, <1>3 DEF Node, Touched
<1>. HIDE DEF node
<1>6. after.nodes \in Seq(Node) /\ Len(after.nodes) = Len(set.nodes)
  BY <1>2, <1>3, <1>5
<1>7. after \in SetRecord
  BY <1>1, <1>6 DEF SetRecord
<1>8. \A i \in DOMAIN after.nodes : after.nodes[i].tag = set.nodes[i].tag
  BY <1>2, <1>3, <1>5
<1>9. TagsOf(after) = TagsOf(set)
  BY <1>3, <1>6, <1>8 DEF TagsOf
<1>10. \A i \in DOMAIN after.nodes : after.nodes[i].mask # {}
  BY <1>3, <1>5 DEF SetInv
<1>11. Len(after.nodes) = ways /\ ways > 1 => after.nodes[Newest(after)].ref
  BY <1>2, <1>3, <1>5, <1>6 DEF SetInv, Newest
<1>12. /\ Len(set.nodes) =< ways
       /\ set.hand \in 1 .. (IF ways = 0 THEN 1 ELSE ways)
       /\ Len(set.nodes) < ways => set.hand = 1
  BY DEF SetInv
<1>13. after.lookup = set.lookup /\ after.hand = set.hand
  OBVIOUS
<1>14. DOMAIN after.nodes = DOMAIN set.nodes
  BY <1>3, <1>6
<1>. HIDE DEF after
<1>. QED BY <1>12, <1>13, <1>14, <1>1, <1>3, <1>4, <1>6, <1>7, <1>8, <1>9, <1>10, <1>11 DEF SetInv

LEMMA FillKeeps ==
  ASSUME NEW set, SetInv(set), ways \in Nat \ {0}, Len(set.nodes) < ways,
         NEW tag \in Line, tag \notin DOMAIN set.lookup, NEW s \in Sector
  PROVE  SetInv(FillLine(set, tag, s))
<1>. DEFINE n == Len(set.nodes)
            nodes == Append(set.nodes, NewNode(tag, s))
            lookup == Remember(set.lookup, tag, n + 1)
            after == [nodes |-> nodes, lookup |-> lookup, hand |-> 1]
<1>1. /\ set \in SetRecord
      /\ DOMAIN set.lookup = TagsOf(set)
      /\ \A i \in DOMAIN set.nodes : set.lookup[set.nodes[i].tag] = i
      /\ set.hand = 1
  BY DEF SetInv
<1>2. set.nodes \in Seq(Node) /\ n \in Nat
  BY <1>1 DEF SetRecord
<1>3. FillLine(set, tag, s) = after
  BY <1>1 DEF FillLine
<1>4. NewNode(tag, s) \in Node
  BY DEF NewNode, Node
<1>5. /\ nodes \in Seq(Node) /\ Len(nodes) = n + 1
      /\ DOMAIN nodes = 1 .. n + 1 /\ DOMAIN set.nodes = 1 .. n
      /\ \A i \in 1 .. n : nodes[i] = set.nodes[i]
      /\ nodes[n + 1] = NewNode(tag, s)
  BY <1>2, <1>4
<1>6. DOMAIN lookup = DOMAIN set.lookup \cup {tag}
  BY DEF Remember
<1>7. lookup \in Lookups
  <2>1. PICK tags \in SUBSET Line : set.lookup \in [tags -> Nat]
    BY <1>1 DEF SetRecord, Lookups
  <2>2. lookup \in [tags \cup {tag} -> Nat]
    BY <2>1, <1>2 DEF Remember
  <2>3. tags \cup {tag} \in SUBSET Line
    OBVIOUS
  <2>. HIDE DEF lookup
  <2>. QED BY <2>2, <2>3 DEF Lookups
<1>8. TagsOf(after) = TagsOf(set) \cup {tag}
  <2>. HIDE DEF nodes
  <2>1. TagsOf(after) = {nodes[i].tag : i \in 1 .. n + 1}
    BY <1>5 DEF TagsOf
  <2>2. TagsOf(set) = {set.nodes[i].tag : i \in 1 .. n}
    BY <1>5 DEF TagsOf
  <2>3. nodes[n + 1].tag = tag
    BY <1>5 DEF NewNode
  <2>4. \A i \in 1 .. n + 1 : i = n + 1 \/ i \in 1 .. n
    BY <1>2
  <2>5. \A i \in 1 .. n : i \in 1 .. n + 1 /\ nodes[i].tag = set.nodes[i].tag
    BY <1>2, <1>5
  <2>6. n + 1 \in 1 .. n + 1
    BY <1>2
  <2>. HIDE DEF after
  <2>7. TagsOf(after) \subseteq TagsOf(set) \cup {tag}
    BY <2>1, <2>2, <2>3, <2>4, <2>5
  <2>8. TagsOf(set) \cup {tag} \subseteq TagsOf(after)
    BY <2>1, <2>2, <2>3, <2>5, <2>6
  <2>. QED BY <2>7, <2>8
<1>9. \A i \in DOMAIN nodes : lookup[nodes[i].tag] = i
  <2>1. ASSUME NEW i \in 1 .. n PROVE lookup[nodes[i].tag] = i
    <3>1. nodes[i].tag \in DOMAIN set.lookup
      BY <1>1, <1>5 DEF TagsOf
    <3>. QED BY <3>1, <1>1, <1>5 DEF Remember
  <2>2. lookup[nodes[n + 1].tag] = n + 1
    BY <1>5 DEF Remember, NewNode
  <2>. QED BY <2>1, <2>2, <1>2, <1>5
<1>10. \A i \in DOMAIN nodes : nodes[i].mask # {}
  <2>1. \A i \in 1 .. n : set.nodes[i].mask # {}
    BY <1>5 DEF SetInv
  <2>2. NewNode(tag, s).mask # {}
    BY DEF NewNode
  <2>. QED BY <2>1, <2>2, <1>2, <1>5
<1>11. Len(nodes) = ways /\ ways > 1 => nodes[Newest(after)].ref
  BY <1>5 DEF Newest, NewNode
<1>12. after \in SetRecord
  BY <1>5, <1>7 DEF SetRecord
<1>. HIDE DEF nodes, lookup
<1>13. after.nodes = nodes /\ after.lookup = lookup /\ after.hand = 1
  OBVIOUS
<1>. HIDE DEF after
<1>. QED BY <1>1, <1>2, <1>3, <1>5, <1>6, <1>8, <1>9, <1>10, <1>11, <1>12, <1>13
         DEF SetInv

LEMMA ReplaceKeeps ==
  ASSUME NEW set, SetInv(set), ways \in Nat \ {0}, Len(set.nodes) = ways,
         NEW tag \in Line, tag \notin DOMAIN set.lookup, NEW s \in Sector
  PROVE  SetInv(ReplaceLine(set, tag, s))
<1>. DEFINE slot == Around(set.hand + Passed(set))
            swept == [i \in DOMAIN set.nodes |->
                        IF i \in PassedSlots(set)
                        THEN Swept(set.nodes[i]) ELSE set.nodes[i]]
            nodes == [swept EXCEPT ![slot] = NewNode(tag, s)]
            victim == set.nodes[slot].tag
            lookup == Remember(Forget(set.lookup, victim), tag, slot)
            hand == Around(slot + 1)
            after == [nodes |-> nodes, lookup |-> lookup, hand |-> hand]
<1>1. /\ set \in SetRecord
      /\ DOMAIN set.lookup = TagsOf(set)
      /\ \A i \in DOMAIN set.nodes : set.lookup[set.nodes[i].tag] = i
  BY DEF SetInv
<1>2. set.nodes \in Seq(Node) /\ DOMAIN set.nodes = 1 .. ways
  BY <1>1 DEF SetRecord
<1>3. slot \in 1 .. ways
  BY Sweep
<1>4. ReplaceLine(set, tag, s) = after
  BY DEF ReplaceLine
<1>. HIDE DEF slot
<1>5. NewNode(tag, s) \in Node
  BY DEF NewNode, Node
<1>6. \A i \in 1 .. ways : /\ swept[i] \in Node
                           /\ swept[i].tag = set.nodes[i].tag
                           /\ swept[i].mask = set.nodes[i].mask
  <2>1. ASSUME NEW i \in 1 .. ways
        PROVE  set.nodes[i] \in Node /\ Swept(set.nodes[i]) \in Node
    <3>1. set.nodes[i] \in Node
      BY <1>2
    <3>. QED BY <3>1 DEF Node, Swept
  <2>. QED BY <2>1, <1>2 DEF Swept
<1>7. DOMAIN swept = 1 .. ways
  BY <1>2
<1>. HIDE DEF swept
<1>8. /\ DOMAIN nodes = 1 .. ways
      /\ nodes[slot] = NewNode(tag, s)
      /\ \A i \in 1 .. ways : i # slot => nodes[i] = swept[i]
  BY <1>3, <1>7
<1>9. \A i \in 1 .. ways : nodes[i] \in Node
  BY <1>5, <1>6, <1>8
<1>10. nodes \in Seq(Node) /\ Len(nodes) = ways
  <2>. HIDE DEF nodes
  <2>1. nodes \in [1 .. ways -> Node]
    BY <1>8, <1>9, <1>7 DEF nodes
  <2>. QED BY <2>1
<1>. HIDE DEF nodes
<1>11. victim \in DOMAIN set.lookup /\ set.lookup[victim] = slot
  BY <1>1, <1>2, <1>3 DEF TagsOf
<1>12. DOMAIN lookup = (DOMAIN set.lookup \ {victim}) \cup {tag}
  BY DEF Remember, Forget
<1>13. lookup \in Lookups
  <2>1. PICK tags \in SUBSET Line : set.lookup \in [tags -> Nat]
    BY <1>1 DEF SetRecord, Lookups
  <2>2. lookup \in [(tags \ {victim}) \cup {tag} -> Nat]
    BY <2>1, <1>3 DEF Remember, Forget
  <2>3. (tags \ {victim}) \cup {tag} \in SUBSET Line
    OBVIOUS
  <2>. HIDE DEF lookup
  <2>. QED BY <2>2, <2>3 DEF Lookups
<1>14. \A i \in 1 .. ways : i # slot
         => nodes[i].tag = set.nodes[i].tag /\ nodes[i].tag # victim
  <2>1. ASSUME NEW i \in 1 .. ways, i # slot
        PROVE  nodes[i].tag = set.nodes[i].tag /\ nodes[i].tag # victim
    <3>1. nodes[i].tag = set.nodes[i].tag
      BY <2>1, <1>6, <1>8
    <3>2. set.lookup[set.nodes[i].tag] = i
      BY <1>1, <1>2
    <3>. QED BY <2>1, <3>1, <3>2, <1>11
  <2>. QED BY <2>1
<1>15. nodes[slot].tag = tag
  BY <1>8 DEF NewNode
<1>16. TagsOf(after) = (TagsOf(set) \ {victim}) \cup {tag}
  <2>1. TagsOf(after) = {nodes[i].tag : i \in 1 .. ways}
    BY <1>8 DEF TagsOf
  <2>2. TagsOf(set) = {set.nodes[i].tag : i \in 1 .. ways}
    BY <1>2 DEF TagsOf
  <2>. HIDE DEF after
  <2>3. ASSUME NEW i \in 1 .. ways
        PROVE  nodes[i].tag \in (TagsOf(set) \ {victim}) \cup {tag}
    <3>1. CASE i = slot
      BY <1>15, <3>1
    <3>2. CASE i # slot
      BY <2>2, <1>14, <3>2
    <3>. QED BY <3>1, <3>2
  <2>4. ASSUME NEW i \in 1 .. ways, set.nodes[i].tag # victim
        PROVE  set.nodes[i].tag \in TagsOf(after)
    BY <2>1, <2>4, <1>14
  <2>5. tag \in TagsOf(after)
    BY <2>1, <1>3, <1>15
  <2>6. TagsOf(after) \subseteq (TagsOf(set) \ {victim}) \cup {tag}
    BY <2>1, <2>3
  <2>7. TagsOf(set) \ {victim} \subseteq TagsOf(after)
    BY <2>2, <2>4
  <2>. QED BY <2>5, <2>6, <2>7
<1>17. \A i \in 1 .. ways : lookup[nodes[i].tag] = i
  <2>1. ASSUME NEW i \in 1 .. ways, i # slot PROVE lookup[nodes[i].tag] = i
    <3>1. nodes[i].tag \in DOMAIN set.lookup \ {victim}
      BY <2>1, <1>1, <1>2, <1>14 DEF TagsOf
    <3>2. nodes[i].tag # tag
      BY <3>1
    <3>. QED BY <2>1, <3>1, <3>2, <1>1, <1>2, <1>14 DEF Remember, Forget
  <2>2. lookup[nodes[slot].tag] = slot
    BY <1>15 DEF Remember
  <2>. QED BY <2>1, <2>2
<1>18. \A i \in 1 .. ways : nodes[i].mask # {}
  <2>1. \A i \in 1 .. ways : set.nodes[i].mask # {}
    BY <1>2 DEF SetInv
  <2>2. NewNode(tag, s).mask # {}
    BY DEF NewNode
  <2>. QED BY <2>1, <2>2, <1>6, <1>8
<1>19. hand \in 1 .. ways /\ Newest(after) = slot
  BY <1>3 DEF Around, Newest
<1>20. nodes[Newest(after)].ref
  BY <1>8, <1>19 DEF NewNode
<1>21. after \in SetRecord
  BY <1>10, <1>13, <1>19 DEF SetRecord
<1>. HIDE DEF lookup, hand
<1>22. after.nodes = nodes /\ after.lookup = lookup /\ after.hand = hand
  OBVIOUS
<1>. HIDE DEF after
<1>. QED BY <1>1, <1>4, <1>8, <1>10, <1>12, <1>16, <1>17, <1>18, <1>19, <1>20,
            <1>21, <1>22 DEF SetInv

LEMMA ReadKeeps ==
  ASSUME NEW set, SetInv(set), ways \in Nat \ {0},
         NEW tag \in Line, NEW s \in Sector
  PROVE  SetInv(AfterRead(set, tag, s))
<1>1. Len(set.nodes) \in Nat /\ Len(set.nodes) =< ways
  BY DEF SetInv, SetRecord
<1>2. CASE tag \in DOMAIN set.lookup
  BY <1>2, HitKeeps DEF AfterRead
<1>3. CASE tag \notin DOMAIN set.lookup /\ Len(set.nodes) < ways
  BY <1>3, FillKeeps DEF AfterRead
<1>4. CASE tag \notin DOMAIN set.lookup /\ Len(set.nodes) = ways
  BY <1>1, <1>4, ReplaceKeeps DEF AfterRead
<1>. QED BY <1>1, <1>2, <1>3, <1>4

LEMMA EmptyRecord ==
  /\ EmptySet.nodes = <<>> /\ EmptySet.lookup = <<>> /\ EmptySet.hand = 1
  /\ EmptySet \in SetRecord
  /\ DOMAIN EmptySet.lookup = TagsOf(EmptySet)
<1>1. EmptySet.nodes = <<>> /\ EmptySet.lookup = <<>> /\ EmptySet.hand = 1
  BY DEF EmptySet
<1>2. <<>> \in Lookups
  <2>1. <<>> \in [{} -> Nat]
    OBVIOUS
  <2>. QED BY <2>1 DEF Lookups
<1>3. EmptySet \in SetRecord
  BY <1>2 DEF EmptySet, SetRecord
<1>4. TagsOf(EmptySet) = {} /\ DOMAIN EmptySet.lookup = {}
  BY <1>1 DEF TagsOf
<1>. QED BY <1>1, <1>3, <1>4

-----------------------------------------------------------------------------
(* The allocations of a kernel and the spans inside them.                  *)

LEMMA FieldsOf ==
  ASSUME NEW list \in Seq(Allocation)
  PROVE  /\ DOMAIN list = 1 .. Len(list) /\ Len(list) \in Nat
         /\ \A m \in DOMAIN list : /\ list[m].base \in Nat
                                  /\ End(list[m]) \in Nat
                                  /\ list[m].base =< End(list[m])
<1>1. ASSUME NEW m \in DOMAIN list
      PROVE  /\ list[m].base \in Nat
             /\ End(list[m]) \in Nat
             /\ list[m].base =< End(list[m])
  <2>1. list[m] \in Allocation
    OBVIOUS
  <2>. QED BY <2>1 DEF Allocation, End
<1>. QED BY <1>1

(* Allocations in order one by one are in order altogether.                *)
LEMMA Apart ==
  ASSUME NEW list \in Seq(Allocation), WellFormed(list),
         NEW i \in DOMAIN list, NEW j \in DOMAIN list, i < j
  PROVE  End(list[i]) =< list[j].base
<1>. DEFINE late == {m \in DOMAIN list : i < m /\ ~(End(list[i]) =< list[m].base)}
<1>1. /\ DOMAIN list = 1 .. Len(list) /\ Len(list) \in Nat
      /\ \A m \in DOMAIN list : /\ list[m].base \in Nat
                               /\ End(list[m]) \in Nat
                               /\ list[m].base =< End(list[m])
  BY FieldsOf
<1>2. \A m \in DOMAIN list \ {1} : End(list[m - 1]) =< list[m].base
  BY DEF WellFormed
<1>3. SUFFICES ASSUME late # {} PROVE FALSE
  OBVIOUS
<1>4. late \in SUBSET Nat
  BY <1>1
<1>. DEFINE m == Min(late)
<1>5. m \in late /\ \A y \in late : m =< y
  BY <1>3, <1>4, LeastOf
<1>. HIDE DEF m
<1>. HIDE DEF late
<1>6. m \in DOMAIN list /\ i < m /\ ~(End(list[i]) =< list[m].base)
  BY <1>5 DEF late
<1>7. m \in Nat /\ i \in Nat /\ m # 1 /\ m - 1 \in DOMAIN list
  BY <1>1, <1>6
<1>8. End(list[m - 1]) =< list[m].base
  BY <1>2, <1>6, <1>7
<1>9. CASE m - 1 = i
  BY <1>6, <1>8, <1>9
<1>10. CASE m - 1 # i
  <2>1. i < m - 1 /\ m - 1 \notin late
    BY <1>5, <1>6, <1>7, <1>10
  <2>2. End(list[i]) =< list[m - 1].base
    BY <2>1, <1>7 DEF late
  <2>3. /\ End(list[i]) \in Nat /\ list[m].base \in Nat
        /\ list[m - 1].base \in Nat /\ End(list[m - 1]) \in Nat
        /\ list[m - 1].base =< End(list[m - 1])
    BY <1>1, <1>6, <1>7
  <2>4. End(list[i]) =< list[m].base
    <3>1. \A a, b, c, d \in Nat : a =< b /\ b =< c /\ c =< d => a =< d
      OBVIOUS
    <3>. QED BY <2>2, <2>3, <1>8, <3>1
  <2>. QED BY <2>4, <1>6
<1>. QED BY <1>9, <1>10

(* The finder's candidate is one of the allocations, or there is none.     *)
LEMMA CandidateOf ==
  ASSUME AllocationsInv, ready, NEW address \in SectorAddress,
         Candidate(address) # 0
  PROVE  Candidate(address) \in DOMAIN allocations
<1>. DEFINE below == {i \in DOMAIN allocations : allocations[i].base =< address}
<1>1. lastAllocation \in DOMAIN allocations
  BY DEF AllocationsInv
<1>2. below \in SUBSET (0 .. Len(allocations)) /\ Len(allocations) \in Nat
  BY DEF AllocationsInv
<1>3. CASE Inside(allocations[lastAllocation], address)
  BY <1>1, <1>3 DEF Candidate
<1>4. CASE ~Inside(allocations[lastAllocation], address)
  <2>1. below # {} /\ Candidate(address) = Max(below)
    BY <1>4 DEF Candidate
  <2>2. Max(below) \in below
    BY <2>1, <1>2, GreatestOf
  <2>. QED BY <2>1, <2>2
<1>. QED BY <1>3, <1>4

(* An address of an allocation is found there, whatever was found last.    *)
LEMMA FoundWhere ==
  ASSUME AllocationsInv, ready, NEW address \in SectorAddress,
         NEW i \in DOMAIN allocations, Inside(allocations[i], address)
  PROVE  Candidate(address) = i
<1>. DEFINE below == {j \in DOMAIN allocations : allocations[j].base =< address}
<1>1. /\ allocations \in Seq(Allocation) /\ WellFormed(allocations)
      /\ lastAllocation \in DOMAIN allocations
  BY DEF AllocationsInv
<1>2. /\ address \in Nat
      /\ DOMAIN allocations = 1 .. Len(allocations) /\ Len(allocations) \in Nat
      /\ \A j \in DOMAIN allocations : /\ allocations[j].base \in Nat
                                      /\ End(allocations[j]) \in Nat
  <2>1. address \in Nat
    BY DEF SectorAddress
  <2>. QED BY <2>1, <1>1, FieldsOf
<1>3. ASSUME NEW j \in DOMAIN allocations, Inside(allocations[j], address)
      PROVE  i = j
  <2>1. i < j => End(allocations[i]) =< allocations[j].base
    BY <1>1, Apart
  <2>2. j < i => End(allocations[j]) =< allocations[i].base
    BY <1>1, Apart
  <2>. QED BY <2>1, <2>2, <1>2, <1>3 DEF Inside
<1>4. CASE Inside(allocations[lastAllocation], address)
  BY <1>1, <1>3, <1>4 DEF Candidate
<1>5. CASE ~Inside(allocations[lastAllocation], address)
  <2>1. i \in below
    BY DEF Inside
  <2>2. Candidate(address) = Max(below)
    BY <1>5, <2>1 DEF Candidate
  <2>3. below \in SUBSET (0 .. Len(allocations))
    BY <1>2
  <2>4. Max(below) \in below /\ \A j \in below : j =< Max(below)
    BY <1>2, <2>1, <2>3, GreatestOf
  <2>5. i =< Max(below) /\ Max(below) \in DOMAIN allocations
        /\ allocations[Max(below)].base =< address
    BY <2>1, <2>4
  <2>. HIDE DEF below
  <2>6. i < Max(below) => End(allocations[i]) =< allocations[Max(below)].base
    BY <1>1, <2>5, Apart
  <2>7. ~(i < Max(below))
    BY <1>2, <2>5, <2>6 DEF Inside
  <2>. QED BY <1>2, <2>2, <2>5, <2>7
<1>. QED BY <1>4, <1>5

(* An accepted address selects a set, a line and a sector of the model.    *)
LEMMA Selected ==
  ASSUME AllocationsInv, ready, NEW address \in SectorAddress, Found(address),
         NEW offset, offset = address - allocations[Candidate(address)].base
  PROVE  /\ address \div LineBytes \in Line
         /\ (offset % LineBytes) \div SectorBytes \in Sector
         /\ Index[offset \div LineBytes] \in SetIndex
<1>1. /\ SectorBytes \in Nat \ {0} /\ LineSectors \in Nat \ {0}
      /\ MaxAddress \in Nat \ {0}
  BY DEF SizesAssumption
<1>2. LineBytes \in Nat \ {0} /\ LineBytes = SectorBytes * LineSectors
  BY <1>1 DEF LineBytes
<1>3. Candidate(address) \in DOMAIN allocations
  BY CandidateOf DEF Found
<1>4. allocations[Candidate(address)].base \in Nat
  BY <1>3, FieldsOf DEF AllocationsInv
<1>5. address \in Nat /\ address =< MaxAddress
  BY <1>1 DEF SectorAddress
<1>6. offset \in Nat /\ offset =< address
  BY <1>4, <1>5 DEF Found, Inside
<1>7. \A a \in Nat : a =< MaxAddress => a \div LineBytes \in Line
  <2>1. ASSUME NEW a \in Nat, a =< MaxAddress PROVE a \div LineBytes \in Line
    <3>1. a \div LineBytes \in Nat /\ MaxAddress \div LineBytes \in Nat
      BY <1>1, <1>2, Quotient
    <3>2. a \div LineBytes =< MaxAddress \div LineBytes
      BY <1>1, <1>2, <2>1, QuotientMonotone
    <3>. QED BY <3>1, <3>2 DEF Line
  <2>. QED BY <2>1
<1>8. offset \div LineBytes \in Line /\ address \div LineBytes \in Line
  BY <1>1, <1>5, <1>6, <1>7
<1>9. offset % LineBytes \in Nat /\ offset % LineBytes < SectorBytes * LineSectors
  <2>1. offset % LineBytes \in 0 .. LineBytes - 1
    BY <1>2, <1>6, Quotient
  <2>2. LineBytes \in Nat
    BY <1>2
  <2>. QED BY <2>1, <2>2, <1>2
<1>10. (offset % LineBytes) \div SectorBytes \in Sector
  BY <1>1, <1>9, QuotientBelow DEF Sector
<1>. QED BY <1>8, <1>10 DEF IndexAssumption

-----------------------------------------------------------------------------
(* The invariant.                                                          *)

LEMMA Initially == Init => IInv
<1>. SUFFICES ASSUME Init PROVE IInv
  OBVIOUS
<1>1. ways \in Nat
  BY DEF Init
<1>2. SetInv(EmptySet)
  BY <1>1, EmptyRecord DEF SetInv
<1>3. data \in Data
  BY EmptyRecord DEF Init, Data
<1>4. \A sm \in Sm, k \in SetIndex : SetInv(data[sm][k])
  BY <1>2 DEF Init
<1>5. AllocationsInv
  BY DEF Init, AllocationsInv
<1>. QED BY <1>3, <1>4, <1>5 DEF Init, IInv

LEMMA BeginKernelKeeps ==
  ASSUME BeginKernel PROVE IInv'
<1>1. PICK shared \in Shared, list \in Declared : \E sorted \in ByBase(list) :
        /\ WellFormed(sorted)
        /\ allocations' = sorted
        /\ ways' = WaysFor[shared]
        /\ ResetFinder
        /\ ResetSets
        /\ ready' = TRUE
  BY DEF BeginKernel
<1>2. PICK sorted \in ByBase(list) : WellFormed(sorted) /\ allocations' = sorted
  BY <1>1
<1>3. PICK order \in [DOMAIN list -> DOMAIN list] :
        sorted = [i \in DOMAIN list |-> list[order[i]]]
  BY <1>2 DEF ByBase, Orders
<1>4. list \in Seq(Allocation)
  BY DEF DeclaredAssumption
<1>5. sorted \in Seq(Allocation)
  <2>1. sorted \in [1 .. Len(list) -> Allocation]
    BY <1>3, <1>4
  <2>. QED BY <1>4, <2>1
<1>6. 1 \in DOMAIN sorted
  BY <1>2, <1>5 DEF WellFormed
<1>7. AllocationsInv'
  BY <1>1, <1>2, <1>5, <1>6 DEF AllocationsInv, ResetFinder, WellFormed, End
<1>8. ways' \in Nat \ {0}
  BY <1>1 DEF WaysAssumption
<1>9. SetInv(EmptySet)'
  BY <1>8, EmptyRecord DEF SetInv
<1>11. data' \in Data
  BY <1>1, EmptyRecord DEF ResetSets, Data
<1>12. \A sm \in Sm, k \in SetIndex : SetInv(data[sm][k])'
  BY <1>1, <1>9 DEF ResetSets
<1>. QED BY <1>1, <1>7, <1>8, <1>11, <1>12 DEF IInv

(* The finder stays on an allocation of the kernel.                        *)
LEMMA FinderKeeps ==
  ASSUME IInv, ready, NEW address \in SectorAddress, MoveFinder(address),
         UNCHANGED <<ready, ways, allocations>>
  PROVE  AllocationsInv'
<1>1. AllocationsInv
  BY DEF IInv
<1>2. lastAllocation' \in DOMAIN allocations
  <2>1. CASE Found(address)
    BY <1>1, <2>1, CandidateOf DEF Found, MoveFinder
  <2>2. CASE ~Found(address)
    BY <1>1, <2>2 DEF MoveFinder, AllocationsInv
  <2>. QED BY <2>1, <2>2
<1>. QED BY <1>1, <1>2 DEF AllocationsInv, WellFormed, End

LEMMA AccessKeeps ==
  ASSUME IInv, Access PROVE IInv'
<1>1. PICK sm \in Sm, address \in SectorAddress, bytes \in 1 .. SectorBytes :
        /\ ready
        /\ MoveFinder(address)
        /\ IF Accepted(address, bytes)
           THEN LET offset == address - allocations[Candidate(address)].base
                    tag == address \div LineBytes
                    s == (offset % LineBytes) \div SectorBytes
                    k == Index[offset \div LineBytes]
                IN  data' = [data EXCEPT ![sm][k] = AfterRead(@, tag, s)]
           ELSE UNCHANGED data
        /\ UNCHANGED <<ready, ways, allocations>>
  BY DEF Access
<1>2. /\ AllocationsInv /\ ways \in Nat \ {0} /\ data \in Data
      /\ \A p \in Sm, k \in SetIndex : SetInv(data[p][k])
  BY <1>1 DEF IInv
<1>3. AllocationsInv'
  BY <1>1, FinderKeeps
<1>4. ready' \in BOOLEAN /\ ways' \in Nat /\ (ready' => ways' > 0)
  BY <1>1 DEF IInv
<1>5. \A set : SetInv(set) => SetInv(set)'
  BY <1>1 DEF SetInv, Newest, TagsOf
<1>6. CASE ~Accepted(address, bytes)
  <2>1. data' = data
    BY <1>1, <1>6
  <2>. QED BY <1>2, <1>3, <1>4, <1>5, <2>1 DEF IInv
<1>7. CASE Accepted(address, bytes)
  <2>. DEFINE offset == address - allocations[Candidate(address)].base
              tag == address \div LineBytes
              s == (offset % LineBytes) \div SectorBytes
              k == Index[offset \div LineBytes]
              after == AfterRead(data[sm][k], tag, s)
  <2>1. tag \in Line /\ s \in Sector /\ k \in SetIndex
    BY <1>1, <1>2, <1>7, Selected DEF Accepted
  <2>2. data' = [data EXCEPT ![sm][k] = after]
    BY <1>1, <1>7
  <2>. HIDE DEF tag, s, k
  <2>3. SetInv(after)
    BY <1>2, <2>1, ReadKeeps
  <2>4. after \in SetRecord
    BY <2>3 DEF SetInv
  <2>. HIDE DEF after
  <2>5. data' \in Data
    BY <1>2, <2>1, <2>2, <2>4 DEF Data
  <2>6. \A p \in Sm, j \in SetIndex :
          data'[p][j] = IF p = sm /\ j = k THEN after ELSE data[p][j]
    BY <1>2, <2>1, <2>2 DEF Data
  <2>7. \A p \in Sm, j \in SetIndex : SetInv(data'[p][j])
    BY <1>2, <2>3, <2>6
  <2>8. (\A p \in Sm, j \in SetIndex : SetInv(data[p][j]))'
    BY <1>5, <2>7
  <2>. QED BY <1>3, <1>4, <2>5, <2>8 DEF IInv
<1>. QED BY <1>6, <1>7

LEMMA RequireSectorKeeps ==
  ASSUME IInv, RequireSector PROVE IInv'
<1>1. AllocationsInv'
  BY FinderKeeps DEF RequireSector
<1>2. UNCHANGED <<ready, ways, data>>
  BY DEF RequireSector
<1>3. \A set : SetInv(set) => SetInv(set)'
  BY <1>2 DEF SetInv, Newest, TagsOf
<1>. QED BY <1>1, <1>2, <1>3 DEF IInv

LEMMA StutterKeeps ==
  ASSUME IInv, UNCHANGED vars PROVE IInv'
<1>1. UNCHANGED <<ready, ways, allocations, lastAllocation, data>>
  BY DEF vars
<1>2. \A set : SetInv(set) => SetInv(set)'
  BY <1>1 DEF SetInv, Newest, TagsOf
<1>. QED BY <1>1, <1>2 DEF IInv, AllocationsInv, WellFormed, End

LEMMA NextKeeps ==
  ASSUME IInv, [Next]_vars PROVE IInv'
<1>1. CASE BeginKernel
  BY <1>1, BeginKernelKeeps
<1>2. CASE Access
  BY <1>2, AccessKeeps
<1>3. CASE RequireSector
  BY <1>3, RequireSectorKeeps
<1>4. CASE UNCHANGED vars
  BY <1>4, StutterKeeps
<1>. QED BY <1>1, <1>2, <1>3, <1>4 DEF Next

(* Every reachable state has the invariant.                                *)
THEOREM Invariance == Spec => []IInv
<1>1. IInv /\ [Next]_vars => IInv'
  BY NextKeeps
<1>. QED BY Initially, <1>1, PTL DEF Spec

-----------------------------------------------------------------------------
(* What the invariant gives.                                               *)

(* The cache's structure and the finder stay within their bounds.          *)
THEOREM TypeCorrect == Spec => []TypeOK
<1>1. IInv => TypeOK
  <2>. SUFFICES ASSUME IInv PROVE TypeOK
    OBVIOUS
  <2>1. ASSUME NEW sm \in Sm, NEW k \in SetIndex PROVE SetOK(data[sm][k])
    <3>. DEFINE set == data[sm][k]
    <3>1. SetInv(set)
      BY DEF IInv
    <3>. HIDE DEF set
    <3>2. DOMAIN set.lookup \subseteq Line
      BY <3>1 DEF SetInv, SetRecord, Lookups
    <3>3. SetOK(set)
      BY <3>1, <3>2 DEF SetInv, SetRecord, SetOK
    <3>. QED BY <3>3 DEF set
  <2>. QED BY <2>1 DEF IInv, AllocationsInv, TypeOK
<1>. QED BY Invariance, <1>1, PTL

(* The lookup map and the slots describe the same lines.                   *)
THEOREM MapExact == Spec => []LookupExact
<1>1. IInv => LookupExact
  BY DEF IInv, SetInv, TagsOf, LookupExact
<1>. QED BY Invariance, <1>1, PTL

(* CLOCK never takes the line that arrived last.                           *)
THEOREM SecondChance == Spec => []NewestProtected
<1>1. IInv => NewestProtected
  <2>. SUFFICES ASSUME IInv, NEW sm \in Sm, NEW k \in SetIndex,
                       Len(data[sm][k].nodes) = ways, ways > 1
                PROVE  /\ data[sm][k].nodes[Newest(data[sm][k])].ref
                       /\ Around(data[sm][k].hand + Passed(data[sm][k]))
                            # Newest(data[sm][k])
    BY DEF NewestProtected, Newest
  <2>1. SetInv(data[sm][k]) /\ ways \in Nat \ {0}
    BY DEF IInv
  <2>2. data[sm][k].nodes[Newest(data[sm][k])].ref
    BY <2>1 DEF SetInv
  <2>. QED BY <2>1, <2>2, Sweep
<1>. QED BY Invariance, <1>1, PTL

(* A read is accepted exactly when it lies inside one allocation.          *)
THEOREM SpansExact == Spec => []SpanExact
<1>1. IInv => SpanExact
  <2>. SUFFICES ASSUME IInv, ready, NEW address \in SectorAddress,
                       NEW bytes \in 1 .. SectorBytes
                PROVE  Accepted(address, bytes) <=>
                         \E i \in DOMAIN allocations :
                           /\ allocations[i].base =< address
                           /\ address + bytes =< End(allocations[i])
    BY DEF SpanExact
  <2>1. AllocationsInv
    BY DEF IInv
  <2>2. ASSUME Accepted(address, bytes)
        PROVE  \E i \in DOMAIN allocations :
                 /\ allocations[i].base =< address
                 /\ address + bytes =< End(allocations[i])
    <3>1. Candidate(address) \in DOMAIN allocations
      BY <2>1, <2>2, CandidateOf DEF Accepted, Found
    <3>. QED BY <2>2, <3>1 DEF Accepted, Found, FitsSpan, Inside
  <2>3. ASSUME NEW i \in DOMAIN allocations,
               allocations[i].base =< address,
               address + bytes =< End(allocations[i])
        PROVE  Accepted(address, bytes)
    <3>1. address \in Nat /\ bytes \in Nat /\ bytes > 0
      BY DEF SectorAddress, SizesAssumption
    <3>2. End(allocations[i]) \in Nat /\ i \in Nat /\ i # 0
      BY <2>1, FieldsOf DEF AllocationsInv
    <3>3. Inside(allocations[i], address)
      BY <2>3, <3>1, <3>2 DEF Inside
    <3>4. Candidate(address) = i
      BY <2>1, <3>3, FoundWhere
    <3>. QED BY <2>3, <3>2, <3>3, <3>4 DEF Accepted, Found, FitsSpan
  <2>. QED BY <2>2, <2>3
<1>. QED BY Invariance, <1>1, PTL

-----------------------------------------------------------------------------
(* The filter as an abstract read filter: what a set holds, and that a     *)
(* line is held in one set, the one its allocation gives it.               *)

(* The set holds sector r of line t.                                       *)
Has(set, t, r) ==
  \E i \in DOMAIN set.nodes : set.nodes[i].tag = t /\ r \in set.nodes[i].mask

(* Set k is where the allocation that has line t puts it.                  *)
Home(t, k) ==
  \E i \in DOMAIN allocations :
    /\ Inside(allocations[i], t * LineBytes)
    /\ k = Index[(t * LineBytes - allocations[i].base) \div LineBytes]

HomeInv ==
  \A sm \in Sm, k \in SetIndex, t \in Line, r \in Sector :
    Has(data[sm][k], t, r) => Home(t, k)

LEMMA HasTyped ==
  ASSUME NEW set, SetInv(set), NEW t, NEW r, Has(set, t, r)
  PROVE  t \in Line /\ r \in Sector
<1>1. set.nodes \in Seq(Node)
  BY DEF SetInv, SetRecord
<1>2. PICK i \in DOMAIN set.nodes : set.nodes[i].tag = t /\ r \in set.nodes[i].mask
  BY DEF Has
<1>3. set.nodes[i] \in Node
  BY <1>1, <1>2
<1>. QED BY <1>2, <1>3 DEF Node

(* A line of the map is one of which the set holds something.              *)
LEMMA HasLine ==
  ASSUME NEW set, SetInv(set), NEW t
  PROVE  /\ t \in DOMAIN set.lookup => /\ \E r \in Sector : Has(set, t, r)
                                       /\ set.lookup[t] \in DOMAIN set.nodes
                                       /\ set.nodes[set.lookup[t]].tag = t
                                       /\ \A r : Has(set, t, r)
                                            <=> r \in set.nodes[set.lookup[t]].mask
         /\ t \notin DOMAIN set.lookup => \A r : ~Has(set, t, r)
<1>1. /\ set.nodes \in Seq(Node) /\ DOMAIN set.lookup = TagsOf(set)
      /\ \A i \in DOMAIN set.nodes : set.lookup[set.nodes[i].tag] = i
      /\ \A i \in DOMAIN set.nodes : set.nodes[i].mask # {}
  BY DEF SetInv, SetRecord
<1>2. CASE t \in DOMAIN set.lookup
  <2>1. PICK i \in DOMAIN set.nodes : set.nodes[i].tag = t
    BY <1>1, <1>2 DEF TagsOf
  <2>2. set.lookup[t] = i /\ \A j \in DOMAIN set.nodes : set.nodes[j].tag = t => j = i
    BY <1>1, <2>1
  <2>3. \A r : Has(set, t, r) <=> r \in set.nodes[i].mask
    BY <2>1, <2>2 DEF Has
  <2>4. set.nodes[i] \in Node /\ set.nodes[i].mask # {}
    BY <1>1, <2>1
  <2>5. \E r \in Sector : r \in set.nodes[i].mask
    BY <2>4 DEF Node
  <2>. QED BY <1>2, <2>1, <2>2, <2>3, <2>5
<1>3. CASE t \notin DOMAIN set.lookup
  BY <1>1, <1>3 DEF Has, TagsOf
<1>. QED BY <1>2, <1>3

(* What a read of sector s of line `tag` leaves in the set.                *)
LEMMA HitHas ==
  ASSUME NEW set, SetInv(set), NEW tag \in DOMAIN set.lookup, NEW s \in Sector, NEW t, NEW r
  PROVE  Has(HitLine(set, tag, s), t, r) <=> Has(set, t, r) \/ (t = tag /\ r = s)
<1>. DEFINE slot == set.lookup[tag]
            node == Touched(set.nodes[slot], s)
            nodes == [set.nodes EXCEPT ![slot] = node]
<1>1. slot \in DOMAIN set.nodes /\ set.nodes[slot].tag = tag
  BY HasLine
<1>2. HitLine(set, tag, s).nodes = nodes
  BY DEF HitLine
<1>3. node.tag = tag /\ node.mask = set.nodes[slot].mask \cup {s}
  BY <1>1 DEF Touched
<1>4. set.nodes \in Seq(Node)
  BY DEF SetInv, SetRecord
<1>. HIDE DEF slot, node
<1>5. /\ DOMAIN nodes = DOMAIN set.nodes
      /\ \A i \in DOMAIN nodes : nodes[i] = IF i = slot THEN node ELSE set.nodes[i]
  BY <1>1, <1>4
<1>. HIDE DEF nodes
<1>6. ASSUME Has(set, t, r)
      PROVE  \E i \in DOMAIN nodes : nodes[i].tag = t /\ r \in nodes[i].mask
  <2>1. PICK i \in DOMAIN set.nodes : set.nodes[i].tag = t /\ r \in set.nodes[i].mask
    BY <1>6 DEF Has
  <2>2. i \in DOMAIN nodes /\ nodes[i].tag = t /\ r \in nodes[i].mask
    BY <1>1, <1>3, <1>5, <2>1
  <2>. QED BY <2>2
<1>7. ASSUME t = tag, r = s
      PROVE  \E i \in DOMAIN nodes : nodes[i].tag = t /\ r \in nodes[i].mask
  <2>1. slot \in DOMAIN nodes /\ nodes[slot].tag = t /\ r \in nodes[slot].mask
    BY <1>1, <1>3, <1>5, <1>7
  <2>. QED BY <2>1
<1>8. ASSUME NEW i \in DOMAIN nodes, nodes[i].tag = t, r \in nodes[i].mask
      PROVE  Has(set, t, r) \/ (t = tag /\ r = s)
  BY <1>1, <1>3, <1>5, <1>8 DEF Has
<1>. QED BY <1>2, <1>6, <1>7, <1>8 DEF Has

LEMMA FillHas ==
  ASSUME NEW set, SetInv(set), NEW tag \in Line, NEW s \in Sector, NEW t, NEW r
  PROVE  Has(FillLine(set, tag, s), t, r) <=> Has(set, t, r) \/ (t = tag /\ r = s)
<1>. DEFINE n == Len(set.nodes)
            node == NewNode(tag, s)
            nodes == Append(set.nodes, node)
<1>1. FillLine(set, tag, s).nodes = nodes
  BY DEF FillLine
<1>2. node \in Node /\ node.tag = tag /\ node.mask = {s}
  BY DEF NewNode, Node
<1>3. set.nodes \in Seq(Node)
  BY DEF SetInv, SetRecord
<1>. HIDE DEF node
<1>4. /\ DOMAIN nodes = 1 .. n + 1 /\ DOMAIN set.nodes = 1 .. n /\ n \in Nat
      /\ \A i \in 1 .. n : nodes[i] = set.nodes[i]
      /\ nodes[n + 1] = node
  BY <1>2, <1>3
<1>. HIDE DEF nodes, n
<1>5. /\ n + 1 \in DOMAIN nodes
      /\ \A i \in DOMAIN set.nodes : i \in DOMAIN nodes /\ nodes[i] = set.nodes[i]
      /\ \A i \in DOMAIN nodes : i \in DOMAIN set.nodes \/ nodes[i] = node
  BY <1>4
<1>6. ASSUME Has(set, t, r) \/ (t = tag /\ r = s)
      PROVE  \E i \in DOMAIN nodes : nodes[i].tag = t /\ r \in nodes[i].mask
  BY <1>2, <1>4, <1>5, <1>6 DEF Has
<1>7. ASSUME NEW i \in DOMAIN nodes, nodes[i].tag = t, r \in nodes[i].mask
      PROVE  Has(set, t, r) \/ (t = tag /\ r = s)
  BY <1>2, <1>5, <1>7 DEF Has
<1>. QED BY <1>1, <1>6, <1>7 DEF Has

(* A replacement drops one line of the set, whole.                         *)
LEMMA ReplaceHas ==
  ASSUME NEW set, SetInv(set), ways \in Nat \ {0}, Len(set.nodes) = ways,
         NEW tag \in Line, tag \notin DOMAIN set.lookup, NEW s \in Sector
  PROVE  \E v \in Line :
           /\ v \in DOMAIN set.lookup
           /\ \A t, r : Has(ReplaceLine(set, tag, s), t, r)
                          <=> (Has(set, t, r) /\ t # v) \/ (t = tag /\ r = s)
<1>. DEFINE slot == Around(set.hand + Passed(set))
            swept == [i \in DOMAIN set.nodes |->
                        IF i \in PassedSlots(set)
                        THEN Swept(set.nodes[i]) ELSE set.nodes[i]]
            node == NewNode(tag, s)
            nodes == [swept EXCEPT ![slot] = node]
            v == set.nodes[slot].tag
<1>1. /\ set.nodes \in Seq(Node) /\ DOMAIN set.nodes = 1 .. ways
      /\ DOMAIN set.lookup = TagsOf(set)
      /\ \A i \in DOMAIN set.nodes : set.lookup[set.nodes[i].tag] = i
  BY DEF SetInv, SetRecord
<1>2. slot \in DOMAIN set.nodes
  BY <1>1, Sweep
<1>3. ReplaceLine(set, tag, s).nodes = nodes
  BY DEF ReplaceLine
<1>. HIDE DEF slot
<1>4. v \in Line /\ v \in DOMAIN set.lookup
  <2>1. set.nodes[slot] \in Node
    BY <1>1, <1>2
  <2>. QED BY <1>1, <1>2, <2>1 DEF Node, TagsOf
<1>5. node.tag = tag /\ node.mask = {s}
  BY DEF NewNode
<1>. HIDE DEF node
<1>6. DOMAIN swept = DOMAIN set.nodes
      /\ \A i \in DOMAIN set.nodes : swept[i].tag = set.nodes[i].tag
                                     /\ swept[i].mask = set.nodes[i].mask
  BY DEF Swept
<1>. HIDE DEF swept
<1>7. /\ DOMAIN nodes = DOMAIN set.nodes /\ nodes[slot] = node
      /\ \A i \in DOMAIN set.nodes : i # slot => nodes[i] = swept[i]
  BY <1>2, <1>6
<1>. HIDE DEF nodes
<1>8. \A i \in DOMAIN set.nodes : set.nodes[i].tag = v <=> i = slot
  BY <1>1, <1>2
<1>. HIDE DEF v
<1>9. ASSUME NEW t, NEW r, Has(set, t, r), t # v
      PROVE  \E i \in DOMAIN nodes : nodes[i].tag = t /\ r \in nodes[i].mask
  <2>1. PICK i \in DOMAIN set.nodes : set.nodes[i].tag = t /\ r \in set.nodes[i].mask
    BY <1>9 DEF Has
  <2>2. i # slot
    BY <1>8, <1>9, <2>1
  <2>. QED BY <1>6, <1>7, <2>1, <2>2
<1>10. ASSUME NEW t, NEW r, t = tag, r = s
       PROVE  \E i \in DOMAIN nodes : nodes[i].tag = t /\ r \in nodes[i].mask
  BY <1>2, <1>5, <1>7, <1>10
<1>11. ASSUME NEW t, NEW r, NEW i \in DOMAIN nodes, nodes[i].tag = t, r \in nodes[i].mask
       PROVE  (Has(set, t, r) /\ t # v) \/ (t = tag /\ r = s)
  <2>1. CASE i = slot
    BY <1>5, <1>7, <1>11, <2>1
  <2>2. CASE i # slot
    BY <1>6, <1>7, <1>8, <1>11, <2>2 DEF Has
  <2>. QED BY <2>1, <2>2
<1>12. ASSUME NEW t, NEW r
       PROVE  Has(ReplaceLine(set, tag, s), t, r)
                <=> (Has(set, t, r) /\ t # v) \/ (t = tag /\ r = s)
  <2>1. Has(ReplaceLine(set, tag, s), t, r)
          <=> \E i \in DOMAIN nodes : nodes[i].tag = t /\ r \in nodes[i].mask
    BY <1>3 DEF Has
  <2>. QED BY <2>1, <1>9, <1>10, <1>11
<1>. QED BY <1>4, <1>12

(* What a read does to what its set holds: nothing, when it hits; one      *)
(* sector more, when the line is there; that, and at most one other line   *)
(* less, when it is not.                                                   *)
Keeps(set, after) == \A t, r : Has(after, t, r) <=> Has(set, t, r)
Gains(set, after, tag, s) ==
  \A t, r : Has(after, t, r) <=> Has(set, t, r) \/ (t = tag /\ r = s)
Swaps(set, after, v, tag, s) ==
  \A t, r : Has(after, t, r) <=> (Has(set, t, r) /\ t # v) \/ (t = tag /\ r = s)

LEMMA ReadHas ==
  ASSUME NEW set, SetInv(set), ways \in Nat \ {0}, NEW tag \in Line, NEW s \in Sector,
         NEW after, after = AfterRead(set, tag, s)
  PROVE  \/ /\ Outcome(set, tag, s) = "hit" /\ Has(set, tag, s)
            /\ Keeps(set, after)
         \/ /\ Outcome(set, tag, s) = "sector_miss" /\ ~Has(set, tag, s)
            /\ \E r \in Sector : Has(set, tag, r)
            /\ Gains(set, after, tag, s)
         \/ /\ Outcome(set, tag, s) = "line_miss"
            /\ \A r : ~Has(set, tag, r)
            /\ \/ Gains(set, after, tag, s)
               \/ \E v \in Line, r \in Sector : Has(set, v, r) /\ Swaps(set, after, v, tag, s)
<1>1. Len(set.nodes) \in Nat /\ Len(set.nodes) =< ways
  BY DEF SetInv, SetRecord
<1>2. CASE tag \in DOMAIN set.lookup
  <2>1. \A r : Has(set, tag, r) <=> r \in set.nodes[set.lookup[tag]].mask
    BY <1>2, HasLine
  <2>2. Gains(set, after, tag, s)
    BY <1>2, HitHas DEF AfterRead, Gains
  <2>3. \E r \in Sector : Has(set, tag, r)
    BY <1>2, HasLine
  <2>4. CASE Has(set, tag, s)
    <3>1. Outcome(set, tag, s) = "hit"
      BY <1>2, <2>1, <2>4 DEF Outcome
    <3>2. Keeps(set, after)
      BY <2>2, <2>4 DEF Keeps, Gains
    <3>. QED BY <2>4, <3>1, <3>2
  <2>5. CASE ~Has(set, tag, s)
    <3>1. Outcome(set, tag, s) = "sector_miss"
      BY <1>2, <2>1, <2>5 DEF Outcome
    <3>. QED BY <2>2, <2>3, <2>5, <3>1
  <2>. QED BY <2>4, <2>5
<1>3. CASE tag \notin DOMAIN set.lookup
  <2>1. Outcome(set, tag, s) = "line_miss" /\ \A r : ~Has(set, tag, r)
    BY <1>3, HasLine DEF Outcome
  <2>2. CASE Len(set.nodes) < ways
    <3>1. Gains(set, after, tag, s)
      BY <1>3, <2>2, FillHas DEF AfterRead, Gains
    <3>. QED BY <2>1, <3>1
  <2>3. CASE ~(Len(set.nodes) < ways)
    <3>1. Len(set.nodes) = ways /\ after = ReplaceLine(set, tag, s)
      BY <1>1, <1>3, <2>3 DEF AfterRead
    <3>2. PICK v \in Line : v \in DOMAIN set.lookup /\ Swaps(set, after, v, tag, s)
      BY <1>3, <3>1, ReplaceHas DEF Swaps
    <3>3. \E r \in Sector : Has(set, v, r)
      BY <3>2, HasLine
    <3>. QED BY <2>1, <3>2, <3>3
  <2>. QED BY <2>2, <2>3
<1>. QED BY <1>2, <1>3

-----------------------------------------------------------------------------
(* Which set a line belongs to.                                            *)

LEMMA QuotientIs ==
  ASSUME NEW d \in Nat \ {0}, NEW q \in Nat, NEW r \in 0 .. d - 1
  PROVE  (q * d + r) \div d = q
<1>. DEFINE a == q * d + r
<1>1. a \in Nat /\ a \div d \in Nat /\ a % d \in 0 .. d - 1 /\ a = d * (a \div d) + (a % d)
  <2>1. a \in Nat
    OBVIOUS
  <2>. HIDE DEF a
  <2>. QED BY <2>1, Quotient
<1>. QED
  OBVIOUS

(* A line and an allocation that begins with a line of its own.            *)
LEMMA AlignedLine ==
  ASSUME NEW d \in Nat \ {0}, NEW a \in Nat, NEW b \in Nat, b =< a, b % d = 0
  PROVE  /\ b =< (a \div d) * d /\ (a \div d) * d =< a
         /\ ((a \div d) * d - b) \div d = (a - b) \div d
<1>. DEFINE q == a \div d
            r == a % d
            p == b \div d
<1>1. q \in Nat /\ r \in 0 .. d - 1 /\ a = d * q + r
  BY Quotient
<1>2. p \in Nat /\ b = d * p
  <2>1. p \in Nat /\ b = d * p + (b % d)
    BY Quotient
  <2>. QED BY <2>1
<1>3. p =< q
  BY <1>2, QuotientMonotone
<1>. HIDE DEF q, r, p
<1>4. PICK e \in Nat : q = p + e
  <2>1. q - p \in Nat /\ q = p + (q - p)
    BY <1>1, <1>2, <1>3
  <2>. QED BY <2>1
<1>5. q * d = d * p + e * d
  BY <1>1, <1>2, <1>4
<1>6. q * d - b = e * d + 0 /\ a - b = e * d + r /\ e * d \in Nat
  BY <1>1, <1>2, <1>4, <1>5
<1>7. (q * d - b) \div d = e /\ (a - b) \div d = e
  <2>1. 0 \in 0 .. d - 1
    OBVIOUS
  <2>2. (e * d + 0) \div d = e
    BY <1>4, <2>1, QuotientIs
  <2>3. (e * d + r) \div d = e
    BY <1>1, <1>4, QuotientIs
  <2>. QED BY <1>6, <2>2, <2>3
<1>8. b =< q * d /\ q * d =< a
  BY <1>1, <1>2, <1>4, <1>5, <1>6
<1>. QED BY <1>7, <1>8 DEF q

LEMMA HomeUnique ==
  ASSUME AllocationsInv, ready, NEW t \in Nat, NEW k, NEW l, Home(t, k), Home(t, l)
  PROVE  k = l
<1>. DEFINE address == t * LineBytes
<1>1. address \in Nat
  BY DEF SizesAssumption, LineBytes
<1>. HIDE DEF address
<1>2. /\ allocations \in Seq(Allocation) /\ WellFormed(allocations)
  BY DEF AllocationsInv
<1>3. /\ DOMAIN allocations = 1 .. Len(allocations) /\ Len(allocations) \in Nat
      /\ \A j \in DOMAIN allocations : /\ allocations[j].base \in Nat
                                      /\ End(allocations[j]) \in Nat
  BY <1>2, FieldsOf
<1>4. PICK i \in DOMAIN allocations :
        Inside(allocations[i], address) /\ k = Index[(address - allocations[i].base) \div LineBytes]
  BY DEF Home, address
<1>5. PICK j \in DOMAIN allocations :
        Inside(allocations[j], address) /\ l = Index[(address - allocations[j].base) \div LineBytes]
  BY DEF Home, address
<1>6. i = j
  <2>1. i < j => End(allocations[i]) =< allocations[j].base
    BY <1>2, Apart
  <2>2. j < i => End(allocations[j]) =< allocations[i].base
    BY <1>2, Apart
  <2>. QED BY <1>1, <1>3, <1>4, <1>5, <2>1, <2>2 DEF Inside
<1>. QED BY <1>4, <1>5, <1>6

(* A read goes to the home of its line.                                    *)
LEMMA ReadHome ==
  ASSUME AllocationsInv, ready, NEW address \in SectorAddress, Found(address)
  PROVE  Home(address \div LineBytes,
              Index[(address - allocations[Candidate(address)].base) \div LineBytes])
<1>. DEFINE i == Candidate(address)
            b == allocations[i].base
            first == (address \div LineBytes) * LineBytes
<1>1. i \in DOMAIN allocations
  BY CandidateOf DEF Found
<1>2. /\ b \in Nat /\ b % LineBytes = 0 /\ End(allocations[i]) \in Nat
  BY <1>1, FieldsOf DEF AllocationsInv, WellFormed
<1>3. address \in Nat /\ LineBytes \in Nat \ {0}
  BY DEF SectorAddress, SizesAssumption, LineBytes
<1>4. b =< address /\ address < End(allocations[i])
  BY DEF Found, Inside
<1>5. b =< first /\ first =< address /\ (first - b) \div LineBytes = (address - b) \div LineBytes
  BY <1>2, <1>3, <1>4, AlignedLine
<1>6. first \in Nat
  <2>. DEFINE q == address \div LineBytes
  <2>1. q \in Nat
    BY <1>3, Quotient
  <2>. HIDE DEF q
  <2>2. q * LineBytes \in Nat
    BY <1>3, <2>1
  <2>. QED BY <2>2 DEF q
<1>. HIDE DEF i, first
<1>7. Inside(allocations[i], first)
  BY <1>2, <1>3, <1>4, <1>5, <1>6 DEF Inside
<1>8. \E j \in DOMAIN allocations :
        /\ Inside(allocations[j], first)
        /\ Index[(address - b) \div LineBytes] = Index[(first - allocations[j].base) \div LineBytes]
  BY <1>1, <1>5, <1>7
<1>. QED BY <1>8 DEF Home, i, first

(* What the filter holds, sector by sector.                                *)
LEMMA HeldIs ==
  ASSUME IInv
  PROVE  \A x : x \in Held <=> \E sm \in Sm, k \in SetIndex, t \in Line, r \in Sector :
                                 x = <<sm, t, r>> /\ Has(data[sm][k], t, r)
<1>1. ASSUME NEW x \in Held
      PROVE  \E sm \in Sm, k \in SetIndex, t \in Line, r \in Sector :
               x = <<sm, t, r>> /\ Has(data[sm][k], t, r)
  <2>1. PICK sm \in Sm, k \in SetIndex, r \in Sector :
          x \in {<<sm, n.tag, r>> : n \in {m \in ToSet(data[sm][k].nodes) : r \in m.mask}}
    BY <1>1 DEF Held
  <2>2. PICK n \in ToSet(data[sm][k].nodes) : r \in n.mask /\ x = <<sm, n.tag, r>>
    BY <2>1
  <2>3. PICK i \in DOMAIN data[sm][k].nodes : data[sm][k].nodes[i] = n
    BY <2>2 DEF ToSet
  <2>4. Has(data[sm][k], n.tag, r)
    BY <2>2, <2>3 DEF Has
  <2>5. n.tag \in Line
    BY <2>4, HasTyped DEF IInv
  <2>. QED BY <2>2, <2>4, <2>5
<1>2. ASSUME NEW sm \in Sm, NEW k \in SetIndex, NEW t \in Line, NEW r \in Sector,
             Has(data[sm][k], t, r)
      PROVE  <<sm, t, r>> \in Held
  <2>1. PICK i \in DOMAIN data[sm][k].nodes :
          data[sm][k].nodes[i].tag = t /\ r \in data[sm][k].nodes[i].mask
    BY <1>2 DEF Has
  <2>. DEFINE n == data[sm][k].nodes[i]
              Of(p, j, c) == {<<p, m.tag, c>> : m \in {q \in ToSet(data[p][j].nodes)
                                                      : c \in q.mask}}
              InSet(p, j) == UNION {Of(p, j, c) : c \in Sector}
  <2>2. n \in ToSet(data[sm][k].nodes)
    BY <2>1 DEF ToSet
  <2>3. <<sm, t, r>> \in Of(sm, k, r)
    BY <2>1, <2>2
  <2>4. Held = UNION {InSet(p, j) : p \in Sm, j \in SetIndex}
    BY DEF Held
  <2>. HIDE DEF Of
  <2>5. <<sm, t, r>> \in InSet(sm, k)
    BY <2>3
  <2>. HIDE DEF InSet
  <2>. QED BY <2>4, <2>5
<1>. QED BY <1>1, <1>2

In(p, t, r) == \E j \in SetIndex : Has(data[p][j], t, r)

LEMMA HeldAt ==
  IInv => /\ \A x \in Held : x \in Sm \X Line \X Sector
          /\ \A p \in Sm, t \in Line, r \in Sector : <<p, t, r>> \in Held <=> In(p, t, r)
BY HeldIs DEF In

LEMMA OneHome ==
  ASSUME IInv, HomeInv, ready
  PROVE  /\ Line \in SUBSET Nat
         /\ \A t \in Line, k, l \in SetIndex : Home(t, k) /\ Home(t, l) => k = l
         /\ \A sm \in Sm, t \in Line, j, k \in SetIndex, r \in Sector :
              Has(data[sm][j], t, r) /\ Home(t, k) => j = k
<1>1. Line \in SUBSET Nat
  BY DEF Line
<1>2. \A t \in Line, k, l \in SetIndex : Home(t, k) /\ Home(t, l) => k = l
  BY <1>1, HomeUnique DEF IInv
<1>. QED BY <1>1, <1>2 DEF HomeInv

(* An accepted read is a read of the abstract filter, at its line's home.  *)
LEMMA AcceptedRead ==
  ASSUME IInv, IInv', HomeInv, ready, NEW sm \in Sm, NEW tag \in Line, NEW s \in Sector,
         NEW k \in SetIndex, Home(tag, k),
         NEW set, set = data[sm][k], NEW after, after = AfterRead(set, tag, s),
         data' = [data EXCEPT ![sm][k] = after],
         answer' = [outcome |-> Outcome(set, tag, s), read |-> <<sm, tag, s>>],
         UNCHANGED <<ready, ways, allocations>>
  PROVE  HomeInv' /\ Filter!Read
<1>1. data \in Data /\ ways \in Nat /\ ways > 0
  BY DEF IInv
<1>2. \A p \in Sm, j \in SetIndex :
        data'[p][j] = IF p = sm /\ j = k THEN after ELSE data[p][j]
  BY <1>1 DEF Data
<1>3. SetInv(set) /\ ways \in Nat \ {0}
  <2>1. SetInv(data[sm][k])
    BY DEF IInv
  <2>. QED BY <1>1, <2>1
<1>4. \/ /\ Outcome(set, tag, s) = "hit" /\ Has(set, tag, s)
         /\ Keeps(set, after)
      \/ /\ Outcome(set, tag, s) = "sector_miss" /\ ~Has(set, tag, s)
         /\ \E r \in Sector : Has(set, tag, r)
         /\ Gains(set, after, tag, s)
      \/ /\ Outcome(set, tag, s) = "line_miss"
         /\ \A r : ~Has(set, tag, r)
         /\ \/ Gains(set, after, tag, s)
            \/ \E v \in Line, r \in Sector : Has(set, v, r) /\ Swaps(set, after, v, tag, s)
  BY <1>3, ReadHas
<1>5. \A t, r : Has(after, t, r) => Has(set, t, r) \/ (t = tag /\ r = s)
  BY <1>4 DEF Keeps, Gains, Swaps
<1>6. \A t \in Line, j, l \in SetIndex, q, r \in Sector :
        Has(data[sm][j], t, q) /\ Has(data[sm][l], t, r) => j = l
  BY OneHome DEF HomeInv
<1>7. \A j \in SetIndex, r \in Sector : Has(data[sm][j], tag, r) => j = k
  BY OneHome
<1>8. HomeInv'
  <2>1. ASSUME NEW p \in Sm, NEW j \in SetIndex, NEW t \in Line, NEW r \in Sector,
               Has(data'[p][j], t, r)
        PROVE  Home(t, j)
    <3>1. CASE p = sm /\ j = k
      <4>1. data'[p][j] = after
        BY <1>2, <3>1
      <4>2. Has(set, t, r) \/ t = tag
        BY <1>5, <2>1, <4>1
      <4>. QED BY <1>1, <3>1, <4>2 DEF HomeInv
    <3>2. CASE ~(p = sm /\ j = k)
      <4>1. Has(data[p][j], t, r)
        BY <1>2, <2>1, <3>2
      <4>. QED BY <4>1 DEF HomeInv
    <3>. QED BY <3>1, <3>2
  <2>2. \A t, j : Home(t, j) => Home(t, j)'
    BY DEF Home, Inside, End
  <2>. QED BY <2>1, <2>2 DEF HomeInv, Has
<1>9. /\ \A x \in Held : x \in Sm \X Line \X Sector
      /\ \A p \in Sm, t \in Line, r \in Sector : <<p, t, r>> \in Held <=> In(p, t, r)
  BY HeldAt
<1>10. /\ \A x \in Held' : x \in Sm \X Line \X Sector
       /\ \A p \in Sm, t \in Line, r \in Sector : <<p, t, r>> \in Held' <=> In(p, t, r)'
  <2>1. (IInv => /\ \A x \in Held : x \in Sm \X Line \X Sector
                 /\ \A p \in Sm, t \in Line, r \in Sector :
                       <<p, t, r>> \in Held <=> In(p, t, r))'
    BY HeldAt, PTL
  <2>. QED BY <2>1
<1>11. \A p \in Sm : \A t, r : In(p, t, r)' <=> \E j \in SetIndex : Has(data'[p][j], t, r)
  BY DEF In, Has
<1>. DEFINE X == <<sm, tag, s>>
            Inserted(p, t, r) == p = sm /\ t = tag /\ r = s
<1>12. CASE Outcome(set, tag, s) = "hit" /\ Has(set, tag, s) /\ Keeps(set, after)
  <2>1. \A p \in Sm, t \in Line, r \in Sector : In(p, t, r)' <=> In(p, t, r)
    BY <1>2, <1>11, <1>12 DEF In, Keeps
  <2>2. Held' = Held
    <3>1. ASSUME NEW x \in Sm \X Line \X Sector
          PROVE  x \in Held' <=> x \in Held
      <4>1. PICK p \in Sm, t \in Line, r \in Sector : x = <<p, t, r>>
        OBVIOUS
      <4>. QED BY <1>9, <1>10, <2>1, <4>1
    <3>2. Held' \subseteq Held /\ Held \subseteq Held'
      BY <1>9, <1>10, <3>1
    <3>. QED BY <3>2
  <2>3. X \in Held
    BY <1>9, <1>12 DEF In
  <2>4. Filter!Hit(sm, tag, s)
    BY <2>2, <2>3 DEF Filter!Hit
  <2>5. Filter!Read
    BY <1>12, <2>4 DEF Filter!Read, Filter!Outcome
  <2>. QED BY <1>8, <2>5
<1>13. ASSUME Gains(set, after, tag, s)
       PROVE  Held' = Held \cup {X}
  <2>1. \A p \in Sm, t \in Line, r \in Sector :
          In(p, t, r)' <=> In(p, t, r) \/ Inserted(p, t, r)
    BY <1>2, <1>11, <1>13 DEF In, Gains
  <2>. QED BY <1>9, <1>10, <2>1
<1>14. CASE /\ Outcome(set, tag, s) = "sector_miss" /\ ~Has(set, tag, s)
            /\ \E r \in Sector : Has(set, tag, r)
            /\ Gains(set, after, tag, s)
  <2>1. X \notin Held
    BY <1>7, <1>9, <1>14 DEF In
  <2>2. PICK r \in Sector : Has(set, tag, r)
    BY <1>14
  <2>3. <<sm, tag, r>> \in Held
    BY <1>9, <2>2 DEF In
  <2>4. Filter!OfLine(sm, tag) # {}
    <3>1. <<sm, tag, r>> \in Filter!OfLine(sm, tag)
      BY <2>3 DEF Filter!OfLine
    <3>. QED BY <3>1
  <2>5. Filter!SectorMiss(sm, tag, s)
    BY <1>13, <1>14, <2>1, <2>4 DEF Filter!SectorMiss
  <2>6. Filter!Read
    BY <1>14, <2>5 DEF Filter!Read, Filter!Outcome
  <2>. QED BY <1>8, <2>6
<1>15. ASSUME \A r : ~Has(set, tag, r)
       PROVE  Filter!OfLine(sm, tag) = {}
  <2>1. ASSUME NEW x \in Filter!OfLine(sm, tag)
        PROVE  FALSE
    <3>1. x \in Held /\ x[1] = sm /\ x[2] = tag
      BY <2>1 DEF Filter!OfLine
    <3>2. PICK r \in Sector : x = <<sm, tag, r>>
      BY <1>9, <3>1
    <3>3. In(sm, tag, r)
      BY <1>9, <3>1, <3>2
    <3>. QED BY <1>7, <1>15, <3>3 DEF In
  <2>. QED BY <2>1
<1>16. CASE /\ Outcome(set, tag, s) = "line_miss" /\ \A r : ~Has(set, tag, r)
            /\ Gains(set, after, tag, s)
  <2>1. Filter!LineMiss(sm, tag, s)
    BY <1>13, <1>15, <1>16 DEF Filter!LineMiss
  <2>2. Filter!Read
    BY <1>16, <2>1 DEF Filter!Read, Filter!Outcome
  <2>. QED BY <1>8, <2>2
<1>17. ASSUME NEW v \in Line, NEW q \in Sector, Has(set, v, q), Swaps(set, after, v, tag, s)
       PROVE  Held' = (Held \ Filter!OfLine(sm, v)) \cup {X}
  <2>1. \A j \in SetIndex, r \in Sector : Has(data[sm][j], v, r) => j = k
    BY <1>6, <1>17
  <2>2. \A p \in Sm, t \in Line, r \in Sector :
          In(p, t, r)' <=> (In(p, t, r) /\ ~(p = sm /\ t = v)) \/ Inserted(p, t, r)
    <3>1. ASSUME NEW p \in Sm, NEW t \in Line, NEW r \in Sector
          PROVE  In(p, t, r)' <=> (In(p, t, r) /\ ~(p = sm /\ t = v)) \/ Inserted(p, t, r)
      <4>1. CASE p # sm
        BY <1>2, <1>11, <4>1 DEF In
      <4>2. CASE p = sm
        <5>1. ASSUME NEW j \in SetIndex, Has(data'[p][j], t, r)
              PROVE  (In(p, t, r) /\ ~(p = sm /\ t = v)) \/ Inserted(p, t, r)
          <6>1. CASE j = k
            BY <1>2, <1>17, <4>2, <5>1, <6>1 DEF In, Swaps
          <6>2. CASE j # k
            BY <1>2, <2>1, <4>2, <5>1, <6>2 DEF In
          <6>. QED BY <6>1, <6>2
        <5>2. ASSUME NEW j \in SetIndex, Has(data[p][j], t, r), t # v
              PROVE  Has(data'[p][j], t, r)
          BY <1>2, <1>17, <4>2, <5>2 DEF Swaps
        <5>3. ASSUME Inserted(p, t, r)
              PROVE  Has(data'[p][k], t, r)
          BY <1>2, <1>17, <5>3 DEF Swaps
        <5>. QED BY <1>11, <4>2, <5>1, <5>2, <5>3 DEF In
      <4>. QED BY <4>1, <4>2
    <3>. QED BY <3>1
  <2>3. \A p \in Sm, t \in Line, r \in Sector :
          <<p, t, r>> \in Filter!OfLine(sm, v) <=> In(p, t, r) /\ p = sm /\ t = v
    BY <1>9 DEF Filter!OfLine
  <2>. QED BY <1>9, <1>10, <2>2, <2>3
<1>18. CASE /\ Outcome(set, tag, s) = "line_miss" /\ \A r : ~Has(set, tag, r)
            /\ \E v \in Line, r \in Sector : Has(set, v, r) /\ Swaps(set, after, v, tag, s)
  <2>1. \E v \in Line : Held' = (Held \ Filter!OfLine(sm, v)) \cup {X}
    BY <1>17, <1>18
  <2>2. Filter!LineMiss(sm, tag, s)
    BY <1>15, <1>18, <2>1 DEF Filter!LineMiss
  <2>3. Filter!Read
    BY <1>18, <2>2 DEF Filter!Read, Filter!Outcome
  <2>. QED BY <1>8, <2>3
<1>. QED BY <1>4, <1>12, <1>14, <1>16, <1>18

-----------------------------------------------------------------------------
(* The refinement: each step is a step of the abstract filter.             *)

LEMMA EmptyHeld ==
  data = [sm \in Sm |-> [k \in SetIndex |-> EmptySet]] => Held = {} /\ HomeInv
<1>. SUFFICES ASSUME data = [sm \in Sm |-> [k \in SetIndex |-> EmptySet]]
              PROVE  Held = {} /\ HomeInv
  OBVIOUS
<1>1. \A sm \in Sm, k \in SetIndex : data[sm][k].nodes = <<>>
  BY DEF EmptySet
<1>2. HomeInv
  BY <1>1 DEF HomeInv, Has
<1>3. ASSUME NEW x \in Held PROVE FALSE
  <2>1. PICK sm \in Sm, k \in SetIndex, r \in Sector :
          x \in {<<sm, n.tag, r>> : n \in {m \in ToSet(data[sm][k].nodes) : r \in m.mask}}
    BY <1>3 DEF Held
  <2>2. PICK n \in ToSet(data[sm][k].nodes) : r \in n.mask
    BY <2>1
  <2>. QED BY <1>1, <2>2 DEF ToSet
<1>. QED BY <1>2, <1>3

LEMMA BeginKernelFilters ==
  ASSUME BeginKernel PROVE HomeInv' /\ Filter!BeginKernel
<1>1. (data = [sm \in Sm |-> [k \in SetIndex |-> EmptySet]] => Held = {} /\ HomeInv)'
  BY EmptyHeld, PTL
<1>2. data' = [sm \in Sm |-> [k \in SetIndex |-> EmptySet]] /\ answer' = Begun
  BY DEF BeginKernel, ResetSets
<1>. QED BY <1>1, <1>2 DEF Filter!BeginKernel, Begun, Filter!Begun

(* The finder alone changes nothing the filter holds.                      *)
LEMMA SameHeld ==
  ASSUME HomeInv, UNCHANGED <<allocations, data>>
  PROVE  HomeInv' /\ Held' = Held
<1>1. HomeInv'
  BY DEF HomeInv, Has, Home, Inside, End
<1>. QED BY <1>1 DEF Held

LEMMA AccessFilters ==
  ASSUME IInv, HomeInv, Access PROVE HomeInv' /\ (Filter!Read \/ Filter!Refuse)
<1>1. PICK sm \in Sm, address \in SectorAddress, bytes \in 1 .. SectorBytes :
        /\ ready
        /\ IF Accepted(address, bytes)
           THEN LET offset == address - allocations[Candidate(address)].base
                    tag == address \div LineBytes
                    s == (offset % LineBytes) \div SectorBytes
                    k == Index[offset \div LineBytes]
                IN  /\ data' = [data EXCEPT ![sm][k] = AfterRead(@, tag, s)]
                    /\ answer' = [outcome |-> Outcome(data[sm][k], tag, s),
                                  read |-> <<sm, tag, s>>]
           ELSE answer' = NoAnswer /\ UNCHANGED data
        /\ UNCHANGED <<ready, ways, allocations>>
  BY DEF Access
<1>2. AllocationsInv /\ IInv'
  BY AccessKeeps DEF IInv
<1>3. CASE ~Accepted(address, bytes)
  <2>1. HomeInv' /\ Held' = Held /\ answer' = NoAnswer
    BY <1>1, <1>3, SameHeld
  <2>. QED BY <2>1 DEF Filter!Refuse, NoAnswer, Filter!NoAnswer
<1>4. CASE Accepted(address, bytes)
  <2>. DEFINE offset == address - allocations[Candidate(address)].base
              tag == address \div LineBytes
              s == (offset % LineBytes) \div SectorBytes
              k == Index[offset \div LineBytes]
              set == data[sm][k]
              after == AfterRead(set, tag, s)
  <2>1. Found(address)
    BY <1>4 DEF Accepted
  <2>2. tag \in Line /\ s \in Sector /\ k \in SetIndex
    BY <1>1, <1>2, <2>1, Selected
  <2>3. Home(tag, k)
    BY <1>1, <1>2, <2>1, ReadHome
  <2>4. /\ data' = [data EXCEPT ![sm][k] = after]
        /\ answer' = [outcome |-> Outcome(set, tag, s), read |-> <<sm, tag, s>>]
    BY <1>1, <1>4
  <2>. HIDE DEF tag, s, k
  <2>5. set = data[sm][k] /\ after = AfterRead(set, tag, s)
    OBVIOUS
  <2>. HIDE DEF set, after
  <2>. QED BY <1>1, <1>2, <2>2, <2>3, <2>4, <2>5, AcceptedRead
<1>. QED BY <1>3, <1>4

LEMMA NextFilters ==
  ASSUME IInv, HomeInv, [Next]_vars PROVE HomeInv' /\ [Filter!Next]_(Filter!vars)
<1>1. CASE BeginKernel
  BY <1>1, BeginKernelFilters DEF Filter!Next
<1>2. CASE Access
  BY <1>2, AccessFilters DEF Filter!Next
<1>3. CASE RequireSector
  <2>1. UNCHANGED <<allocations, data>> /\ answer' = NoAnswer
    BY <1>3 DEF RequireSector
  <2>2. HomeInv' /\ Held' = Held
    BY <2>1, SameHeld
  <2>. QED BY <2>1, <2>2 DEF Filter!Next, Filter!Refuse, NoAnswer, Filter!NoAnswer
<1>4. CASE UNCHANGED vars
  <2>1. UNCHANGED <<allocations, data, answer>>
    BY <1>4 DEF vars
  <2>2. HomeInv' /\ Held' = Held
    BY <2>1, SameHeld
  <2>. QED BY <2>1, <2>2 DEF Filter!vars
<1>. QED BY <1>1, <1>2, <1>3, <1>4 DEF Next

(* The filter implements the abstract read filter: a read hits exactly on  *)
(* what its SM has read in this kernel and not lost since, it brings in    *)
(* the one sector it asks for, and it drops at most one other line, whole. *)
THEOREM Refinement == Spec => ReadsFiltered
<1>1. Init => HomeInv /\ Filter!Init
  BY EmptyHeld DEF Init, Filter!Init, NoAnswer, Filter!NoAnswer
<1>2. IInv /\ HomeInv /\ [Next]_vars => HomeInv' /\ [Filter!Next]_(Filter!vars)
  BY NextFilters
<1>. QED BY Invariance, <1>1, <1>2, PTL DEF Spec, ReadsFiltered, Filter!Spec
=============================================================================
