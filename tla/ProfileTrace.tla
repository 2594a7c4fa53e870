---------------------------- MODULE ProfileTrace ----------------------------
(***************************************************************************)
(* One kernel from its sampled trace to the trace of its whole grid.       *)
(*                                                                         *)
(* A fitter matches the instructions of the sampled CTAs, fits an address  *)
(* rule to each (ProfileRules), groups the CTAs that execute the same      *)
(* instructions into classes, and admits the profile only when samples it  *)
(* did not fit are predicted exactly. There are two: profile of            *)
(* hyfiss_sampled_sass_trace_profile_rules_r15.py ("r15") and fit of       *)
(* sglang_sample_to_packed.py ("sglang"). Two programs expand an admitted  *)
(* profile by a merge over all CTAs: KernelGenerator, the C++ source of    *)
(* the cache backend ("stream"), and generate of r15 ("text"). Between     *)
(* fitter and C++ source expand_profiles.py may move the profile to        *)
(* another layer first ("expanded", LayerBinding).                         *)
(*                                                                         *)
(* A workload w is a kernel as it really runs: w.recs[b] is the sequence   *)
(* of memory instructions of CTA b, each with its signature (pc, opcode,   *)
(* mask and lane offsets), its base address and its time; w.place[b] is    *)
(* its SM and start time in issue.config. Only the CTAs of the plan are    *)
(* sampled. An instruction has one address group and touches Span bytes.   *)
(* w.by are the programs that expand it; w.views are the tensors that were *)
(* observed, w.own, w.target and w.taken say whether the launch is the one *)
(* that was sampled (in layer 0), which layer it is in, and what earlier   *)
(* launches took of the private addresses.                                 *)
(***************************************************************************)
EXTENDS LayerBinding

CONSTANTS Workloads,     \* the kernels to profile
          WordSize,      \* times are taken modulo WordSize (2^64 in the code)
          SectorBytes    \* 32 in the code

ASSUME ConstantsAssumption == {WordSize, SectorBytes} \subseteq Nat \ {0}

Instruction == [sig : STRING, base : Nat, ts : Nat]

\* The planners keep training and holdout CTAs apart, and train on all of a
\* grid that is complete. normalize of sglang_sample_to_packed.py makes the
\* times of its instructions their positions. The cursor of the private
\* addresses starts on a page and only whole pages are taken.
ASSUME WorkloadsAssumption ==
    \A k \in Workloads :
        /\ k.grid \in [1..3 -> Nat \ {0}]
        /\ k.fitter \in {"r15", "sglang"} /\ k.format \in {"raw", "memc"}
        /\ k.by \subseteq {"stream", "expanded", "text"}
        /\ k.plan.complete \in BOOLEAN /\ k.plan.train # {}
        /\ k.plan.train \cap k.plan.holdout = {}
        /\ k.plan.train \cup k.plan.holdout \subseteq Grid(k.grid)
        /\ k.plan.complete => k.plan.train = Grid(k.grid)
        /\ k.recs \in [Grid(k.grid) -> Seq(Instruction)]
        /\ k.place \in [Grid(k.grid) -> [start : Nat, sm : Nat]]
        /\ k.fitter = "sglang" => \A b \in Grid(k.grid) : \A i \in DOMAIN k.recs[b] :
                                     k.recs[b][i].ts = i - 1
        /\ "expanded" \in k.by =>
             /\ k.taken \in Nat /\ k.taken % Page = 0 /\ IsFiniteSet(k.views)
             /\ \A v \in k.views : {v.begin, v.bytes} \subseteq Nat

VARIABLES w,             \* the workload
          phase,         \* sampled, profiled, bound, merging, done; refused, failed
          profile,       \* the profile, once admitted
          who,           \* the generator: stream, expanded or text
          heap,          \* its cursors <<time, sm, CTA, position>>
          out            \* the instructions it has emitted
vars == <<w, phase, profile, who, heap, out>>

NoProfile == [version |-> 0]

-----------------------------------------------------------------------------
\* The samples

\* Lexicographic order of tuples of numbers
LexLess(s, t) == \E i \in DOMAIN s : s[i] < t[i] /\ \A j \in 1 .. i - 1 : s[j] = t[j]

\* indexed_records: instructions of equal signature are told apart by rank,
\* in the order of their addresses (then of time, then of the source)
RankKey(recs, i) == <<recs[i].base, recs[i].ts, i>>
Slot(recs, i) ==
    <<recs[i].sig, Cardinality({j \in DOMAIN recs : /\ recs[j].sig = recs[i].sig
                                                     /\ LexLess(RankKey(recs, j), RankKey(recs, i))})>>
Structure(recs) == {Slot(recs, i) : i \in DOMAIN recs}
RecordAt(recs, slot) == recs[CHOOSE i \in DOMAIN recs : Slot(recs, i) = slot]
StartTime(recs) == Least({recs[i].ts : i \in DOMAIN recs})

Sampled(k) == k.plan.train \cup k.plan.holdout

\* sglang takes any samples that cover the grid as a complete one.
Complete(k) == IF k.fitter = "sglang" THEN Sampled(k) = Grid(k.grid) ELSE k.plan.complete
Train(k) == IF Complete(k) THEN Sampled(k) ELSE k.plan.train
Held(k) == IF Complete(k) THEN {} ELSE k.plan.holdout

\* What is refused before anything is fitted; sglang accepts a CTA without
\* instructions on the proof that it was entered.
SelectionAdmitted(k) ==
    /\ k.plan.train \cap k.plan.holdout = {}
    /\ Sampled(k) \subseteq Grid(k.grid)
    /\ Complete(k) => Train(k) = Grid(k.grid) /\ k.format = "memc"
    /\ ~Complete(k) => Held(k) # {}
    /\ ~Complete(k) /\ k.fitter = "r15" => \A b \in Sampled(k) : k.recs[b] # << >>

\* Structural classes: one for all CTAs, one per structure of a complete
\* grid, or one chosen by the y coordinate, which holdouts must confirm.
StructuresOf(k, ctas) == {Structure(k.recs[b]) : b \in ctas}
OneClass(k) ==
    IF k.fitter = "sglang"
    THEN Cardinality(StructuresOf(k, Sampled(k))) = 1 /\ {} \notin StructuresOf(k, Sampled(k))
    ELSE Cardinality(StructuresOf(k, Train(k))) = 1

Row(k, b) == {c \in Grid(k.grid) : Coordinate(k.grid, c)[2] = Coordinate(k.grid, b)[2]}
ClassOf(k, b) ==
    IF OneClass(k) THEN TheOnly(StructuresOf(k, Train(k)))
    ELSE IF Complete(k) THEN Structure(k.recs[b])
    ELSE TheOnly(StructuresOf(k, Row(k, b) \cap Train(k)))

StructureAdmitted(k) ==
    /\ ~OneClass(k) /\ ~Complete(k) =>
         /\ k.grid[2] > 1
         /\ \A b \in Grid(k.grid) :
              /\ Cardinality(StructuresOf(k, Row(k, b) \cap Train(k))) = 1
              /\ k.fitter = "sglang" => Row(k, b) \cap Held(k) # {}
    /\ \A b \in Held(k) : Structure(k.recs[b]) = ClassOf(k, b)

\* The schema version says which kind of profile it is.
Version(k) ==
    CASE OneClass(k) /\ k.format = "raw" -> 1
      [] OneClass(k) /\ k.format = "memc" /\ ~Complete(k) -> 4
      [] OneClass(k) /\ k.format = "memc" /\ Complete(k) -> 5
      [] ~OneClass(k) /\ Complete(k) -> IF k.fitter = "r15" THEN 6 ELSE 9
      [] ~OneClass(k) /\ ~Complete(k) -> IF k.fitter = "r15" THEN 10 ELSE 11
Structural(p) == p.version >= 6
SelectedByRow(k) == Version(k) \in {10, 11}

-----------------------------------------------------------------------------
\* The profile

\* build_template: the instructions of the first CTA of a class, a rule for
\* each from the CTAs that execute it, and the times of every CTA when the
\* grid is complete
Entry(k, ctas, fitting, flat, i) ==
    LET recs == k.recs[Least(ctas)]
        slot == Slot(recs, i)
        points == [b \in {c \in fitting : slot \in Structure(k.recs[c])} |->
                      RecordAt(k.recs[b], slot).base]
    IN  [slot |-> slot,
         rule |-> IF flat THEN FitAffine(points, k.grid)
                  ELSE FitProfileRule(points, k.grid, Complete(k)),
         delta |-> recs[i].ts - StartTime(recs),
         by_cta |-> IF Complete(k)
                    THEN [b \in ctas |-> RecordAt(k.recs[b], slot).ts - StartTime(k.recs[b])]
                    ELSE << >>]

Template(k, ctas, fitting, flat) ==
    [i \in DOMAIN k.recs[Least(ctas)] |-> Entry(k, ctas, fitting, flat, i)]

RulesFound(template) == \A i \in DOMAIN template : template[i].rule # NoRule

\* A class of a selector is fitted from all training CTAs; where that finds no
\* rule, sglang falls back to one stride per CTA, from the class alone.
ClassTemplate(k, s) ==
    LET ctas == {b \in Train(k) : Structure(k.recs[b]) = s}
        template == Template(k, ctas, IF SelectedByRow(k) THEN Train(k) ELSE ctas, Version(k) = 1)
    IN  IF Version(k) = 11 /\ ~RulesFound(template) THEN Template(k, ctas, ctas, TRUE)
        ELSE template

\* timestamp_delta: the CTA's own time when there is a table
Delta(e, b) == IF e.by_cta = << >> THEN e.delta ELSE e.by_cta[b]

\* The n-th instruction of CTA b, its template sorted by the CTA's own times
\* or by those of the anchor
OrderKey(template, b, own, i) == <<IF own THEN Delta(template[i], b) ELSE template[i].delta, i>>
Nth(template, b, own, n) ==
    template[CHOOSE i \in DOMAIN template :
        Cardinality({j \in DOMAIN template :
            LexLess(OrderKey(template, b, own, j), OrderKey(template, b, own, i))}) = n - 1]

\* r15 predicts the holdouts, slot by slot; validate_samples of sglang goes
\* through all samples in their order.
SamplesExact(k, p) ==
    LET template(b) == p.classes[p.class_of[b]]
    IN  IF k.fitter = "r15"
        THEN \A b \in Held(k) : \A i \in DOMAIN template(b) :
                PredictBase(template(b)[i].rule, k.grid, b)
                  = RecordAt(k.recs[b], template(b)[i].slot).base
        ELSE \A b \in Sampled(k) :
                /\ Len(template(b)) = Len(k.recs[b])
                /\ \A n \in DOMAIN k.recs[b] :
                     LET e == Nth(template(b), b, TRUE, n)
                     IN  /\ e.slot[1] = k.recs[b][n].sig
                         /\ PredictBase(e.rule, k.grid, b) = k.recs[b][n].base

\* Mutant of InvariantModulo: only strides are looked at, not the y table.
InvariantStrides(r, ctas) ==
    IF r.kind = "table" THEN Cardinality({r.bases[b] % SectorBytes : b \in ctas}) = 1
    ELSE \A f \in {"xs", "ys", "zs", "qs", "rs", "hs", "step"} \cap DOMAIN r :
            r[f] % SectorBytes = 0

\* count_profile: the sectors that the whole grid will request. An
\* instruction whose base has the same residue in every CTA is counted once
\* and multiplied.
Sectors(base) == (base + Span - 1) \div SectorBytes - base \div SectorBytes + 1

Strides(r) == {r[f] : f \in {"xs", "ys", "zs", "qs", "rs", "hs", "step"} \cap DOMAIN r}
OffsetsOf(r) == IF "yoff" \in DOMAIN r THEN {r.yoff[y] : y \in DOMAIN r.yoff} ELSE {0}
InvariantModulo(r, ctas) ==
    IF r.kind = "table" THEN Cardinality({r.bases[b] % SectorBytes : b \in ctas}) = 1
    ELSE /\ \A s \in Strides(r) : s % SectorBytes = 0
         /\ Cardinality({o % SectorBytes : o \in OffsetsOf(r)}) = 1

EntryCensus(g, r, ctas) ==
    IF InvariantModulo(r, ctas)
    THEN Cardinality(ctas) * Sectors(PredictBase(r, g, Least(ctas)))
    ELSE SumFunction([b \in ctas |-> Sectors(PredictBase(r, g, b))])

CensusOf(k, classes, class_of) ==
    LET ctas(s) == {b \in Grid(k.grid) : class_of[b] = s}
        census(s) == [i \in DOMAIN classes[s] |-> EntryCensus(k.grid, classes[s][i].rule, ctas(s))]
    IN  SumFunction([s \in DOMAIN classes |-> SumFunction(census(s))])

\* Classes are known by their structures. A selector keeps one for every row.
Fitted(k) ==
    [version |-> Version(k),
     classes |-> [s \in StructuresOf(k, Train(k)) |-> ClassTemplate(k, s)],
     class_of |-> [b \in Grid(k.grid) |-> ClassOf(k, b)]]

Admitted(k) ==
    /\ SelectionAdmitted(k)
    /\ StructureAdmitted(k)
    /\ LET fit == Fitted(k)
       IN  /\ \A s \in DOMAIN fit.classes : RulesFound(fit.classes[s])
           /\ SamplesExact(k, fit)

ProfileOf(k) ==
    LET fit == Fitted(k)
    IN  [version |-> fit.version, classes |-> fit.classes, class_of |-> fit.class_of,
         census |-> IF k.fitter = "r15" THEN 0 ELSE CensusOf(k, fit.classes, fit.class_of)]

Profile ==
    /\ phase = "sampled"
    /\ IF Admitted(w)
       THEN phase' = "profiled" /\ profile' = ProfileOf(w)
       ELSE phase' = "refused" /\ UNCHANGED profile
    /\ UNCHANGED <<w, who, heap, out>>

-----------------------------------------------------------------------------
\* The expansion to other layers

Entries(p) == UNION {{<<s, i>> : i \in DOMAIN p.classes[s]} : s \in DOMAIN p.classes}

Normalise(p) ==
    [p EXCEPT !.classes = [s \in DOMAIN p.classes |-> [i \in DOMAIN p.classes[s] |->
        [p.classes[s][i] EXCEPT !.rule = Normalized(@, w.grid)]]]]

\* The bytes that the instruction e touches: the code looks at each CTA of
\* a structural class, and at the rule alone when there is one template.
Touched(p, e) ==
    LET rule == p.classes[e[1]][e[2]].rule
        ctas == {b \in Grid(w.grid) : p.class_of[b] = e[1]}
    IN  Footprint(IF Structural(p) THEN ClassBounds(rule, w.grid, ctas) ELSE GridBounds(rule, w.grid))

Observed == Pairs(w.views, 0, w.target)
DeltasOf(p, e) == Deltas(Touched(p, e), Observed)
Private(p) == {Touched(p, e) : e \in {d \in Entries(p) : DeltasOf(p, d) = {}}}
FirstPrivate == UnknownCursor(w.views) + w.taken

Shift(p, e) == IF DeltasOf(p, e) # {} THEN TheOnly(DeltasOf(p, e))
               ELSE PrivateShift(Touched(p, e), Private(p), FirstPrivate)

Bindable(p) ==
    /\ \A e \in Entries(p) : Cardinality(DeltasOf(p, e)) <= 1
    /\ ~Exhausted(Private(p), FirstPrivate)

\* What was counted for the source is no claim about the target.
Rebound(p) ==
    [version |-> p.version, class_of |-> p.class_of,
     classes |-> [s \in DOMAIN p.classes |-> [i \in DOMAIN p.classes[s] |->
         [p.classes[s][i] EXCEPT !.rule = Translated(@, Shift(p, <<s, i>>))]]]]

\* Binder.rebind, and its ValueErrors
Rebind ==
    /\ phase = "profiled" /\ who = "expanded"
    /\ LET normal == Normalise(profile)
       IN  IF w.own THEN phase' = "bound" /\ profile' = normal
           ELSE IF Bindable(normal) THEN phase' = "bound" /\ profile' = Rebound(normal)
           ELSE phase' = "refused" /\ UNCHANGED profile
    /\ UNCHANGED <<w, who, heap, out>>

-----------------------------------------------------------------------------
\* The two generators

\* KernelGenerator runs on the fitter's profiles and on expanded ones.
Native == who # "text"

TemplateOf(b) == profile.classes[profile.class_of[b]]

\* The order in which CTA b executes its template. The stream sorts by the
\* CTA's own times (order_for); the text does so in structural profiles
\* (ordered_class_template), and sorts the single template of the others
\* once for all CTAs, by the times of the anchor.
EntryAt(b, n) == Nth(TemplateOf(b), b, Native \/ Structural(profile), n)

\* A cursor's time: the C++ adds in 64 bits without a check, Python in Z
TimeAt(b, n) ==
    LET t == w.place[b].start + Delta(EntryAt(b, n), b)
    IN  IF Native THEN t % WordSize ELSE t
Cursor(b, n) == <<TimeAt(b, n), w.place[b].sm, b, n>>

\* The profiles that a generator accepts: generate knows the statuses of r15
\* only, KernelGenerator the schemas from 4 on.
Readable ==
    /\ who = "text" => w.fitter = "r15"
    /\ Native => profile.version >= 4
    /\ ~Structural(profile) => \A b \in Grid(w.grid) : TemplateOf(b) # << >>

\* initialize_cursors; the heap of generate
Open ==
    /\ phase = (IF who = "expanded" THEN "bound" ELSE "profiled")
    /\ IF Readable
       THEN /\ phase' = "merging"
            /\ heap' = {Cursor(b, 1) : b \in {c \in Grid(w.grid) : TemplateOf(c) # << >>}}
       ELSE phase' = "refused" /\ UNCHANGED heap
    /\ UNCHANGED <<w, profile, who, out>>

\* The address an instruction is given, or Refused
BaseOf(e, b) ==
    IF Native THEN AddressBase(ParseRule(e.rule), w.grid, b, MaxAddress)
    ELSE LET base == PredictBase(e.rule, w.grid, b) IN IF base < 0 THEN Refused ELSE base

\* Mutant of Overflows: no check at the pop.
NeverOverflows(e, b) == FALSE

\* next's check, made only when a cursor is popped
Overflows(e, b) == Native /\ w.place[b].start > (WordSize - 1) - Delta(e, b)

Top == CHOOSE c \in heap : \A d \in heap \ {c} : LexLess(c, d)

\* next and the loop of generate: the least cursor is popped, its instruction
\* emitted, and the CTA's next one pushed
Emit ==
    /\ phase = "merging" /\ heap # {}
    /\ LET b == Top[3]
           n == Top[4]
           e == EntryAt(b, n)
           rest == heap \ {Top}
       IN  IF Overflows(e, b) \/ BaseOf(e, b) = Refused
           THEN phase' = "failed" /\ UNCHANGED <<heap, out>>
           ELSE /\ out' = Append(out, [cta |-> b, slot |-> e.slot, base |-> BaseOf(e, b),
                                       time |-> TimeAt(b, n)])
                /\ heap' = IF n < Len(TemplateOf(b)) THEN rest \cup {Cursor(b, n + 1)} ELSE rest
                /\ UNCHANGED phase
    /\ UNCHANGED <<w, profile, who>>

Close ==
    /\ phase = "merging" /\ heap = {}
    /\ phase' = "done"
    /\ UNCHANGED <<w, profile, who, heap, out>>

Init == /\ w \in Workloads
        /\ who \in w.by
        /\ phase = "sampled"
        /\ profile = NoProfile
        /\ heap = {}
        /\ out = << >>

Next == Profile \/ Rebind \/ Open \/ Emit \/ Close

Spec == Init /\ [][Next]_vars

-----------------------------------------------------------------------------
(***************************************************************************)
(* Properties                                                              *)
(***************************************************************************)

\* The place of an emitted instruction in the merge of all CTAs
MergeKey(o) == <<o.time, w.place[o.cta].sm, o.cta>>
InMergeOrder == \A i \in 1 .. Len(out) - 1 : ~LexLess(MergeKey(out[i + 1]), MergeKey(out[i]))

\* The stream that the cache backend reads is the merge of all CTAs by time,
\* then SM, then CTA, at every prefix, whichever order each CTA executes its
\* template in; and no instruction's time has wrapped: the 64-bit sum that
\* orders the heap is unchecked (KernelGenerator::next), the check at the pop
\* comes later and must still come before anything is emitted out of order.
StreamOrdered ==
    Native =>
        /\ InMergeOrder
        /\ \A i \in DOMAIN out : out[i].time >= w.place[out[i].cta].start

\* The manifest of generate says "global merge of issue.config CTA start plus
\* sampled intra-CTA timestamp delta".
TextOrdered == who = "text" => InMergeOrder

\* How often CTA b executes an instruction of this signature at this address
Emitted(b, sig, base) ==
    Cardinality({i \in DOMAIN out : out[i].cta = b /\ out[i].slot[1] = sig /\ out[i].base = base})
Executed(b, sig, base) ==
    Cardinality({i \in DOMAIN w.recs[b] : w.recs[b][i].sig = sig /\ w.recs[b][i].base = base})

\* A generator that comes to its end has reproduced the whole kernel: every
\* CTA, sampled or not, executes exactly its instructions at exactly its
\* addresses, in the fits of Python and in the arithmetic of C++ alike. A
\* kernel that the rules cannot describe is refused by then. When the grid was
\* sampled completely, the times are those of the trace too.
TraceRegenerated ==
    phase = "done" /\ (who = "expanded" => w.own) =>
        /\ \A b \in Grid(w.grid) : \A i \in DOMAIN w.recs[b] :
             LET r == w.recs[b][i] IN Emitted(b, r.sig, r.base) = Executed(b, r.sig, r.base)
        /\ \A i \in DOMAIN out : Executed(out[i].cta, out[i].slot[1], out[i].base) > 0
        /\ Complete(w) => \A i \in DOMAIN out :
             LET recs == w.recs[out[i].cta]
             IN  out[i].time - w.place[out[i].cta].start
                   = RecordAt(recs, out[i].slot).ts - StartTime(recs)

\* The census of an admitted profile, counted from rules and residues, is the
\* number of sectors that the kernel requests, so that run_model's comparison
\* with the backend's own count is a check of the backend.
CensusExact ==
    phase = "profiled" /\ w.fitter = "sglang" =>
        LET census(b) == [i \in DOMAIN w.recs[b] |-> Sectors(w.recs[b][i].base)]
        IN  profile.census = SumFunction([b \in Grid(w.grid) |-> SumFunction(census(b))])

\* What comes out for another layer is the sampled kernel with its objects
\* moved. Every CTA executes the instructions it executed, and an instruction
\* moves by one shift in all CTAs: when all it touches lies in an observed
\* tensor, to a counterpart of that tensor. Every other one is moved by whole
\* pages to fresh memory, above what earlier launches took and outside all
\* tensors, and two of these share a byte exactly when they did before.
\* The bounds from which Python chooses a shift must be true of the addresses
\* that C++ computes in the end.
Bytes(base) == base .. base + Span - 1
SourceBase(o) == RecordAt(w.recs[o.cta], o.slot).base
LayerRebound ==
    phase = "done" /\ who = "expanded" /\ ~w.own =>
        LET source == [i \in DOMAIN out |-> SourceBase(out[i])]
            peers == [i \in DOMAIN out |->
                        {j \in DOMAIN out : /\ out[j].slot = out[i].slot
                                            /\ profile.class_of[out[j].cta] = profile.class_of[out[i].cta]}]
            shift(i) == out[i].base - source[i]
            tensors(i) == {m \in Observed : \A j \in peers[i] :
                             Bytes(source[j]) \subseteq m.begin .. m.end - 1}
            private == {i \in DOMAIN out : tensors(i) = {}}
        IN  /\ \A b \in Grid(w.grid) : {out[i].slot : i \in {j \in DOMAIN out : out[j].cta = b}}
                                         = Structure(w.recs[b])
            /\ Len(out) = SumFunction([b \in Grid(w.grid) |-> Len(w.recs[b])])
            /\ \A i \in DOMAIN out : \A j \in peers[i] : shift(i) = shift(j)
            /\ \A i \in DOMAIN out \ private : shift(i) \in {m.delta : m \in tensors(i)}
            /\ \A i \in private :
                 /\ shift(i) % Page = 0
                 /\ out[i].base >= FirstPrivate
                 /\ \A v \in w.views : Bytes(out[i].base) \cap (v.begin .. v.begin + v.bytes - 1) = {}
            /\ \A i, j \in private :
                 (Bytes(source[i]) \cap Bytes(source[j]) = {})
                   <=> (Bytes(out[i].base) \cap Bytes(out[j].base) = {})

\* A complete capture is never refused: whatever its instructions, their times
\* and addresses, their equal signatures and its CTAs without any, every CTA
\* finds its class, every address a rule or a table, every sample its place.
CompleteGridAdmitted ==
    phase = "refused" /\ Complete(w) /\ w.format = "memc" =>
        \/ who = "text" /\ w.fitter = "sglang"
        \/ w.fitter = "r15" /\ \A b \in Grid(w.grid) : w.recs[b] = << >>
        \/ profile # NoProfile /\ who = "expanded" /\ ~w.own

\* sglang_sample_to_packed.py calls its profiles PASS_NATIVE_CTA_PACKED_EXACT_
\* SAMPLES and requires of its fallback to the linear rule that "the
\* independent held-out lane/address check below remains mandatory": what the
\* backend generates for a sampled CTA is what was sampled.
SampledAddressesExact ==
    who = "stream" /\ w.fitter = "sglang" =>
        \A i \in DOMAIN out : out[i].cta \in Sampled(w) =>
            Executed(out[i].cta, out[i].slot[1], out[i].base) > 0
=============================================================================
