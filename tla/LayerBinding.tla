---------------------------- MODULE LayerBinding ----------------------------
(***************************************************************************)
(* From the profile of a sampled kernel to a kernel of another layer:      *)
(* expand_profiles.py.                                                     *)
(*                                                                         *)
(* Only one decoder layer is sampled. The launches of the other layers use *)
(* its profiles with the addresses moved: a rule whose addresses all lie   *)
(* in an observed tensor moves to that tensor's counterpart in the target  *)
(* layer; what lies in no tensor is taken for a private object and gets    *)
(* fresh pages. A rule is moved as a whole, by one shift for all CTAs, so  *)
(* the program must know the bounds of its addresses without listing them. *)
(***************************************************************************)
EXTENDS ProfileRules, FiniteSetsExt

CONSTANTS MaxAddress,    \* the largest address (2^64 - 1 in the code)
          Span,          \* bytes from an instruction's base to its end
          Page,          \* 4096 in the code
          PrivateBase,   \* 0x600000000000: private objects lie above it,
          Slack          \* and this far (2^40) above what was observed

ASSUME BindingAssumption ==
    /\ MaxAddress \in Nat /\ Slack \in Nat
    /\ {Span, Page} \subseteq Nat \ {0}
    /\ PrivateBase \in {n * Page : n \in 0 .. MaxAddress}

\* Layers are numbers; what belongs to no layer is the same for all of them.
Shared == -1

-----------------------------------------------------------------------------
\* The placement that the expansion writes: round robin over 48 SMs
Placement(g) == [b \in Grid(g) |-> [start |-> (b \div 48) * 1000000, sm |-> b % 48]]

\* normalize_backend_rules: one stride per flattened CTA becomes one per axis,
\* since the C++ generator multiplies it by x alone.
Normalized(r, g) ==
    IF r.kind = "coordinate" /\ "zs" \notin DOMAIN r /\ g[2] * g[3] > 1
    THEN With(r, [ys |-> r.xs * g[1], zs |-> r.xs * g[1] * g[2]]) ELSE r

\* translate
Translated(r, delta) ==
    IF r.kind = "table" THEN [r EXCEPT !.bases = [b \in DOMAIN @ |-> @[b] + delta]]
    ELSE [r EXCEPT !.at = @ + delta]

\* rule_bounds of a grid: the extremes of each coordinate's part
XPart(r, g) ==
    CASE r.kind = "permutation" -> {0, (g[1] - 1) * r.step}
      [] r.kind \in {"tiled", "floor"} ->
            {r.qs * (x \div r.width) + (IF r.kind = "tiled" THEN r.rs * (x % r.width) ELSE 0) :
                x \in 0 .. g[1] - 1}
      [] r.kind = "coordinate" ->
            {0, ((IF "zs" \in DOMAIN r THEN g[1] ELSE GridSize(g)) - 1) * r.xs}
YPart(r, g) == IF "yoff" \in DOMAIN r THEN {r.yoff[y] : y \in DOMAIN r.yoff}
               ELSE IF "ys" \in DOMAIN r THEN {0, (g[2] - 1) * r.ys} ELSE {0}
ZPart(r, g) == IF "zs" \in DOMAIN r THEN {r.zs * z + HalfStep(r, z) : z \in 0 .. g[3] - 1} ELSE {0}

GridBounds(r, g) ==
    IF r.kind = "table" THEN [lo |-> Min({r.bases[b] : b \in DOMAIN r.bases}),
                              hi |-> Max({r.bases[b] : b \in DOMAIN r.bases})]
    ELSE [lo |-> r.at + Min(XPart(r, g)) + Min(YPart(r, g)) + Min(ZPart(r, g)),
          hi |-> r.at + Max(XPart(r, g)) + Max(YPart(r, g)) + Max(ZPart(r, g))]

\* Those of a class: rule_value computes what predict_bases does.
ClassBounds(r, g, ctas) == LET values == {PredictBase(r, g, b) : b \in ctas}
                           IN  [lo |-> Min(values), hi |-> Max(values)]

\* The bytes from the first to the last that a rule's instruction touches
Footprint(bounds) == [bounds EXCEPT !.hi = @ + Span]

-----------------------------------------------------------------------------
\* Binder.mapping: an observed view [kind, label, layer, begin, bytes] of the
\* source layer and the one of the target layer with the same label and layout
\* (its bytes stand for shape, strides and type). Labels of module inputs and
\* outputs are not unique.
Counterparts(s, views, source, target) ==
    {t \in views : /\ t.kind = s.kind /\ t.label = s.label /\ t.bytes = s.bytes
                   /\ \/ s.layer = Shared /\ t.layer = Shared
                      \/ s.layer = source /\ t.layer = target}

Pairs(views, source, target) ==
    UNION {{[begin |-> s.begin, end |-> s.begin + s.bytes, delta |-> t.begin - s.begin] :
               t \in Counterparts(s, views, source, target)} : s \in {v \in views : v.bytes > 0}}

\* The shifts of the pairs that contain an interval
Deltas(interval, pairs) ==
    {m.delta : m \in {p \in pairs : p.begin <= interval.lo /\ interval.hi <= p.end}}

-----------------------------------------------------------------------------
\* Private objects: the intervals in no tensor, merged where they overlap or
\* touch; each cluster of them gets its own pages behind the cursor.
PageDown(n) == (n \div Page) * Page
PageUp(n) == PageDown(n + Page - 1)

UnknownCursor(views) ==
    Max({PrivateBase, PageUp(Max({v.begin + v.bytes : v \in views} \cup {0}) + Slack)})

\* Mutant of Begins: every interval is a cluster of its own.
EveryBegin(intervals) == {i.lo : i \in intervals}

Begins(intervals) ==
    {i.lo : i \in {n \in intervals : \A m \in intervals : m.lo < n.lo => m.hi < n.lo}}
ClusterOf(i, intervals) == Max({b \in Begins(intervals) : b <= i.lo})
ClusterEnd(b, intervals) == Max({i.hi : i \in {n \in intervals : ClusterOf(n, intervals) = b}})

\* Pages of a cluster, and one page between clusters
PrivateBytes(b, intervals) == PageUp(ClusterEnd(b, intervals) - PageDown(b))
Taken(begins, intervals) == SumFunction([b \in begins |-> PrivateBytes(b, intervals) + Page])

PrivateShift(i, intervals, cursor) ==
    LET b == ClusterOf(i, intervals)
    IN  cursor + Taken({c \in Begins(intervals) : c < b}, intervals) - PageDown(b)

\* "Modeled private address domain exhausted"
Exhausted(intervals, cursor) ==
    /\ intervals # {}
    /\ cursor + Taken(Begins(intervals), intervals) >= (MaxAddress + 1) \div 2
=============================================================================
