---------------------------- MODULE ProfileRules ----------------------------
(***************************************************************************)
(* The address rules of a sampled profile, as pure operators.              *)
(*                                                                         *)
(* A kernel launches a grid of CTAs; the sampler traces a few. For each    *)
(* memory instruction, hyfiss_sampled_sass_trace_profile_rules_r15.py fits *)
(* one rule to the addresses the training CTAs used, and the rule gives    *)
(* the address of every CTA of the grid: in Python (predict_bases) and in  *)
(* the C++ generator (address_base), which reads the rule from the         *)
(* profile's JSON.                                                         *)
(*                                                                         *)
(* The training points are a function p from CTAs to addresses. The code   *)
(* keeps them as a list sorted by CTA, so its "first point" is the least   *)
(* CTA of the domain and its "next point such that" the least one that     *)
(* qualifies. A fit that raises ValueError returns NoRule.                 *)
(***************************************************************************)
EXTENDS Integers, FiniteSets, Sequences

NoRule == [kind |-> "none"]

Least(S) == CHOOSE n \in S : \A m \in S : n <= m

GridSize(g) == g[1] * g[2] * g[3]
Grid(g) == 0 .. GridSize(g) - 1

\* block_coordinates and its inverse, block_id
Coordinate(g, b) == <<b % g[1], (b \div g[1]) % g[2], b \div (g[1] * g[2])>>
BlockId(g, c) == c[1] + g[1] * (c[2] + g[2] * c[3])

\* Python's  n % d == 0  and  n // d  for an exact quotient of either sign
Divides(d, n) == d # 0 /\ n % (IF d > 0 THEN d ELSE -d) = 0
Quotient(n, d) == IF d > 0 THEN n \div d ELSE (-n) \div (-d)

\* The rule r with the fields of s that it has not itself
With(r, s) == [f \in DOMAIN r \cup DOMAIN s |-> IF f \in DOMAIN r THEN r[f] ELSE s[f]]

-----------------------------------------------------------------------------
\* predict_bases: the address that Python computes for CTA b

\* The permuted flat index of a one-dimensional CTA: its three digits in the
\* extents e, written back in the order o of the axes.
PermutedIndex(e, o, b) ==
    LET digit == <<b \div (e[2] * e[3]), (b \div e[3]) % e[2], b % e[3]>>
    IN  (digit[o[1]] * e[o[2]] + digit[o[2]]) * e[o[3]] + digit[o[3]]

\* The part of a rule that starts at the z half of the grid, when it has one
HalfStep(r, z) == IF "half" \in DOMAIN r THEN IF z >= r.half THEN r.hs ELSE 0 ELSE 0

Tiled(r, g, b) ==
    LET c == Coordinate(g, b)
    IN  r.at + r.qs * (c[1] \div r.width) + r.rs * (c[1] % r.width)
             + r.yoff[c[2] + 1] + r.zs * c[3] + HalfStep(r, c[3])

Coordinated(r, g, b) ==
    LET c == Coordinate(g, b)
    IN  r.at + r.xs * c[1] + r.zs * c[3] + HalfStep(r, c[3])
             + (IF "yoff" \in DOMAIN r THEN r.yoff[c[2] + 1] ELSE r.ys * c[2])

PredictBase(r, g, b) ==
    CASE r.kind = "tiled" -> Tiled(r, g, b)
      [] r.kind = "permutation" -> r.at + r.step * PermutedIndex(r.extents, r.order, b)
      [] r.kind = "floor" -> r.at + r.qs * (Coordinate(g, b)[1] \div r.width)
      [] r.kind = "table" -> r.bases[b]
      [] r.kind = "coordinate" /\ "zs" \in DOMAIN r -> Coordinated(r, g, b)
      [] r.kind = "coordinate" /\ "zs" \notin DOMAIN r -> r.at + r.xs * b

-----------------------------------------------------------------------------
\* The C++ generator: parse_rule fills the fields a rule lacks, and
\* address_base computes, or refuses when the value is no 64-bit address.

Refused == -1
NoPartition == 1000                  \* has_z_partition is false: no z reaches it

ParseRule(r) == With(r, [xs |-> 0, ys |-> 0, zs |-> 0, yoff |-> << >>,
                         half |-> NoPartition, hs |-> 0])

WellFormedRule(r) ==
    /\ r.kind \in {"tiled", "floor"} => r.width >= 2
    /\ r.kind = "tiled" => r.yoff # << >>
    /\ r.kind = "permutation" => r.step # 0
    /\ r.kind = "table" => DOMAIN r.bases # {}

AddressBase(r, g, b, MaxAddress) ==
    LET x == b % g[1]
        y == (b \div g[1]) % g[2]
        z == (b \div g[1]) \div g[2]
        z_term == r.zs * z + IF z >= r.half THEN r.hs ELSE 0
        flat == g[2] = 1 /\ g[3] = 1
        defined ==
            /\ r.kind \in {"permutation", "floor"} => flat
            /\ r.kind = "permutation" =>
                 r.extents[1] * r.extents[2] * r.extents[3] = g[1]
            /\ r.kind = "table" => b \in DOMAIN r.bases
            /\ r.kind \in {"tiled", "coordinate"} /\ r.yoff # << >> => y < Len(r.yoff)
        value ==
            CASE r.kind = "table" -> r.bases[b]
              [] r.kind = "permutation" -> r.at + r.step * PermutedIndex(r.extents, r.order, x)
              [] r.kind = "tiled" -> r.at + r.qs * (x \div r.width) + r.rs * (x % r.width)
                                          + r.yoff[y + 1] + z_term
              [] r.kind = "floor" -> r.at + r.qs * (x \div r.width)
              [] r.kind = "coordinate" ->
                    r.at + r.xs * x + z_term
                         + (IF r.yoff = << >> THEN r.ys * y ELSE r.yoff[y + 1])
    IN  IF defined /\ WellFormedRule(r) THEN IF value \in 0..MaxAddress THEN value ELSE Refused
        ELSE Refused

-----------------------------------------------------------------------------
\* The fits. Each ends by requiring that the rule explain every point.

Explaining(r, g, p) == IF \A b \in DOMAIN p : PredictBase(r, g, b) = p[b] THEN r ELSE NoRule

Anchor(p) == Least(DOMAIN p)

\* The points that differ from the anchor on one axis only
AlignedWith(p, g, axis) ==
    LET a == Coordinate(g, Anchor(p))
    IN  {b \in DOMAIN p : \A i \in 1..3 : (Coordinate(g, b)[i] = a[i]) <=> (i # axis)}

\* The step along an axis, from the first aligned point: a set with one
\* element, or with none when there is no such point or no integral step.
StepAlong(p, g, axis, points) ==
    {Quotient(p[b] - p[Anchor(p)], Coordinate(g, b)[axis] - Coordinate(g, Anchor(p))[axis]) :
        b \in {n \in points : /\ n = Least(points)
                              /\ Divides(Coordinate(g, n)[axis] - Coordinate(g, Anchor(p))[axis],
                                         p[n] - p[Anchor(p)])}}

AxisStep(p, g, axis) ==
    IF g[axis] = 1 THEN {0} ELSE StepAlong(p, g, axis, AlignedWith(p, g, axis))

TheOnly(S) == CHOOSE s \in S : TRUE

\* fit_affine: one stride per flattened CTA
FitAffine(p, g) ==
    IF Cardinality(DOMAIN p) < 2 THEN NoRule
    ELSE LET a == Anchor(p)
             b == Least(DOMAIN p \ {a})
             s == Quotient(p[b] - p[a], b - a)
         IN  IF ~Divides(b - a, p[b] - p[a]) THEN NoRule
             ELSE Explaining([kind |-> "coordinate", at |-> p[a] - s * a, xs |-> s], g, p)

\* fit_affine_xyz: one stride per axis
FitXYZ(p, g) ==
    LET a == Anchor(p)
        c == Coordinate(g, a)
        steps == [axis \in 1..3 |-> AxisStep(p, g, axis)]
        s == [axis \in 1..3 |-> TheOnly(steps[axis])]
    IN  IF Cardinality(DOMAIN p) < 2 \/ \E axis \in 1..3 : steps[axis] = {} THEN NoRule
        ELSE Explaining([kind |-> "coordinate",
                         at |-> p[a] - s[1] * c[1] - s[2] * c[2] - s[3] * c[3],
                         xs |-> s[1], ys |-> s[2], zs |-> s[3]], g, p)

\* The column of CTAs above and below the anchor, one for every y
YColumn(p, g) == LET c == Coordinate(g, Anchor(p))
                 IN  [y \in 1..g[2] |-> BlockId(g, <<c[1], y - 1, c[3]>>)]
HasYColumn(p, g) == \A y \in 1..g[2] : YColumn(p, g)[y] \in DOMAIN p
YOffsets(p, g) == [y \in 1..g[2] |-> p[YColumn(p, g)[y]] - p[Anchor(p)]]

\* fit_affine_x_y_table_z: strides in x and z, a table in y
FitYTable(p, g) ==
    LET a == Anchor(p)
        c == Coordinate(g, a)
        x == AxisStep(p, g, 1)
        z == AxisStep(p, g, 3)
    IN  IF Cardinality(DOMAIN p) < 2 \/ x = {} \/ z = {} \/ ~HasYColumn(p, g) THEN NoRule
        ELSE Explaining([kind |-> "coordinate",
                         at |-> p[a] - TheOnly(x) * c[1] - TheOnly(z) * c[3],
                         xs |-> TheOnly(x), zs |-> TheOnly(z), yoff |-> YOffsets(p, g)], g, p)

\* The two z terms that a split at half the grid needs: a stride from the
\* first point of the lower half, a step from the first of the upper one.
Half(g) == (g[3] + 1) \div 2
LowerZ(p, g) == {b \in AlignedWith(p, g, 3) : Coordinate(g, b)[3] < Half(g)}
UpperZ(p, g) == {b \in AlignedWith(p, g, 3) : Coordinate(g, b)[3] >= Half(g)}
LowerStep(p, g) == StepAlong(p, g, 3, LowerZ(p, g))
UpperStep(p, g) == LET b == Least(UpperZ(p, g))
                   IN  p[b] - p[Anchor(p)] - TheOnly(LowerStep(p, g)) * Coordinate(g, b)[3]
HasHalves(p, g) == LowerZ(p, g) # {} /\ UpperZ(p, g) # {} /\ LowerStep(p, g) # {}

\* fit_affine_x_y_table_z_half_partition
FitZHalf(p, g) ==
    LET a == Anchor(p)
        x == AxisStep(p, g, 1)
    IN  IF \/ g[3] < 4 \/ Coordinate(g, a)[3] # 0
           \/ x = {} \/ ~HasHalves(p, g) \/ ~HasYColumn(p, g) THEN NoRule
        ELSE Explaining([kind |-> "coordinate",
                         at |-> p[a] - TheOnly(x) * Coordinate(g, a)[1],
                         xs |-> TheOnly(x), yoff |-> YOffsets(p, g),
                         zs |-> TheOnly(LowerStep(p, g)),
                         half |-> Half(g), hs |-> UpperStep(p, g)], g, p)

ProperDivisors(n) == {d \in 2..n : n % d = 0}

\* fit_x_quotient_remainder_y_table_z_partition: x cut into tiles of one
\* width. What is left of an address without its y and z terms must depend on
\* x alone; a width is a candidate when the two strides that some pair of x
\* determines explain every point; exactly one width may be.
TiledZ(p, g) ==
    CASE g[3] = 1 -> [zs |-> 0]
      [] g[3] \in 2..3 -> [zs |-> TheOnly(AxisStep(p, g, 3))]
      [] g[3] >= 4 -> [zs |-> TheOnly(LowerStep(p, g)), half |-> Half(g), hs |-> UpperStep(p, g)]

TiledStrides(v, d) ==
    LET det(m, n) == (m \div d) * (n % d) - (n \div d) * (m % d)
        quot(m, n) == v[m] * (n % d) - v[n] * (m % d)
        rem(m, n) == (m \div d) * v[n] - (n \div d) * v[m]
    IN  {<<Quotient(quot(e[1], e[2]), det(e[1], e[2])), Quotient(rem(e[1], e[2]), det(e[1], e[2]))>> :
            e \in {f \in (DOMAIN v) \X (DOMAIN v) :
                     /\ f[1] < f[2]
                     /\ Divides(det(f[1], f[2]), quot(f[1], f[2]))
                     /\ Divides(det(f[1], f[2]), rem(f[1], f[2]))}}

TiledCandidates(p, g, z, yoff) ==
    LET X(b) == Coordinate(g, b)[1]
        rest(b) == p[b] - yoff[Coordinate(g, b)[2] + 1] - z.zs * Coordinate(g, b)[3]
                        - HalfStep(z, Coordinate(g, b)[3])
        xs == {X(b) : b \in DOMAIN p}
        v == [x \in xs |-> rest(CHOOSE b \in DOMAIN p : X(b) = x) - p[0]]
    IN  IF Cardinality(xs) < 4 \/ \E b, e \in DOMAIN p : X(b) = X(e) /\ rest(b) # rest(e) THEN {}
        ELSE {With([kind |-> "tiled", at |-> p[0], width |-> t[1], qs |-> t[2][1], rs |-> t[2][2],
                    yoff |-> yoff], z) :
                t \in {c \in UNION {{d} \X TiledStrides(v, d) : d \in ProperDivisors(g[1])} :
                         \A x \in xs : c[2][1] * (x \div c[1]) + c[2][2] * (x % c[1]) = v[x]}}

\* Mutant of Unique: the first candidate will do.
FirstCandidate(candidates) == IF candidates # {} THEN TheOnly(candidates) ELSE NoRule

Unique(candidates) == IF Cardinality(candidates) = 1 THEN TheOnly(candidates) ELSE NoRule

FitTiled(p, g) ==
    IF \/ g[2] = 1 /\ g[3] = 1
       \/ Anchor(p) # 0 \/ ~HasYColumn(p, g)
       \/ g[3] \in 2..3 /\ AxisStep(p, g, 3) = {}
       \/ g[3] >= 4 /\ ~HasHalves(p, g) THEN NoRule
    ELSE Unique(TiledCandidates(p, g, TiledZ(p, g), YOffsets(p, g)))

\* fit_x_floor_quotient: groups of consecutive CTAs share an address; the
\* width of a group must be the only one that explains the points.
FloorRule(p, g, d) ==
    LET others == {b \in DOMAIN p : b \div d # 0}
        b == Least(others)
    IN  IF others = {} THEN NoRule
        ELSE IF ~Divides(b \div d, p[b] - p[0]) THEN NoRule
        ELSE Explaining([kind |-> "floor", at |-> p[0], width |-> d,
                         qs |-> Quotient(p[b] - p[0], b \div d)], g, p)

FitFloor(p, g) ==
    IF g[2] # 1 \/ g[3] # 1 \/ Cardinality(DOMAIN p) < 5 \/ Anchor(p) # 0 THEN NoRule
    ELSE LET changed == {b \in DOMAIN p : p[b] # p[0]}
         IN  IF Cardinality({p[b] : b \in DOMAIN p}) < 3 THEN NoRule
             ELSE Unique({FloorRule(p, g, d) : d \in 2..Least(changed)} \ {NoRule})

\* fit_x_axis_permutation: x read as three digits, written in another order
Permutation3 == {o \in [1..3 -> 1..3] : {o[i] : i \in 1..3} = 1..3}

PermutationRule(p, g, e, o) ==
    LET index(b) == PermutedIndex(e, o, b)
        a == Anchor(p)
        others == {b \in DOMAIN p : index(b) # index(a)}
        b == Least(others)
        s == Quotient(p[b] - p[a], index(b) - index(a))
    IN  IF others = {} THEN NoRule
        ELSE IF ~Divides(index(b) - index(a), p[b] - p[a]) \/ p[b] = p[a] THEN NoRule
        ELSE Explaining([kind |-> "permutation", at |-> p[a] - s * index(a),
                         extents |-> e, order |-> o, step |-> s], g, p)

Extents(n) == {<<e[1], e[2], n \div (e[1] * e[2])>> :
                 e \in {t \in ProperDivisors(n) \X ProperDivisors(n) :
                           n % (t[1] * t[2]) = 0 /\ n \div (t[1] * t[2]) >= 2}}

FitPermutation(p, g) ==
    IF \/ g[2] # 1 \/ g[3] # 1 \/ Cardinality(DOMAIN p) < 7
       \/ Cardinality({p[b] : b \in DOMAIN p}) < 4 THEN NoRule
    ELSE Unique({PermutationRule(p, g, eo[1], eo[2]) : eo \in Extents(g[1]) \X Permutation3} \ {NoRule})

\* fit_coordinate_rule: a grid of one CTA, or the first of the six that fits
Or(r, s) == IF r # NoRule THEN r ELSE s

FitCoordinateRule(p, g) ==
    IF Cardinality(DOMAIN p) = 1
    THEN IF g = <<1, 1, 1>>
         THEN [kind |-> "coordinate", at |-> p[0], xs |-> 0, ys |-> 0, zs |-> 0] ELSE NoRule
    ELSE Or(FitXYZ(p, g), Or(FitYTable(p, g), Or(FitZHalf(p, g),
         Or(FitTiled(p, g), Or(FitFloor(p, g), FitPermutation(p, g))))))

\* Mutant of FitProfileRule: no table.
FitNoTable(p, g, allow_exact_table) == FitCoordinateRule(p, g)

\* fit_profile_rule: only a complete grid may fall back to a table of its CTAs
FitProfileRule(p, g, allow_exact_table) ==
    Or(FitCoordinateRule(p, g),
       IF allow_exact_table THEN [kind |-> "table", bases |-> p] ELSE NoRule)

-----------------------------------------------------------------------------
\* Which CTAs a plan samples

\* round((extent - 1) * num / den), ties to the even neighbour
Position(extent, f) ==
    LET n == 2 * (extent - 1) * f[1] + f[2]
        q == n \div (2 * f[2])
    IN  IF n % (2 * f[2]) = 0 /\ q % 2 = 1 THEN q - 1 ELSE q
Positions(extent, fractions) == {Position(extent, f) : f \in fractions}

CompletePlan(g) == [complete |-> TRUE, train |-> Grid(g), holdout |-> {}]
HoldoutPlan(g, train, holdout) ==
    IF holdout = {} THEN CompletePlan(g)
    ELSE [complete |-> FALSE, train |-> train, holdout |-> holdout]

\* cta_plan of the census (one kernel, known by its name, is sampled completely
\* instead): fixed fractions of one axis, or the axes and the
\* whole y column with holdouts spread over the grid (the first 32)
CensusPlan(g) ==
    LET active == {i \in 1..3 : g[i] > 1}
        line(fs) == LET axis == TheOnly(active)
                    IN  {BlockId(g, [i \in 1..3 |-> IF i = axis THEN n ELSE 0]) :
                            n \in Positions(g[axis], fs)}
        axes == {<<0, y, 0>> : y \in 0 .. g[2] - 1}
                \cup {<<x, 0, 0>> : x \in {1, g[1] - 1} \cap 0 .. g[1] - 1}
                \cup {<<0, 0, z>> : z \in {1, g[3] - 1} \cap 0 .. g[3] - 1}
        spread == Positions(g[1], {<<1, 100>>, <<1, 4>>, <<1, 2>>, <<3, 4>>, <<99, 100>>})
                  \X Positions(g[2], {<<0, 1>>, <<1, 4>>, <<1, 2>>, <<3, 4>>, <<1, 1>>})
                  \X Positions(g[3], {<<0, 1>>, <<1, 2>>, <<1, 1>>})
        held == {BlockId(g, c) : c \in spread \ axes}
        line_train == line({<<0, 1>>, <<1, 100>>, <<1, 4>>, <<1, 2>>, <<3, 4>>, <<1, 1>>})
        line_held == line({<<1, 50>>, <<1, 8>>, <<1, 3>>, <<2, 3>>, <<7, 8>>, <<49, 50>>})
    IN  CASE GridSize(g) <= 2 -> CompletePlan(g)
          [] GridSize(g) > 2 /\ Cardinality(active) = 1 ->
                HoldoutPlan(g, line_train, line_held \ line_train)
          [] GridSize(g) > 2 /\ Cardinality(active) > 1 ->
                [complete |-> FALSE, train |-> {BlockId(g, c) : c \in axes},
                 holdout |-> {b \in held : Cardinality({e \in held : e < b}) < 32}]

\* build_sparse_cta_plans_complete_small_r4: up to COMPLETE_GRID_LIMIT CTAs are
\* sampled completely, a larger grid by the plan of the census
SparsePlan(g, COMPLETE_GRID_LIMIT) ==
    IF GridSize(g) <= COMPLETE_GRID_LIMIT THEN CompletePlan(g) ELSE CensusPlan(g)

\* ctas of make_sample_plan.py: the first, second and fourth neighbour on
\* every axis, and holdouts at fixed fractions
SGLangPlan(g) ==
    LET n == GridSize(g)
        stride == <<1, g[1], g[1] * g[2]>>
        train == {0} \cup UNION {{m * stride[i] : m \in {1, 2, 4} \cap 0 .. g[i] - 1} : i \in 1..3}
    IN  IF n <= 5 THEN CompletePlan(g)
        ELSE [complete |-> FALSE, train |-> train,
              holdout |-> ({3, 5, n \div 2, n \div 3, n - 1, n - 2} \cap Grid(g)) \ train]
=============================================================================
