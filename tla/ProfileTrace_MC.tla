-------------------------- MODULE ProfileTrace_MC --------------------------
(* Kernels for TLC. The addresses of a kernel are written here from the    *)
(* layouts the kernels have, not from the rules that are to find them.     *)
EXTENDS ProfileTrace, TLC

Rec(sig, base, ts) == [sig |-> sig, base |-> base, ts |-> ts]
AtOnce(g) == [b \in Grid(g) |-> [start |-> 0, sm |-> 0]]
Kernel(g, plan, format, recs, place) ==
    [fitter |-> "r15", grid |-> g, plan |-> plan, format |-> format, recs |-> recs, place |-> place,
     by |-> {"stream", "text"}]
Simple(g, plan, format, address) ==
    Kernel(g, plan, format, [b \in Grid(g) |-> <<Rec("a", address[b], 0)>>], AtOnce(g))

X(g, b) == Coordinate(g, b)[1]
Y(g, b) == Coordinate(g, b)[2]
Z(g, b) == Coordinate(g, b)[3]

(* Layouts: linear in the coordinates; by a table in y and a step at half  *)
(* of z; in tiles of x; in groups of x; with x's digits exchanged.         *)
Table(y, k) == CASE k = 0 -> 0 [] k = 1 -> 3 * y [] k = 2 -> IF y = 1 THEN 5 ELSE y
Separable(g) ==
    {[b \in Grid(g) |-> 20 + sx * X(g, b) + Table(Y(g, b), k) + sz * Z(g, b)
                           + IF 2 * Z(g, b) >= g[3] /\ g[3] >= 4 THEN sh ELSE 0] :
        sx \in {-1, 0, 2}, k \in 0..2, sz \in {0, 1}, sh \in {0, 3}}
Tiles(g) ==
    {[b \in Grid(g) |-> 20 + q * (X(g, b) \div d) + r * (X(g, b) % d) + Table(Y(g, b), k) + Z(g, b)] :
        d \in {n \in 2 .. g[1] : g[1] % n = 0}, q \in {1, 4}, r \in {0, 2}, k \in {0, 2}}
Groups(g) == {[b \in Grid(g) |-> 20 + s * (b \div d)] : d \in 2..4, s \in {-1, 1, 2}}
Digits(n) == IF n = 8 THEN {<<2, 2, 2>>} ELSE {<<2, 2, 3>>, <<3, 2, 2>>, <<2, 3, 2>>}
Exchanged(g) ==
    {[b \in Grid(g) |->
        LET d == <<b \div (e[2] * e[3]), (b \div e[3]) % e[2], b % e[3]>>
        IN  20 + s * (d[o[3]] + e[o[3]] * (d[o[2]] + e[o[2]] * d[o[1]]))] :
        e \in Digits(g[1]), o \in {<<1, 3, 2>>, <<2, 1, 3>>, <<3, 2, 1>>}, s \in {1, 2}}

Layouts(g) == Separable(g)
              \cup (IF g[1] >= 4 /\ g[2] * g[3] > 1 THEN Tiles(g) ELSE {})
              \cup (IF g[2] * g[3] = 1 THEN Groups(g) ELSE {})
              \cup (IF g[2] * g[3] = 1 /\ g[1] \in {8, 12} THEN Exchanged(g) ELSE {})

LayoutGrids == {<<1, 1, 1>>, <<5, 1, 1>>, <<8, 1, 1>>, <<12, 1, 1>>,
                <<4, 2, 1>>, <<4, 3, 2>>, <<2, 2, 5>>, <<4, 1, 4>>}
Plans(g) == {SparsePlan(g, limit) : limit \in {0, 512}}
LayoutKernels == UNION {{Simple(g, plan, format, address) :
                            plan \in Plans(g), address \in Layouts(g), format \in {"raw", "memc"}} :
                        g \in LayoutGrids}

(* One sampled CTA that does not follow the layout.                        *)
OddOnes == UNION {{Simple(g, CensusPlan(g), "memc", [address EXCEPT ![b] = 40]) :
                        address \in {[n \in Grid(g) |-> 20 + X(g, n) + 3 * Y(g, n)]},
                        b \in CensusPlan(g).holdout} :
                  g \in {<<8, 1, 1>>, <<4, 3, 1>>}}

(* A plan whose training CTAs are explained by two groups' widths and whose *)
(* holdouts cannot tell them apart.                                        *)
Ambiguous ==
    {Simple(<<17, 1, 1>>,
            [complete |-> FALSE, train |-> {0, 4, 8, 12, 16}, holdout |-> {1, 5, 9}], "memc",
            [b \in 0..16 |-> 20 + s * (b \div (2 * s))]) : s \in {1, 2}}

(* Two or three CTAs of two instructions, with any times: starts that tie, *)
(* starts near the end of the clock, equal signatures.                     *)
MergeKernels(g) ==
    {Kernel(g, CompletePlan(g), "memc",
            [b \in Grid(g) |-> <<Rec("a", f[b][1], t[b][1]), Rec(s, 22 + f[b][1], t[b][2])>>],
            [b \in Grid(g) |-> [start |-> p[b], sm |-> IF b = 0 THEN 1 ELSE 0]]) :
        f \in {[b \in Grid(g) |-> <<20 + b>>],
               [b \in Grid(g) |-> <<IF b = 1 THEN MaxAddress - 20 ELSE 20>>]},
        t \in [Grid(g) -> {<<0, 1>>, <<1, 0>>, <<1, 1>>, <<0, 2>>}],
        s \in {"a", "b"},
        p \in [Grid(g) -> {0, 1, WordSize - 2}]}

(* CTAs that execute different instructions, by row or one by one.         *)
Body(n) == IF n = 0 THEN << >> ELSE IF n = 1 THEN <<Rec("a", 20, 1)>>
           ELSE <<Rec("a", 20, 1), Rec("b", 30, 0)>>
ByCTA(g) == {Kernel(g, CompletePlan(g), "memc", [b \in Grid(g) |-> Body(n[b])], AtOnce(g)) :
                n \in [Grid(g) -> 0..2]}
ByRow(g) == {Kernel(g, CensusPlan(g), "memc",
                    [b \in Grid(g) |-> IF b = odd THEN Body(1) ELSE Body(n[Y(g, b)])], AtOnce(g)) :
                n \in [0 .. g[2] - 1 -> 1..2],
                odd \in {-1} \cup CensusPlan(g).holdout \cup CensusPlan(g).train}

(* The same kernels sampled for SGLang, whose times are positions.         *)
ForSGLang(g, recs) ==
    [Kernel(g, SGLangPlan(g), "memc", recs, Placement(g)) EXCEPT !.fitter = "sglang"]
InOrder(n) == IF n = 0 THEN << >> ELSE IF n = 1 THEN <<Rec("a", 20, 0)>>
              ELSE <<Rec("a", 20, 0), Rec("b", 31, 1)>>
SGLangKernels ==
    UNION {{ForSGLang(g, [b \in Grid(g) |-> <<Rec("a", address[b], 0), Rec(s, address[b] + 2, 1)>>]) :
               s \in {"a", "b"}, address \in Layouts(g)} :
           g \in {<<5, 1, 1>>, <<8, 1, 1>>, <<6, 2, 1>>, <<3, 3, 1>>, <<2, 2, 5>>, <<4, 1, 4>>}}
    \cup {ForSGLang(<<2, 2, 1>>, [b \in Grid(<<2, 2, 1>>) |-> InOrder(n[b])]) :
              n \in [Grid(<<2, 2, 1>>) -> 0..2]}
    \cup {ForSGLang(<<4, 3, 1>>, [b \in Grid(<<4, 3, 1>>) |->
                InOrder(IF b = odd THEN 0 ELSE n[Y(<<4, 3, 1>>, b)])]) :
              n \in [0..2 -> 0..2], odd \in {-1, 5, 6, 8}}

(* Kernels whose rows differ and whose addresses follow the CTA number.    *)
RowKernels ==
    {ForSGLang(g, [b \in Grid(g) |->
         IF Y(g, b) = 0 THEN <<Rec("a", 20 + b, 0)>>
         ELSE <<Rec("a", 20 + b, 0), Rec("b", 40 + b, 1)>>]) : g \in {<<4, 3, 1>>, <<6, 3, 1>>}}

(* The tensors that are observed: none; one for all addresses; two, so that *)
(* some instructions cross from one to the other; a shared one next to one *)
(* of a layer that is neither source nor target; one of another layout; an *)
(* output that two tensors of the target layer may be.                     *)
View(kind, label, layer, begin, bytes) ==
    [kind |-> kind, label |-> label, layer |-> layer, begin |-> begin, bytes |-> bytes]
TwoTensors == {View("weights", "p", 0, 4, 20), View("weights", "p", 1, 100, 20),
               View("KV", "k", 0, 24, 48), View("KV", "k", 1, 130, 48)}
Tensors ==
    {{}, TwoTensors,
     {View("weights", "p", 0, 4, 76), View("weights", "p", 1, 90, 76)},
     {View("weights", "s", Shared, 4, 20), View("weights", "p", 2, 24, 48)},
     {View("KV", "k", 0, 18, 20), View("KV", "k", 1, 80, 24)},
     {View("activation", "o", 0, 4, 30), View("activation", "o", 1, 80, 30),
      View("activation", "o", 1, 120, 30)}}

Expanded(k, views, own, taken) ==
    [k EXCEPT !.by = {"expanded"}]
      @@ [views |-> views, own |-> own, target |-> 1, taken |-> taken]

BoundGrids == {<<5, 1, 1>>, <<8, 1, 1>>, <<3, 3, 1>>, <<2, 2, 5>>}
BoundKernels ==
    LET some == {k \in SGLangKernels : k.grid \in BoundGrids /\ k.recs[0][2].sig = "b"}
        mixed == {k \in SGLangKernels : k.grid \in {<<2, 2, 1>>, <<4, 3, 1>>}}
    IN  {Expanded(k, views, FALSE, 0) : k \in some \cup RowKernels, views \in Tensors}
        \cup {Expanded(k, {}, FALSE, 35 * Page) : k \in some \cup RowKernels}
        \cup {Expanded(k, TwoTensors, own, 0) : k \in mixed \cup RowKernels, own \in BOOLEAN}
        \cup {Expanded(k, {}, FALSE, 0) : k \in mixed}

MCWorkloads == LayoutKernels \cup OddOnes \cup Ambiguous
               \cup MergeKernels(<<2, 1, 1>>) \cup MergeKernels(<<3, 1, 1>>)
               \cup ByCTA(<<2, 2, 1>>) \cup ByRow(<<3, 2, 1>>) \cup ByRow(<<4, 3, 1>>)
               \cup SGLangKernels \cup BoundKernels
DiagnosticRows == {[k EXCEPT !.by = {"stream"}] : k \in RowKernels}
=============================================================================
