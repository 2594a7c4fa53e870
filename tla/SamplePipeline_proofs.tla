----------------------- MODULE SamplePipeline_proofs -----------------------
(***************************************************************************)
(* The sampling job for any number of launches, records, places in the     *)
(* pipes and sampler faults: its types, what an accepted profile stands    *)
(* on, what a published pass means, and the ordered ledger it implements.  *)
(*                                                                         *)
(* The inductive invariant has five parts: the values (Types), the parent  *)
(* and its children (ParentInv), the consumer's way from the capture to    *)
(* the receipt (SealInv), the numbers of the records on their way from the *)
(* capture over the pipe to the fitter (RamInv, ChainInv), and the fitter  *)
(* with its profile rows (FitInv, RowsInv).                                *)
(*                                                                         *)
(* That a fitted launch's records are its own needs more, and holds for at *)
(* most one fault: ExactInv, at the end, follows a record's launch from    *)
(* the sampler's stream (StreamInv) over the capture (OwnLaunch) into the  *)
(* rows of the fitter (OwnRecords).                                        *)
(***************************************************************************)
EXTENDS SamplePipeline, Extremes, FiniteSetTheorems

Frames == {f \in [kind : {"hello", "static", "begin", "record", "end", "closed"},
                  k : Nat, n : Nat] : f.kind = "begin" => f.k \in Kernel}

ProjectionRow ==
    {r \in [kind : {"header", "begin", "record", "end"}, k : Nat, n : Nat,
            id : Nat \X Nat] : r.id[2] = r.n /\ (r.kind = "begin" => r.k \in Kernel)}

ProfileRow == [k : Kernel, data : Seq(Nat \X Nat),
               status : {"PROVISIONAL", "PASS", "REJECTED", "REJECTED_GLOBAL",
                         "REJECTED_BEFORE"}]

Types ==
    /\ parent \in Spawning \cup {"while", "producer", "status", "accept", "reap_fail",
                                  "reap_pass", "done", "gone"}
    /\ late \in BOOLEAN
    /\ marker \in [rc : {"none", "0", "1", "signal"}, pins : BOOLEAN]
    /\ result \in {"none", "PASS", "FAIL"}
    /\ pc \in [Child -> {"none", "run", "closed", "hung", "capture", "marker", "replay",
                         "read", "dead"}]
    /\ pc["host"] \in {"none", "run", "closed", "hung", "dead"}
    /\ pc["consumer"] \in {"none", "capture", "marker", "replay", "dead"}
    /\ pc["profiles"] \in {"none", "read", "dead"}
    /\ rc \in [Child -> {"none", "0", "1", "signal"}]
    /\ sig \in SUBSET Child
    /\ script \in Seq(Frames) /\ faults \in 0..MaxFaults
    /\ finish \in {"none", "PASS", "FAIL"}
    /\ raw \in Seq(Frames) /\ Len(raw) <= PipeCap
    /\ reader \in [hello : BOOLEAN, static : BOOLEAN, cur : Kernel \cup {0}, records : Nat,
                   keys : SUBSET Kernel, kernels : Nat, total : Nat, closed : BOOLEAN]
    /\ ram \in Seq(Frames) /\ cursor \in Nat
    /\ receipt \in {"none", "PASS", "FAIL"}
    /\ proj \in Seq(ProjectionRow) /\ Len(proj) <= PipeCap
    /\ analysis \in [header : BOOLEAN, cur : Kernel \cup {0}, records : Seq(Nat \X Nat),
                     retained : Nat, error : BOOLEAN, results : Seq(Kernel), rows : Nat]
    /\ rows \in Seq(ProfileRow)
    /\ profiles \in {"none", "PASS", "FAIL"}
    /\ quality \in [Kernel -> {"fits", "unfit", "unsupported"}]

AllDead == \A c \in Child : pc[c] = "dead"

(* A child has a status once it is dead; the marker repeats the host's; a  *)
(* pass is only on its way when every child is dead and both receipts are. *)
ParentInv ==
    /\ parent = "spawn" => \A c \in Child : pc[c] = "none"
    /\ parent = "spawn_consumer" =>
          pc["profiles"] # "none" /\ pc["consumer"] = "none" /\ pc["host"] = "none"
    /\ parent = "spawn_host" =>
          pc["profiles"] # "none" /\ pc["consumer"] # "none" /\ pc["host"] = "none"
    /\ parent \in {"while", "producer", "status"} => \A c \in Child : pc[c] # "none"
    /\ parent \in {"accept", "reap_pass"} => AllDead
    /\ \A c \in Child : rc[c] = "none" <=> pc[c] # "dead"
    /\ marker # NoMarker => pc["host"] = "dead" /\ marker.rc = rc["host"]
    /\ parent = "reap_pass" => receipt = "PASS" /\ profiles = "PASS"
    /\ result # "none" => parent = "done"
    /\ result = "PASS" => AllDead /\ receipt = "PASS" /\ profiles = "PASS"

Sealed == marker = [rc |-> "0", pins |-> TRUE] /\ finish = "PASS" /\ reader.closed

(* The consumer replays what it captured to the end and qualified, and its *)
(* receipt says so.                                                        *)
SealInv ==
    /\ pc["consumer"] \in {"marker", "replay"} => reader.closed
    /\ reader.closed => reader.kernels = NKernels
    /\ pc["consumer"] = "replay" => Sealed
    /\ receipt # "none" => pc["consumer"] = "dead"
    /\ receipt = "PASS" => Sealed /\ rc["consumer"] = "0"
    /\ pc["consumer"] \in {"none", "capture", "marker"} => cursor = 0 /\ proj = <<>>

(* The number the record behind f has: the first, or the next.             *)
Expected(f) == IF f.kind = "begin" THEN 0 ELSE f.n + 1
Continues(f, g) == f.kind \in {"begin", "record"} /\ g.n = Expected(f)

Begun(i) == \E b \in 1..i : ram[b].kind = "begin"

(* What was captured: every record continues the frame before it.          *)
RamInv ==
    /\ \A i \in DOMAIN ram : ram[i].kind = "record" => i > 1 /\ Continues(ram[i - 1], ram[i])
    /\ \A i \in DOMAIN ram : ram[i].kind \in {"record", "end"} => Begun(i)
    /\ pc["consumer"] \in {"none", "capture"} /\ reader.cur # 0 =>
          /\ ram # <<>> /\ Begun(Len(ram))
          /\ ram[Len(ram)].kind \in {"begin", "record"}
          /\ reader.records = Expected(ram[Len(ram)])

(* It stays so over the pipe, and into the fitter's count.                 *)
ChainInv ==
    /\ \A i \in DOMAIN proj :
          i > 1 /\ proj[i].kind = "record" => Continues(proj[i - 1], proj[i])
    /\ pc["profiles"] = "read" /\ proj # <<>> =>
          (Head(proj).kind = "record" => Head(proj).n = analysis.rows)
    /\ cursor \in DOMAIN ram =>
          (ram[cursor].kind = "record" =>
              /\ proj # <<>> => Continues(proj[Len(proj)], ram[cursor])
              /\ proj = <<>> /\ pc["profiles"] = "read" => ram[cursor].n = analysis.rows)

Numbered(data) == \A i \in DOMAIN data : data[i][2] = i - 1

Distinct(s) == \A i, j \in DOMAIN s : s[i] = s[j] => i = j

(* The fitter's analyze(): the launches it has ended differ, and an open   *)
(* one holds its records in order or has an error.                         *)
FitInv ==
    /\ pc["profiles"] = "none" => analysis = NoAnalysis /\ rows = <<>>
    /\ profiles # "none" => pc["profiles"] = "dead"
    /\ profiles = "PASS" => rc["profiles"] = "0" /\ receipt = "PASS"
    /\ analysis.retained = Len(analysis.records)
    /\ analysis.cur = 0 \/ analysis.error => analysis.records = <<>>
    /\ analysis.cur # 0 =>
          /\ analysis.error => quality[analysis.cur] = "unsupported"
          /\ ~analysis.error => Len(analysis.records) = analysis.rows
                                /\ Numbered(analysis.records)
          /\ \A i \in DOMAIN analysis.results : analysis.results[i] # analysis.cur
    /\ Distinct(analysis.results)

HasEnded(k) == \E i \in DOMAIN analysis.results : analysis.results[i] = k
RowAt(k) == \E i \in DOMAIN rows : rows[i].k = k

(* Its rows: provisional while it reads, one for each launch with records; *)
(* none of these after a failure; one for every launch after the commit.   *)
RowsInv ==
    /\ profiles = "none" =>
          /\ \A i, j \in DOMAIN rows : rows[i].k = rows[j].k => i = j
          /\ \A i \in DOMAIN rows :
                /\ HasEnded(rows[i].k)
                /\ rows[i].status = IF quality[rows[i].k] = "fits" THEN "PROVISIONAL"
                                                                   ELSE "REJECTED"
                /\ Len(rows[i].data) = NRecords /\ Numbered(rows[i].data)
          /\ \A k \in Kernel : HasEnded(k) => RowAt(k) \/ quality[k] = "unsupported"
    /\ profiles = "FAIL" => \A i \in DOMAIN rows : rows[i].status \notin {"PASS", "PROVISIONAL"}
    /\ profiles = "PASS" =>
          /\ \A i, j \in DOMAIN rows : rows[i].k = rows[j].k => i = j
          /\ \A k \in Kernel : RowAt(k)
          /\ \A i \in DOMAIN rows :
                /\ rows[i].status \in {"PASS", "REJECTED", "REJECTED_BEFORE"}
                /\ rows[i].status = "PASS" <=> quality[rows[i].k] = "fits"
                /\ rows[i].status # "REJECTED_BEFORE" =>
                      Len(rows[i].data) = NRecords /\ Numbered(rows[i].data)

IInv == Types /\ ParentInv /\ SealInv /\ RamInv /\ ChainInv /\ FitInv /\ RowsInv

-----------------------------------------------------------------------------
(* Facts about numbers and sequences alone.                                *)

(* What is behind the first member of a sequence.                          *)
LEMMA TailOf ==
  ASSUME NEW S, NEW s \in Seq(S), s # <<>>
  PROVE  /\ Len(s) > 0 /\ 1 \in DOMAIN s /\ Head(s) \in S /\ Head(s) = s[1]
         /\ Tail(s) \in Seq(S) /\ Len(Tail(s)) = Len(s) - 1
         /\ \A i \in DOMAIN Tail(s) : i + 1 \in DOMAIN s /\ Tail(s)[i] = s[i + 1]
OBVIOUS

(* A sequence with one more member.                                        *)
LEMMA AppendOf ==
  ASSUME NEW S, NEW s \in Seq(S), NEW x \in S
  PROVE  /\ Append(s, x) \in Seq(S) /\ Append(s, x) # <<>>
         /\ Len(Append(s, x)) = Len(s) + 1
         /\ DOMAIN Append(s, x) = 1..(Len(s) + 1) /\ DOMAIN s = 1..Len(s)
         /\ Append(s, x)[Len(s) + 1] = x
         /\ \A i \in DOMAIN s : Append(s, x)[i] = s[i]
OBVIOUS

(* One sequence behind another.                                            *)
LEMMA ConcatOf ==
  ASSUME NEW S, NEW s \in Seq(S), NEW t \in Seq(S)
  PROVE  /\ s \o t \in Seq(S) /\ DOMAIN (s \o t) = 1..(Len(s) + Len(t))
         /\ \A i \in 1..(Len(s) + Len(t)) :
               (s \o t)[i] = IF i <= Len(s) THEN s[i] ELSE t[i - Len(s)]
OBVIOUS

LEMMA PositionsFinite ==
  ASSUME NEW n \in Nat, NEW S \in SUBSET (1..n)
  PROVE  IsFiniteSet(S) /\ Cardinality(S) \in Nat
<1>1. IsFiniteSet(1..n)
  BY FS_Interval
<1>2. IsFiniteSet(S)
  BY <1>1, FS_Subset
<1>. QED BY <1>2, FS_CardinalityType

(* A set of positions has an enumeration in order: by its largest member.  *)
LEMMA Enumerated ==
  \A n \in Nat : \A S \in SUBSET (1..n) :
     \E f \in [1..Cardinality(S) -> S] : \A a, b \in DOMAIN f : a < b => f[a] < f[b]
<1>. DEFINE Good(n) == \A S \in SUBSET (1..n) :
                         \E f \in [1..Cardinality(S) -> S] :
                            \A a, b \in DOMAIN f : a < b => f[a] < f[b]
            Bad == {n \in Nat : ~Good(n)}
<1>1. SUFFICES ASSUME Bad # {}
               PROVE  FALSE
  OBVIOUS
<1>2. PICK n \in Bad : \A y \in Bad : n <= y
  <2>1. Bad \in SUBSET Nat
    OBVIOUS
  <2>2. Min(Bad) \in Bad /\ \A y \in Bad : Min(Bad) <= y
    BY <1>1, <2>1, LeastOf
  <2>. QED BY <2>2
<1>3. n \in Nat /\ ~Good(n)
  OBVIOUS
<1>4. PICK S \in SUBSET (1..n) :
         ~ \E f \in [1..Cardinality(S) -> S] : \A a, b \in DOMAIN f : a < b => f[a] < f[b]
  BY <1>3
<1>5. IsFiniteSet(S) /\ Cardinality(S) \in Nat
  BY <1>3, PositionsFinite
<1>6. n - 1 \in Nat => Good(n - 1)
  <2>. HIDE DEF Good
  <2>1. SUFFICES ASSUME n - 1 \in Nat, ~Good(n - 1)
                 PROVE  FALSE
    OBVIOUS
  <2>2. n - 1 \in Bad
    BY <2>1
  <2>. QED BY <1>2, <1>3, <2>2
<1>. HIDE DEF Bad
<1>7. n # 0
  <2>1. SUFFICES ASSUME n = 0
                 PROVE  FALSE
    OBVIOUS
  <2>2. S = {}
    BY <2>1
  <2>3. Cardinality(S) = 0
    BY <2>2, FS_EmptySet
  <2>4. [x \in {} |-> x] \in [1..Cardinality(S) -> S]
    BY <2>2, <2>3
  <2>. QED BY <1>4, <2>3, <2>4
<1>8. n \in S
  <2>1. SUFFICES ASSUME n \notin S
                 PROVE  FALSE
    OBVIOUS
  <2>2. S \in SUBSET (1..(n - 1))
    BY <1>3, <2>1
  <2>. QED BY <1>3, <1>4, <1>6, <1>7, <2>2
<1>. DEFINE T == S \ {n}
            c == Cardinality(S)
<1>9. T \in SUBSET (1..(n - 1)) /\ Cardinality(T) = c - 1
  <2>1. Cardinality(T) = c - 1
    BY <1>5, <1>8, FS_RemoveElement
  <2>. QED BY <1>3, <2>1
<1>10. PICK g \in [1..(c - 1) -> T] : \A a, b \in DOMAIN g : a < b => g[a] < g[b]
  BY <1>3, <1>6, <1>7, <1>9
<1>11. c \in Nat /\ c # 0
  <2>1. Cardinality(T) \in Nat
    BY <1>5, FS_RemoveElement, FS_CardinalityType
  <2>. QED BY <1>5, <1>9, <2>1
<1>. DEFINE f == [a \in 1..c |-> IF a = c THEN n ELSE g[a]]
<1>12. f \in [1..c -> S]
  BY <1>8, <1>10, <1>11
<1>13. ASSUME NEW a \in 1..c, NEW b \in 1..c, a < b
       PROVE  f[a] < f[b]
  <2>1. a \in 1..(c - 1) /\ f[a] = g[a] /\ g[a] \in 1..(n - 1)
    BY <1>9, <1>10, <1>11, <1>13
  <2>2. CASE b = c
    BY <1>3, <2>1, <2>2
  <2>3. CASE b # c
    <3>1. b \in 1..(c - 1) /\ f[b] = g[b]
      BY <1>11, <2>3
    <3>. QED BY <1>10, <1>13, <2>1, <3>1
  <2>. QED BY <2>2, <2>3
<1>14. DOMAIN f = 1..c
  OBVIOUS
<1>. QED BY <1>4, <1>12, <1>13, <1>14, Zenon

(* InOrder lists every member of a set of positions once.                  *)
LEMMA InOrderIs ==
  ASSUME NEW n \in Nat, NEW S \in SUBSET (1..n)
  PROVE  /\ InOrder(S) \in Seq(S)
         /\ Distinct(InOrder(S))
         /\ \A x \in S : \E j \in DOMAIN InOrder(S) : InOrder(S)[j] = x
<1>. DEFINE f == InOrder(S)
            c == Cardinality(S)
<1>1. IsFiniteSet(S) /\ c \in Nat
  BY PositionsFinite
<1>2. f \in [1..c -> S] /\ \A a, b \in DOMAIN f : a < b => f[a] < f[b]
  <2>1. \E g \in [1..Cardinality(S) -> S] : \A a, b \in DOMAIN g : a < b => g[a] < g[b]
    BY Enumerated
  <2>. QED BY <2>1 DEF InOrder
<1>. HIDE DEF f, c
<1>3. DOMAIN f = 1..c
  BY <1>2
<1>4. ASSUME NEW i \in 1..c, NEW j \in 1..c, f[i] = f[j]
      PROVE  i = j
  <2>1. f[i] \in 1..n /\ f[j] \in 1..n
    BY <1>2, <1>4
  <2>2. ~(i < j) /\ ~(j < i)
    BY <1>2, <1>3, <1>4, <2>1
  <2>. QED BY <1>1, <2>2
<1>5. f \in Seq(S)
  BY <1>1, <1>2
<1>6. f \in Surjection(1..c, S)
  <2>1. f \in Injection(1..c, S)
    BY <1>2, <1>4 DEF Injection, IsInjective
  <2>2. IsFiniteSet(1..c) /\ Cardinality(1..c) = c
    BY <1>1, FS_Interval
  <2>. QED BY <1>1, <2>1, <2>2, FS_Injection DEF c
<1>. QED BY <1>3, <1>4, <1>5, <1>6 DEF Surjection, Distinct, f

(* Launches that differ are at most as many as the plan's, and with as     *)
(* many none is missing.                                                   *)
LEMMA AllOfThem ==
  ASSUME NEW s \in Seq(Kernel), Distinct(s)
  PROVE  /\ Len(s) <= NKernels
         /\ Len(s) = NKernels => \A k \in Kernel : \E i \in DOMAIN s : s[i] = k
<1>. DEFINE N == Len(s)
<1>1. N \in Nat /\ s \in [1..N -> Kernel]
  OBVIOUS
<1>2. IsFiniteSet(1..N) /\ Cardinality(1..N) = N
  BY <1>1, FS_Interval
<1>3. IsFiniteSet(Kernel) /\ Cardinality(Kernel) = NKernels
  BY FS_Interval, ConstantsAssumption DEF Kernel
<1>4. s \in Injection(1..N, Kernel)
  BY <1>1 DEF Injection, IsInjective, Distinct
<1>5. N <= NKernels /\ (N = NKernels => s \in Surjection(1..N, Kernel))
  BY <1>2, <1>3, <1>4, FS_Injection
<1>. QED BY <1>1, <1>5 DEF Surjection

-----------------------------------------------------------------------------
(* What the sampler writes are frames.                                     *)

LEMMA KernelFramesTyped ==
  ASSUME NEW k \in Kernel
  PROVE  KernelFrames(k) \in Seq(Frames)
<1>1. k \in Nat /\ NRecords \in Nat
  BY ConstantsAssumption DEF Kernel
<1>2. Frame("begin", k, 0) \in Frames /\ Frame("end", k, NRecords) \in Frames
  BY <1>1 DEF Frame, Frames
<1>3. \A i \in 1..NRecords : Frame("record", k, i - 1) \in Frames
  BY <1>1 DEF Frame, Frames
<1>4. [i \in 1..NRecords |-> Frame("record", k, i - 1)] \in Seq(Frames)
  BY <1>1, <1>3
<1>5. <<Frame("begin", k, 0)>> \in Seq(Frames) /\ <<Frame("end", k, NRecords)>> \in Seq(Frames)
  BY <1>2
<1>. QED BY <1>4, <1>5 DEF KernelFrames

Opening == <<Frame("hello", 0, 0), Frame("static", 0, 0)>>

Longer(f, k) == IF k = 0 THEN Opening ELSE f[k - 1] \o KernelFrames(k)

(* The recursion over the launches has a solution, of sequences of frames. *)
LEMMA ScriptExists ==
  \A m \in Nat : m <= NKernels =>
     \E f : f = [k \in 0..m |-> IF k = 0 THEN Opening ELSE f[k - 1] \o KernelFrames(k)]
<1>. DEFINE Good(m) == m <= NKernels =>
                         \E f : f = [k \in 0..m |-> Longer(f, k)]
            Bad == {m \in Nat : ~Good(m)}
<1>1. SUFFICES ASSUME Bad # {}
               PROVE  FALSE
  BY DEF Longer
<1>2. PICK m \in Bad : \A y \in Bad : m <= y
  <2>1. Bad \in SUBSET Nat
    OBVIOUS
  <2>2. Min(Bad) \in Bad /\ \A y \in Bad : Min(Bad) <= y
    BY <1>1, <2>1, LeastOf
  <2>. QED BY <2>2
<1>3. m \in Nat /\ ~Good(m)
  OBVIOUS
<1>4. m <= NKernels /\ ~ \E f : f = [k \in 0..m |-> Longer(f, k)]
  BY <1>3
<1>5. m # 0
  <2>1. SUFFICES ASSUME m = 0
                 PROVE  FALSE
    OBVIOUS
  <2>. DEFINE g == [k \in 0..0 |-> Opening]
  <2>2. \A k \in 0..0 : Longer(g, k) = Opening
    BY DEF Longer
  <2>3. g = [k \in 0..0 |-> Longer(g, k)]
    BY <2>2
  <2>. QED BY <1>4, <2>1, <2>3
<1>6. Good(m - 1)
  <2>. HIDE DEF Good
  <2>1. SUFFICES ASSUME ~Good(m - 1)
                 PROVE  FALSE
    OBVIOUS
  <2>2. m - 1 \in Bad
    BY <1>3, <1>5, <2>1
  <2>. QED BY <1>2, <1>3, <2>2
<1>7. PICK f : f = [k \in 0..(m - 1) |-> Longer(f, k)]
  BY <1>3, <1>4, <1>6, ConstantsAssumption
<1>. DEFINE g == [k \in 0..m |-> IF k = m THEN Longer(f, m) ELSE f[k]]
<1>8. ASSUME NEW k \in 0..m
      PROVE  g[k] = Longer(g, k)
  <2>1. k = 0 \/ k - 1 \in 0..(m - 1)
    BY <1>3, <1>8
  <2>2. k # 0 => g[k - 1] = f[k - 1]
    BY <1>3, <2>1
  <2>3. Longer(g, k) = Longer(f, k)
    BY <2>2 DEF Longer
  <2>4. CASE k = m
    BY <2>3, <2>4
  <2>5. CASE k # m
    <3>1. k \in 0..(m - 1)
      BY <1>3, <1>8, <2>5
    <3>2. f[k] = Longer(f, k)
      BY <1>7, <3>1
    <3>. QED BY <2>3, <2>5, <3>2
  <2>. QED BY <2>4, <2>5
<1>9. g = [k \in 0..m |-> Longer(g, k)]
  <2>1. g = [k \in 0..m |-> g[k]]
    OBVIOUS
  <2>. HIDE DEF g
  <2>. QED BY <1>8, <2>1
<1>. QED BY <1>4, <1>9

(* The frames of a run are a sequence of frames, however many launches the *)
(* sampler saw.                                                            *)
LEMMA ScriptTyped ==
  ASSUME NEW m \in Nat, m <= NKernels
  PROVE  ScriptOf(m) \in Seq(Frames)
<1>. DEFINE f == CHOOSE g : g = [k \in 0..m |-> IF k = 0 THEN Opening
                                                ELSE g[k - 1] \o KernelFrames(k)]
<1>1. f = [k \in 0..m |-> IF k = 0 THEN Opening ELSE f[k - 1] \o KernelFrames(k)]
  BY ScriptExists
<1>2. ScriptOf(m) = f[m] \o <<Frame("closed", m, m * NRecords)>>
  BY DEF ScriptOf, Opening
<1>. HIDE DEF f
<1>. DEFINE Bad == {k \in Nat : k <= m /\ f[k] \notin Seq(Frames)}
<1>3. Bad = {}
  <2>1. SUFFICES ASSUME Bad # {}
                 PROVE  FALSE
    OBVIOUS
  <2>2. Bad \in SUBSET Nat
    OBVIOUS
  <2>3. PICK k \in Bad : \A y \in Bad : k <= y
    <3>1. Min(Bad) \in Bad /\ \A y \in Bad : Min(Bad) <= y
      BY <2>1, <2>2, LeastOf
    <3>. QED BY <3>1
  <2>4. k \in 0..m /\ f[k] \notin Seq(Frames)
    OBVIOUS
  <2>5. Opening \in Seq(Frames)
    <3>1. Frame("hello", 0, 0) \in Frames /\ Frame("static", 0, 0) \in Frames
      BY DEF Frame, Frames
    <3>. QED BY <3>1 DEF Opening
  <2>6. k # 0
    BY <1>1, <2>4, <2>5
  <2>7. k - 1 \notin Bad /\ k - 1 \in Nat
    BY <2>3, <2>4, <2>6
  <2>8. f[k - 1] \in Seq(Frames)
    BY <2>4, <2>7
  <2>9. f[k] = f[k - 1] \o KernelFrames(k)
    BY <1>1, <2>4, <2>6
  <2>10. k \in Kernel
    BY <2>4, <2>6, ConstantsAssumption DEF Kernel
  <2>11. KernelFrames(k) \in Seq(Frames)
    BY <2>10, KernelFramesTyped
  <2>. QED BY <2>4, <2>8, <2>9, <2>11
<1>4. f[m] \in Seq(Frames)
  BY <1>3
<1>5. Frame("closed", m, m * NRecords) \in Frames
  BY ConstantsAssumption DEF Frame, Frames
<1>. QED BY <1>2, <1>4, <1>5

-----------------------------------------------------------------------------
(* The invariant.                                                          *)

LEMMA Initially == Init => IInv
<1>. SUFFICES ASSUME Init
              PROVE  IInv
  OBVIOUS
<1>1. script \in Seq(Frames)
  <2>1. PICK m \in {NKernels - 1, NKernels} : script = ScriptOf(m)
    BY DEF Init
  <2>2. m \in Nat /\ m <= NKernels
    BY ConstantsAssumption
  <2>. QED BY <2>1, <2>2, ScriptTyped
<1>2. analysis \in [header : BOOLEAN, cur : Kernel \cup {0}, records : Seq(Nat \X Nat),
                    retained : Nat, error : BOOLEAN, results : Seq(Kernel), rows : Nat]
  BY DEF Init, NoAnalysis
<1>3. reader \in [hello : BOOLEAN, static : BOOLEAN, cur : Kernel \cup {0}, records : Nat,
                  keys : SUBSET Kernel, kernels : Nat, total : Nat, closed : BOOLEAN]
  BY DEF Init, NoReader
<1>4. Types
  <2>1. \A c \in Child : pc[c] = "none" /\ rc[c] = "none"
    BY DEF Init
  <2>2. "host" \in Child /\ "consumer" \in Child /\ "profiles" \in Child
    BY DEF Child
  <2>3. marker \in [rc : {"none", "0", "1", "signal"}, pins : BOOLEAN]
    BY DEF Init, NoMarker
  <2>4. raw \in Seq(Frames) /\ Len(raw) <= PipeCap /\ ram \in Seq(Frames)
        /\ proj \in Seq(ProjectionRow) /\ Len(proj) <= PipeCap /\ rows \in Seq(ProfileRow)
    BY ConstantsAssumption DEF Init
  <2>5. faults \in 0..MaxFaults /\ cursor \in Nat
    BY ConstantsAssumption DEF Init
  <2>6. pc \in [Child -> {"none", "run", "closed", "hung", "capture", "marker", "replay",
                          "read", "dead"}]
        /\ rc \in [Child -> {"none", "0", "1", "signal"}]
    BY DEF Init
  <2>. QED BY <1>1, <1>2, <1>3, <2>1, <2>2, <2>3, <2>4, <2>5, <2>6 DEF Init, Types, Spawning
<1>5. ParentInv
  BY DEF Init, ParentInv, AllDead, NoMarker
<1>6. SealInv
  BY DEF Init, SealInv, NoReader, Child
<1>7. RamInv /\ ChainInv
  BY DEF Init, RamInv, ChainInv, NoReader
<1>8. FitInv /\ RowsInv
  BY DEF Init, FitInv, RowsInv, NoAnalysis, Distinct, HasEnded
<1>. QED BY <1>4, <1>5, <1>6, <1>7, <1>8 DEF IInv

(* The parts that a step does not touch.                                   *)
LEMMA FitterUntouched ==
  ASSUME IInv, UNCHANGED <<fitter, quality>>, pc'["profiles"] = pc["profiles"],
         rc'["profiles"] = rc["profiles"], receipt = "PASS" => receipt' = "PASS"
  PROVE  FitInv' /\ RowsInv'
<1>1. FitInv'
  BY DEF IInv, FitInv, fitter, Numbered, Distinct
<1>2. RowsInv'
  BY DEF IInv, RowsInv, fitter, Numbered, HasEnded, RowAt
<1>. QED BY <1>1, <1>2

LEMMA RecordsUntouched ==
  ASSUME IInv, UNCHANGED <<reader, ram, proj, cursor, analysis>>,
         pc'["profiles"] = pc["profiles"] \/ pc'["profiles"] = "dead",
         pc'["consumer"] = pc["consumer"] \/ pc'["consumer"] \notin {"none", "capture"}
  PROVE  RamInv' /\ ChainInv'
<1>1. RamInv'
  BY DEF IInv, RamInv, Begun, Continues, Expected
<1>2. ChainInv'
  BY DEF IInv, ChainInv, Continues, Expected
<1>. QED BY <1>1, <1>2

-----------------------------------------------------------------------------
(* The host and its sampler.                                               *)

HostMoves == Host \/ SamplerFault \/ HostHangs

(* A step of the host is before its end, and concerns it alone.            *)
LEMMA HostEffect ==
  ASSUME IInv, HostMoves
  PROVE  /\ HostStays
         /\ pc["host"] \in {"run", "closed"}
         /\ pc'["host"] \in {"run", "closed", "hung", "dead"}
         /\ rc'["host"] = "none" <=> pc'["host"] # "dead"
         /\ \A c \in Child \ {"host"} : pc'[c] = pc[c] /\ rc'[c] = rc[c]
         /\ pc' \in [Child -> {"none", "run", "closed", "hung", "capture", "marker",
                               "replay", "read", "dead"}]
         /\ rc' \in [Child -> {"none", "0", "1", "signal"}]
         /\ script' \in Seq(Frames) /\ faults' \in 0..MaxFaults
         /\ finish' \in {"none", "PASS", "FAIL"}
         /\ raw' \in Seq(Frames) /\ Len(raw') <= PipeCap
<1>. "host" \in Child
  BY DEF Child
<1>1. Types /\ (\A c \in Child : rc[c] = "none" <=> pc[c] # "dead")
  BY DEF IInv, ParentInv
<1>2. CASE EmitFrame
  <2>1. Head(script) \in Frames /\ Tail(script) \in Seq(Frames)
    BY <1>1, <1>2, TailOf DEF EmitFrame, Types
  <2>2. Append(raw, Head(script)) \in Seq(Frames)
        /\ Len(Append(raw, Head(script))) = Len(raw) + 1
    BY <1>1, <2>1, AppendOf DEF Types
  <2>3. Len(raw') <= PipeCap
    BY <1>1, <1>2, <2>2, ConstantsAssumption DEF EmitFrame, Types
  <2>. QED BY <1>1, <1>2, <2>1, <2>2, <2>3 DEF EmitFrame, Types
<1>3. CASE ClosePipe
  BY <1>1, <1>3 DEF ClosePipe, Goto, Types, sampler
<1>4. CASE HostExits
  BY <1>1, <1>4 DEF HostExits, ExitWith, Goto, Types
<1>5. CASE BrokenPipe
  BY <1>1, <1>5 DEF BrokenPipe, ExitWith, Goto, Types, sampler
<1>6. CASE SamplerFault
  <2>1. Head(script) \in Frames /\ Tail(script) \in Seq(Frames) /\ script \in Seq(Frames)
    BY <1>1, <1>6, TailOf DEF SamplerFault, Types
  <2>2. <<Head(script)>> \o script \in Seq(Frames)
    BY <2>1
  <2>3. Len(script) > 1 =>
           <<script[2], script[1]>> \o SubSeq(script, 3, Len(script)) \in Seq(Frames)
    <3>1. ASSUME Len(script) > 1
          PROVE  <<script[2], script[1]>> \in Seq(Frames)
                 /\ SubSeq(script, 3, Len(script)) \in Seq(Frames)
      <4>1. Len(script) \in Nat /\ script[1] \in Frames /\ script[2] \in Frames
        BY <2>1, <3>1
      <4>2. \A i \in 3..Len(script) : script[i] \in Frames
        BY <2>1
      <4>. QED BY <4>1, <4>2, <2>1
    <3>. QED BY <3>1
  <2>4. script' \in Seq(Frames)
    BY <1>6, <2>1, <2>2, <2>3 DEF SamplerFault
  <2>5. faults' \in 0..MaxFaults
    BY <1>1, <1>6, ConstantsAssumption DEF SamplerFault, Types
  <2>. QED BY <1>1, <1>6, <2>4, <2>5 DEF SamplerFault, Types
<1>7. CASE HostHangs
  BY <1>1, <1>7 DEF HostHangs, Goto, Types, sampler
<1>. QED BY <1>2, <1>3, <1>4, <1>5, <1>6, <1>7 DEF HostMoves, Host

(* While the host lives there is no marker, so nothing rests on its end.   *)
LEMMA HostKeeps ==
  ASSUME IInv, HostMoves
  PROVE  IInv'
<1>1. /\ HostStays
      /\ pc["host"] \in {"run", "closed"}
      /\ pc'["host"] \in {"run", "closed", "hung", "dead"}
      /\ rc'["host"] = "none" <=> pc'["host"] # "dead"
      /\ \A c \in Child \ {"host"} : pc'[c] = pc[c] /\ rc'[c] = rc[c]
  BY HostEffect
<1>2. "host" \in Child /\ "consumer" \in Child /\ "profiles" \in Child
  BY DEF Child
<1>3. /\ pc'["consumer"] = pc["consumer"] /\ rc'["consumer"] = rc["consumer"]
      /\ pc'["profiles"] = pc["profiles"] /\ rc'["profiles"] = rc["profiles"]
  BY <1>1 DEF Child
<1>4. Types'
  <2>1. /\ pc' \in [Child -> {"none", "run", "closed", "hung", "capture", "marker",
                              "replay", "read", "dead"}]
        /\ rc' \in [Child -> {"none", "0", "1", "signal"}]
        /\ script' \in Seq(Frames) /\ faults' \in 0..MaxFaults
        /\ finish' \in {"none", "PASS", "FAIL"}
        /\ raw' \in Seq(Frames) /\ Len(raw') <= PipeCap
    BY HostEffect
  <2>2. UNCHANGED <<parent, late, marker, result, sig, reader, ram, cursor, receipt, proj,
                    analysis, rows, profiles, quality>>
    BY <1>1 DEF HostStays, boss, consumer, fitter
  <2>. QED BY <1>1, <1>3, <2>1, <2>2 DEF IInv, Types
<1>5. marker = NoMarker /\ ~AllDead
  BY <1>1, <1>2 DEF IInv, ParentInv, AllDead
<1>6. ParentInv'
  <2>1. \A c \in Child : rc'[c] = "none" <=> pc'[c] # "dead"
    BY <1>1 DEF IInv, ParentInv
  <2>2. \A c \in Child : pc[c] # "none" => pc'[c] # "none"
    BY <1>1
  <2>. QED BY <1>1, <1>2, <1>3, <1>5, <2>1, <2>2
           DEF IInv, ParentInv, HostStays, boss, consumer, fitter
<1>7. SealInv'
  BY <1>1, <1>3, <1>5 DEF IInv, SealInv, Sealed, HostStays, boss, consumer, NoMarker
<1>8. RamInv' /\ ChainInv'
  BY <1>1, <1>3, RecordsUntouched DEF HostStays, consumer, fitter
<1>9. FitInv' /\ RowsInv'
  BY <1>1, <1>3, FitterUntouched DEF HostStays, consumer
<1>. QED BY <1>4, <1>6, <1>7, <1>8, <1>9 DEF IInv

-----------------------------------------------------------------------------
(* The parent.                                                             *)

(* Its own steps, at which no child begins or ends.                        *)
ParentMoves == \/ While \/ MarkProducer \/ OutOfTime \/ PollStatus \/ Accept \/ Reaped
               \/ Interrupted \/ BudgetSpent

(* The marker is written once, after the host's end; a pass is on its way  *)
(* from the look at the receipts to the verdict, all children being dead.  *)
LEMMA ParentEffect ==
  ASSUME IInv, ParentMoves
  PROVE  /\ BossStays /\ UNCHANGED <<pc, rc>>
         /\ marker' = marker \/ (marker = NoMarker /\ pc["host"] = "dead"
                                 /\ \E pins \in BOOLEAN :
                                       marker' = [rc |-> rc["host"], pins |-> pins])
         /\ ParentInv'
         /\ parent' \in {"while", "producer", "status", "accept", "reap_fail", "reap_pass",
                         "done"}
         /\ late' \in BOOLEAN /\ result' \in {"none", "PASS", "FAIL"}
         /\ sig' \in SUBSET Child
<1>. USE DEF IInv, ParentInv
<1>1. Types
  OBVIOUS
<1>2. CASE While
  <2>1. pc' = pc /\ rc' = rc /\ marker' = marker /\ late' = late /\ result' = result
        /\ BossStays /\ parent = "while"
    BY <1>2 DEF While
  <2>2. \/ parent' = "producer" /\ sig' = sig
        \/ parent' = "accept" /\ sig' = sig /\ \A c \in Child : ~Alive(c)
        \/ parent' = "reap_fail" /\ sig' = {c \in Child : Alive(c)}
    BY <1>2 DEF While, Cleanup
  <2>3. parent' = "accept" => AllDead
    BY <2>1, <2>2 DEF AllDead, Alive
  <2>4. receipt' = receipt /\ profiles' = profiles
    BY <2>1 DEF BossStays, consumer, fitter
  <2>. QED BY <1>1, <2>1, <2>2, <2>3, <2>4 DEF Types, AllDead
<1>3. CASE MarkProducer
  <2>1. pc' = pc /\ rc' = rc /\ late' = late /\ result' = result
        /\ BossStays /\ parent = "producer"
    BY <1>3 DEF MarkProducer
  <2>2. \/ marker' = marker /\ parent' = "status" /\ sig' = sig
        \/ marker' = marker /\ parent' = "reap_fail" /\ sig' = {c \in Child : Alive(c)}
        \/ /\ marker = NoMarker /\ pc["host"] = "dead" /\ parent' = "status" /\ sig' = sig
           /\ \E pins \in BOOLEAN : marker' = [rc |-> rc["host"], pins |-> pins]
    BY <1>3 DEF MarkProducer, Cleanup
  <2>3. receipt' = receipt /\ profiles' = profiles
    BY <2>1 DEF BossStays, consumer, fitter
  <2>. QED BY <1>1, <2>1, <2>2, <2>3 DEF Types, AllDead
<1>4. CASE OutOfTime \/ Interrupted
  <2>1. pc' = pc /\ rc' = rc /\ late' = late /\ result' = result /\ marker' = marker
        /\ BossStays /\ parent' = "reap_fail" /\ sig' \in SUBSET Child
        /\ parent \in Spawning \cup {"while", "producer", "status", "accept"}
    BY <1>4 DEF OutOfTime, Interrupted, Cleanup
  <2>2. receipt' = receipt /\ profiles' = profiles
    BY <2>1 DEF BossStays, consumer, fitter
  <2>. QED BY <1>1, <2>1, <2>2 DEF Types, AllDead, Spawning
<1>5. CASE PollStatus
  <2>1. pc' = pc /\ rc' = rc /\ late' = late /\ result' = result /\ marker' = marker
        /\ BossStays /\ parent = "status" /\ parent' \in {"reap_fail", "while"}
        /\ sig' \in SUBSET Child
    BY <1>1, <1>5 DEF PollStatus, Cleanup, Types
  <2>2. receipt' = receipt /\ profiles' = profiles
    BY <2>1 DEF BossStays, consumer, fitter
  <2>. QED BY <1>1, <2>1, <2>2 DEF Types, AllDead
<1>6. CASE Accept
  <2>1. pc' = pc /\ rc' = rc /\ late' = late /\ result' = result /\ marker' = marker
        /\ BossStays /\ parent = "accept" /\ sig' \in SUBSET Child
        /\ parent' = IF receipt = "PASS" /\ profiles = "PASS" THEN "reap_pass" ELSE "reap_fail"
    BY <1>6 DEF Accept, Cleanup
  <2>2. receipt' = receipt /\ profiles' = profiles
    BY <2>1 DEF BossStays, consumer, fitter
  <2>. QED BY <1>1, <2>1, <2>2 DEF Types, AllDead
<1>7. CASE Reaped
  <2>1. pc' = pc /\ rc' = rc /\ late' = late /\ marker' = marker /\ sig' = sig
        /\ BossStays /\ parent \in {"reap_fail", "reap_pass"} /\ parent' = "done"
        /\ result' = IF parent = "reap_pass" THEN "PASS" ELSE "FAIL"
    BY <1>7 DEF Reaped
  <2>2. receipt' = receipt /\ profiles' = profiles
    BY <2>1 DEF BossStays, consumer, fitter
  <2>. QED BY <1>1, <2>1, <2>2 DEF Types, AllDead
<1>8. CASE BudgetSpent
  <2>1. pc' = pc /\ rc' = rc /\ late' = TRUE /\ marker' = marker /\ sig' = sig
        /\ BossStays /\ parent \in {"while", "producer", "status"} /\ parent' = parent
        /\ result' = result
    BY <1>8 DEF BudgetSpent
  <2>2. receipt' = receipt /\ profiles' = profiles
    BY <2>1 DEF BossStays, consumer, fitter
  <2>. QED BY <1>1, <2>1, <2>2 DEF Types, AllDead
<1>. QED BY <1>2, <1>3, <1>4, <1>5, <1>6, <1>7, <1>8 DEF ParentMoves

LEMMA ParentKeeps ==
  ASSUME IInv, ParentMoves
  PROVE  IInv'
<1>1. /\ BossStays /\ UNCHANGED <<pc, rc>>
      /\ marker' = marker \/ (marker = NoMarker /\ pc["host"] = "dead"
                              /\ \E pins \in BOOLEAN :
                                    marker' = [rc |-> rc["host"], pins |-> pins])
      /\ ParentInv'
      /\ parent' \in {"while", "producer", "status", "accept", "reap_fail", "reap_pass",
                      "done"}
      /\ late' \in BOOLEAN /\ result' \in {"none", "PASS", "FAIL"}
      /\ sig' \in SUBSET Child
  BY ParentEffect
<1>2. marker' \in [rc : {"none", "0", "1", "signal"}, pins : BOOLEAN]
  <2>1. rc["host"] \in {"none", "0", "1", "signal"}
    BY DEF IInv, Types, Child
  <2>. QED BY <1>1, <2>1 DEF IInv, Types
<1>3. Types'
  BY <1>1, <1>2 DEF IInv, Types, BossStays, sampler, consumer, fitter
<1>4. SealInv'
  BY <1>1 DEF IInv, SealInv, Sealed, BossStays, sampler, consumer, NoMarker
<1>5. RamInv' /\ ChainInv'
  BY <1>1, RecordsUntouched DEF BossStays, consumer, fitter
<1>6. FitInv' /\ RowsInv'
  BY <1>1, FitterUntouched DEF BossStays, consumer
<1>. QED BY <1>1, <1>3, <1>4, <1>5, <1>6 DEF IInv

(* The children are started one after the other, the reader of a pipe      *)
(* before its writer.                                                      *)
LEMMA SpawnKeeps ==
  ASSUME IInv, SpawnFitter \/ SpawnConsumer \/ SpawnHost
  PROVE  IInv'
<1>. "host" \in Child /\ "consumer" \in Child /\ "profiles" \in Child
  BY DEF Child
<1>1. PICK c \in Child, l \in {"read", "capture", "run"} :
         /\ pc[c] = "none" /\ pc' = [pc EXCEPT ![c] = l]
         /\ \/ /\ c = "profiles" /\ l = "read" /\ parent = "spawn"
               /\ parent' = "spawn_consumer"
            \/ /\ c = "consumer" /\ l = "capture" /\ parent = "spawn_consumer"
               /\ parent' = "spawn_host"
            \/ c = "host" /\ l = "run" /\ parent = "spawn_host" /\ parent' = "while"
  <2>1. CASE SpawnFitter
    BY <2>1 DEF SpawnFitter, Spawn, Goto, IInv, ParentInv
  <2>2. CASE SpawnConsumer
    BY <2>2 DEF SpawnConsumer, Spawn, Goto, IInv, ParentInv
  <2>3. CASE SpawnHost
    BY <2>3 DEF SpawnHost, Spawn, Goto, IInv, ParentInv
  <2>. QED BY <2>1, <2>2, <2>3
<1>2. UNCHANGED <<late, marker, result, rc, sig>> /\ BossStays
  BY DEF SpawnFitter, SpawnConsumer, SpawnHost, Spawn
<1>3. pc'[c] = l /\ (\A d \in Child \ {c} : pc'[d] = pc[d])
      /\ pc' \in [Child -> {"none", "run", "closed", "hung", "capture", "marker", "replay",
                            "read", "dead"}]
  BY <1>1 DEF IInv, Types
<1>4. Types'
  BY <1>1, <1>2, <1>3 DEF IInv, Types, BossStays, sampler, consumer, fitter, Spawning
<1>5. ParentInv'
  <2>1. \A d \in Child : rc'[d] = "none" <=> pc'[d] # "dead"
    BY <1>1, <1>2, <1>3 DEF IInv, ParentInv
  <2>2. marker' = marker /\ result' = result /\ receipt' = receipt /\ profiles' = profiles
    BY <1>2 DEF BossStays, consumer, fitter
  <2>3. ~AllDead /\ result # "PASS" /\ (marker # NoMarker => c # "host")
    BY <1>1 DEF IInv, ParentInv, AllDead
  <2>4. result = "none"
    BY <1>1 DEF IInv, ParentInv
  <2>5. \A d \in Child : pc[d] = "dead" => pc'[d] = "dead"
    BY <1>1, <1>3
  <2>6. parent' = "spawn_consumer" =>
           pc'["profiles"] # "none" /\ pc'["consumer"] = "none" /\ pc'["host"] = "none"
    BY <1>1, <1>3 DEF IInv, ParentInv
  <2>7. parent' = "spawn_host" =>
           pc'["profiles"] # "none" /\ pc'["consumer"] # "none" /\ pc'["host"] = "none"
    BY <1>1, <1>3 DEF IInv, ParentInv
  <2>8. parent' = "while" => \A d \in Child : pc'[d] # "none"
    <3>1. SUFFICES ASSUME parent' = "while"
                   PROVE  pc["consumer"] # "none" /\ pc["profiles"] # "none"
      BY <1>1, <1>3 DEF Child
    <3>. QED BY <1>1, <3>1 DEF IInv, ParentInv
  <2>9. marker' # NoMarker => pc'["host"] = "dead" /\ marker'.rc = rc'["host"]
    BY <1>2, <2>2, <2>5 DEF IInv, ParentInv
  <2>. QED BY <1>1, <2>1, <2>2, <2>4, <2>6, <2>7, <2>8, <2>9 DEF ParentInv
<1>6. SealInv'
  BY <1>1, <1>2, <1>3 DEF IInv, SealInv, Sealed, BossStays, sampler, consumer, Child
<1>7. RamInv' /\ ChainInv'
  <2>1. UNCHANGED <<reader, ram, proj, cursor, analysis>>
    BY <1>2 DEF BossStays, consumer, fitter
  <2>2. CASE c = "profiles"
    <3>1. proj = <<>> /\ cursor = 0
      BY <1>1, <2>2 DEF IInv, ParentInv, SealInv
    <3>2. cursor \notin DOMAIN ram
      BY <3>1 DEF IInv, Types
    <3>3. RamInv'
      BY <1>3, <2>1, <2>2 DEF IInv, RamInv, Begun, Continues, Expected
    <3>. QED BY <2>1, <3>1, <3>2, <3>3 DEF IInv, ChainInv
  <2>3. CASE c = "consumer"
    <3>1. pc'["profiles"] = pc["profiles"] /\ pc["consumer"] = "none" /\ pc'["consumer"] = "capture"
      BY <1>1, <1>3, <2>3
    <3>2. RamInv'
      BY <2>1, <3>1 DEF IInv, RamInv, Begun, Continues, Expected
    <3>3. ChainInv'
      BY <2>1, <3>1 DEF IInv, ChainInv, Continues, Expected
    <3>. QED BY <3>2, <3>3
  <2>4. CASE c = "host"
    BY <1>3, <2>1, <2>4, RecordsUntouched
  <2>. QED BY <1>1, <2>2, <2>3, <2>4
<1>8. FitInv' /\ RowsInv'
  <2>1. UNCHANGED <<fitter, quality, receipt, rc>>
    BY <1>2 DEF BossStays, consumer
  <2>2. CASE c = "profiles"
    <3>1. pc["profiles"] = "none" /\ pc'["profiles"] = "read" /\ profiles = "none"
      BY <1>1, <1>3, <2>2 DEF IInv, FitInv
    <3>2. FitInv'
      BY <2>1, <3>1 DEF IInv, FitInv, fitter, Numbered, Distinct
    <3>3. RowsInv'
      BY <2>1 DEF IInv, RowsInv, fitter, Numbered, HasEnded, RowAt
    <3>. QED BY <3>2, <3>3
  <2>3. CASE c # "profiles"
    BY <1>3, <2>1, <2>3, FitterUntouched
  <2>. QED BY <2>2, <2>3
<1>. QED BY <1>4, <1>5, <1>6, <1>7, <1>8 DEF IInv

(* A child that dies by itself, of a signal or with the parent leaves no   *)
(* receipt; what the others wrote stays.                                   *)
Deaths == Killed \/ \E c \in Child : ChildDies(c) \/ ChildCrashes(c)

LEMMA DeathsKeep ==
  ASSUME IInv, Deaths
  PROVE  IInv'
<1>. "host" \in Child /\ "consumer" \in Child /\ "profiles" \in Child
  BY DEF Child
<1>1. /\ UNCHANGED <<late, marker, result, sig>> /\ BossStays
      /\ parent' = parent \/ (parent' = "gone" /\ parent # "done")
      /\ pc' \in [Child -> {"none", "run", "closed", "hung", "capture", "marker", "replay",
                            "read", "dead"}]
      /\ rc' \in [Child -> {"none", "0", "1", "signal"}]
      /\ \A c \in Child : \/ pc'[c] = pc[c] /\ rc'[c] = rc[c]
                          \/ Alive(c) /\ pc'[c] = "dead" /\ rc'[c] = "signal"
  <2>1. pc \in [Child -> {"none", "run", "closed", "hung", "capture", "marker", "replay",
                          "read", "dead"}]
        /\ rc \in [Child -> {"none", "0", "1", "signal"}]
    BY DEF IInv, Types
  <2>2. CASE Killed
    BY <2>1, <2>2 DEF Killed
  <2>3. ASSUME NEW c \in Child, ChildDies(c) \/ ChildCrashes(c)
        PROVE  /\ UNCHANGED <<boss, sig>> /\ BossStays /\ Alive(c)
               /\ pc' = [pc EXCEPT ![c] = "dead"] /\ rc' = [rc EXCEPT ![c] = "signal"]
    BY <2>3 DEF ChildDies, ChildCrashes, ExitWith, Goto
  <2>4. CASE \E c \in Child : ChildDies(c) \/ ChildCrashes(c)
    BY <2>1, <2>3, <2>4 DEF boss
  <2>. QED BY <2>2, <2>4 DEF Deaths
<1>2. \A c \in Child : pc[c] = "dead" => pc'[c] = "dead" /\ rc'[c] = rc[c]
  BY <1>1 DEF Alive
<1>3. Types'
  BY <1>1 DEF IInv, Types, BossStays, sampler, consumer, fitter
<1>4. receipt' = receipt /\ profiles' = profiles /\ finish' = finish /\ reader' = reader
      /\ cursor' = cursor /\ proj' = proj
  BY <1>1 DEF BossStays, consumer, fitter, sampler
<1>5. ParentInv'
  <2>1. \A c \in Child : rc'[c] = "none" <=> pc'[c] # "dead"
    BY <1>1 DEF IInv, ParentInv
  <2>2. \A c \in Child : (pc[c] = "none" => pc'[c] = "none") /\ (pc[c] # "none" => pc'[c] # "none")
    BY <1>1 DEF Alive
  <2>3. AllDead => AllDead'
    BY <1>2 DEF AllDead
  <2>. QED BY <1>1, <1>2, <1>4, <2>1, <2>2, <2>3 DEF IInv, ParentInv
<1>6. SealInv'
  <2>1. pc'["consumer"] = pc["consumer"] \/ pc'["consumer"] = "dead"
    BY <1>1
  <2>. QED BY <1>1, <1>2, <1>4, <2>1 DEF IInv, SealInv, Sealed
<1>7. RamInv' /\ ChainInv'
  BY <1>1, RecordsUntouched DEF BossStays, consumer, fitter
<1>8. FitInv' /\ RowsInv'
  <2>1. UNCHANGED <<fitter, quality>>
    BY <1>1 DEF BossStays
  <2>2. FitInv'
    <3>1. pc'["profiles"] = pc["profiles"] \/ (pc["profiles"] # "none" /\ pc'["profiles"] = "dead")
      BY <1>1 DEF Alive
    <3>. QED BY <1>2, <1>4, <2>1, <3>1 DEF IInv, FitInv, fitter, Numbered, Distinct
  <2>3. RowsInv'
    BY <2>1 DEF IInv, RowsInv, fitter, Numbered, HasEnded, RowAt
  <2>. QED BY <2>2, <2>3
<1>. QED BY <1>3, <1>5, <1>6, <1>7, <1>8 DEF IInv

-----------------------------------------------------------------------------
(* The consumer.                                                           *)

(* While consumer or fitter lives, no pass is on its way: its step cannot  *)
(* take anything from one.                                                 *)
LEMMA OneMoves ==
  ASSUME IInv, NEW c \in {"consumer", "profiles"}, UNCHANGED boss,
         pc[c] \notin {"none", "dead"}, pc'[c] # "none",
         rc'[c] = "none" <=> pc'[c] # "dead",
         \A d \in Child \ {c} : pc'[d] = pc[d] /\ rc'[d] = rc[d]
  PROVE  ParentInv'
<1>. c \in Child /\ "host" \in Child /\ "host" # c /\ "consumer" \in Child /\ "profiles" \in Child
  BY DEF Child
<1>1. ~AllDead /\ parent \notin {"accept", "reap_pass"} /\ result # "PASS"
  BY DEF IInv, ParentInv, AllDead
<1>2. \A d \in Child : /\ rc'[d] = "none" <=> pc'[d] # "dead"
                       /\ pc[d] # "none" <=> pc'[d] # "none"
  BY DEF IInv, ParentInv
<1>3. pc'["host"] = pc["host"] /\ rc'["host"] = rc["host"]
  OBVIOUS
<1>4. parent # "spawn"
  BY DEF IInv, ParentInv
<1>. QED BY <1>1, <1>2, <1>3, <1>4 DEF IInv, ParentInv, boss

(* What every step of the consumer leaves alone.                           *)
LEMMA ConsumerMoves ==
  ASSUME IInv, NEW l \in {"capture", "marker", "replay", "dead"},
         pc' = [pc EXCEPT !["consumer"] = l],
         IF l = "dead" THEN \E code \in {"0", "1"} : rc' = [rc EXCEPT !["consumer"] = code]
                       ELSE rc' = rc,
         ConsumerStays, receipt # "PASS",
         pc["consumer"] \in {"capture", "marker", "replay"}
  PROVE  /\ ParentInv' /\ FitInv' /\ RowsInv'
         /\ pc'["consumer"] = l /\ pc'["host"] = pc["host"]
         /\ pc'["profiles"] = pc["profiles"] /\ rc'["host"] = rc["host"]
         /\ l = "dead" => rc' = [rc EXCEPT !["consumer"] = rc'["consumer"]]
         /\ raw' \in Seq(Frames) /\ Len(raw') <= PipeCap
            /\ reader' \in [hello : BOOLEAN, static : BOOLEAN, cur : Kernel \cup {0},
                            records : Nat, keys : SUBSET Kernel, kernels : Nat,
                            total : Nat, closed : BOOLEAN]
            /\ ram' \in Seq(Frames) /\ cursor' \in Nat /\ receipt' \in {"none", "PASS", "FAIL"}
            /\ proj' \in Seq(ProjectionRow) /\ Len(proj') <= PipeCap
            => Types'
<1>. "host" \in Child /\ "consumer" \in Child /\ "profiles" \in Child
  BY DEF Child
<1>1. /\ pc \in [Child -> {"none", "run", "closed", "hung", "capture", "marker", "replay",
                           "read", "dead"}]
      /\ rc \in [Child -> {"none", "0", "1", "signal"}]
  BY DEF IInv, Types
<1>2. /\ pc'["consumer"] = l /\ \A d \in Child \ {"consumer"} : pc'[d] = pc[d] /\ rc'[d] = rc[d]
      /\ pc' \in [Child -> {"none", "run", "closed", "hung", "capture", "marker", "replay",
                            "read", "dead"}]
      /\ rc' \in [Child -> {"none", "0", "1", "signal"}]
  BY <1>1
<1>3. rc["consumer"] = "none"
  BY DEF IInv, ParentInv
<1>4. rc'["consumer"] = "none" <=> pc'["consumer"] # "dead"
  BY <1>1, <1>2, <1>3
<1>5. UNCHANGED boss
  BY DEF ConsumerStays
<1>6. ParentInv'
  BY <1>2, <1>4, <1>5, OneMoves
<1>7. FitInv' /\ RowsInv'
  BY <1>2, FitterUntouched DEF ConsumerStays
<1>8. raw' \in Seq(Frames) /\ Len(raw') <= PipeCap
      /\ reader' \in [hello : BOOLEAN, static : BOOLEAN, cur : Kernel \cup {0},
                      records : Nat, keys : SUBSET Kernel, kernels : Nat,
                      total : Nat, closed : BOOLEAN]
      /\ ram' \in Seq(Frames) /\ cursor' \in Nat /\ receipt' \in {"none", "PASS", "FAIL"}
      /\ proj' \in Seq(ProjectionRow) /\ Len(proj') <= PipeCap
      => Types'
  <2>1. UNCHANGED <<parent, late, marker, result, sig, script, faults, finish, analysis, rows,
                    profiles, quality>>
    BY DEF ConsumerStays, boss, sampler, fitter
  <2>2. pc'["host"] = pc["host"] /\ pc'["profiles"] = pc["profiles"]
        /\ pc'["consumer"] \in {"none", "capture", "marker", "replay", "dead"}
    BY <1>2
  <2>. QED BY <1>2, <2>1, <2>2 DEF IInv, Types
<1>9. l = "dead" => rc' = [rc EXCEPT !["consumer"] = rc'["consumer"]]
  BY <1>1
<1>. QED BY <1>2, <1>6, <1>7, <1>8, <1>9

(* A failed consumer has cleared its RAM; what is in the pipe stays.       *)
LEMMA ConsumerFailsKeeps ==
  ASSUME IInv, pc["consumer"] \in {"capture", "marker", "replay"},
         ConsumerFails, ConsumerStays, UNCHANGED proj,
         raw' = raw \/ (raw # <<>> /\ raw' = Tail(raw))
  PROVE  IInv'
<1>1. receipt' = "FAIL" /\ ram' = <<>> /\ reader' = reader /\ cursor' = cursor
      /\ pc' = [pc EXCEPT !["consumer"] = "dead"] /\ rc' = [rc EXCEPT !["consumer"] = "1"]
  BY DEF ConsumerFails, ExitWith, Goto
<1>2. receipt # "PASS"
  BY DEF IInv, SealInv
<1>3. raw' \in Seq(Frames) /\ Len(raw') <= PipeCap
  <2>1. raw # <<>> => Tail(raw) \in Seq(Frames) /\ Len(Tail(raw)) = Len(raw) - 1
    BY TailOf DEF IInv, Types
  <2>2. raw \in Seq(Frames) /\ Len(raw) \in Nat /\ Len(raw) <= PipeCap /\ PipeCap \in Nat
    BY ConstantsAssumption DEF IInv, Types
  <2>. QED BY <2>1, <2>2
<1>4. Types' /\ ParentInv' /\ FitInv' /\ RowsInv' /\ pc'["consumer"] = "dead"
      /\ pc'["profiles"] = pc["profiles"]
  <2>1. ram' \in Seq(Frames)
    BY <1>1
  <2>2. /\ reader' \in [hello : BOOLEAN, static : BOOLEAN, cur : Kernel \cup {0},
                        records : Nat, keys : SUBSET Kernel, kernels : Nat,
                        total : Nat, closed : BOOLEAN]
        /\ cursor' \in Nat /\ receipt' \in {"none", "PASS", "FAIL"}
        /\ proj' \in Seq(ProjectionRow) /\ Len(proj') <= PipeCap
    BY <1>1 DEF IInv, Types
  <2>3. /\ ParentInv' /\ FitInv' /\ RowsInv' /\ pc'["consumer"] = "dead"
        /\ pc'["profiles"] = pc["profiles"]
    BY <1>1, <1>2, ConsumerMoves
  <2>4. Types'
    BY <1>1, <1>2, <1>3, <2>1, <2>2, ConsumerMoves
  <2>. QED BY <2>3, <2>4
<1>5. SealInv'
  BY <1>1, <1>4 DEF IInv, SealInv, Sealed
<1>6. RamInv'
  BY <1>1, <1>4 DEF RamInv
<1>7. ChainInv'
  <2>1. analysis' = analysis
    BY DEF ConsumerStays, fitter
  <2>. QED BY <1>1, <1>4, <2>1 DEF IInv, ChainInv, Continues, Expected
<1>. QED BY <1>4, <1>5, <1>6, <1>7 DEF IInv

(* Read of an admitted frame.                                              *)
LEMMA ReadTyped ==
  ASSUME Types, NEW f \in Frames, Admits(reader, f)
  PROVE  /\ Read(reader, f) \in [hello : BOOLEAN, static : BOOLEAN, cur : Kernel \cup {0},
                                 records : Nat, keys : SUBSET Kernel, kernels : Nat,
                                 total : Nat, closed : BOOLEAN]
         /\ Read(reader, f).closed => f.kind = "closed" /\ f.k = NKernels
                                      /\ Read(reader, f).kernels = NKernels
         /\ Read(reader, f).cur # 0 => f.kind \in {"begin", "record"}
         /\ f.kind = "begin" => Read(reader, f).records = 0
         /\ f.kind = "record" => /\ Read(reader, f).records = f.n + 1
                                 /\ reader.cur # 0 /\ f.n = reader.records
         /\ f.kind = "end" => reader.cur # 0
<1>1. /\ reader \in [hello : BOOLEAN, static : BOOLEAN, cur : Kernel \cup {0}, records : Nat,
                     keys : SUBSET Kernel, kernels : Nat, total : Nat, closed : BOOLEAN]
      /\ ~reader.closed
  BY DEF Types, Admits
<1>2. /\ f.kind \in {"hello", "static", "begin", "record", "end", "closed"} /\ f.n \in Nat
      /\ f.k \in Nat /\ (f.kind = "begin" => f.k \in Kernel)
  BY DEF Frames
<1>3. CASE f.kind = "hello"
  BY <1>1, <1>3 DEF Admits, Read
<1>4. CASE f.kind = "static"
  BY <1>1, <1>4 DEF Admits, Read
<1>5. CASE f.kind = "begin"
  BY <1>1, <1>2, <1>5 DEF Admits, Read
<1>6. CASE f.kind = "record"
  <2>1. reader.cur # 0 /\ f.n = reader.records
    BY <1>6 DEF Admits, NextRecord
  <2>2. Read(reader, f) = [reader EXCEPT !.records = reader.records + 1,
                                        !.total = reader.total + 1]
    BY <1>6 DEF Read
  <2>3. reader.records \in Nat /\ reader.total \in Nat
    BY <1>1
  <2>4. /\ Read(reader, f).records = reader.records + 1
        /\ Read(reader, f).closed = reader.closed
    BY <1>1, <2>2
  <2>5. reader.records + 1 \in Nat /\ reader.total + 1 \in Nat
    BY <2>3
  <2>6. Read(reader, f) \in [hello : BOOLEAN, static : BOOLEAN, cur : Kernel \cup {0},
                             records : Nat, keys : SUBSET Kernel, kernels : Nat,
                             total : Nat, closed : BOOLEAN]
    BY <1>1, <2>2, <2>5
  <2>. QED BY <1>1, <1>6, <2>1, <2>4, <2>6
<1>7. CASE f.kind = "end"
  <2>1. reader.cur # 0
    BY <1>7 DEF Admits
  <2>2. Read(reader, f) = [reader EXCEPT !.cur = 0, !.kernels = reader.kernels + 1]
    BY <1>7 DEF Read
  <2>3. reader.kernels \in Nat
    BY <1>1
  <2>4. Read(reader, f).cur = 0 /\ Read(reader, f).closed = reader.closed
    BY <1>1, <2>2
  <2>5. reader.kernels + 1 \in Nat
    BY <2>3
  <2>6. Read(reader, f) \in [hello : BOOLEAN, static : BOOLEAN, cur : Kernel \cup {0},
                             records : Nat, keys : SUBSET Kernel, kernels : Nat,
                             total : Nat, closed : BOOLEAN]
    BY <1>1, <2>2, <2>5
  <2>. QED BY <1>1, <1>7, <2>1, <2>4, <2>6
<1>8. CASE f.kind = "closed"
  BY <1>1, <1>8 DEF Admits, Read, CloseComplete
<1>. QED BY <1>2, <1>3, <1>4, <1>5, <1>6, <1>7, <1>8

(* A captured record is the next of the launch that is open.               *)
LEMMA CaptureKeeps ==
  ASSUME IInv, Capture
  PROVE  IInv'
<1>. DEFINE f == Head(raw)
<1>1. /\ pc["consumer"] = "capture" /\ raw # <<>> /\ raw' = Tail(raw)
      /\ UNCHANGED proj /\ ConsumerStays
  BY DEF Capture
<1>2. /\ f \in Frames /\ Tail(raw) \in Seq(Frames) /\ Len(Tail(raw)) = Len(raw) - 1
      /\ Len(raw) \in Nat /\ Len(raw) <= PipeCap /\ PipeCap \in Nat
  BY <1>1, TailOf, ConstantsAssumption DEF IInv, Types
<1>3. CASE ~Admits(reader, f)
  BY <1>1, <1>3, ConsumerFailsKeeps DEF Capture
<1>4. CASE Admits(reader, f)
  <2>. HIDE DEF f
  <2>1. /\ reader' = Read(reader, f) /\ ram' = Append(ram, f)
        /\ UNCHANGED <<pc, rc, cursor, receipt>>
    BY <1>4 DEF Capture, f
  <2>2. receipt # "PASS" /\ cursor = 0 /\ proj = <<>>
    BY <1>1 DEF IInv, SealInv
  <2>3. /\ Read(reader, f) \in [hello : BOOLEAN, static : BOOLEAN, cur : Kernel \cup {0},
                                records : Nat, keys : SUBSET Kernel, kernels : Nat,
                                total : Nat, closed : BOOLEAN]
        /\ Read(reader, f).closed => Read(reader, f).kernels = NKernels
        /\ Read(reader, f).cur # 0 => f.kind \in {"begin", "record"}
        /\ f.kind = "begin" => Read(reader, f).records = 0
        /\ f.kind = "record" => /\ Read(reader, f).records = f.n + 1
                                /\ reader.cur # 0 /\ f.n = reader.records
        /\ f.kind = "end" => reader.cur # 0
    BY <1>2, <1>4, ReadTyped DEF IInv
  <2>4. /\ ram \in Seq(Frames) /\ ram' \in Seq(Frames) /\ ram' # <<>>
        /\ Len(ram') = Len(ram) + 1 /\ Len(ram) \in Nat
        /\ DOMAIN ram' = 1..(Len(ram) + 1) /\ DOMAIN ram = 1..Len(ram)
        /\ ram'[Len(ram) + 1] = f
        /\ \A i \in DOMAIN ram : ram'[i] = ram[i]
    <3>1. ram \in Seq(Frames)
      BY DEF IInv, Types
    <3>. QED BY <1>2, <2>1, <3>1, AppendOf
  <2>5. Types' /\ ParentInv' /\ FitInv' /\ RowsInv'
    <3>1. pc' = [pc EXCEPT !["consumer"] = "capture"] /\ rc' = rc
      BY <1>1, <2>1 DEF IInv, Types
    <3>2. cursor' \in Nat /\ receipt' \in {"none", "PASS", "FAIL"}
          /\ proj' \in Seq(ProjectionRow) /\ Len(proj') <= PipeCap
      BY <1>1, <2>1 DEF IInv, Types
    <3>3. raw' \in Seq(Frames) /\ Len(raw') <= PipeCap
      BY <1>1, <1>2
    <3>4. reader' \in [hello : BOOLEAN, static : BOOLEAN, cur : Kernel \cup {0},
                       records : Nat, keys : SUBSET Kernel, kernels : Nat,
                       total : Nat, closed : BOOLEAN]
      BY <2>1, <2>3
    <3>5. ParentInv' /\ FitInv' /\ RowsInv'
      BY <1>1, <2>2, <3>1, ConsumerMoves
    <3>6. Types'
      BY <1>1, <2>2, <2>4, <3>1, <3>2, <3>3, <3>4, ConsumerMoves
    <3>. QED BY <3>5, <3>6
  <2>6. SealInv'
    BY <1>1, <2>1, <2>2, <2>3 DEF IInv, SealInv
  <2>7. RamInv'
    <3>1. reader.cur # 0 =>
            /\ Len(ram) > 0 /\ Begun(Len(ram))
            /\ ram[Len(ram)].kind \in {"begin", "record"}
            /\ reader.records = Expected(ram[Len(ram)])
      BY <1>1, <2>4 DEF IInv, RamInv
    <3>2. ASSUME NEW i \in 1..Len(ram), Begun(i)
          PROVE  \E b \in 1..i : ram'[b].kind = "begin"
      <4>1. PICK b \in 1..i : ram[b].kind = "begin"
        BY <3>2 DEF Begun
      <4>2. b \in DOMAIN ram
        BY <2>4
      <4>. QED BY <2>4, <4>1, <4>2 DEF Begun
    <3>3. reader.cur # 0 => \E b \in 1..Len(ram) : ram'[b].kind = "begin"
      <4>1. SUFFICES ASSUME reader.cur # 0
                     PROVE  \E b \in 1..Len(ram) : ram'[b].kind = "begin"
        OBVIOUS
      <4>2. PICK b \in 1..Len(ram) : ram[b].kind = "begin"
        BY <3>1, <4>1 DEF Begun
      <4>. QED BY <2>4, <4>2
    <3>4. ASSUME NEW i \in DOMAIN ram', ram'[i].kind = "record"
          PROVE  i > 1 /\ Continues(ram'[i - 1], ram'[i])
      <4>1. CASE i = Len(ram) + 1
        <5>1. f.kind = "record" /\ reader.cur # 0 /\ f.n = reader.records
          BY <2>3, <2>4, <3>4, <4>1
        <5>2. ram'[i - 1] = ram[Len(ram)] /\ i > 1
          BY <2>4, <3>1, <4>1, <5>1
        <5>. QED BY <2>4, <3>1, <4>1, <5>1, <5>2 DEF Continues
      <4>2. CASE i # Len(ram) + 1
        <5>1. i \in DOMAIN ram /\ ram'[i] = ram[i]
          BY <2>4, <4>2
        <5>2. i > 1 /\ Continues(ram[i - 1], ram[i])
          BY <3>4, <5>1 DEF IInv, RamInv
        <5>3. i - 1 \in DOMAIN ram
          BY <2>4, <5>1, <5>2
        <5>. QED BY <2>4, <5>1, <5>2, <5>3
      <4>. QED BY <4>1, <4>2
    <3>5. ASSUME NEW i \in DOMAIN ram', ram'[i].kind \in {"record", "end"}
          PROVE  \E b \in 1..i : ram'[b].kind = "begin"
      <4>1. CASE i = Len(ram) + 1
        <5>1. reader.cur # 0
          BY <2>3, <2>4, <3>5, <4>1
        <5>. QED BY <2>4, <3>3, <4>1, <5>1
      <4>2. CASE i # Len(ram) + 1
        <5>1. i \in 1..Len(ram) /\ ram'[i] = ram[i]
          BY <2>4, <4>2
        <5>2. Begun(i)
          BY <2>4, <3>5, <5>1 DEF IInv, RamInv
        <5>. QED BY <3>2, <5>1, <5>2
      <4>. QED BY <4>1, <4>2
    <3>6. ASSUME reader'.cur # 0
          PROVE  /\ \E b \in 1..Len(ram') : ram'[b].kind = "begin"
                 /\ ram'[Len(ram')].kind \in {"begin", "record"}
                 /\ reader'.records = Expected(ram'[Len(ram')])
      <4>1. f.kind \in {"begin", "record"} /\ ram'[Len(ram')] = f
        BY <2>1, <2>3, <2>4, <3>6
      <4>2. reader'.records = Expected(f)
        BY <2>1, <2>3, <4>1 DEF Expected
      <4>3. \E b \in 1..Len(ram') : ram'[b].kind = "begin"
        <5>1. CASE f.kind = "begin"
          BY <2>4, <4>1, <5>1
        <5>2. CASE f.kind = "record"
          BY <2>4, <3>5, <4>1, <5>2
        <5>. QED BY <4>1, <5>1, <5>2
      <4>. QED BY <4>1, <4>2, <4>3
    <3>. QED BY <2>4, <3>4, <3>5, <3>6 DEF RamInv, Begun
  <2>8. ChainInv'
    <3>1. cursor' \notin DOMAIN ram'
      BY <2>1, <2>2, <2>4
    <3>2. proj' = <<>>
      BY <1>1, <2>2
    <3>. QED BY <3>1, <3>2 DEF ChainInv
  <2>. QED BY <2>5, <2>6, <2>7, <2>8 DEF IInv
<1>. QED BY <1>3, <1>4

LEMMA CaptureEndsKeeps ==
  ASSUME IInv, CaptureEnds
  PROVE  IInv'
<1>1. pc["consumer"] = "capture" /\ UNCHANGED <<raw, proj>> /\ ConsumerStays
  BY DEF CaptureEnds
<1>2. CASE ~reader.closed
  BY <1>1, <1>2, ConsumerFailsKeeps DEF CaptureEnds
<1>3. CASE reader.closed
  <2>1. /\ pc' = [pc EXCEPT !["consumer"] = "marker"] /\ rc' = rc
        /\ UNCHANGED consumer
    BY <1>3 DEF CaptureEnds, Goto
  <2>2. receipt # "PASS" /\ cursor = 0 /\ proj = <<>> /\ reader.kernels = NKernels
    BY <1>1, <1>3 DEF IInv, SealInv
  <2>3. /\ ParentInv' /\ FitInv' /\ RowsInv'
        /\ pc'["consumer"] = "marker" /\ pc'["profiles"] = pc["profiles"]
    BY <1>1, <2>1, <2>2, ConsumerMoves
  <2>4. /\ raw' \in Seq(Frames) /\ Len(raw') <= PipeCap
        /\ reader' \in [hello : BOOLEAN, static : BOOLEAN, cur : Kernel \cup {0},
                        records : Nat, keys : SUBSET Kernel, kernels : Nat,
                        total : Nat, closed : BOOLEAN]
        /\ ram' \in Seq(Frames) /\ cursor' \in Nat /\ receipt' \in {"none", "PASS", "FAIL"}
        /\ proj' \in Seq(ProjectionRow) /\ Len(proj') <= PipeCap
    BY <1>1, <2>1 DEF IInv, Types, consumer
  <2>5. Types'
    BY <1>1, <2>1, <2>2, <2>4, ConsumerMoves
  <2>6. SealInv'
    BY <1>1, <1>3, <2>1, <2>2, <2>3 DEF IInv, SealInv, consumer
  <2>7. RamInv' /\ ChainInv'
    <3>1. analysis' = analysis
      BY <1>1 DEF ConsumerStays, fitter
    <3>. QED BY <1>1, <2>1, <2>3, <3>1
             DEF IInv, RamInv, ChainInv, consumer, Begun, Continues, Expected
  <2>. QED BY <2>3, <2>5, <2>6, <2>7 DEF IInv
<1>. QED BY <1>2, <1>3

LEMMA QualifyKeeps ==
  ASSUME IInv, Qualify
  PROVE  IInv'
<1>1. pc["consumer"] = "marker" /\ UNCHANGED <<raw, proj>> /\ ConsumerStays
  BY DEF Qualify
<1>2. CASE ~Qualifies
  BY <1>1, <1>2, ConsumerFailsKeeps DEF Qualify
<1>3. CASE Qualifies
  <2>1. /\ pc' = [pc EXCEPT !["consumer"] = "replay"] /\ rc' = rc
        /\ UNCHANGED consumer
    BY <1>3 DEF Qualify, Goto
  <2>2. receipt # "PASS" /\ cursor = 0 /\ proj = <<>> /\ reader.closed
    BY <1>1 DEF IInv, SealInv
  <2>3. /\ ParentInv' /\ FitInv' /\ RowsInv'
        /\ pc'["consumer"] = "replay" /\ pc'["profiles"] = pc["profiles"]
    BY <1>1, <2>1, <2>2, ConsumerMoves
  <2>4. /\ raw' \in Seq(Frames) /\ Len(raw') <= PipeCap
        /\ reader' \in [hello : BOOLEAN, static : BOOLEAN, cur : Kernel \cup {0},
                        records : Nat, keys : SUBSET Kernel, kernels : Nat,
                        total : Nat, closed : BOOLEAN]
        /\ ram' \in Seq(Frames) /\ cursor' \in Nat /\ receipt' \in {"none", "PASS", "FAIL"}
        /\ proj' \in Seq(ProjectionRow) /\ Len(proj') <= PipeCap
    BY <1>1, <2>1 DEF IInv, Types, consumer
  <2>5. Types'
    BY <1>1, <2>1, <2>2, <2>4, ConsumerMoves
  <2>6. Sealed'
    <3>1. marker \in [rc : {"none", "0", "1", "signal"}, pins : BOOLEAN]
      BY DEF IInv, Types
    <3>2. marker.rc = "0" /\ marker.pins /\ finish = "PASS"
      BY <1>3 DEF Qualifies
    <3>3. marker = [rc |-> "0", pins |-> TRUE]
      BY <3>1, <3>2
    <3>4. marker' = marker /\ finish' = finish /\ reader' = reader
      BY <1>1, <2>1 DEF ConsumerStays, boss, sampler, consumer
    <3>. QED BY <2>2, <3>2, <3>3, <3>4 DEF Sealed
  <2>7. SealInv'
    BY <1>1, <2>1, <2>2, <2>3, <2>6 DEF IInv, SealInv, consumer
  <2>8. RamInv' /\ ChainInv'
    <3>1. analysis' = analysis
      BY <1>1 DEF ConsumerStays, fitter
    <3>. QED BY <1>1, <2>1, <2>3, <3>1
             DEF IInv, RamInv, ChainInv, consumer, Begun, Continues, Expected
  <2>. QED BY <2>3, <2>5, <2>7, <2>8 DEF IInv
<1>. QED BY <1>2, <1>3

LEMMA MarkerTimeoutKeeps ==
  ASSUME IInv, MarkerTimeout
  PROVE  IInv'
BY ConsumerFailsKeeps DEF MarkerTimeout

(* A row that is replayed carries the frame's kind and number, and in its  *)
(* launch's place that of the launch last begun.                           *)
LEMMA RowTyped ==
  ASSUME IInv, cursor <= Len(ram), Replayed(cursor)
  PROVE  /\ RowOf(cursor) \in ProjectionRow
         /\ cursor = 0 => RowOf(cursor).kind = "header"
         /\ cursor # 0 => cursor \in DOMAIN ram /\ RowOf(cursor).kind = ram[cursor].kind
                          /\ RowOf(cursor).n = ram[cursor].n
<1>1. cursor \in Nat /\ ram \in Seq(Frames)
  BY DEF IInv, Types
<1>2. CASE cursor = 0
  BY <1>2 DEF RowOf, ProjectionRow
<1>3. CASE cursor # 0
  <2>. DEFINE begun == {b \in 1..cursor : ram[b].kind = "begin"}
              last == CHOOSE b \in begun : \A a \in begun : a <= b
  <2>1. cursor \in DOMAIN ram /\ ram[cursor] \in Frames
    BY <1>1, <1>3
  <2>2. ram[cursor].kind \in {"begin", "record", "end"}
    BY <1>3 DEF Replayed
  <2>3. begun # {}
    <3>1. CASE ram[cursor].kind = "begin"
      BY <1>1, <1>3, <3>1
    <3>2. CASE ram[cursor].kind \in {"record", "end"}
      BY <2>1, <3>2 DEF IInv, RamInv, Begun
    <3>. QED BY <2>2, <3>1, <3>2
  <2>4. last \in begun
    <3>1. begun \in SUBSET (0..cursor)
      BY <1>1
    <3>2. \E b \in begun : \A a \in begun : a <= b
      <4>. HIDE DEF begun
      <4>. QED BY <1>1, <2>3, <3>1, GreatestOf
    <3>. HIDE DEF begun
    <3>. QED BY <3>2
  <2>5. last \in DOMAIN ram /\ ram[last].kind = "begin"
    BY <1>1, <2>1, <2>4
  <2>6. ram[last].k \in Kernel
    BY <1>1, <2>5 DEF Frames
  <2>7. RowOf(cursor) = [kind |-> ram[cursor].kind, k |-> ram[last].k, n |-> ram[cursor].n,
                         id |-> <<ram[cursor].k, ram[cursor].n>>]
    BY <1>3 DEF RowOf
  <2>. HIDE DEF last
  <2>8. ram[last].k \in Nat /\ ram[cursor].n \in Nat /\ ram[cursor].k \in Nat
    BY <2>1, <2>6 DEF Frames, Kernel
  <2>. QED BY <1>3, <2>1, <2>2, <2>6, <2>7, <2>8 DEF ProjectionRow
<1>. QED BY <1>2, <1>3

(* A replayed row continues what is in the pipe, or what the fitter has.   *)
LEMMA ReplayKeeps ==
  ASSUME IInv, Replay
  PROVE  IInv'
<1>1. /\ pc["consumer"] = "replay" /\ cursor <= Len(ram)
      /\ UNCHANGED raw /\ ConsumerStays
  BY DEF Replay
<1>2. /\ cursor \in Nat /\ ram \in Seq(Frames) /\ proj \in Seq(ProjectionRow)
      /\ Len(proj) \in Nat /\ Len(proj) <= PipeCap /\ PipeCap \in Nat
      /\ pc \in [Child -> {"none", "run", "closed", "hung", "capture", "marker", "replay",
                           "read", "dead"}]
  BY ConstantsAssumption DEF IInv, Types
<1>3. CASE Replayed(cursor) /\ pc["profiles"] = "dead"
  BY <1>1, <1>3, ConsumerFailsKeeps DEF Replay
<1>4. CASE ~(Replayed(cursor) /\ pc["profiles"] = "dead")
  <2>. DEFINE row == RowOf(cursor)
  <2>1. /\ Replayed(cursor) => Len(proj) < PipeCap /\ proj' = Append(proj, row)
        /\ ~Replayed(cursor) => proj' = proj
        /\ cursor' = cursor + 1
        /\ UNCHANGED <<pc, rc, reader, ram, receipt>>
    BY <1>4 DEF Replay
  <2>2. receipt # "PASS" /\ Sealed
    BY <1>1 DEF IInv, SealInv
  <2>3. Replayed(cursor) =>
          /\ row \in ProjectionRow
          /\ cursor = 0 => row.kind = "header"
          /\ cursor # 0 => cursor \in DOMAIN ram /\ row.kind = ram[cursor].kind
                           /\ row.n = ram[cursor].n
    BY <1>1, RowTyped
  <2>. HIDE DEF row
  <2>4. Replayed(cursor) =>
          /\ proj' \in Seq(ProjectionRow) /\ proj' # <<>> /\ Len(proj') = Len(proj) + 1
          /\ DOMAIN proj' = 1..(Len(proj) + 1) /\ DOMAIN proj = 1..Len(proj)
          /\ proj'[Len(proj) + 1] = row
          /\ \A i \in DOMAIN proj : proj'[i] = proj[i]
    <3>1. SUFFICES ASSUME Replayed(cursor)
                   PROVE  /\ proj' \in Seq(ProjectionRow) /\ proj' # <<>>
                          /\ Len(proj') = Len(proj) + 1
                          /\ DOMAIN proj' = 1..(Len(proj) + 1) /\ DOMAIN proj = 1..Len(proj)
                          /\ proj'[Len(proj) + 1] = row
                          /\ \A i \in DOMAIN proj : proj'[i] = proj[i]
      OBVIOUS
    <3>2. row \in ProjectionRow /\ proj' = Append(proj, row)
      BY <2>1, <2>3, <3>1
    <3>. QED BY <1>2, <3>2, AppendOf
  <2>5. /\ pc' = [pc EXCEPT !["consumer"] = "replay"] /\ rc' = rc
    BY <1>1, <1>2, <2>1
  <2>6. proj' \in Seq(ProjectionRow) /\ Len(proj') <= PipeCap
    <3>1. CASE Replayed(cursor)
      BY <1>2, <2>1, <2>4, <3>1
    <3>2. CASE ~Replayed(cursor)
      BY <1>2, <2>1, <3>2
    <3>. QED BY <3>1, <3>2
  <2>7. ParentInv' /\ FitInv' /\ RowsInv'
    BY <1>1, <2>2, <2>5, ConsumerMoves
  <2>8. Types'
    <3>1. /\ raw' \in Seq(Frames) /\ Len(raw') <= PipeCap
          /\ reader' \in [hello : BOOLEAN, static : BOOLEAN, cur : Kernel \cup {0},
                          records : Nat, keys : SUBSET Kernel, kernels : Nat,
                          total : Nat, closed : BOOLEAN]
          /\ ram' \in Seq(Frames) /\ receipt' \in {"none", "PASS", "FAIL"}
      BY <1>1, <2>1 DEF IInv, Types
    <3>2. cursor' \in Nat
      BY <1>2, <2>1
    <3>. QED BY <1>1, <2>2, <2>5, <2>6, <3>1, <3>2, ConsumerMoves
  <2>9. SealInv'
    <3>1. UNCHANGED <<marker, finish>>
      BY <1>1 DEF ConsumerStays, boss, sampler
    <3>. QED BY <1>1, <2>1, <2>2, <3>1 DEF IInv, SealInv, Sealed
  <2>10. RamInv'
    BY <2>1 DEF IInv, RamInv, Begun, Continues, Expected
  <2>11. UNCHANGED <<analysis, ram>> /\ pc'["profiles"] = pc["profiles"]
    BY <1>1, <2>1 DEF ConsumerStays, fitter
  <2>12. cursor \in DOMAIN ram /\ ram[cursor].kind = "record" =>
           /\ proj # <<>> => Continues(proj[Len(proj)], ram[cursor])
           /\ proj = <<>> /\ pc["profiles"] = "read" => ram[cursor].n = analysis.rows
    BY DEF IInv, ChainInv
  <2>13. ASSUME NEW i \in DOMAIN proj', i > 1, proj'[i].kind = "record"
         PROVE  Continues(proj'[i - 1], proj'[i])
    <3>1. CASE Replayed(cursor) /\ i = Len(proj) + 1
      <4>1. row.kind = "record" /\ proj # <<>> /\ proj'[i - 1] = proj[Len(proj)]
        BY <1>2, <2>4, <2>13, <3>1
      <4>2. cursor \in DOMAIN ram /\ ram[cursor].kind = "record" /\ row.n = ram[cursor].n
        BY <2>3, <3>1, <4>1
      <4>3. Continues(proj[Len(proj)], ram[cursor])
        BY <2>12, <4>1, <4>2
      <4>. QED BY <2>4, <3>1, <4>1, <4>2, <4>3 DEF Continues
    <3>2. CASE ~(Replayed(cursor) /\ i = Len(proj) + 1)
      <4>1. i \in DOMAIN proj /\ i - 1 \in DOMAIN proj
            /\ proj'[i] = proj[i] /\ proj'[i - 1] = proj[i - 1]
        <5>1. CASE Replayed(cursor)
          BY <1>2, <2>4, <2>13, <3>2, <5>1
        <5>2. CASE ~Replayed(cursor)
          BY <1>2, <2>1, <2>13, <5>2
        <5>. QED BY <5>1, <5>2
      <4>. QED BY <2>13, <4>1 DEF IInv, ChainInv
    <3>. QED BY <3>1, <3>2
  <2>14. ASSUME pc'["profiles"] = "read", proj' # <<>>, Head(proj').kind = "record"
         PROVE  Head(proj').n = analysis'.rows
    <3>1. CASE proj = <<>>
      <4>1. Replayed(cursor) /\ Head(proj') = row
        BY <2>1, <2>4, <2>14, <3>1
      <4>2. cursor \in DOMAIN ram /\ ram[cursor].kind = "record" /\ row.n = ram[cursor].n
        BY <2>3, <2>14, <4>1
      <4>. QED BY <2>11, <2>12, <2>14, <3>1, <4>1, <4>2
    <3>2. CASE proj # <<>>
      <4>1. Head(proj') = Head(proj)
        <5>1. CASE Replayed(cursor)
          BY <1>2, <2>4, <3>2, <5>1
        <5>2. CASE ~Replayed(cursor)
          BY <2>1, <5>2
        <5>. QED BY <5>1, <5>2
      <4>. QED BY <2>11, <2>14, <3>2, <4>1 DEF IInv, ChainInv
    <3>. QED BY <3>1, <3>2
  <2>15. ASSUME cursor' \in DOMAIN ram', ram'[cursor'].kind = "record"
         PROVE  Replayed(cursor) /\ Continues(row, ram[cursor + 1])
    <3>1. cursor + 1 \in DOMAIN ram /\ ram[cursor + 1].kind = "record"
      BY <2>1, <2>15
    <3>2. PICK i \in DOMAIN ram : i = cursor + 1 /\ ram[i].kind = "record"
      BY <3>1
    <3>3. cursor # 0 /\ Continues(ram[cursor], ram[cursor + 1])
      <4>1. i > 1 /\ Continues(ram[i - 1], ram[i])
        BY <3>2 DEF IInv, RamInv
      <4>2. i - 1 = cursor
        BY <1>2, <3>2
      <4>3. Continues(ram[cursor], ram[i])
        BY <4>1, <4>2
      <4>. QED BY <1>2, <3>2, <4>1, <4>3
    <3>4. Replayed(cursor)
      BY <3>3 DEF Continues, Replayed
    <3>. QED BY <2>3, <3>3, <3>4 DEF Continues, Expected
  <2>16. ASSUME cursor' \in DOMAIN ram', ram'[cursor'].kind = "record"
         PROVE  proj' # <<>> /\ Continues(proj'[Len(proj')], ram'[cursor'])
    BY <2>1, <2>4, <2>15, <2>16
  <2>17. ChainInv'
    BY <2>13, <2>14, <2>16 DEF ChainInv
  <2>. QED BY <2>7, <2>8, <2>9, <2>10, <2>17 DEF IInv
<1>. QED BY <1>3, <1>4

(* The receipt is written over the whole replay of a sealed capture.       *)
LEMMA ReplayEndsKeeps ==
  ASSUME IInv, ReplayEnds
  PROVE  IInv'
<1>1. /\ pc["consumer"] = "replay" /\ receipt' = "PASS" /\ ram' = <<>>
      /\ pc' = [pc EXCEPT !["consumer"] = "dead"] /\ rc' = [rc EXCEPT !["consumer"] = "0"]
      /\ UNCHANGED <<reader, cursor, raw, proj>> /\ ConsumerStays
  BY DEF ReplayEnds, ExitWith, Goto
<1>2. receipt # "PASS" /\ Sealed
  BY <1>1 DEF IInv, SealInv
<1>3. ParentInv' /\ pc'["consumer"] = "dead" /\ pc'["profiles"] = pc["profiles"]
      /\ FitInv' /\ RowsInv'
  BY <1>1, <1>2, ConsumerMoves
<1>4. Types'
  <2>1. /\ raw' \in Seq(Frames) /\ Len(raw') <= PipeCap
        /\ reader' \in [hello : BOOLEAN, static : BOOLEAN, cur : Kernel \cup {0},
                        records : Nat, keys : SUBSET Kernel, kernels : Nat,
                        total : Nat, closed : BOOLEAN]
        /\ ram' \in Seq(Frames) /\ cursor' \in Nat /\ receipt' \in {"none", "PASS", "FAIL"}
        /\ proj' \in Seq(ProjectionRow) /\ Len(proj') <= PipeCap
    BY <1>1 DEF IInv, Types
  <2>. QED BY <1>1, <1>2, <2>1, ConsumerMoves
<1>5. SealInv'
  <2>1. UNCHANGED <<marker, finish>>
    BY <1>1 DEF ConsumerStays, boss, sampler
  <2>2. rc'["consumer"] = "0"
    BY <1>1 DEF IInv, Types, Child
  <2>. QED BY <1>1, <1>2, <1>3, <2>1, <2>2 DEF IInv, SealInv, Sealed
<1>6. RamInv'
  BY <1>1, <1>3 DEF RamInv
<1>7. ChainInv'
  <2>1. analysis' = analysis
    BY <1>1 DEF ConsumerStays, fitter
  <2>. QED BY <1>1, <1>3, <2>1 DEF IInv, ChainInv, Continues, Expected
<1>. QED BY <1>3, <1>4, <1>5, <1>6, <1>7 DEF IInv

-----------------------------------------------------------------------------
(* The fitter.                                                             *)

Analysis == [header : BOOLEAN, cur : Kernel \cup {0}, records : Seq(Nat \X Nat),
             retained : Nat, error : BOOLEAN, results : Seq(Kernel), rows : Nat]

(* What every step of the fitter leaves alone.                             *)
LEMMA FitterMoves ==
  ASSUME IInv, NEW l \in {"read", "dead"},
         pc["profiles"] = "read", pc' = [pc EXCEPT !["profiles"] = l],
         IF l = "dead" THEN \E code \in {"0", "1"} : rc' = [rc EXCEPT !["profiles"] = code]
                       ELSE rc' = rc,
         FitterStays, proj = <<>> => proj' = <<>>,
         proj' \in Seq(ProjectionRow), Len(proj') <= PipeCap
  PROVE  /\ ParentInv' /\ SealInv' /\ RamInv'
         /\ pc'["profiles"] = l /\ pc'["consumer"] = pc["consumer"]
         /\ analysis' \in Analysis /\ rows' \in Seq(ProfileRow)
            /\ profiles' \in {"none", "PASS", "FAIL"}
            => Types'
<1>. "host" \in Child /\ "consumer" \in Child /\ "profiles" \in Child
  BY DEF Child
<1>1. /\ pc \in [Child -> {"none", "run", "closed", "hung", "capture", "marker", "replay",
                           "read", "dead"}]
      /\ rc \in [Child -> {"none", "0", "1", "signal"}]
  BY DEF IInv, Types
<1>2. /\ pc'["profiles"] = l /\ \A d \in Child \ {"profiles"} : pc'[d] = pc[d] /\ rc'[d] = rc[d]
      /\ pc' \in [Child -> {"none", "run", "closed", "hung", "capture", "marker", "replay",
                            "read", "dead"}]
      /\ rc' \in [Child -> {"none", "0", "1", "signal"}]
  BY <1>1
<1>3. rc["profiles"] = "none"
  BY DEF IInv, ParentInv
<1>4. rc'["profiles"] = "none" <=> pc'["profiles"] # "dead"
  BY <1>1, <1>2, <1>3
<1>5. UNCHANGED boss
  BY DEF FitterStays
<1>6. ParentInv'
  BY <1>2, <1>4, <1>5, OneMoves
<1>7. pc'["consumer"] = pc["consumer"] /\ rc'["consumer"] = rc["consumer"]
  BY <1>2
<1>8. SealInv' /\ RamInv'
  <2>1. UNCHANGED <<marker, finish, reader, ram, cursor, receipt>>
    BY DEF FitterStays, boss, sampler, consumer
  <2>2. SealInv'
    BY <1>7, <2>1 DEF IInv, SealInv, Sealed
  <2>3. RamInv'
    BY <1>7, <2>1 DEF IInv, RamInv, Begun, Continues, Expected
  <2>. QED BY <2>2, <2>3
<1>9. analysis' \in Analysis /\ rows' \in Seq(ProfileRow)
      /\ profiles' \in {"none", "PASS", "FAIL"} => Types'
  <2>1. UNCHANGED <<parent, late, marker, result, sig, script, faults, finish, raw, reader, ram,
                    cursor, receipt, quality>>
    BY DEF FitterStays, boss, sampler, consumer
  <2>2. pc'["host"] = pc["host"] /\ pc'["consumer"] = pc["consumer"]
        /\ pc'["profiles"] \in {"read", "dead"}
    BY <1>2
  <2>. QED BY <1>2, <2>1, <2>2 DEF IInv, Types, Analysis
<1>. QED BY <1>2, <1>6, <1>7, <1>8, <1>9

(* What stays in the pipe behind the row that was taken.                   *)
LEMMA PipeBehind ==
  ASSUME IInv, proj # <<>>, proj' = Tail(proj), UNCHANGED <<ram, cursor>>,
         pc'["profiles"] = "read" =>
            \A g : Continues(Head(proj), g) => g.n = analysis'.rows
  PROVE  ChainInv' /\ proj' \in Seq(ProjectionRow) /\ Len(proj') <= PipeCap
<1>1. /\ proj \in Seq(ProjectionRow) /\ Len(proj) \in Nat /\ Len(proj) <= PipeCap
      /\ PipeCap \in Nat /\ Len(proj) > 0 /\ DOMAIN proj = 1..Len(proj)
  BY ConstantsAssumption DEF IInv, Types
<1>2. /\ Head(proj) = proj[1] /\ proj' \in Seq(ProjectionRow) /\ Len(proj') = Len(proj) - 1
      /\ DOMAIN proj' = 1..(Len(proj) - 1)
      /\ \A i \in DOMAIN proj' : i + 1 \in DOMAIN proj /\ proj'[i] = proj[i + 1]
  BY <1>1, TailOf
<1>3. \A i \in DOMAIN proj : i > 1 /\ proj[i].kind = "record" => Continues(proj[i - 1], proj[i])
  BY DEF IInv, ChainInv
<1>4. ASSUME NEW i \in DOMAIN proj', i > 1, proj'[i].kind = "record"
      PROVE  Continues(proj'[i - 1], proj'[i])
  <2>1. PICK j \in DOMAIN proj : j = i + 1 /\ proj'[i] = proj[j]
    BY <1>2
  <2>2. j > 1 /\ Continues(proj[j - 1], proj[j])
    BY <1>1, <1>2, <1>3, <1>4, <2>1
  <2>3. i - 1 \in DOMAIN proj' /\ j - 1 = (i - 1) + 1
    BY <1>1, <1>2, <1>4, <2>1
  <2>4. proj'[i - 1] = proj[j - 1]
    BY <1>2, <2>3
  <2>. QED BY <2>1, <2>2, <2>4
<1>5. ASSUME pc'["profiles"] = "read", proj' # <<>>, Head(proj').kind = "record"
      PROVE  Head(proj').n = analysis'.rows
  <2>1. Len(proj) > 1 /\ Head(proj') = proj[2] /\ 2 \in DOMAIN proj
    BY <1>1, <1>2, <1>5
  <2>2. Continues(proj[1], proj[2])
    BY <1>3, <1>5, <2>1
  <2>. QED BY <1>2, <1>5, <2>1, <2>2
<1>6. ASSUME cursor' \in DOMAIN ram', ram'[cursor'].kind = "record"
      PROVE  /\ proj' # <<>> => Continues(proj'[Len(proj')], ram'[cursor'])
             /\ proj' = <<>> /\ pc'["profiles"] = "read" => ram'[cursor'].n = analysis'.rows
  <2>1. Continues(proj[Len(proj)], ram[cursor])
    BY <1>6 DEF IInv, ChainInv
  <2>2. ASSUME proj' # <<>>
        PROVE  proj'[Len(proj')] = proj[Len(proj)]
    BY <1>1, <1>2, <2>2
  <2>3. ASSUME proj' = <<>>
        PROVE  proj[Len(proj)] = Head(proj)
    <3>1. Len(proj') = 0
      BY <1>2, <2>3
    <3>2. Len(proj) = 1
      BY <1>1, <1>2, <3>1
    <3>. QED BY <1>2, <3>2
  <2>. QED BY <2>1, <2>2, <2>3
<1>7. ChainInv'
  BY <1>4, <1>5, <1>6 DEF ChainInv
<1>. QED BY <1>1, <1>2, <1>7

(* A failed fitter leaves no row that an import would take for a profile.  *)
LEMMA FitterFailsKeeps ==
  ASSUME IInv, pc["profiles"] = "read", FitterFails, FitterStays,
         proj' = proj \/ (proj # <<>> /\ proj' = Tail(proj))
  PROVE  IInv'
<1>1. /\ rows' = [i \in DOMAIN rows |-> Demoted(rows[i])] /\ profiles' = "FAIL"
      /\ pc' = [pc EXCEPT !["profiles"] = "dead"] /\ rc' = [rc EXCEPT !["profiles"] = "1"]
      /\ analysis' = analysis
  BY DEF FitterFails, ExitWith, Goto
<1>2. pc'["profiles"] = "dead" /\ UNCHANGED <<ram, cursor, reader, quality>>
  BY <1>1 DEF IInv, Types, Child, FitterStays, consumer
<1>3. ChainInv' /\ proj' \in Seq(ProjectionRow) /\ Len(proj') <= PipeCap
  <2>1. CASE proj' = proj
    BY <1>1, <1>2, <2>1 DEF IInv, Types, ChainInv, Continues, Expected
  <2>2. CASE proj # <<>> /\ proj' = Tail(proj)
    BY <1>2, <2>2, PipeBehind
  <2>. QED BY <2>1, <2>2
<1>4. rows' \in Seq(ProfileRow) /\ DOMAIN rows' = DOMAIN rows
      /\ \A i \in DOMAIN rows' : rows'[i].status \notin {"PASS", "PROVISIONAL"}
  <2>1. rows \in Seq(ProfileRow)
    BY DEF IInv, Types
  <2>2. ASSUME NEW r \in ProfileRow
        PROVE  Demoted(r) \in ProfileRow /\ Demoted(r).status \notin {"PASS", "PROVISIONAL"}
    BY DEF Demoted, ProfileRow
  <2>. QED BY <1>1, <2>1, <2>2
<1>5. /\ ParentInv' /\ SealInv' /\ RamInv' /\ Types'
  <2>1. analysis' \in Analysis
    BY <1>1 DEF IInv, Types, Analysis
  <2>2. proj = <<>> => proj' = <<>>
    OBVIOUS
  <2>. QED BY <1>1, <1>3, <1>4, <2>1, <2>2, FitterMoves
<1>6. FitInv'
  BY <1>1, <1>2 DEF IInv, FitInv, Numbered, Distinct
<1>7. RowsInv'
  BY <1>1, <1>4 DEF RowsInv
<1>. QED BY <1>3, <1>5, <1>6, <1>7 DEF IInv

(* A row that is not a launch's end: what the fitter has read so far.      *)
LEMMA OpenRow ==
  ASSUME Types, FitInv, NEW row \in ProjectionRow, row.kind \in {"header", "begin", "record"},
         RowAdmitted(analysis, row),
         row.kind = "record" => row.n = analysis.rows,
         analysis' = Analyzed(analysis, row), UNCHANGED <<profiles, quality, receipt>>,
         pc["profiles"] = "read", pc'["profiles"] = "read"
  PROVE  /\ analysis' \in Analysis /\ FitInv' /\ analysis'.results = analysis.results
         /\ \A g : Continues(row, g) => g.n = analysis'.rows
<1>1. /\ analysis \in Analysis /\ analysis.records \in Seq(Nat \X Nat)
      /\ analysis.results \in Seq(Kernel) /\ analysis.rows \in Nat /\ analysis.retained \in Nat
      /\ analysis.cur \in Kernel \cup {0} /\ analysis.error \in BOOLEAN
  BY DEF Types, Analysis
<1>2. /\ row.k \in Nat /\ row.n \in Nat /\ row.id \in Nat \X Nat /\ row.id[2] = row.n
      /\ row.kind = "begin" => row.k \in Kernel
  BY DEF ProjectionRow
<1>3. profiles = "none"
  BY DEF FitInv, Types
<1>4. CASE row.kind = "header"
  <2>1. analysis' = [analysis EXCEPT !.header = TRUE]
    BY <1>4 DEF Analyzed
  <2>2. analysis' \in Analysis /\ UNCHANGED <<analysis.cur, analysis.records, analysis.retained,
                                              analysis.error, analysis.results, analysis.rows>>
    BY <1>1, <2>1 DEF Analysis
  <2>3. FitInv'
    BY <1>3, <2>2 DEF FitInv, Numbered, Distinct
  <2>. QED BY <1>4, <2>2, <2>3 DEF Continues
<1>5. CASE row.kind = "begin"
  <2>1. analysis' = [analysis EXCEPT !.cur = row.k, !.records = <<>>, !.error = FALSE, !.rows = 0]
    BY <1>5 DEF Analyzed
  <2>2. analysis.cur = 0 /\ row.k \in Kernel
        /\ \A i \in DOMAIN analysis.results : analysis.results[i] # row.k
    BY <1>2, <1>5 DEF RowAdmitted
  <2>3. analysis' \in Analysis
    <3>1. row.k \in Kernel \cup {0} /\ <<>> \in Seq(Nat \X Nat) /\ FALSE \in BOOLEAN /\ 0 \in Nat
      BY <2>2
    <3>2. DOMAIN analysis' = DOMAIN analysis
      BY <2>1
    <3>. QED BY <1>1, <2>1, <3>1 DEF Analysis
  <2>4. /\ analysis'.cur = row.k /\ analysis'.records = <<>> /\ analysis'.error = FALSE
        /\ analysis'.rows = 0 /\ analysis'.retained = analysis.retained
        /\ analysis'.results = analysis.results
    BY <1>1, <2>1 DEF Analysis
  <2>5. analysis.retained = 0
    BY <2>2 DEF FitInv
  <2>6. Numbered(<<>>)
    BY DEF Numbered
  <2>7. FitInv'
    BY <1>3, <2>2, <2>4, <2>5, <2>6 DEF FitInv, Distinct
  <2>. QED BY <1>5, <2>3, <2>4, <2>7 DEF Continues, Expected
<1>6. CASE row.kind = "record"
  <2>. DEFINE held == Held(analysis, row)
              e == analysis.error \/ Unsupported(row)
  <2>1. /\ analysis.cur # 0 /\ row.k = analysis.cur /\ row.n = analysis.rows
    BY <1>6 DEF RowAdmitted
  <2>2. held \in Seq(Nat \X Nat)
    BY <1>1, <1>2 DEF Held
  <2>3. e => held = <<>> /\ quality[analysis.cur] = "unsupported"
    BY <2>1 DEF FitInv, Held, Unsupported
  <2>4. ~e => Len(held) = analysis.rows + 1 /\ Numbered(held)
    <3>1. SUFFICES ASSUME ~e
                   PROVE  Len(held) = analysis.rows + 1 /\ Numbered(held)
      OBVIOUS
    <3>2. held = Append(analysis.records, row.id)
      BY <3>1 DEF Held
    <3>3. Len(analysis.records) = analysis.rows /\ Numbered(analysis.records)
      BY <2>1, <3>1 DEF FitInv
    <3>4. Len(held) = analysis.rows + 1
      BY <1>1, <3>2, <3>3
    <3>5. ASSUME NEW i \in DOMAIN held
          PROVE  held[i][2] = i - 1
      <4>1. CASE i = analysis.rows + 1
        BY <1>1, <1>2, <2>1, <3>2, <3>3, <4>1
      <4>2. CASE i # analysis.rows + 1
        <5>1. i \in DOMAIN analysis.records /\ held[i] = analysis.records[i]
          BY <1>1, <1>2, <3>2, <3>3, <4>2
        <5>. QED BY <3>3, <5>1 DEF Numbered
      <4>. QED BY <4>1, <4>2
    <3>. QED BY <3>4, <3>5 DEF Numbered
  <2>5. analysis.retained + Len(held) - Len(analysis.records) = Len(held)
    BY <1>1, <2>2 DEF FitInv
  <2>6. Retained(analysis, row) = Len(held)
    BY <2>5 DEF Retained
  <2>. HIDE DEF held
  <2>7. analysis' = [analysis EXCEPT !.records = held, !.rows = analysis.rows + 1,
                                     !.error = e, !.retained = Len(held)]
    BY <1>6, <2>6 DEF Analyzed, held
  <2>8. e \in BOOLEAN /\ Len(held) \in Nat /\ analysis.rows + 1 \in Nat
    BY <1>1, <2>2 DEF Unsupported
  <2>. HIDE DEF e
  <2>9. /\ analysis'.cur = analysis.cur /\ analysis'.records = held /\ analysis'.error = e
        /\ analysis'.rows = analysis.rows + 1 /\ analysis'.retained = Len(held)
        /\ analysis'.results = analysis.results
    BY <1>1, <2>7 DEF Analysis
  <2>10. analysis' \in Analysis
    BY <1>1, <2>2, <2>7, <2>8 DEF Analysis
  <2>11. FitInv'
    <3>1. analysis'.cur = 0 \/ analysis'.error => analysis'.records = <<>>
      BY <2>1, <2>3, <2>9
    <3>2. /\ analysis'.error => quality'[analysis'.cur] = "unsupported"
          /\ ~analysis'.error => Len(analysis'.records) = analysis'.rows
                                 /\ Numbered(analysis'.records)
      BY <2>3, <2>4, <2>9
    <3>3. \A i \in DOMAIN analysis'.results : analysis'.results[i] # analysis'.cur
      BY <2>1, <2>9 DEF FitInv
    <3>4. Distinct(analysis'.results)
      BY <2>9 DEF FitInv
    <3>. QED BY <1>3, <2>9, <3>1, <3>2, <3>3, <3>4 DEF FitInv
  <2>12. \A g : Continues(row, g) => g.n = analysis'.rows
    BY <1>6, <2>1, <2>9 DEF Continues, Expected
  <2>. QED BY <2>9, <2>10, <2>11, <2>12
<1>. QED BY <1>4, <1>5, <1>6

(* A launch's end: it is fitted, or has its error.                         *)
LEMMA EndRow ==
  ASSUME IInv, NEW row \in ProjectionRow, row.kind = "end", RowAdmitted(analysis, row),
         analysis' = Analyzed(analysis, row),
         rows' = IF ~analysis.error THEN Append(rows, FitRow(analysis, row.k)) ELSE rows,
         UNCHANGED <<profiles, quality, receipt>>,
         pc["profiles"] = "read", pc'["profiles"] = "read"
  PROVE  /\ analysis' \in Analysis /\ rows' \in Seq(ProfileRow) /\ FitInv' /\ RowsInv'
<1>. DEFINE k == analysis.cur
<1>1. /\ analysis \in Analysis /\ analysis.records \in Seq(Nat \X Nat)
      /\ analysis.results \in Seq(Kernel) /\ analysis.rows \in Nat /\ analysis.retained \in Nat
      /\ analysis.cur \in Kernel \cup {0} /\ analysis.error \in BOOLEAN
      /\ rows \in Seq(ProfileRow)
  BY DEF IInv, Types, Analysis
<1>2. /\ row.k = k /\ k \in Kernel /\ analysis.rows = NRecords
      /\ NRecords \in Nat
  <2>1. k # 0 /\ row.k = k /\ row.n = analysis.rows /\ row.n = NRecords
    BY DEF RowAdmitted
  <2>. QED BY <1>1, <2>1, ConstantsAssumption
<1>3. profiles = "none"
  BY DEF IInv, FitInv, Types
<1>4. k # 0
  BY <1>2 DEF Kernel
<1>5. /\ \A i \in DOMAIN analysis.results : analysis.results[i] # k
      /\ Distinct(analysis.results)
      /\ analysis.error => quality[k] = "unsupported"
      /\ ~analysis.error => Len(analysis.records) = NRecords /\ Numbered(analysis.records)
      /\ analysis.retained = Len(analysis.records)
  BY <1>2, <1>4 DEF IInv, FitInv
<1>6. /\ \A i, j \in DOMAIN rows : rows[i].k = rows[j].k => i = j
      /\ \A i \in DOMAIN rows :
            /\ HasEnded(rows[i].k)
            /\ rows[i].status = IF quality[rows[i].k] = "fits" THEN "PROVISIONAL"
                                                               ELSE "REJECTED"
            /\ Len(rows[i].data) = NRecords /\ Numbered(rows[i].data)
      /\ \A q \in Kernel : HasEnded(q) => RowAt(q) \/ quality[q] = "unsupported"
  BY <1>3 DEF IInv, RowsInv
<1>7. analysis' = [analysis EXCEPT !.cur = 0, !.records = <<>>,
                                   !.retained = analysis.retained - Len(analysis.records),
                                   !.results = Append(analysis.results, k)]
  BY <1>2 DEF Analyzed
<1>8. /\ analysis'.cur = 0 /\ analysis'.records = <<>> /\ analysis'.error = analysis.error
      /\ analysis'.retained = 0 /\ analysis'.results = Append(analysis.results, k)
      /\ analysis'.rows = analysis.rows
  <2>1. analysis.retained - Len(analysis.records) = 0
    BY <1>1, <1>5
  <2>. QED BY <1>1, <1>7, <2>1 DEF Analysis
<1>9. /\ Append(analysis.results, k) \in Seq(Kernel)
      /\ DOMAIN Append(analysis.results, k) = 1..(Len(analysis.results) + 1)
      /\ DOMAIN analysis.results = 1..Len(analysis.results)
      /\ Append(analysis.results, k)[Len(analysis.results) + 1] = k
      /\ \A i \in DOMAIN analysis.results :
            Append(analysis.results, k)[i] = analysis.results[i]
      /\ Len(analysis.results) \in Nat
  BY <1>1, <1>2, AppendOf
<1>10. analysis' \in Analysis
  <2>1. analysis' \in [header : BOOLEAN, cur : Kernel \cup {0}, records : Seq(Nat \X Nat),
                       retained : Nat, error : BOOLEAN, results : Seq(Kernel), rows : Nat]
    <3>1. analysis.retained - Len(analysis.records) = 0
      BY <1>1, <1>5
    <3>2. 0 \in Kernel \cup {0} /\ <<>> \in Seq(Nat \X Nat) /\ 0 \in Nat
      OBVIOUS
    <3>. QED BY <1>1, <1>7, <1>9, <3>1, <3>2 DEF Analysis
  <2>. QED BY <2>1 DEF Analysis
<1>11. Distinct(analysis'.results)
  <2>1. ASSUME NEW i \in DOMAIN analysis'.results, NEW j \in DOMAIN analysis'.results,
               analysis'.results[i] = analysis'.results[j]
        PROVE  i = j
    <3>1. CASE i \in DOMAIN analysis.results /\ j \in DOMAIN analysis.results
      BY <1>5, <1>8, <1>9, <2>1, <3>1 DEF Distinct
    <3>2. CASE i \notin DOMAIN analysis.results
      <4>1. i = Len(analysis.results) + 1 /\ analysis'.results[i] = k
        BY <1>8, <1>9, <3>2
      <4>2. j \notin DOMAIN analysis.results
        BY <1>5, <1>8, <1>9, <2>1, <4>1
      <4>. QED BY <1>8, <1>9, <4>1, <4>2
    <3>3. CASE j \notin DOMAIN analysis.results
      <4>1. j = Len(analysis.results) + 1 /\ analysis'.results[j] = k
        BY <1>8, <1>9, <3>3
      <4>2. i \notin DOMAIN analysis.results
        BY <1>5, <1>8, <1>9, <2>1, <4>1
      <4>. QED BY <1>8, <1>9, <4>1, <4>2
    <3>. QED BY <3>1, <3>2, <3>3
  <2>. QED BY <2>1 DEF Distinct
<1>12. FitInv'
  BY <1>3, <1>8, <1>11 DEF FitInv
<1>. HIDE DEF k
<1>13. ASSUME NEW q
       PROVE  (\E i \in DOMAIN analysis'.results : analysis'.results[i] = q)
                <=> HasEnded(q) \/ q = k
  <2>1. ASSUME HasEnded(q)
        PROVE  \E i \in DOMAIN analysis'.results : analysis'.results[i] = q
    <3>1. PICK i \in DOMAIN analysis.results : analysis.results[i] = q
      BY <2>1 DEF HasEnded
    <3>2. i \in DOMAIN analysis'.results /\ analysis'.results[i] = q
      BY <1>8, <1>9, <3>1
    <3>. QED BY <3>2
  <2>2. \E i \in DOMAIN analysis'.results : analysis'.results[i] = k
    <3>1. Len(analysis.results) + 1 \in DOMAIN analysis'.results
      BY <1>8, <1>9
    <3>. QED BY <1>8, <1>9, <3>1
  <2>3. ASSUME NEW i \in DOMAIN analysis'.results, analysis'.results[i] = q
        PROVE  HasEnded(q) \/ q = k
    <3>1. CASE i \in DOMAIN analysis.results
      BY <1>8, <1>9, <2>3, <3>1 DEF HasEnded
    <3>2. CASE i \notin DOMAIN analysis.results
      <4>1. i = Len(analysis.results) + 1
        BY <1>8, <1>9, <3>2
      <4>. QED BY <1>8, <1>9, <2>3, <4>1
    <3>. QED BY <3>1, <3>2
  <2>. QED BY <2>1, <2>2, <2>3
<1>14. ~HasEnded(k)
  BY <1>5 DEF HasEnded
<1>15. CASE analysis.error
  <2>1. rows' = rows
    BY <1>15
  <2>2. ASSUME NEW i \in DOMAIN rows
        PROVE  \E j \in DOMAIN analysis'.results : analysis'.results[j] = rows[i].k
    <3>1. HasEnded(rows[i].k)
      BY <1>6
    <3>. QED BY <1>13, <3>1
  <2>3. ASSUME NEW q \in Kernel,
               \E j \in DOMAIN analysis'.results : analysis'.results[j] = q
        PROVE  RowAt(q) \/ quality[q] = "unsupported"
    BY <1>5, <1>6, <1>13, <1>15, <2>3
  <2>4. RowsInv'
    BY <1>3, <1>6, <2>1, <2>2, <2>3 DEF RowsInv, HasEnded, RowAt
  <2>. QED BY <1>1, <1>10, <1>12, <2>1, <2>4
<1>16. CASE ~analysis.error
  <2>. DEFINE r == FitRow(analysis, k)
  <2>1. /\ rows' = Append(rows, r) /\ r.k = k /\ r \in ProfileRow /\ r.data = analysis.records
        /\ r.status = IF quality[r.k] = "fits" THEN "PROVISIONAL" ELSE "REJECTED"
    BY <1>1, <1>2, <1>16 DEF FitRow, ProfileRow
  <2>. HIDE DEF r
  <2>2. /\ rows' \in Seq(ProfileRow) /\ DOMAIN rows' = 1..(Len(rows) + 1)
        /\ DOMAIN rows = 1..Len(rows) /\ rows'[Len(rows) + 1] = r
        /\ \A i \in DOMAIN rows : rows'[i] = rows[i]
        /\ Len(rows) \in Nat
    BY <1>1, <2>1, AppendOf
  <2>3. ASSUME NEW i \in DOMAIN rows'
        PROVE  \/ i \in DOMAIN rows /\ rows'[i] = rows[i]
               \/ i = Len(rows) + 1 /\ rows'[i] = r
    BY <2>2
  <2>4. \A i \in DOMAIN rows : rows[i].k # k /\ rows[i].k \in Kernel
    <3>1. ASSUME NEW i \in DOMAIN rows
          PROVE  rows[i].k # k /\ rows[i].k \in Kernel
      <4>1. HasEnded(rows[i].k)
        BY <1>6
      <4>2. rows[i].k \in Kernel
        <5>1. rows[i] \in ProfileRow
          BY <1>1
        <5>. QED BY <5>1 DEF ProfileRow
      <4>. QED BY <1>14, <4>1, <4>2
    <3>. QED BY <3>1
  <2>5. ASSUME NEW i \in DOMAIN rows', NEW j \in DOMAIN rows', rows'[i].k = rows'[j].k
        PROVE  i = j
    <3>1. CASE i \in DOMAIN rows /\ rows'[i] = rows[i]
      <4>1. j \in DOMAIN rows /\ rows'[j] = rows[j]
        BY <2>1, <2>3, <2>4, <2>5, <3>1
      <4>. QED BY <1>6, <2>5, <3>1, <4>1
    <3>2. CASE i = Len(rows) + 1 /\ rows'[i] = r
      BY <2>1, <2>3, <2>4, <2>5, <3>2
    <3>. QED BY <2>3, <3>1, <3>2
  <2>6. ASSUME NEW i \in DOMAIN rows'
        PROVE  /\ \E j \in DOMAIN analysis'.results : analysis'.results[j] = rows'[i].k
               /\ rows'[i].status = IF quality[rows'[i].k] = "fits" THEN "PROVISIONAL"
                                                                   ELSE "REJECTED"
               /\ Len(rows'[i].data) = NRecords /\ Numbered(rows'[i].data)
    <3>1. CASE i \in DOMAIN rows /\ rows'[i] = rows[i]
      <4>1. HasEnded(rows'[i].k)
        BY <1>6, <3>1
      <4>. QED BY <1>6, <1>13, <3>1, <4>1
    <3>2. CASE i = Len(rows) + 1 /\ rows'[i] = r
      <4>1. rows'[i].k = k
        BY <2>1, <3>2
      <4>2. \E j \in DOMAIN analysis'.results : analysis'.results[j] = rows'[i].k
        BY <1>13, <4>1
      <4>. QED BY <1>5, <1>16, <2>1, <3>2, <4>2
    <3>. QED BY <2>3, <3>1, <3>2
  <2>7. ASSUME NEW q \in Kernel,
               \E j \in DOMAIN analysis'.results : analysis'.results[j] = q
        PROVE  (\E j \in DOMAIN rows' : rows'[j].k = q) \/ quality[q] = "unsupported"
    <3>1. CASE q = k
      <4>1. Len(rows) + 1 \in DOMAIN rows' /\ rows'[Len(rows) + 1].k = k
        BY <2>1, <2>2
      <4>. QED BY <3>1, <4>1
    <3>2. CASE q # k
      <4>1. HasEnded(q)
        BY <1>13, <2>7, <3>2
      <4>2. RowAt(q) \/ quality[q] = "unsupported"
        BY <1>6, <4>1
      <4>3. RowAt(q) => \E j \in DOMAIN rows' : rows'[j].k = q
        BY <2>2 DEF RowAt
      <4>. QED BY <4>2, <4>3
    <3>. QED BY <3>1, <3>2
  <2>8. RowsInv'
    BY <1>3, <2>5, <2>6, <2>7 DEF RowsInv, HasEnded, RowAt
  <2>. QED BY <1>10, <1>12, <2>2, <2>8
<1>. QED BY <1>15, <1>16

LEMMA ReadRowKeeps ==
  ASSUME IInv, ReadRow
  PROVE  IInv'
<1>. DEFINE row == Head(proj)
            admitted == RowAdmitted(analysis, row)
                          /\ (row.kind = "end" => Analyzed(analysis, row).retained = 0)
<1>1. /\ pc["profiles"] = "read" /\ proj # <<>> /\ proj' = Tail(proj) /\ FitterStays
  BY DEF ReadRow, RowWaiting
<1>2. CASE ~admitted
  <2>1. FitterFails
    BY <1>2 DEF ReadRow
  <2>. QED BY <1>1, <2>1, FitterFailsKeeps
<1>3. CASE admitted
  <2>1. /\ analysis' = Analyzed(analysis, row) /\ UNCHANGED <<pc, rc, profiles>>
        /\ rows' = IF row.kind = "end" /\ ~analysis.error
                   THEN Append(rows, FitRow(analysis, row.k)) ELSE rows
    BY <1>3 DEF ReadRow
  <2>2. RowAdmitted(analysis, row)
    BY <1>3
  <2>3. row \in ProjectionRow
    BY <1>1, TailOf DEF IInv, Types
  <2>4. row.kind = "record" => row.n = analysis.rows
    BY <1>1 DEF IInv, ChainInv
  <2>. HIDE DEF row, admitted
  <2>5. /\ UNCHANGED <<ram, cursor, quality, receipt>> /\ pc'["profiles"] = "read"
        /\ pc' = [pc EXCEPT !["profiles"] = "read"] /\ rc' = rc
    BY <1>1, <2>1 DEF IInv, Types, FitterStays, consumer
  <2>6. row.kind \in {"header", "begin", "record", "end"}
    BY <2>3 DEF ProjectionRow
  <2>7. CASE row.kind # "end"
    <3>1. rows' = rows /\ row.kind \in {"header", "begin", "record"}
      BY <2>1, <2>6, <2>7
    <3>2. /\ analysis' \in Analysis /\ FitInv' /\ analysis'.results = analysis.results
          /\ \A g : Continues(row, g) => g.n = analysis'.rows
      BY <1>1, <2>1, <2>2, <2>3, <2>4, <2>5, <3>1, OpenRow DEF IInv
    <3>3. RowsInv'
      BY <2>1, <2>5, <3>1, <3>2 DEF IInv, RowsInv, HasEnded, RowAt, Numbered
    <3>4. ChainInv' /\ proj' \in Seq(ProjectionRow) /\ Len(proj') <= PipeCap
      BY <1>1, <2>5, <3>2, PipeBehind DEF row
    <3>5. ParentInv' /\ SealInv' /\ RamInv' /\ Types'
      <4>1. rows' \in Seq(ProfileRow) /\ profiles' \in {"none", "PASS", "FAIL"}
        BY <2>1, <3>1 DEF IInv, Types
      <4>. QED BY <1>1, <2>5, <3>2, <3>4, <4>1, FitterMoves
    <3>. QED BY <3>2, <3>3, <3>4, <3>5 DEF IInv
  <2>8. CASE row.kind = "end"
    <3>1. /\ analysis' \in Analysis /\ rows' \in Seq(ProfileRow) /\ FitInv' /\ RowsInv'
      BY <1>1, <2>1, <2>2, <2>3, <2>5, <2>8, EndRow
    <3>2. \A g : Continues(row, g) => g.n = analysis'.rows
      BY <2>8 DEF Continues
    <3>3. ChainInv' /\ proj' \in Seq(ProjectionRow) /\ Len(proj') <= PipeCap
      BY <1>1, <2>5, <3>2, PipeBehind DEF row
    <3>4. ParentInv' /\ SealInv' /\ RamInv' /\ Types'
      <4>1. profiles' \in {"none", "PASS", "FAIL"}
        BY <2>1 DEF IInv, Types
      <4>. QED BY <1>1, <2>5, <3>1, <3>3, <4>1, FitterMoves
    <3>. QED BY <3>1, <3>3, <3>4 DEF IInv
  <2>. QED BY <2>7, <2>8
<1>. QED BY <1>2, <1>3

(* The rows the commit adds: one for each launch without one.              *)
LEMMA PackingRows ==
  ASSUME IInv, profiles = "none"
  PROVE  /\ BeforePacking \in Seq(ProfileRow)
         /\ \A i, j \in DOMAIN BeforePacking :
               BeforePacking[i].k = BeforePacking[j].k => i = j
         /\ \A j \in DOMAIN BeforePacking :
               /\ ~RowAt(BeforePacking[j].k)
               /\ BeforePacking[j].status = "REJECTED_BEFORE"
               /\ quality[BeforePacking[j].k] # "fits"
         /\ \A k \in Kernel : HasEnded(k) /\ ~RowAt(k) =>
               \E j \in DOMAIN BeforePacking : BeforePacking[j].k = k
<1>. DEFINE missing == {i \in DOMAIN analysis.results :
                          \A j \in DOMAIN rows : rows[j].k # analysis.results[i]}
            place == InOrder(missing)
            added == [j \in DOMAIN place |-> [k |-> analysis.results[place[j]], data |-> <<>>,
                                              status |-> "REJECTED_BEFORE"]]
<1>1. BeforePacking = added
  BY DEF BeforePacking
<1>2. analysis.results \in Seq(Kernel) /\ Len(analysis.results) \in Nat
      /\ DOMAIN analysis.results = 1..Len(analysis.results) /\ Distinct(analysis.results)
  BY DEF IInv, Types, FitInv
<1>3. missing \in SUBSET (1..Len(analysis.results))
  BY <1>2
<1>4. /\ place \in Seq(missing) /\ Distinct(place)
      /\ \A x \in missing : \E j \in DOMAIN place : place[j] = x
  <2>. HIDE DEF missing
  <2>. QED BY <1>2, <1>3, InOrderIs
<1>. HIDE DEF place
<1>5. ASSUME NEW j \in DOMAIN place
      PROVE  /\ place[j] \in missing /\ added[j].k = analysis.results[place[j]]
             /\ added[j].k \in Kernel /\ added[j] \in ProfileRow
             /\ added[j].status = "REJECTED_BEFORE"
  <2>1. place[j] \in missing
    BY <1>4
  <2>2. analysis.results[place[j]] \in Kernel
    BY <1>2, <2>1
  <2>. QED BY <2>1, <2>2 DEF ProfileRow
<1>6. DOMAIN added = DOMAIN place
  OBVIOUS
<1>7. added \in Seq(ProfileRow)
  <2>1. Len(place) \in Nat /\ DOMAIN place = 1..Len(place)
    BY <1>4
  <2>2. added \in [1..Len(place) -> ProfileRow]
    BY <1>5, <2>1
  <2>. QED BY <2>1, <2>2
<1>. HIDE DEF added
<1>8. ASSUME NEW i \in DOMAIN place, NEW j \in DOMAIN place, added[i].k = added[j].k
      PROVE  i = j
  <2>1. place[i] \in DOMAIN analysis.results /\ place[j] \in DOMAIN analysis.results
        /\ analysis.results[place[i]] = analysis.results[place[j]]
    BY <1>5, <1>8
  <2>2. place[i] = place[j]
    BY <1>2, <2>1 DEF Distinct
  <2>. QED BY <1>4, <2>2 DEF Distinct
<1>9. ASSUME NEW j \in DOMAIN place
      PROVE  ~RowAt(added[j].k) /\ quality[added[j].k] # "fits"
  <2>1. place[j] \in DOMAIN analysis.results /\ ~RowAt(analysis.results[place[j]])
    BY <1>5 DEF RowAt
  <2>2. HasEnded(added[j].k) /\ ~RowAt(added[j].k) /\ added[j].k \in Kernel
    BY <1>5, <2>1 DEF HasEnded
  <2>3. quality[added[j].k] = "unsupported"
    BY <2>2 DEF IInv, RowsInv
  <2>. QED BY <2>2, <2>3
<1>10. ASSUME NEW k \in Kernel, HasEnded(k), ~RowAt(k)
       PROVE  \E j \in DOMAIN place : added[j].k = k
  <2>1. PICK i \in DOMAIN analysis.results : analysis.results[i] = k
    BY <1>10 DEF HasEnded
  <2>2. i \in missing
    BY <1>10, <2>1 DEF RowAt
  <2>3. PICK j \in DOMAIN place : place[j] = i
    BY <1>4, <2>2
  <2>. QED BY <1>5, <2>1, <2>3
<1>. QED BY <1>1, <1>5, <1>6, <1>7, <1>8, <1>9, <1>10

(* The commit leaves one row for each launch of the plan, and accepts just *)
(* the launches whose records fit.                                         *)
LEMMA CommitRows ==
  ASSUME IInv, profiles = "none", Commits,
         rows' = [i \in DOMAIN rows |->
                    IF rows[i].status = "PROVISIONAL"
                    THEN [rows[i] EXCEPT !.status = "PASS"] ELSE rows[i]] \o BeforePacking,
         profiles' = "PASS", UNCHANGED <<analysis, quality>>
  PROVE  rows' \in Seq(ProfileRow) /\ RowsInv'
<1>. DEFINE kept == [i \in DOMAIN rows |->
                       IF rows[i].status = "PROVISIONAL"
                       THEN [rows[i] EXCEPT !.status = "PASS"] ELSE rows[i]]
            added == BeforePacking
            m == Len(rows)
            n == Len(added)
<1>1. rows \in Seq(ProfileRow) /\ m \in Nat /\ DOMAIN rows = 1..m
  BY DEF IInv, Types
<1>2. /\ \A i, j \in DOMAIN rows : rows[i].k = rows[j].k => i = j
      /\ \A i \in DOMAIN rows :
            /\ rows[i].status = IF quality[rows[i].k] = "fits" THEN "PROVISIONAL"
                                                               ELSE "REJECTED"
            /\ Len(rows[i].data) = NRecords /\ Numbered(rows[i].data)
  BY DEF IInv, RowsInv
<1>3. /\ added \in Seq(ProfileRow)
      /\ \A i, j \in DOMAIN added : added[i].k = added[j].k => i = j
      /\ \A j \in DOMAIN added :
            /\ ~RowAt(added[j].k)
            /\ added[j].status = "REJECTED_BEFORE"
            /\ quality[added[j].k] # "fits"
      /\ \A k \in Kernel : HasEnded(k) /\ ~RowAt(k) => \E j \in DOMAIN added : added[j].k = k
  BY PackingRows
<1>. HIDE DEF added
<1>4. ASSUME NEW i \in DOMAIN rows
      PROVE  /\ kept[i] \in ProfileRow /\ kept[i].k = rows[i].k /\ kept[i].data = rows[i].data
             /\ kept[i].status = IF quality[rows[i].k] = "fits" THEN "PASS" ELSE "REJECTED"
  <2>1. rows[i] \in ProfileRow
    BY <1>1
  <2>2. kept[i] = IF rows[i].status = "PROVISIONAL"
                  THEN [rows[i] EXCEPT !.status = "PASS"] ELSE rows[i]
    OBVIOUS
  <2>3. rows[i].status = IF quality[rows[i].k] = "fits" THEN "PROVISIONAL" ELSE "REJECTED"
    BY <1>2
  <2>. HIDE DEF kept
  <2>4. CASE quality[rows[i].k] = "fits"
    BY <2>1, <2>2, <2>3, <2>4 DEF ProfileRow
  <2>5. CASE quality[rows[i].k] # "fits"
    BY <2>1, <2>2, <2>3, <2>5
  <2>. QED BY <2>4, <2>5
<1>5. kept \in Seq(ProfileRow) /\ Len(kept) = m
  <2>1. kept \in [1..m -> ProfileRow]
    BY <1>1, <1>4
  <2>. QED BY <1>1, <2>1
<1>6. rows' = kept \o added
  BY DEF added
<1>. HIDE DEF kept
<1>7. /\ n \in Nat /\ DOMAIN added = 1..n /\ DOMAIN kept = 1..m
      /\ kept \o added \in Seq(ProfileRow) /\ DOMAIN (kept \o added) = 1..(m + n)
      /\ \A i \in 1..(m + n) : (kept \o added)[i] = IF i <= m THEN kept[i] ELSE added[i - m]
  <2>1. /\ kept \o added \in Seq(ProfileRow)
        /\ DOMAIN (kept \o added) = 1..(Len(kept) + Len(added))
        /\ \A i \in 1..(Len(kept) + Len(added)) :
              (kept \o added)[i] = IF i <= Len(kept) THEN kept[i] ELSE added[i - Len(kept)]
    <3>1. kept \in Seq(ProfileRow) /\ added \in Seq(ProfileRow)
      BY <1>3, <1>5
    <3>. QED BY <3>1, ConcatOf
  <2>2. n \in Nat /\ DOMAIN added = 1..n /\ DOMAIN kept = 1..m
    BY <1>3, <1>5
  <2>. QED BY <1>5, <2>1, <2>2
<1>. HIDE DEF m, n
<1>8. ASSUME NEW i \in DOMAIN rows'
      PROVE  \/ i \in DOMAIN rows /\ rows'[i] = kept[i]
             \/ i - m \in DOMAIN added /\ rows'[i] = added[i - m]
                /\ ~RowAt(rows'[i].k) /\ rows'[i].status = "REJECTED_BEFORE"
                /\ quality[rows'[i].k] # "fits"
  <2>1. i \in 1..(m + n) /\ rows'[i] = IF i <= m THEN kept[i] ELSE added[i - m]
    BY <1>6, <1>7
  <2>2. CASE i <= m
    BY <1>1, <2>1, <2>2
  <2>3. CASE ~(i <= m)
    <3>1. i - m \in DOMAIN added
      BY <1>1, <1>7, <2>1, <2>3
    <3>2. rows'[i] = added[i - m]
      BY <2>1, <2>3
    <3>3. /\ ~RowAt(added[i - m].k) /\ added[i - m].status = "REJECTED_BEFORE"
          /\ quality[added[i - m].k] # "fits"
      BY <1>3, <3>1
    <3>. QED BY <3>1, <3>2, <3>3
  <2>. QED BY <2>2, <2>3
<1>9. ASSUME NEW i \in DOMAIN rows', NEW j \in DOMAIN rows', rows'[i].k = rows'[j].k
      PROVE  i = j
  <2>1. CASE i \in DOMAIN rows /\ rows'[i] = kept[i]
    <3>1. rows[i].k = rows'[i].k /\ RowAt(rows'[j].k)
      <4>1. rows[i].k = rows'[i].k
        BY <1>4, <2>1
      <4>. QED BY <1>9, <2>1, <4>1 DEF RowAt
    <3>2. j \in DOMAIN rows /\ rows'[j] = kept[j]
      BY <1>8, <3>1
    <3>3. rows[j].k = rows'[j].k
      BY <1>4, <3>2
    <3>4. rows[i].k = rows[j].k /\ i \in DOMAIN rows /\ j \in DOMAIN rows
      BY <1>9, <2>1, <3>1, <3>2, <3>3
    <3>. QED BY <1>2, <3>4
  <2>2. CASE i - m \in DOMAIN added /\ rows'[i] = added[i - m] /\ ~RowAt(rows'[i].k)
    <3>1. ~(j \in DOMAIN rows /\ rows'[j] = kept[j])
      BY <1>4, <1>9, <2>2 DEF RowAt
    <3>2. j - m \in DOMAIN added /\ rows'[j] = added[j - m]
      BY <1>8, <3>1
    <3>3. i - m = j - m
      BY <1>3, <1>9, <2>2, <3>2
    <3>. QED BY <1>1, <1>6, <1>7, <3>3
  <2>. QED BY <1>8, <2>1, <2>2
<1>10. ASSUME NEW k \in Kernel
       PROVE  \E i \in DOMAIN rows' : rows'[i].k = k
  <2>1. HasEnded(k)
    <3>1. Len(analysis.results) = NKernels
      <4>1. receipt = "PASS" /\ Len(analysis.results) = reader.kernels
        BY DEF Commits
      <4>. QED BY <4>1 DEF IInv, SealInv, Sealed
    <3>2. analysis.results \in Seq(Kernel) /\ Distinct(analysis.results)
      BY DEF IInv, Types, FitInv
    <3>. QED BY <3>1, <3>2, AllOfThem DEF HasEnded
  <2>2. CASE RowAt(k)
    <3>1. PICK i \in DOMAIN rows : rows[i].k = k
      BY <2>2 DEF RowAt
    <3>2. i \in 1..(m + n) /\ i <= m
      BY <1>1, <1>7, <3>1
    <3>3. i \in DOMAIN rows' /\ rows'[i] = kept[i]
      BY <1>6, <1>7, <3>2
    <3>. QED BY <1>4, <3>1, <3>3
  <2>3. CASE ~RowAt(k)
    <3>1. PICK j \in DOMAIN added : added[j].k = k
      BY <1>3, <2>1, <2>3
    <3>2. m + j \in 1..(m + n) /\ ~(m + j <= m) /\ (m + j) - m = j
      BY <1>1, <1>7, <3>1
    <3>3. m + j \in DOMAIN rows' /\ rows'[m + j] = added[j]
      BY <1>6, <1>7, <3>2
    <3>. QED BY <3>1, <3>3
  <2>. QED BY <2>2, <2>3
<1>11. ASSUME NEW i \in DOMAIN rows'
       PROVE  /\ rows'[i].status \in {"PASS", "REJECTED", "REJECTED_BEFORE"}
              /\ rows'[i].status = "PASS" <=> quality[rows'[i].k] = "fits"
              /\ rows'[i].status # "REJECTED_BEFORE" =>
                    Len(rows'[i].data) = NRecords /\ Numbered(rows'[i].data)
  <2>1. CASE i \in DOMAIN rows /\ rows'[i] = kept[i]
    BY <1>2, <1>4, <2>1
  <2>2. CASE rows'[i].status = "REJECTED_BEFORE" /\ quality[rows'[i].k] # "fits"
    BY <2>2
  <2>. QED BY <1>8, <2>1, <2>2
<1>12. RowsInv'
  BY <1>9, <1>10, <1>11 DEF RowsInv, RowAt
<1>. QED BY <1>6, <1>7, <1>12

LEMMA CommitKeeps ==
  ASSUME IInv, Commit
  PROVE  IInv'
<1>1. /\ pc["profiles"] = "read" /\ UNCHANGED proj /\ FitterStays
  BY DEF Commit
<1>2. CASE ~Commits
  <2>1. FitterFails
    BY <1>2 DEF Commit
  <2>. QED BY <1>1, <2>1, FitterFailsKeeps
<1>3. CASE Commits
  <2>1. /\ rows' = [i \in DOMAIN rows |->
                      IF rows[i].status = "PROVISIONAL"
                      THEN [rows[i] EXCEPT !.status = "PASS"] ELSE rows[i]] \o BeforePacking
        /\ profiles' = "PASS" /\ UNCHANGED analysis
        /\ pc' = [pc EXCEPT !["profiles"] = "dead"] /\ rc' = [rc EXCEPT !["profiles"] = "0"]
    BY <1>3 DEF Commit, ExitWith, Goto
  <2>2. /\ UNCHANGED <<ram, cursor, quality, receipt>> /\ pc'["profiles"] = "dead"
        /\ rc'["profiles"] = "0" /\ receipt = "PASS"
    BY <1>1, <1>3, <2>1 DEF IInv, Types, Child, FitterStays, consumer, Commits
  <2>3. profiles = "none"
    BY <1>1 DEF IInv, FitInv, Types
  <2>4. rows' \in Seq(ProfileRow) /\ RowsInv'
    BY <1>3, <2>1, <2>2, <2>3, CommitRows
  <2>5. FitInv'
    BY <2>1, <2>2 DEF IInv, FitInv, Numbered, Distinct
  <2>6. ChainInv'
    BY <1>1, <2>1, <2>2 DEF IInv, ChainInv, Continues, Expected
  <2>7. ParentInv' /\ SealInv' /\ RamInv' /\ Types'
    <3>1. proj' \in Seq(ProjectionRow) /\ Len(proj') <= PipeCap /\ analysis' \in Analysis
      BY <1>1, <2>1 DEF IInv, Types, Analysis
    <3>. QED BY <1>1, <2>1, <2>4, <3>1, FitterMoves
  <2>. QED BY <2>4, <2>5, <2>6, <2>7 DEF IInv
<1>. QED BY <1>2, <1>3

-----------------------------------------------------------------------------
(* The invariant and what it gives.                                        *)

LEMMA StutterKeeps ==
  ASSUME IInv, UNCHANGED vars
  PROVE  IInv'
<1>. USE DEF vars, boss, sampler, consumer, fitter
<1>1. Types'
  BY DEF IInv, Types
<1>2. ParentInv' /\ SealInv'
  BY DEF IInv, ParentInv, SealInv, Sealed, AllDead
<1>3. RamInv' /\ ChainInv'
  BY RecordsUntouched
<1>4. FitInv' /\ RowsInv'
  BY FitterUntouched
<1>. QED BY <1>1, <1>2, <1>3, <1>4 DEF IInv

LEMMA NextKeeps ==
  ASSUME IInv, Next
  PROVE  IInv'
<1>1. CASE HostMoves
  BY <1>1, HostKeeps
<1>2. CASE Capture
  BY <1>2, CaptureKeeps
<1>3. CASE CaptureEnds
  BY <1>3, CaptureEndsKeeps
<1>4. CASE Qualify
  BY <1>4, QualifyKeeps
<1>5. CASE Replay
  BY <1>5, ReplayKeeps
<1>6. CASE ReplayEnds
  BY <1>6, ReplayEndsKeeps
<1>7. CASE MarkerTimeout
  BY <1>7, MarkerTimeoutKeeps
<1>8. CASE ReadRow
  BY <1>8, ReadRowKeeps
<1>9. CASE Commit
  BY <1>9, CommitKeeps
<1>10. CASE ParentMoves
  BY <1>10, ParentKeeps
<1>11. CASE SpawnFitter \/ SpawnConsumer \/ SpawnHost
  BY <1>11, SpawnKeeps
<1>12. CASE Deaths
  BY <1>12, DeathsKeep
<1>13. CASE UNCHANGED vars
  BY <1>13, StutterKeeps
<1>. QED BY <1>1, <1>2, <1>3, <1>4, <1>5, <1>6, <1>7, <1>8, <1>9, <1>10, <1>11, <1>12, <1>13
         DEF Next, Consumer, Fitter, Boss, Ended, HostMoves, ParentMoves, Deaths

(* IInv holds at the start and survives every step of every process.       *)
THEOREM Invariance == Spec => []IInv
<1>1. IInv /\ [Next]_vars => IInv'
  BY NextKeeps, StutterKeeps
<1>. QED BY Initially, <1>1, PTL DEF Spec

(* The values of the job's variables, and the bounds of its pipes.         *)
THEOREM TypeCorrect == Spec => []TypeOK
<1>1. IInv => TypeOK
  BY DEF IInv, Types, FitInv, TypeOK
<1>. QED BY Invariance, <1>1, PTL

(* Every row that reads PASS on disk has behind it the consumer's receipt, *)
(* a host that exited with 0, unchanged sources and a closed observer.     *)
THEOREM SealedProfiles == Spec => []ProfilesSealed
<1>1. ASSUME IInv
      PROVE  ProfilesSealed
  <2>1. ASSUME NEW i \in DOMAIN rows, rows[i].status = "PASS"
        PROVE  profiles = "PASS"
    <3>1. profiles # "none"
      BY <1>1, <2>1 DEF IInv, RowsInv
    <3>2. profiles # "FAIL"
      BY <1>1, <2>1 DEF IInv, RowsInv
    <3>. QED BY <1>1, <3>1, <3>2 DEF IInv, Types
  <2>2. profiles = "PASS" => receipt = "PASS"
    BY <1>1 DEF IInv, FitInv
  <2>3. receipt = "PASS" => rc["host"] = "0" /\ marker = [rc |-> "0", pins |-> TRUE]
                            /\ finish = "PASS"
    <3>1. SUFFICES ASSUME receipt = "PASS"
                   PROVE  rc["host"] = "0" /\ marker = [rc |-> "0", pins |-> TRUE]
                          /\ finish = "PASS"
      OBVIOUS
    <3>2. marker = [rc |-> "0", pins |-> TRUE] /\ finish = "PASS"
      BY <1>1, <3>1 DEF IInv, SealInv, Sealed
    <3>3. marker # NoMarker /\ marker.rc = "0"
      BY <3>2 DEF NoMarker
    <3>. QED BY <1>1, <3>2, <3>3 DEF IInv, ParentInv
  <2>4. profiles = "FAIL" => \A i \in DOMAIN rows : rows[i].status \notin {"PASS", "PROVISIONAL"}
    BY <1>1 DEF IInv, RowsInv
  <2>. QED BY <2>1, <2>2, <2>3, <2>4 DEF ProfilesSealed
<1>. QED BY Invariance, <1>1, PTL

(* What a published pass means for any number of faults: each launch has   *)
(* one row; just those whose records fit are accepted; a launch that was   *)
(* fitted was fitted from as many records as the device pushed, numbered   *)
(* in order; and every process is gone with status 0. (PassMeansExact      *)
(* says more, that the records are the launch's own: with four faults they *)
(* need not be, with one they are, see ExactPass.)                         *)
PassMeansComplete ==
    result = "PASS" =>
        /\ \A k \in Kernel : Cardinality({i \in DOMAIN rows : rows[i].k = k}) = 1
        /\ \A i \in DOMAIN rows :
              /\ rows[i].status = "PASS" <=> quality[rows[i].k] = "fits"
              /\ rows[i].status \in {"PASS", "REJECTED"} =>
                    Len(rows[i].data) = NRecords /\ Numbered(rows[i].data)
        /\ \A c \in Child : ~Alive(c) /\ rc[c] = "0"

LEMMA CompletePass ==
  ASSUME IInv
  PROVE  PassMeansComplete
<1>1. ASSUME result = "PASS"
      PROVE  /\ \A k \in Kernel : Cardinality({i \in DOMAIN rows : rows[i].k = k}) = 1
             /\ \A i \in DOMAIN rows :
                   /\ rows[i].status = "PASS" <=> quality[rows[i].k] = "fits"
                   /\ rows[i].status \in {"PASS", "REJECTED"} =>
                         Len(rows[i].data) = NRecords /\ Numbered(rows[i].data)
             /\ \A c \in Child : ~Alive(c) /\ rc[c] = "0"
  <2>1. AllDead /\ receipt = "PASS" /\ profiles = "PASS"
    BY <1>1 DEF IInv, ParentInv
  <2>2. /\ \A i, j \in DOMAIN rows : rows[i].k = rows[j].k => i = j
        /\ \A k \in Kernel : RowAt(k)
        /\ \A i \in DOMAIN rows :
              /\ rows[i].status = "PASS" <=> quality[rows[i].k] = "fits"
              /\ rows[i].status # "REJECTED_BEFORE" =>
                    Len(rows[i].data) = NRecords /\ Numbered(rows[i].data)
    BY <1>1, <2>1 DEF IInv, RowsInv
  <2>3. ASSUME NEW k \in Kernel
        PROVE  Cardinality({i \in DOMAIN rows : rows[i].k = k}) = 1
    <3>1. PICK i \in DOMAIN rows : rows[i].k = k
      BY <2>2 DEF RowAt
    <3>2. {j \in DOMAIN rows : rows[j].k = k} = {i}
      BY <2>2, <3>1
    <3>. QED BY <3>2, FS_Singleton
  <2>4. rc["host"] = "0" /\ rc["consumer"] = "0" /\ rc["profiles"] = "0"
    <3>1. rc["profiles"] = "0"
      BY <1>1, <2>1 DEF IInv, FitInv
    <3>2. Sealed /\ rc["consumer"] = "0"
      BY <1>1, <2>1 DEF IInv, SealInv
    <3>3. marker # NoMarker /\ marker.rc = "0"
      BY <3>2 DEF Sealed, NoMarker
    <3>. QED BY <1>1, <3>1, <3>2, <3>3 DEF IInv, ParentInv
  <2>5. \A c \in Child : ~Alive(c) /\ rc[c] = "0"
    BY <2>1, <2>4 DEF AllDead, Alive, Child
  <2>. QED BY <2>2, <2>3, <2>5
<1>. QED BY <1>1 DEF PassMeansComplete

(* A pass is published only as PassMeansComplete says.                     *)
THEOREM PassComplete == Spec => []PassMeansComplete
<1>1. IInv => PassMeansComplete
  BY CompletePass
<1>. QED BY Invariance, <1>1, PTL

(* Every step of the job records the next launch, publishes the fitter's   *)
(* one verdict, or leaves its ledger alone; a pass has every launch.       *)
THEOREM Refinement == Spec => LedgerSpec
<1>1. Init => Ledger!Init
  BY DEF Init, NoAnalysis, Ledger!Init
<1>2. ASSUME IInv, [Next]_vars
      PROVE  [Ledger!Next]_Ledger!vars
  <2>1. CASE UNCHANGED fitter
    BY <2>1 DEF Ledger!vars, fitter
  <2>2. IInv'
    BY <1>2, NextKeeps, StutterKeeps
  <2>3. pc["profiles"] = "read" => profiles = "none"
    BY <1>2 DEF IInv, FitInv, Types
  <2>4. CASE FitterFails /\ pc["profiles"] = "read"
    <3>1. profiles' = "FAIL" /\ analysis' = analysis
      BY <2>4 DEF FitterFails
    <3>. QED BY <2>3, <2>4, <3>1 DEF Ledger!Next, Ledger!Fail
  <2>5. CASE ReadRow /\ ~FitterFails
    <3>1. /\ pc["profiles"] = "read" /\ profiles' = profiles
          /\ analysis' = Analyzed(analysis, Head(proj)) /\ proj # <<>>
      BY <2>5 DEF ReadRow, RowWaiting
    <3>2. Head(proj).kind \in {"header", "begin", "record", "end"}
      <4>1. Head(proj) \in ProjectionRow
        BY <1>2, <3>1, TailOf DEF IInv, Types
      <4>. QED BY <4>1 DEF ProjectionRow
    <3>3. analysis \in Analysis
      BY <1>2 DEF IInv, Types, Analysis
    <3>4. CASE Head(proj).kind # "end"
      <4>1. analysis'.results = analysis.results
        BY <3>1, <3>2, <3>3, <3>4 DEF Analyzed, Analysis
      <4>. QED BY <3>1, <4>1 DEF Ledger!vars
    <3>5. CASE Head(proj).kind = "end"
      <4>1. analysis'.results = Append(analysis.results, Head(proj).k)
        BY <3>1, <3>3, <3>5 DEF Analyzed, Analysis
      <4>2. Len(analysis'.results) = Len(analysis.results) + 1
            /\ Len(analysis.results) \in Nat
        BY <3>3, <4>1 DEF Analysis
      <4>3. Len(analysis'.results) <= NKernels
        <5>1. analysis'.results \in Seq(Kernel) /\ Distinct(analysis'.results)
          BY <2>2 DEF IInv, Types, FitInv
        <5>. QED BY <5>1, AllOfThem
      <4>4. Len(analysis.results) < NKernels
        BY <4>2, <4>3, ConstantsAssumption
      <4>. QED BY <2>3, <3>1, <4>2, <4>4 DEF Ledger!Next, Ledger!Record
    <3>. QED BY <3>4, <3>5
  <2>6. CASE Commit /\ ~FitterFails
    <3>1. /\ pc["profiles"] = "read" /\ Commits /\ profiles' = "PASS" /\ analysis' = analysis
      BY <2>6 DEF Commit
    <3>2. Len(analysis.results) = NKernels
      <4>1. receipt = "PASS" /\ Len(analysis.results) = reader.kernels
        BY <3>1 DEF Commits
      <4>. QED BY <1>2, <4>1 DEF IInv, SealInv, Sealed
    <3>. QED BY <2>3, <3>1, <3>2 DEF Ledger!Next, Ledger!Pass
  <2>7. CASE Host \/ SamplerFault \/ HostHangs
    <3>1. HostStays
      BY <2>7 DEF Host, EmitFrame, ClosePipe, HostExits, BrokenPipe, SamplerFault, HostHangs
    <3>. QED BY <2>1, <3>1 DEF HostStays
  <2>8. CASE Consumer \/ MarkerTimeout
    <3>1. ConsumerStays
      BY <2>8 DEF Consumer, Capture, CaptureEnds, Qualify, Replay, ReplayEnds, MarkerTimeout
    <3>. QED BY <2>1, <3>1 DEF ConsumerStays
  <2>9. CASE Boss \/ Interrupted \/ BudgetSpent \/ Deaths
    <3>1. BossStays
      BY <2>9 DEF Boss, SpawnFitter, SpawnConsumer, SpawnHost, Spawn, While, MarkProducer,
                  OutOfTime, PollStatus, Accept, Reaped, Interrupted, BudgetSpent, Deaths,
                  Killed, ChildDies, ChildCrashes
    <3>. QED BY <2>1, <3>1 DEF BossStays
  <2>10. CASE UNCHANGED vars
    BY <2>1, <2>10 DEF vars
  <2>11. Fitter => pc["profiles"] = "read" /\ (ReadRow \/ Commit)
    BY DEF Fitter, ReadRow, Commit
  <2>. QED BY <1>2, <2>4, <2>5, <2>6, <2>7, <2>8, <2>9, <2>10, <2>11
           DEF Next, Ended, Deaths
<1>. QED BY Invariance, <1>1, <1>2, PTL DEF Spec, LedgerSpec, Ledger!Spec

-----------------------------------------------------------------------------
(* The launch of a record, when at most one frame was lost, repeated or    *)
(* swapped. A record's frame does not open its launch, and the reader does *)
(* not ask it for one; but in the sampler's stream frames of two launches  *)
(* are far enough apart, and one fault does not bring them together.       *)

(* A record behind a launch's begin or record belongs to the same launch.  *)
SameLaunch(f, g) == g.kind = "record" /\ f.kind \in {"begin", "record"} => f.k = g.k

Follows(s) == \A i \in DOMAIN s : i > 1 => SameLaunch(s[i - 1], s[i])

(* So it is one frame further, and the other way round.                    *)
Pristine(s) == /\ Follows(s)
               /\ \A i \in DOMAIN s : i > 1 => SameLaunch(s[i], s[i - 1])
               /\ \A i \in DOMAIN s : i > 2 => SameLaunch(s[i - 2], s[i])

(* The stream as a whole: captured, in the pipe, still to be written.      *)
Stream == (ram \o raw) \o script

(* Moving the first member of a sequence behind another changes nothing.   *)
LEMMA MoveOne ==
  ASSUME NEW S, NEW s \in Seq(S), NEW t \in Seq(S), t # <<>>
  PROVE  Append(s, Head(t)) \o Tail(t) = s \o t
<1>. DEFINE u == Append(s, Head(t)) \o Tail(t)
            n == Len(s)
<1>1. /\ Head(t) = t[1] /\ Head(t) \in S /\ Tail(t) \in Seq(S) /\ Len(Tail(t)) = Len(t) - 1
      /\ Len(t) \in Nat /\ Len(t) > 0 /\ n \in Nat
      /\ \A i \in 1..(Len(t) - 1) : Tail(t)[i] = t[i + 1]
  OBVIOUS
<1>2. /\ Append(s, Head(t)) \in Seq(S) /\ Len(Append(s, Head(t))) = n + 1
      /\ Append(s, Head(t))[n + 1] = t[1]
      /\ \A i \in 1..n : Append(s, Head(t))[i] = s[i]
  BY <1>1, AppendOf
<1>3. /\ u \in Seq(S) /\ DOMAIN u = 1..((n + 1) + (Len(t) - 1))
      /\ \A i \in 1..((n + 1) + (Len(t) - 1)) :
            u[i] = IF i <= n + 1 THEN Append(s, Head(t))[i] ELSE Tail(t)[i - (n + 1)]
  BY <1>1, <1>2, ConcatOf
<1>4. /\ s \o t \in Seq(S) /\ DOMAIN (s \o t) = 1..(n + Len(t))
      /\ \A i \in 1..(n + Len(t)) : (s \o t)[i] = IF i <= n THEN s[i] ELSE t[i - n]
  BY ConcatOf
<1>. HIDE DEF u
<1>5. DOMAIN u = DOMAIN (s \o t)
  BY <1>1, <1>3, <1>4
<1>6. ASSUME NEW i \in DOMAIN (s \o t)
      PROVE  u[i] = (s \o t)[i]
  <2>1. CASE i <= n
    BY <1>1, <1>2, <1>3, <1>4, <2>1
  <2>2. CASE i = n + 1
    BY <1>1, <1>2, <1>3, <1>4, <2>2
  <2>3. CASE i > n + 1
    <3>1. i - (n + 1) \in 1..(Len(t) - 1) /\ (i - (n + 1)) + 1 = i - n
      BY <1>1, <1>4, <2>3
    <3>2. u[i] = Tail(t)[i - (n + 1)]
      <4>1. i \in 1..((n + 1) + (Len(t) - 1)) /\ ~(i <= n + 1)
        BY <1>1, <1>4, <2>3
      <4>. QED BY <1>3, <4>1
    <3>3. (s \o t)[i] = t[i - n]
      BY <1>1, <1>4, <2>3
    <3>. QED BY <1>1, <3>1, <3>2, <3>3
  <2>. QED BY <1>1, <1>4, <2>1, <2>2, <2>3
<1>7. u = [i \in DOMAIN u |-> u[i]] /\ s \o t = [i \in DOMAIN (s \o t) |-> (s \o t)[i]]
  <2>1. \A q \in Seq(S) : q = [i \in DOMAIN q |-> q[i]]
    OBVIOUS
  <2>. QED BY <1>3, <1>4, <2>1
<1>. QED BY <1>5, <1>6, <1>7 DEF u

LEMMA MoveOneBehind ==
  ASSUME NEW S, NEW s \in Seq(S), NEW t \in Seq(S), NEW x \in S
  PROVE  s \o Append(t, x) = Append(s \o t, x)
OBVIOUS

(* Streams that are pristine, put together where no launch is open.        *)
LEMMA PristineJoin ==
  ASSUME NEW s \in Seq(Frames), NEW t \in Seq(Frames), s # <<>>, t # <<>>,
         Pristine(s), Pristine(t),
         s[Len(s)].kind \notin {"begin", "record"}, t[1].kind # "record"
  PROVE  /\ s \o t \in Seq(Frames) /\ s \o t # <<>> /\ Pristine(s \o t)
         /\ (s \o t)[Len(s \o t)] = t[Len(t)]
<1>. DEFINE u == s \o t
            m == Len(s)
            n == Len(t)
<1>1. /\ u \in Seq(Frames) /\ DOMAIN u = 1..(m + n) /\ Len(u) = m + n
      /\ \A i \in 1..(m + n) : u[i] = IF i <= m THEN s[i] ELSE t[i - m]
      /\ m \in Nat /\ n \in Nat /\ m > 0 /\ n > 0
      /\ DOMAIN s = 1..m /\ DOMAIN t = 1..n
  <2>1. m \in Nat /\ n \in Nat /\ m > 0 /\ n > 0 /\ DOMAIN s = 1..m /\ DOMAIN t = 1..n
    OBVIOUS
  <2>2. /\ u \in Seq(Frames) /\ DOMAIN u = 1..(m + n)
        /\ \A i \in 1..(m + n) : u[i] = IF i <= m THEN s[i] ELSE t[i - m]
    BY ConcatOf
  <2>. HIDE DEF u
  <2>. QED BY <2>1, <2>2
<1>2. s[m].kind \notin {"begin", "record"} /\ t[1].kind # "record"
  OBVIOUS
<1>. HIDE DEF u, m, n
<1>3. ASSUME NEW i \in DOMAIN u, i > 1
      PROVE  SameLaunch(u[i - 1], u[i]) /\ SameLaunch(u[i], u[i - 1])
  <2>1. CASE i <= m
    <3>1. u[i] = s[i] /\ u[i - 1] = s[i - 1] /\ i \in DOMAIN s
      BY <1>1, <1>3, <2>1
    <3>. QED BY <1>3, <3>1 DEF Pristine, Follows
  <2>2. CASE i = m + 1
    <3>1. u[i] = t[1] /\ u[i - 1] = s[m]
      BY <1>1, <1>3, <2>2
    <3>. QED BY <1>2, <3>1 DEF SameLaunch
  <2>3. CASE i > m + 1
    <3>1. PICK j \in DOMAIN t : j = i - m /\ j > 1
      BY <1>1, <1>3, <2>3
    <3>2. u[i] = t[j] /\ u[i - 1] = t[j - 1]
      <4>1. i - 1 \in 1..(m + n) /\ ~(i - 1 <= m) /\ (i - 1) - m = j - 1 /\ ~(i <= m)
        BY <1>1, <1>3, <2>3, <3>1
      <4>. QED BY <1>1, <3>1, <4>1
    <3>. QED BY <3>1, <3>2 DEF Pristine, Follows
  <2>. QED BY <1>1, <1>3, <2>1, <2>2, <2>3
<1>4. ASSUME NEW i \in DOMAIN u, i > 2
      PROVE  SameLaunch(u[i - 2], u[i])
  <2>1. CASE i <= m
    <3>1. u[i] = s[i] /\ u[i - 2] = s[i - 2] /\ i \in DOMAIN s
      BY <1>1, <1>4, <2>1
    <3>. QED BY <1>4, <3>1 DEF Pristine
  <2>2. CASE i = m + 1
    <3>1. u[i] = t[1]
      BY <1>1, <1>4, <2>2
    <3>. QED BY <1>2, <3>1 DEF SameLaunch
  <2>3. CASE i = m + 2
    <3>1. u[i - 2] = s[m]
      BY <1>1, <1>4, <2>3
    <3>. QED BY <1>2, <3>1 DEF SameLaunch
  <2>4. CASE i > m + 2
    <3>1. PICK j \in DOMAIN t : j = i - m /\ j > 2
      BY <1>1, <1>4, <2>4
    <3>2. u[i] = t[j] /\ u[i - 2] = t[j - 2]
      <4>1. i - 2 \in 1..(m + n) /\ ~(i - 2 <= m) /\ (i - 2) - m = j - 2 /\ ~(i <= m)
        BY <1>1, <1>4, <2>4, <3>1
      <4>. QED BY <1>1, <3>1, <4>1
    <3>. QED BY <3>1, <3>2 DEF Pristine
  <2>. QED BY <1>1, <1>4, <2>1, <2>2, <2>3, <2>4
<1>5. Pristine(u)
  BY <1>3, <1>4 DEF Pristine, Follows
<1>6. u[Len(u)] = t[n] /\ u # <<>>
  <2>1. m + n \in 1..(m + n) /\ ~(m + n <= m) /\ (m + n) - m = n
    BY <1>1
  <2>2. u # <<>>
    BY <1>1, <2>1
  <2>. QED BY <1>1, <2>1, <2>2
<1>. QED BY <1>1, <1>5, <1>6 DEF u, n

(* One fault of the sampler leaves a record's neighbours its own.          *)
LEMMA FaultFollows ==
  ASSUME NEW p \in Seq(Frames), NEW s \in Seq(Frames), s # <<>>, Pristine(p \o s)
  PROVE  /\ Follows(p \o Tail(s))
         /\ Follows(p \o (<<Head(s)>> \o s))
         /\ Len(s) > 1 => Follows(p \o (<<s[2], s[1]>> \o SubSeq(s, 3, Len(s))))
<1>. DEFINE u == p \o s
            n == Len(p)
            m == Len(s)
<1>1. /\ n \in Nat /\ m \in Nat /\ m > 0
      /\ DOMAIN u = 1..(n + m)
      /\ \A i \in 1..(n + m) : u[i] = IF i <= n THEN p[i] ELSE s[i - n]
  BY ConcatOf
<1>2. /\ \A i \in DOMAIN u : i > 1 => SameLaunch(u[i - 1], u[i])
      /\ \A i \in DOMAIN u : i > 1 => SameLaunch(u[i], u[i - 1])
      /\ \A i \in DOMAIN u : i > 2 => SameLaunch(u[i - 2], u[i])
  BY DEF Pristine, Follows
<1>. HIDE DEF u
<1>3. Follows(p \o Tail(s))
  <2>. DEFINE v == p \o Tail(s)
  <2>1. Tail(s) \in Seq(Frames) /\ Len(Tail(s)) = m - 1
        /\ \A i \in 1..(m - 1) : Tail(s)[i] = s[i + 1]
    OBVIOUS
  <2>2. /\ DOMAIN v = 1..(n + (m - 1))
        /\ \A i \in 1..(n + (m - 1)) : v[i] = IF i <= n THEN p[i] ELSE Tail(s)[i - n]
    BY <2>1, ConcatOf
  <2>. HIDE DEF v, n, m
  <2>3. ASSUME NEW i \in DOMAIN v
        PROVE  /\ i \in DOMAIN u /\ i + 1 \in DOMAIN u
               /\ i <= n => v[i] = u[i]
               /\ i > n => v[i] = u[i + 1]
    <3>1. i \in 1..(n + m) /\ i + 1 \in 1..(n + m)
      BY <1>1, <2>2
    <3>2. ASSUME i > n
          PROVE  v[i] = u[i + 1]
      <4>1. i - n \in 1..(m - 1) /\ ~(i <= n)
        BY <1>1, <2>2, <3>2
      <4>2. v[i] = s[(i - n) + 1]
        BY <2>1, <2>2, <4>1
      <4>3. ~(i + 1 <= n) /\ (i + 1) - n = (i - n) + 1
        BY <1>1, <3>1, <3>2
      <4>. QED BY <1>1, <3>1, <4>2, <4>3
    <3>3. i <= n => v[i] = u[i]
      BY <1>1, <2>2, <3>1
    <3>. QED BY <1>1, <3>1, <3>2, <3>3
  <2>4. ASSUME NEW i \in DOMAIN v, i > 1
        PROVE  SameLaunch(v[i - 1], v[i])
    <3>1. i - 1 \in DOMAIN v /\ i \in Nat /\ n \in Nat
      BY <1>1, <2>2, <2>4
    <3>2. CASE i <= n
      <4>1. v[i] = u[i] /\ v[i - 1] = u[i - 1] /\ i \in DOMAIN u
        BY <1>1, <2>2, <2>3, <2>4, <3>1, <3>2
      <4>. QED BY <1>2, <2>4, <4>1
    <3>3. CASE i > n
      <4>1. PICK j \in DOMAIN u : j = i + 1 /\ v[i] = u[j]
        BY <2>3, <3>3
      <4>2. CASE i = n + 1
        <5>1. v[i - 1] = u[j - 2] /\ j > 2
          <6>1. i - 1 <= n /\ i - 1 = j - 2 /\ j > 2
            BY <1>1, <2>2, <2>4, <4>1, <4>2
          <6>. QED BY <2>3, <3>1, <6>1
        <5>. QED BY <1>2, <4>1, <5>1
      <4>3. CASE i # n + 1
        <5>1. v[i - 1] = u[j - 1] /\ j > 1
          <6>1. i - 1 > n /\ (i - 1) + 1 = j - 1 /\ j > 1
            BY <2>4, <3>1, <3>3, <4>1, <4>3
          <6>. QED BY <2>3, <3>1, <6>1
        <5>. QED BY <1>2, <4>1, <5>1
      <4>. QED BY <4>2, <4>3
    <3>. QED BY <1>1, <2>2, <3>2, <3>3
  <2>. QED BY <2>4 DEF Follows, v
<1>4. Follows(p \o (<<Head(s)>> \o s))
  <2>. DEFINE t == <<Head(s)>> \o s
              v == p \o t
  <2>1. t \in Seq(Frames) /\ Len(t) = m + 1 /\ t[1] = s[1]
        /\ \A i \in 2..(m + 1) : t[i] = s[i - 1]
    OBVIOUS
  <2>. HIDE DEF t
  <2>2. /\ DOMAIN v = 1..(n + (m + 1))
        /\ \A i \in 1..(n + (m + 1)) : v[i] = IF i <= n THEN p[i] ELSE t[i - n]
    <3>1. /\ DOMAIN v = 1..(n + Len(t))
          /\ \A i \in 1..(n + Len(t)) : v[i] = IF i <= n THEN p[i] ELSE t[i - n]
      BY <2>1, ConcatOf
    <3>. HIDE DEF v, n, m
    <3>. QED BY <2>1, <3>1
  <2>. HIDE DEF v, n, m
  <2>3. ASSUME NEW i \in DOMAIN v
        PROVE  /\ i <= n + 1 => i \in DOMAIN u /\ v[i] = u[i]
               /\ i > n + 1 => i - 1 \in DOMAIN u /\ v[i] = u[i - 1]
    <3>1. ASSUME i <= n
          PROVE  i \in DOMAIN u /\ v[i] = u[i]
      BY <1>1, <2>2, <3>1
    <3>2. ASSUME i = n + 1
          PROVE  i \in DOMAIN u /\ v[i] = u[i]
      <4>1. ~(i <= n) /\ i - n = 1 /\ i \in 1..(n + m)
        BY <1>1, <3>2
      <4>2. v[i] = t[1] /\ u[i] = s[1]
        BY <1>1, <2>2, <4>1
      <4>. QED BY <1>1, <2>1, <4>1, <4>2
    <3>3. ASSUME i > n + 1
          PROVE  i - 1 \in DOMAIN u /\ v[i] = u[i - 1]
      <4>1. i - n \in 2..(m + 1) /\ ~(i <= n) /\ i - 1 \in 1..(n + m) /\ ~(i - 1 <= n)
            /\ (i - 1) - n = (i - n) - 1
        BY <1>1, <2>2, <3>3
      <4>2. v[i] = s[(i - n) - 1]
        BY <2>1, <2>2, <4>1
      <4>. QED BY <1>1, <4>1, <4>2
    <3>. QED BY <1>1, <2>2, <3>1, <3>2, <3>3
  <2>4. ASSUME NEW i \in DOMAIN v, i > 1
        PROVE  SameLaunch(v[i - 1], v[i])
    <3>1. i - 1 \in DOMAIN v /\ i \in Nat
      BY <1>1, <2>2, <2>4
    <3>2. CASE i <= n + 1
      <4>1. v[i] = u[i] /\ v[i - 1] = u[i - 1] /\ i \in DOMAIN u
        BY <1>1, <2>3, <2>4, <3>1, <3>2
      <4>. QED BY <1>2, <2>4, <4>1
    <3>3. CASE i = n + 2
      <4>1. v[i] = u[i - 1] /\ v[i - 1] = u[i - 1]
        BY <1>1, <2>3, <2>4, <3>1, <3>3
      <4>. QED BY <4>1 DEF SameLaunch
    <3>4. CASE i > n + 2
      <4>1. PICK j \in DOMAIN u : j = i - 1 /\ v[i] = u[j]
        BY <1>1, <2>3, <3>1, <3>4
      <4>2. v[i - 1] = u[j - 1] /\ j > 1
        <5>1. i - 1 > n + 1 /\ (i - 1) - 1 = j - 1 /\ j > 1
          BY <1>1, <3>1, <3>4, <4>1
        <5>. QED BY <2>3, <3>1, <5>1
      <4>. QED BY <1>2, <4>1, <4>2
    <3>. QED BY <1>1, <3>1, <3>2, <3>3, <3>4
  <2>. QED BY <2>4 DEF Follows, v, t
<1>5. ASSUME m > 1
      PROVE  Follows(p \o (<<s[2], s[1]>> \o SubSeq(s, 3, m)))
  <2>. DEFINE t == <<s[2], s[1]>> \o SubSeq(s, 3, m)
              v == p \o t
  <2>1. t \in Seq(Frames) /\ Len(t) = m /\ t[1] = s[2] /\ t[2] = s[1]
        /\ \A i \in 3..m : t[i] = s[i]
    <3>1. <<s[2], s[1]>> \in Seq(Frames) /\ SubSeq(s, 3, m) \in Seq(Frames)
          /\ Len(SubSeq(s, 3, m)) = m - 2
          /\ \A i \in 1..(m - 2) : SubSeq(s, 3, m)[i] = s[i + 2]
      <4>1. s[1] \in Frames /\ s[2] \in Frames
        BY <1>1, <1>5
      <4>2. <<s[2], s[1]>> \in Seq(Frames)
        BY <4>1
      <4>3. SubSeq(s, 3, m) = [i \in 1..(m - 2) |-> s[i + 2]]
        BY <1>1, <1>5
      <4>4. \A i \in 1..(m - 2) : s[i + 2] \in Frames
        BY <1>1, <1>5
      <4>5. m - 2 \in Nat
        BY <1>1, <1>5
      <4>. HIDE DEF m
      <4>. DEFINE w == [i \in 1..(m - 2) |-> s[i + 2]]
      <4>6. \A i \in 1..(m - 2) : w[i] = s[i + 2]
        OBVIOUS
      <4>7. w \in [1..(m - 2) -> Frames]
        BY <4>4
      <4>8. w \in Seq(Frames) /\ Len(w) = m - 2
        <5>. DEFINE l == m - 2
        <5>1. l \in Nat /\ w \in [1..l -> Frames]
          BY <4>5, <4>7
        <5>. HIDE DEF w, l
        <5>2. w \in Seq(Frames) /\ Len(w) = l
          BY <5>1
        <5>. QED BY <5>2 DEF l
      <4>. QED BY <4>2, <4>3, <4>6, <4>8
    <3>. HIDE DEF m
    <3>2. /\ t \in Seq(Frames) /\ DOMAIN t = 1..(2 + (m - 2))
          /\ \A i \in 1..(2 + (m - 2)) :
                t[i] = IF i <= 2 THEN <<s[2], s[1]>>[i] ELSE SubSeq(s, 3, m)[i - 2]
      BY <3>1, ConcatOf
    <3>3. 2 + (m - 2) = m
      BY <1>1
    <3>. HIDE DEF t
    <3>4. t[1] = s[2] /\ t[2] = s[1]
      BY <1>1, <1>5, <3>2, <3>3
    <3>5. ASSUME NEW i \in 3..m
          PROVE  t[i] = s[i]
      <4>1. ~(i <= 2) /\ i - 2 \in 1..(m - 2) /\ (i - 2) + 2 = i /\ i \in 1..m
        BY <1>1
      <4>. QED BY <3>1, <3>2, <3>3, <4>1
    <3>6. Len(t) = m
      BY <1>1, <3>2, <3>3
    <3>. QED BY <3>2, <3>4, <3>5, <3>6
  <2>. HIDE DEF t
  <2>2. /\ DOMAIN v = 1..(n + m)
        /\ \A i \in 1..(n + m) : v[i] = IF i <= n THEN p[i] ELSE t[i - n]
    <3>1. /\ DOMAIN v = 1..(n + Len(t))
          /\ \A i \in 1..(n + Len(t)) : v[i] = IF i <= n THEN p[i] ELSE t[i - n]
      BY <2>1, ConcatOf
    <3>. HIDE DEF v, n, m
    <3>. QED BY <2>1, <3>1
  <2>. HIDE DEF v, n, m
  <2>3. v[n + 1] = u[n + 2] /\ v[n + 2] = u[n + 1] /\ n + 1 \in DOMAIN u /\ n + 2 \in DOMAIN u
    <3>1. n + 1 \in 1..(n + m) /\ n + 2 \in 1..(n + m) /\ ~(n + 1 <= n) /\ ~(n + 2 <= n)
          /\ (n + 1) - n = 1 /\ (n + 2) - n = 2
      BY <1>1, <1>5
    <3>. QED BY <1>1, <2>1, <2>2, <3>1
  <2>4. ASSUME NEW i \in DOMAIN v, i # n + 1, i # n + 2
        PROVE  v[i] = u[i]
    <3>1. CASE i <= n
      BY <1>1, <2>2, <3>1
    <3>2. CASE i > n + 2
      <4>1. ~(i <= n) /\ i - n \in 3..m
        BY <1>1, <2>2, <3>2
      <4>. QED BY <1>1, <2>1, <2>2, <4>1
    <3>. QED BY <1>1, <2>2, <2>4, <3>1, <3>2
  <2>5. ASSUME NEW i \in DOMAIN v, i > 1
        PROVE  SameLaunch(v[i - 1], v[i])
    <3>1. i - 1 \in DOMAIN v /\ i \in DOMAIN u /\ i \in Nat /\ n \in Nat
      BY <1>1, <2>2, <2>5
    <3>2. CASE i <= n \/ i > n + 3
      <4>1. i # n + 1 /\ i # n + 2 /\ i - 1 # n + 1 /\ i - 1 # n + 2
        BY <1>1, <3>1, <3>2
      <4>. QED BY <1>2, <2>4, <2>5, <3>1, <4>1
    <3>3. CASE i = n + 1
      <4>1. v[i - 1] = u[i - 1]
        <5>1. i - 1 # n + 1 /\ i - 1 # n + 2
          BY <1>1, <3>3
        <5>. QED BY <2>4, <3>1, <5>1
      <4>2. PICK j \in DOMAIN u : j = n + 2 /\ v[i] = u[j]
        BY <2>3, <3>3
      <4>3. i - 1 = j - 2 /\ j > 2
        BY <1>1, <2>5, <3>3, <4>2
      <4>. QED BY <1>2, <4>1, <4>2, <4>3
    <3>4. CASE i = n + 2
      <4>1. v[i] = u[n + 1] /\ v[i - 1] = u[i]
        <5>1. i - 1 = n + 1
          BY <1>1, <3>4
        <5>. QED BY <2>3, <3>4, <5>1
      <4>2. i - 1 = n + 1
        BY <1>1, <3>4
      <4>. QED BY <1>2, <2>5, <3>1, <4>1, <4>2
    <3>5. CASE i = n + 3
      <4>1. v[i] = u[i]
        BY <1>1, <2>4, <3>5
      <4>2. v[i - 1] = u[i - 2] /\ i > 2
        <5>1. i - 1 = n + 2 /\ i - 2 = n + 1 /\ i > 2
          BY <1>1, <3>5
        <5>. QED BY <2>3, <5>1
      <4>. QED BY <1>2, <3>1, <4>1, <4>2
    <3>. QED BY <3>1, <3>2, <3>3, <3>4, <3>5
  <2>. QED BY <2>5 DEF Follows, v, t
<1>. QED BY <1>3, <1>4, <1>5

(* The frames of one launch, and of all of them.                           *)
LEMMA KernelPristine ==
  ASSUME NEW k \in Kernel
  PROVE  /\ KernelFrames(k) \in Seq(Frames) /\ KernelFrames(k) # <<>>
         /\ Pristine(KernelFrames(k)) /\ KernelFrames(k)[1].kind # "record"
         /\ KernelFrames(k)[Len(KernelFrames(k))].kind \notin {"begin", "record"}
<1>. DEFINE Own == {f \in Frames : f.k = k}
            b == Frame("begin", k, 0)
            r == [i \in 1..NRecords |-> Frame("record", k, i - 1)]
            e == Frame("end", k, NRecords)
<1>1. k \in Nat /\ NRecords \in Nat
  BY ConstantsAssumption DEF Kernel
<1>2. b \in Own /\ b.kind = "begin" /\ e \in Own /\ e.kind = "end"
  BY <1>1 DEF Frame, Frames
<1>3. r \in Seq(Own)
  <2>1. \A i \in 1..NRecords : Frame("record", k, i - 1) \in Own
    BY <1>1 DEF Frame, Frames
  <2>. HIDE DEF Own
  <2>. QED BY <1>1, <2>1
<1>4. KernelFrames(k) = (<<b>> \o r) \o <<e>>
  BY DEF KernelFrames
<1>. HIDE DEF b, r, e, Own
<1>5. <<b>> \in Seq(Own) /\ <<e>> \in Seq(Own) /\ Len(<<b>>) = 1 /\ Len(<<e>>) = 1
      /\ <<b>>[1] = b /\ <<e>>[1] = e
  BY <1>2
<1>6. /\ <<b>> \o r \in Seq(Own) /\ Len(<<b>> \o r) \in Nat /\ Len(<<b>> \o r) > 0
      /\ (<<b>> \o r)[1] = b
  BY <1>3, <1>5
<1>. DEFINE s == <<b>> \o r
            u == s \o <<e>>
<1>. HIDE DEF s
<1>7. /\ u \in Seq(Own) /\ Len(u) = Len(s) + 1 /\ u[Len(u)] = e /\ u[1] = b
  <2>1. s \in Seq(Own) /\ Len(s) \in Nat /\ Len(s) > 0 /\ s[1] = b
    BY <1>6 DEF s
  <2>. QED BY <1>2, <2>1
<1>8. KernelFrames(k) = u
  BY <1>4 DEF s
<1>. HIDE DEF u
<1>9. \A i \in DOMAIN u : u[i] \in Own
  BY <1>7
<1>10. \A i \in DOMAIN u : u[i].k = k
  BY <1>9 DEF Own
<1>11. Pristine(u)
  <2>1. \A i \in DOMAIN u : /\ i > 1 => i - 1 \in DOMAIN u
                            /\ i > 2 => i - 2 \in DOMAIN u
    BY <1>7
  <2>. QED BY <1>10, <2>1 DEF Pristine, Follows, SameLaunch
<1>12. u \in Seq(Frames) /\ u # <<>>
  <2>1. Own \subseteq Frames
    BY DEF Own
  <2>2. \A q \in Seq(Own) : q \in Seq(Frames)
    BY <2>1
  <2>3. Len(u) > 0
    BY <1>6, <1>7 DEF s
  <2>. QED BY <1>7, <2>2, <2>3
<1>. QED BY <1>2, <1>7, <1>8, <1>11, <1>12

LEMMA ScriptPristine ==
  ASSUME NEW m \in Nat, m <= NKernels
  PROVE  Pristine(ScriptOf(m))
<1>. DEFINE f == CHOOSE g : g = [k \in 0..m |-> IF k = 0 THEN Opening
                                                ELSE g[k - 1] \o KernelFrames(k)]
            Good(s) == /\ s \in Seq(Frames) /\ s # <<>> /\ Pristine(s)
                       /\ s[Len(s)].kind \notin {"begin", "record"}
            Bad == {k \in Nat : k <= m /\ ~Good(f[k])}
<1>1. f = [k \in 0..m |-> IF k = 0 THEN Opening ELSE f[k - 1] \o KernelFrames(k)]
  BY ScriptExists
<1>2. ScriptOf(m) = f[m] \o <<Frame("closed", m, m * NRecords)>>
  BY DEF ScriptOf, Opening
<1>. HIDE DEF f
<1>3. Good(Opening)
  <2>. DEFINE a == Frame("hello", 0, 0)
              b == Frame("static", 0, 0)
  <2>1. a \in Frames /\ b \in Frames /\ a.kind = "hello" /\ b.kind = "static"
    BY DEF Frame, Frames
  <2>2. Opening = <<a, b>>
    BY DEF Opening
  <2>. HIDE DEF a, b
  <2>3. /\ <<a, b>> \in Seq(Frames) /\ <<a, b>> # <<>> /\ Len(<<a, b>>) = 2
        /\ \A i \in DOMAIN <<a, b>> : i \in {1, 2}
        /\ <<a, b>>[1] = a /\ <<a, b>>[2] = b
    BY <2>1
  <2>. DEFINE u == <<a, b>>
  <2>. HIDE DEF u
  <2>4. /\ \A i \in DOMAIN u : i \in {1, 2}
        /\ u[1] = a /\ u[2] = b
    BY <2>3 DEF u
  <2>5. Pristine(u)
    <3>1. ASSUME NEW i \in DOMAIN u, i > 1
          PROVE  i = 2 /\ i - 1 = 1
      BY <2>4, <3>1
    <3>2. \A i \in DOMAIN u : ~(i > 2)
      BY <2>4
    <3>. QED BY <2>1, <2>4, <3>1, <3>2 DEF Pristine, Follows, SameLaunch
  <2>. QED BY <2>1, <2>2, <2>3, <2>5 DEF u
<1>4. Bad = {}
  <2>1. SUFFICES ASSUME Bad # {}
                 PROVE  FALSE
    OBVIOUS
  <2>. HIDE DEF Good
  <2>2. Bad \in SUBSET Nat
    OBVIOUS
  <2>3. PICK k \in Bad : \A y \in Bad : k <= y
    <3>1. Min(Bad) \in Bad /\ \A y \in Bad : Min(Bad) <= y
      BY <2>1, <2>2, LeastOf
    <3>. QED BY <3>1
  <2>4. k \in 0..m /\ ~Good(f[k])
    OBVIOUS
  <2>5. k # 0
    BY <1>1, <1>3, <2>4
  <2>6. k - 1 \notin Bad /\ k - 1 \in Nat /\ k - 1 <= m
    BY <2>3, <2>4, <2>5
  <2>7. Good(f[k - 1])
    BY <2>6
  <2>8. f[k] = f[k - 1] \o KernelFrames(k)
    BY <1>1, <2>4, <2>5
  <2>9. k \in Kernel
    BY <2>4, <2>5, ConstantsAssumption DEF Kernel
  <2>10. Good(f[k])
    BY <2>7, <2>8, <2>9, KernelPristine, PristineJoin DEF Good
  <2>. QED BY <2>4, <2>10
<1>5. Good(f[m])
  <2>. HIDE DEF Good
  <2>. QED BY <1>4
<1>6. Pristine(f[m] \o <<Frame("closed", m, m * NRecords)>>)
  <2>. DEFINE c == Frame("closed", m, m * NRecords)
  <2>1. c \in Frames /\ c.kind = "closed"
    BY ConstantsAssumption DEF Frame, Frames
  <2>. HIDE DEF c
  <2>2. <<c>> \in Seq(Frames) /\ <<c>> # <<>> /\ <<c>>[1] = c
        /\ \A i \in DOMAIN <<c>> : i = 1
    BY <2>1
  <2>3. Pristine(<<c>>)
    BY <2>2 DEF Pristine, Follows
  <2>4. /\ f[m] \in Seq(Frames) /\ f[m] # <<>> /\ Pristine(f[m])
        /\ f[m][Len(f[m])].kind \notin {"begin", "record"}
    BY <1>5
  <2>5. <<c>>[1].kind # "record"
    BY <2>1, <2>2
  <2>6. Pristine(f[m] \o <<c>>)
    BY <2>2, <2>3, <2>4, <2>5, PristineJoin
  <2>. QED BY <2>6 DEF c
<1>. QED BY <1>2, <1>6

(* While frames are captured the stream is as the sampler wrote it.        *)
StreamInv ==
    pc["consumer"] \in {"none", "capture"} =>
        /\ faults = 0 => Pristine(Stream)
        /\ faults <= 1 => Follows(Stream)

(* The launch last begun when frame i is captured.                         *)
OpenedBy(s, i, k) == \E b \in 1..i : /\ s[b].kind = "begin" /\ s[b].k = k
                                     /\ \A a \in (b + 1)..i : s[a].kind # "begin"

(* A captured record lies in its own launch.                               *)
OwnLaunch ==
    faults <= 1 =>
        /\ \A i \in DOMAIN ram : ram[i].kind = "record" => OpenedBy(ram, i, ram[i].k)
        /\ pc["consumer"] \in {"none", "capture"} /\ reader.cur # 0 =>
              OpenedBy(ram, Len(ram), reader.cur) /\ ram[Len(ram)].k = reader.cur

(* So it comes over the pipe, into the fitter and into its rows.           *)
OwnRecords ==
    faults <= 1 =>
        /\ \A i \in DOMAIN proj : proj[i].kind = "record" => proj[i].id[1] = proj[i].k
        /\ \A i \in DOMAIN analysis.records : analysis.records[i][1] = analysis.cur
        /\ \A i \in DOMAIN rows : \A j \in DOMAIN rows[i].data :
              rows[i].data[j][1] = rows[i].k

ExactInv == StreamInv /\ OwnLaunch /\ OwnRecords

LEMMA InitiallyExact == Init => ExactInv
<1>. SUFFICES ASSUME Init
              PROVE  ExactInv
  OBVIOUS
<1>1. Pristine(script) /\ script \in Seq(Frames)
  <2>1. PICK m \in {NKernels - 1, NKernels} : script = ScriptOf(m)
    BY DEF Init
  <2>2. m \in Nat /\ m <= NKernels
    BY ConstantsAssumption
  <2>. QED BY <2>1, <2>2, ScriptPristine, ScriptTyped
<1>2. Stream = script
  <2>1. ram = <<>> /\ raw = <<>>
    BY DEF Init
  <2>. QED BY <1>1, <2>1 DEF Stream
<1>3. StreamInv
  BY <1>1, <1>2 DEF StreamInv, Pristine
<1>4. OwnLaunch
  BY DEF Init, OwnLaunch, NoReader
<1>5. OwnRecords
  BY DEF Init, OwnRecords, NoAnalysis
<1>. QED BY <1>3, <1>4, <1>5 DEF ExactInv

(* What the other steps leave of the frames while they are captured.       *)
LEMMA FramesStay ==
  ASSUME IInv, [Next]_vars, ~EmitFrame, ~SamplerFault,
         ~(Capture /\ Admits(reader, Head(raw)))
  PROVE  /\ faults' = faults /\ ram' \in {ram, <<>>}
         /\ pc'["consumer"] \in {"none", "capture"} =>
               /\ pc["consumer"] \in {"none", "capture"}
               /\ UNCHANGED <<ram, raw, script, reader>>
<1>. "host" \in Child /\ "consumer" \in Child /\ "profiles" \in Child
  BY DEF Child
<1>. DEFINE Stays == /\ faults' = faults /\ ram' \in {ram, <<>>}
                     /\ pc'["consumer"] \in {"none", "capture"} =>
                           /\ pc["consumer"] \in {"none", "capture"}
                           /\ UNCHANGED <<ram, raw, script, reader>>
<1>1. pc \in [Child -> {"none", "run", "closed", "hung", "capture", "marker", "replay",
                        "read", "dead"}]
  BY DEF IInv, Types
<1>2. ASSUME ConsumerFails, ConsumerStays
      PROVE  Stays
  BY <1>1, <1>2 DEF ConsumerFails, ConsumerStays, ExitWith, Goto, sampler
<1>3. CASE ClosePipe \/ HostExits \/ BrokenPipe \/ HostHangs
  BY <1>1, <1>3 DEF ClosePipe, HostExits, BrokenPipe, HostHangs, HostStays, ExitWith, Goto,
                    sampler, consumer
<1>4. CASE Capture
  BY <1>2, <1>4 DEF Capture
<1>5. CASE CaptureEnds
  BY <1>1, <1>2, <1>5 DEF CaptureEnds, ConsumerStays, Goto, sampler, consumer
<1>6. CASE Qualify
  BY <1>1, <1>2, <1>6 DEF Qualify, ConsumerStays, Goto, sampler, consumer
<1>7. CASE MarkerTimeout
  BY <1>2, <1>7 DEF MarkerTimeout
<1>8. CASE Replay
  BY <1>1, <1>2, <1>8 DEF Replay, ConsumerStays, sampler
<1>9. CASE ReplayEnds
  BY <1>1, <1>9 DEF ReplayEnds, ConsumerStays, ExitWith, Goto, sampler
<1>10. CASE ReadRow
  BY <1>1, <1>10 DEF ReadRow, FitterStays, FitterFails, ExitWith, Goto, sampler, consumer
<1>11. CASE Commit
  BY <1>1, <1>11 DEF Commit, FitterStays, FitterFails, ExitWith, Goto, sampler, consumer
<1>12. CASE SpawnFitter \/ SpawnConsumer \/ SpawnHost
  <2>1. UNCHANGED <<sampler, raw, consumer>>
    BY <1>12 DEF SpawnFitter, SpawnConsumer, SpawnHost, Spawn, BossStays
  <2>2. SpawnConsumer => pc["consumer"] = "none"
    BY DEF SpawnConsumer, Spawn, IInv, ParentInv, Spawning
  <2>3. SpawnFitter \/ SpawnHost => pc'["consumer"] = pc["consumer"]
    BY <1>1 DEF SpawnFitter, SpawnHost, Spawn, Goto
  <2>. QED BY <1>12, <2>1, <2>2, <2>3 DEF sampler, consumer
<1>13. CASE ParentMoves
  <2>1. UNCHANGED <<sampler, raw, consumer, pc>>
    BY <1>13 DEF ParentMoves, While, MarkProducer, OutOfTime, PollStatus, Accept, Reaped,
                 Interrupted, BudgetSpent, BossStays
  <2>. QED BY <2>1 DEF sampler, consumer
<1>14. CASE Deaths
  <2>1. UNCHANGED <<sampler, raw, consumer>>
    BY <1>14 DEF Deaths, Killed, ChildDies, ChildCrashes, BossStays
  <2>2. pc'["consumer"] \in {pc["consumer"], "dead"}
    BY <1>1, <1>14 DEF Deaths, Killed, ChildDies, ChildCrashes, ExitWith, Goto
  <2>. QED BY <2>1, <2>2 DEF sampler, consumer
<1>15. CASE UNCHANGED vars
  BY <1>15 DEF vars, sampler, consumer
<1>. QED
  <2>1. Host => ClosePipe \/ HostExits \/ BrokenPipe \/ HostHangs
    BY DEF Host
  <2>2. Consumer => Capture \/ CaptureEnds \/ Qualify \/ Replay \/ ReplayEnds
    BY DEF Consumer
  <2>3. Fitter => ReadRow \/ Commit
    BY DEF Fitter
  <2>4. Boss \/ Interrupted \/ BudgetSpent =>
           ParentMoves \/ SpawnFitter \/ SpawnConsumer \/ SpawnHost
    BY DEF Boss, ParentMoves
  <2>5. Killed \/ (\E c \in Child : ChildDies(c) \/ ChildCrashes(c)) => Deaths
    BY DEF Deaths
  <2>6. Ended => UNCHANGED vars
    BY DEF Ended
  <2>7. CASE Next
    <3>1. CASE Host
      BY <1>3, <2>1, <3>1
    <3>2. CASE Consumer
      BY <1>4, <1>5, <1>6, <1>8, <1>9, <2>2, <3>2
    <3>3. CASE Fitter
      BY <1>10, <1>11, <2>3, <3>3
    <3>4. CASE Boss \/ Interrupted \/ BudgetSpent
      BY <1>12, <1>13, <2>4, <3>4
    <3>5. CASE Killed \/ (\E c \in Child : ChildDies(c) \/ ChildCrashes(c))
      BY <1>14, <2>5, <3>5
    <3>. QED BY <1>3, <1>7, <1>15, <2>6, <2>7, <3>1, <3>2, <3>3, <3>4, <3>5 DEF Next
  <2>. QED BY <1>15, <2>7

LEMMA StreamKeeps ==
  ASSUME IInv, StreamInv, [Next]_vars
  PROVE  StreamInv' /\ faults \in Nat /\ faults' \in Nat /\ faults <= faults'
<1>1. ram \in Seq(Frames) /\ raw \in Seq(Frames) /\ script \in Seq(Frames)
      /\ ram \o raw \in Seq(Frames) /\ faults \in Nat
  <2>1. ram \in Seq(Frames) /\ raw \in Seq(Frames) /\ script \in Seq(Frames)
        /\ faults \in 0..MaxFaults
    BY DEF IInv, Types
  <2>. QED BY <2>1, ConcatOf
<1>2. CASE EmitFrame
  <2>1. /\ script # <<>> /\ raw' = Append(raw, Head(script)) /\ script' = Tail(script)
        /\ UNCHANGED <<pc, faults, ram>>
    BY <1>2 DEF EmitFrame, HostStays, consumer
  <2>2. Head(script) \in Frames
    BY <1>1, <2>1, TailOf
  <2>3. ram \o Append(raw, Head(script)) = Append(ram \o raw, Head(script))
    BY <1>1, <2>2, MoveOneBehind
  <2>4. Append(ram \o raw, Head(script)) \o Tail(script) = (ram \o raw) \o script
    BY <1>1, <2>1, MoveOne
  <2>5. Stream' = Stream
    BY <2>1, <2>3, <2>4 DEF Stream
  <2>. QED BY <1>1, <2>1, <2>5 DEF StreamInv
<1>3. CASE SamplerFault
  <2>1. /\ script # <<>> /\ faults' = faults + 1 /\ UNCHANGED <<pc, ram, raw>>
        /\ \/ script' = Tail(script)
           \/ script' = <<Head(script)>> \o script
           \/ Len(script) > 1
              /\ script' = <<script[2], script[1]>> \o SubSeq(script, 3, Len(script))
    BY <1>3 DEF SamplerFault, HostStays, consumer
  <2>2. ASSUME pc'["consumer"] \in {"none", "capture"}, faults' <= 1
        PROVE  Follows(Stream')
    <3>1. Pristine((ram \o raw) \o script)
      BY <1>1, <2>1, <2>2 DEF StreamInv, Stream
    <3>2. Follows((ram \o raw) \o script')
      BY <1>1, <2>1, <3>1, FaultFollows
    <3>. QED BY <2>1, <3>2 DEF Stream
  <2>3. faults' # 0
    BY <1>1, <2>1
  <2>. QED BY <1>1, <2>1, <2>2, <2>3 DEF StreamInv
<1>4. CASE Capture /\ Admits(reader, Head(raw))
  <2>1. /\ raw # <<>> /\ raw' = Tail(raw) /\ ram' = Append(ram, Head(raw))
        /\ UNCHANGED <<pc, script, faults>>
    BY <1>4 DEF Capture, ConsumerStays, sampler
  <2>2. Append(ram, Head(raw)) \o Tail(raw) = ram \o raw
    BY <1>1, <2>1, MoveOne
  <2>3. Stream' = Stream
    BY <2>1, <2>2 DEF Stream
  <2>. QED BY <1>1, <2>1, <2>3 DEF StreamInv
<1>5. CASE ~EmitFrame /\ ~SamplerFault /\ ~(Capture /\ Admits(reader, Head(raw)))
  <2>1. /\ faults' = faults
        /\ pc'["consumer"] \in {"none", "capture"} =>
              /\ pc["consumer"] \in {"none", "capture"}
              /\ UNCHANGED <<ram, raw, script>>
    BY <1>5, FramesStay
  <2>2. pc'["consumer"] \in {"none", "capture"} => Stream' = Stream
    BY <2>1 DEF Stream
  <2>. QED BY <1>1, <2>1, <2>2 DEF StreamInv
<1>. QED BY <1>2, <1>3, <1>4, <1>5

(* A captured record is of the launch of the frame before it.              *)
LEMMA LaunchKeeps ==
  ASSUME IInv, StreamInv, OwnLaunch, [Next]_vars
  PROVE  OwnLaunch'
<1>1. ram \in Seq(Frames) /\ raw \in Seq(Frames) /\ script \in Seq(Frames)
      /\ Len(ram) \in Nat /\ DOMAIN ram = 1..Len(ram)
  BY DEF IInv, Types
<1>2. faults' <= 1 => faults <= 1
  BY StreamKeeps
<1>3. CASE EmitFrame \/ SamplerFault
  <2>1. UNCHANGED <<pc, ram, reader>>
    BY <1>3 DEF EmitFrame, SamplerFault, HostStays, consumer
  <2>. QED BY <1>2, <2>1 DEF OwnLaunch, OpenedBy
<1>4. CASE ~EmitFrame /\ ~SamplerFault /\ ~(Capture /\ Admits(reader, Head(raw)))
  <2>1. /\ ram' \in {ram, <<>>}
        /\ pc'["consumer"] \in {"none", "capture"} =>
              pc["consumer"] \in {"none", "capture"} /\ UNCHANGED <<ram, reader>>
    BY <1>4, FramesStay
  <2>2. ASSUME faults' <= 1, NEW i \in DOMAIN ram', ram'[i].kind = "record"
        PROVE  OpenedBy(ram', i, ram'[i].k)
    <3>1. ram' = ram
      BY <2>1, <2>2
    <3>. QED BY <1>2, <2>2, <3>1 DEF OwnLaunch
  <2>3. ASSUME faults' <= 1, pc'["consumer"] \in {"none", "capture"}, reader'.cur # 0
        PROVE  OpenedBy(ram', Len(ram'), reader'.cur) /\ ram'[Len(ram')].k = reader'.cur
    BY <1>2, <2>1, <2>3 DEF OwnLaunch
  <2>. QED BY <2>2, <2>3 DEF OwnLaunch
<1>5. CASE Capture /\ Admits(reader, Head(raw))
  <2>. DEFINE f == Head(raw)
              n == Len(ram)
  <2>1. /\ pc["consumer"] = "capture" /\ raw # <<>> /\ ram' = Append(ram, f)
        /\ reader' = Read(reader, f) /\ Admits(reader, f)
    BY <1>5 DEF Capture
  <2>2. f \in Frames /\ f = raw[1] /\ Len(raw) > 0 /\ Len(raw) \in Nat
    BY <1>1, <2>1, TailOf
  <2>. HIDE DEF f
  <2>3. /\ Len(ram') = n + 1 /\ DOMAIN ram' = 1..(n + 1) /\ ram'[n + 1] = f
        /\ \A i \in DOMAIN ram : ram'[i] = ram[i]
    BY <1>1, <2>1, <2>2, AppendOf
  <2>4. SUFFICES ASSUME faults' <= 1
                 PROVE  /\ \A i \in DOMAIN ram' :
                              ram'[i].kind = "record" => OpenedBy(ram', i, ram'[i].k)
                        /\ reader'.cur # 0 =>
                              OpenedBy(ram', Len(ram'), reader'.cur)
                              /\ ram'[Len(ram')].k = reader'.cur
    BY DEF OwnLaunch
  <2>5. ASSUME NEW i \in 1..n, NEW k, OpenedBy(ram, i, k)
        PROVE  OpenedBy(ram', i, k)
    <3>1. PICK b \in 1..i : /\ ram[b].kind = "begin" /\ ram[b].k = k
                            /\ \A a \in (b + 1)..i : ram[a].kind # "begin"
      BY <2>5 DEF OpenedBy
    <3>2. \A a \in 1..i : ram'[a] = ram[a]
      BY <1>1, <2>3
    <3>3. \A a \in (b + 1)..i : a \in 1..i
      BY <1>1
    <3>. QED BY <3>1, <3>2, <3>3 DEF OpenedBy
  <2>6. ASSUME f.kind = "record"
        PROVE  f.k = reader.cur /\ OpenedBy(ram', n + 1, f.k)
    <3>1. reader.cur # 0
      BY <2>1, <2>6 DEF Admits
    <3>2. ram # <<>> /\ ram[n].kind \in {"begin", "record"}
      BY <2>1, <3>1 DEF IInv, RamInv
    <3>3. OpenedBy(ram, n, reader.cur) /\ ram[n].k = reader.cur
      BY <1>2, <2>1, <2>4, <3>1 DEF OwnLaunch
    <3>4. SameLaunch(ram[n], f)
      <4>1. Follows(Stream)
        BY <1>2, <2>1, <2>4 DEF StreamInv
      <4>2. n > 0
        BY <1>1, <3>2
      <4>. DEFINE p == ram \o raw
      <4>3. /\ p \in Seq(Frames) /\ DOMAIN p = 1..(n + Len(raw))
            /\ \A i \in 1..(n + Len(raw)) : p[i] = IF i <= n THEN ram[i] ELSE raw[i - n]
        BY <1>1, ConcatOf
      <4>4. n \in 1..(n + Len(raw)) /\ n + 1 \in 1..(n + Len(raw)) /\ ~(n + 1 <= n)
            /\ (n + 1) - n = 1 /\ n <= n
        BY <1>1, <2>2, <4>2
      <4>5. p[n] = ram[n] /\ p[n + 1] = f
        BY <2>2, <4>3, <4>4
      <4>6. Len(p) = n + Len(raw)
        BY <1>1, <2>2, <4>3
      <4>. HIDE DEF p, n
      <4>7. /\ DOMAIN Stream = 1..(Len(p) + Len(script))
            /\ \A i \in 1..(Len(p) + Len(script)) :
                  Stream[i] = IF i <= Len(p) THEN p[i] ELSE script[i - Len(p)]
        BY <1>1, <4>3, ConcatOf DEF Stream, p
      <4>8. n \in 1..(Len(p) + Len(script)) /\ n + 1 \in 1..(Len(p) + Len(script))
            /\ n <= Len(p) /\ n + 1 <= Len(p)
        <5>1. Len(script) \in Nat /\ Len(p) \in Nat
          BY <1>1, <4>3
        <5>2. n \in Nat /\ n > 0 /\ n + 1 <= Len(p)
          BY <1>1, <2>2, <4>2, <4>6 DEF n
        <5>. QED BY <5>1, <5>2
      <4>9. Stream[n] = ram[n] /\ Stream[n + 1] = f /\ n + 1 \in DOMAIN Stream
        BY <4>5, <4>7, <4>8
      <4>10. PICK j \in DOMAIN Stream : j = n + 1
        BY <4>9
      <4>11. j > 1 /\ j - 1 = n
        <5>1. n \in Nat /\ n > 0
          BY <1>1, <4>2 DEF n
        <5>. QED BY <4>10, <5>1
      <4>12. SameLaunch(Stream[j - 1], Stream[j])
        BY <4>1, <4>10, <4>11 DEF Follows
      <4>. QED BY <4>9, <4>10, <4>11, <4>12
    <3>5. f.k = reader.cur
      BY <2>6, <3>2, <3>3, <3>4 DEF SameLaunch
    <3>6. PICK b \in 1..n : /\ ram[b].kind = "begin" /\ ram[b].k = f.k
                            /\ \A a \in (b + 1)..n : ram[a].kind # "begin"
      BY <3>3, <3>5 DEF OpenedBy
    <3>7. ASSUME NEW a \in (b + 1)..(n + 1)
          PROVE  ram'[a].kind # "begin"
      <4>1. CASE a = n + 1
        BY <2>3, <2>6, <4>1
      <4>2. CASE a # n + 1
        <5>1. a \in (b + 1)..n /\ a \in DOMAIN ram
          BY <1>1, <4>2
        <5>. QED BY <2>3, <3>6, <5>1
      <4>. QED BY <4>1, <4>2
    <3>8. b \in 1..(n + 1) /\ ram'[b] = ram[b]
      BY <1>1, <2>3
    <3>. QED BY <3>5, <3>6, <3>7, <3>8 DEF OpenedBy
  <2>7. ASSUME f.kind = "begin"
        PROVE  OpenedBy(ram', n + 1, f.k)
    <3>1. n + 1 \in 1..(n + 1) /\ \A a \in ((n + 1) + 1)..(n + 1) : FALSE
      BY <1>1
    <3>. QED BY <2>3, <2>7, <3>1 DEF OpenedBy
  <2>8. ASSUME NEW i \in DOMAIN ram', ram'[i].kind = "record"
        PROVE  OpenedBy(ram', i, ram'[i].k)
    <3>1. CASE i = n + 1
      BY <2>3, <2>6, <2>8, <3>1
    <3>2. CASE i # n + 1
      <4>1. i \in 1..n /\ ram'[i] = ram[i] /\ i \in DOMAIN ram
        BY <1>1, <2>3, <3>2
      <4>2. OpenedBy(ram, i, ram[i].k)
        BY <1>2, <2>4, <2>8, <4>1 DEF OwnLaunch
      <4>. QED BY <2>5, <4>1, <4>2
    <3>. QED BY <3>1, <3>2
  <2>9. ASSUME reader'.cur # 0
        PROVE  OpenedBy(ram', Len(ram'), reader'.cur) /\ ram'[Len(ram')].k = reader'.cur
    <3>1. f.kind \in {"begin", "record"}
      BY <2>1, <2>2, <2>9, ReadTyped DEF IInv
    <3>2. reader \in [hello : BOOLEAN, static : BOOLEAN, cur : Kernel \cup {0}, records : Nat,
                      keys : SUBSET Kernel, kernels : Nat, total : Nat, closed : BOOLEAN]
      BY DEF IInv, Types
    <3>3. CASE f.kind = "begin"
      <4>1. reader'.cur = f.k
        BY <2>1, <3>2, <3>3 DEF Read
      <4>. QED BY <2>3, <2>7, <3>3, <4>1
    <3>4. CASE f.kind = "record"
      <4>1. reader'.cur = reader.cur
        BY <2>1, <3>2, <3>4 DEF Read
      <4>. QED BY <2>3, <2>6, <3>4, <4>1
    <3>. QED BY <3>1, <3>3, <3>4
  <2>. QED BY <2>8, <2>9
<1>. QED BY <1>3, <1>4, <1>5

(* A record is replayed in the launch it was captured in, its own.         *)
LEMMA RowOwn ==
  ASSUME IInv, OwnLaunch, faults <= 1, cursor <= Len(ram), Replayed(cursor),
         RowOf(cursor).kind = "record"
  PROVE  RowOf(cursor).id[1] = RowOf(cursor).k
<1>. DEFINE begun == {b \in 1..cursor : ram[b].kind = "begin"}
            last == CHOOSE b \in begun : \A a \in begun : a <= b
<1>1. cursor \in Nat /\ cursor # 0 /\ cursor \in DOMAIN ram /\ ram[cursor].kind = "record"
  BY RowTyped DEF IInv, Types
<1>2. RowOf(cursor) = [kind |-> ram[cursor].kind, k |-> ram[last].k, n |-> ram[cursor].n,
                       id |-> <<ram[cursor].k, ram[cursor].n>>]
  BY <1>1 DEF RowOf
<1>3. PICK b \in 1..cursor : /\ ram[b].kind = "begin" /\ ram[b].k = ram[cursor].k
                             /\ \A a \in (b + 1)..cursor : ram[a].kind # "begin"
  BY <1>1 DEF OwnLaunch, OpenedBy
<1>4. b \in begun /\ begun \in SUBSET (0..cursor)
  BY <1>1, <1>3
<1>5. last \in begun /\ \A a \in begun : a <= last
  <2>1. \E x \in begun : \A a \in begun : a <= x
    <3>. HIDE DEF begun
    <3>. QED BY <1>1, <1>4, GreatestOf
  <2>. HIDE DEF begun
  <2>. QED BY <2>1
<1>6. b <= last /\ last \in 1..cursor /\ ram[last].kind = "begin"
  BY <1>4, <1>5
<1>. HIDE DEF last, begun
<1>7. last = b
  <2>1. ~(last \in (b + 1)..cursor)
    BY <1>3, <1>6
  <2>. QED BY <1>1, <1>3, <1>6, <2>1
<1>. QED BY <1>2, <1>3, <1>7

(* What the fitter reads, and what it makes of it, is the launch's own.    *)
LEMMA ReadRowOwn ==
  ASSUME IInv, OwnRecords, ReadRow, faults <= 1
  PROVE  OwnRecords'
<1>. DEFINE row == Head(proj)
            admitted == RowAdmitted(analysis, row)
                          /\ (row.kind = "end" => Analyzed(analysis, row).retained = 0)
<1>1. proj # <<>> /\ proj' = Tail(proj) /\ proj \in Seq(ProjectionRow)
  BY DEF ReadRow, RowWaiting, IInv, Types
<1>2. /\ row \in ProjectionRow /\ 1 \in DOMAIN proj /\ row = proj[1]
      /\ \A i \in DOMAIN proj' : i + 1 \in DOMAIN proj /\ proj'[i] = proj[i + 1]
  BY <1>1, TailOf
<1>3. /\ \A i \in DOMAIN proj : proj[i].kind = "record" => proj[i].id[1] = proj[i].k
      /\ \A i \in DOMAIN analysis.records : analysis.records[i][1] = analysis.cur
      /\ \A i \in DOMAIN rows : \A j \in DOMAIN rows[i].data : rows[i].data[j][1] = rows[i].k
  BY DEF OwnRecords
<1>4. /\ analysis \in Analysis /\ analysis.records \in Seq(Nat \X Nat) /\ rows \in Seq(ProfileRow)
  BY DEF IInv, Types, Analysis
<1>5. \A i \in DOMAIN proj' : proj'[i].kind = "record" => proj'[i].id[1] = proj'[i].k
  BY <1>2, <1>3
<1>6. row.kind = "record" => row.id[1] = row.k
  BY <1>2, <1>3
<1>. HIDE DEF row
<1>7. CASE ~admitted
  <2>1. /\ rows' = [i \in DOMAIN rows |-> Demoted(rows[i])] /\ analysis' = analysis
    BY <1>7 DEF ReadRow, FitterFails, row
  <2>2. ASSUME NEW i \in DOMAIN rows
        PROVE  rows'[i].k = rows[i].k /\ rows'[i].data = rows[i].data
    <3>1. rows[i] \in ProfileRow /\ rows'[i] = Demoted(rows[i])
      BY <1>4, <2>1
    <3>. QED BY <3>1 DEF Demoted, ProfileRow
  <2>3. DOMAIN rows' = DOMAIN rows
    BY <2>1
  <2>. QED BY <1>3, <1>5, <2>1, <2>2, <2>3 DEF OwnRecords
<1>8. CASE admitted
  <2>1. /\ RowAdmitted(analysis, row) /\ analysis' = Analyzed(analysis, row)
        /\ rows' = IF row.kind = "end" /\ ~analysis.error
                   THEN Append(rows, FitRow(analysis, row.k)) ELSE rows
    BY <1>8 DEF ReadRow, row
  <2>. HIDE DEF admitted
  <2>2. row.kind \in {"header", "begin", "record", "end"} /\ row.id \in Nat \X Nat
    BY <1>2 DEF ProjectionRow
  <2>3. ASSUME NEW i \in DOMAIN analysis'.records
        PROVE  analysis'.records[i][1] = analysis'.cur
    <3>1. CASE row.kind = "header"
      <4>1. analysis'.records = analysis.records /\ analysis'.cur = analysis.cur
        BY <1>4, <2>1, <3>1 DEF Analyzed, Analysis
      <4>. QED BY <1>3, <2>3, <4>1
    <3>2. CASE row.kind \in {"begin", "end"}
      <4>1. analysis'.records = <<>>
        BY <1>4, <2>1, <3>2 DEF Analyzed, Analysis
      <4>. QED BY <2>3, <4>1
    <3>3. CASE row.kind = "record"
      <4>1. analysis'.records = Held(analysis, row) /\ analysis'.cur = analysis.cur
        BY <1>4, <2>1, <3>3 DEF Analyzed, Analysis
      <4>2. row.k = analysis.cur
        BY <2>1, <3>3 DEF RowAdmitted
      <4>3. CASE Held(analysis, row) = <<>>
        BY <2>3, <4>1, <4>3
      <4>4. CASE Held(analysis, row) = Append(analysis.records, row.id)
        <5>. DEFINE s == analysis.records
                    x == row.id
        <5>0. s \in Seq(Nat \X Nat) /\ x \in Nat \X Nat /\ analysis'.records = Append(s, x)
          BY <1>4, <2>2, <4>1, <4>4
        <5>. HIDE DEF s, x
        <5>1. /\ DOMAIN analysis'.records = 1..(Len(s) + 1) /\ DOMAIN s = 1..Len(s)
              /\ analysis'.records[Len(s) + 1] = x
              /\ \A j \in DOMAIN s : analysis'.records[j] = s[j]
          BY <5>0, AppendOf
        <5>. USE DEF s, x
        <5>2. CASE i \in DOMAIN analysis.records
          BY <1>3, <4>1, <5>1, <5>2
        <5>3. CASE i \notin DOMAIN analysis.records
          <6>1. Len(analysis.records) \in Nat
            BY <1>4
          <6>2. i = Len(analysis.records) + 1
            BY <2>3, <5>1, <5>3, <6>1
          <6>. QED BY <1>6, <3>3, <4>1, <4>2, <5>1, <6>2
        <5>. QED BY <5>2, <5>3
      <4>. QED BY <4>3, <4>4 DEF Held
    <3>. QED BY <2>2, <3>1, <3>2, <3>3
  <2>4. ASSUME NEW i \in DOMAIN rows', NEW j \in DOMAIN rows'[i].data
        PROVE  rows'[i].data[j][1] = rows'[i].k
    <3>1. CASE rows' = rows
      BY <1>3, <2>4, <3>1
    <3>2. CASE row.kind = "end" /\ ~analysis.error
      <4>. DEFINE r == FitRow(analysis, row.k)
      <4>1. row.k = analysis.cur /\ analysis.cur \in Kernel
        <5>1. row.k = analysis.cur /\ analysis.cur # 0
          BY <2>1, <3>2 DEF RowAdmitted
        <5>. QED BY <1>4, <5>1 DEF Analysis
      <4>2. r.k = analysis.cur /\ r.data = analysis.records /\ r \in ProfileRow
        BY <1>4, <4>1 DEF FitRow, ProfileRow
      <4>3. rows' = Append(rows, r)
        BY <2>1, <3>2
      <4>. HIDE DEF r
      <4>4. /\ DOMAIN rows' = 1..(Len(rows) + 1) /\ DOMAIN rows = 1..Len(rows)
            /\ rows'[Len(rows) + 1] = r /\ \A l \in DOMAIN rows : rows'[l] = rows[l]
            /\ Len(rows) \in Nat
        BY <1>4, <4>2, <4>3, AppendOf
      <4>5. CASE i \in DOMAIN rows
        BY <1>3, <2>4, <4>4, <4>5
      <4>6. CASE i \notin DOMAIN rows
        <5>1. i = Len(rows) + 1 /\ rows'[i] = r
          BY <4>4, <4>6
        <5>. QED BY <1>3, <2>4, <4>2, <5>1
      <4>. QED BY <4>5, <4>6
    <3>. QED BY <2>1, <3>1, <3>2
  <2>. QED BY <1>5, <2>3, <2>4 DEF OwnRecords
<1>. QED BY <1>7, <1>8

(* The commit keeps the rows' records; the rows it adds have none.         *)
LEMMA CommitOwn ==
  ASSUME IInv, OwnRecords, Commit, faults <= 1
  PROVE  OwnRecords'
<1>1. proj' = proj /\ analysis' = analysis
  BY DEF Commit, FitterFails
<1>2. /\ \A i \in DOMAIN proj : proj[i].kind = "record" => proj[i].id[1] = proj[i].k
      /\ \A i \in DOMAIN analysis.records : analysis.records[i][1] = analysis.cur
      /\ \A i \in DOMAIN rows : \A j \in DOMAIN rows[i].data : rows[i].data[j][1] = rows[i].k
  BY DEF OwnRecords
<1>3. rows \in Seq(ProfileRow) /\ profiles = "none" /\ pc["profiles"] = "read"
  BY DEF Commit, IInv, FitInv, Types
<1>4. CASE ~Commits
  <2>1. rows' = [i \in DOMAIN rows |-> Demoted(rows[i])]
    BY <1>4 DEF Commit, FitterFails
  <2>2. ASSUME NEW i \in DOMAIN rows
        PROVE  rows'[i].k = rows[i].k /\ rows'[i].data = rows[i].data
    <3>1. rows[i] \in ProfileRow /\ rows'[i] = Demoted(rows[i])
      BY <1>3, <2>1
    <3>. QED BY <3>1 DEF Demoted, ProfileRow
  <2>3. DOMAIN rows' = DOMAIN rows
    BY <2>1
  <2>. QED BY <1>1, <1>2, <2>2, <2>3 DEF OwnRecords
<1>5. CASE Commits
  <2>. DEFINE kept == [i \in DOMAIN rows |->
                         IF rows[i].status = "PROVISIONAL"
                         THEN [rows[i] EXCEPT !.status = "PASS"] ELSE rows[i]]
  <2>1. rows' = kept \o BeforePacking
    BY <1>5 DEF Commit
  <2>2. ASSUME NEW i \in DOMAIN rows
        PROVE  kept[i] \in ProfileRow /\ kept[i].k = rows[i].k /\ kept[i].data = rows[i].data
    <3>1. rows[i] \in ProfileRow
      BY <1>3
    <3>2. kept[i] = IF rows[i].status = "PROVISIONAL"
                    THEN [rows[i] EXCEPT !.status = "PASS"] ELSE rows[i]
      OBVIOUS
    <3>. HIDE DEF kept
    <3>3. [rows[i] EXCEPT !.status = "PASS"] \in ProfileRow
      BY <3>1 DEF ProfileRow
    <3>. QED BY <3>1, <3>2, <3>3 DEF ProfileRow
  <2>3. kept \in Seq(ProfileRow) /\ Len(kept) = Len(rows) /\ DOMAIN kept = DOMAIN rows
    <3>1. kept \in [1..Len(rows) -> ProfileRow] /\ Len(rows) \in Nat
      BY <1>3, <2>2
    <3>. QED BY <1>3, <3>1
  <2>. HIDE DEF kept
  <2>4. BeforePacking \in Seq(ProfileRow)
    BY <1>3, PackingRows
  <2>5. \A j \in DOMAIN BeforePacking : BeforePacking[j].data = <<>>
    BY DEF BeforePacking
  <2>6. /\ DOMAIN rows' = 1..(Len(kept) + Len(BeforePacking))
        /\ \A i \in 1..(Len(kept) + Len(BeforePacking)) :
              rows'[i] = IF i <= Len(kept) THEN kept[i] ELSE BeforePacking[i - Len(kept)]
    <3>. DEFINE s == rows'
                t == BeforePacking
    <3>1. kept \in Seq(ProfileRow) /\ t \in Seq(ProfileRow) /\ s = kept \o t
      BY <2>1, <2>3, <2>4
    <3>. HIDE DEF s, t
    <3>2. /\ DOMAIN s = 1..(Len(kept) + Len(t))
          /\ \A i \in 1..(Len(kept) + Len(t)) :
                s[i] = IF i <= Len(kept) THEN kept[i] ELSE t[i - Len(kept)]
      BY <3>1, ConcatOf
    <3>. QED BY <3>2 DEF s, t
  <2>7. ASSUME NEW i \in DOMAIN rows', NEW j \in DOMAIN rows'[i].data
        PROVE  rows'[i].data[j][1] = rows'[i].k
    <3>1. CASE i <= Len(kept)
      <4>1. i \in DOMAIN kept /\ rows'[i] = kept[i]
        BY <2>3, <2>6, <3>1
      <4>. QED BY <1>2, <2>2, <2>3, <2>7, <4>1
    <3>2. CASE ~(i <= Len(kept))
      <4>1. i - Len(kept) \in DOMAIN BeforePacking /\ rows'[i] = BeforePacking[i - Len(kept)]
        BY <2>3, <2>4, <2>6, <3>2
      <4>2. rows'[i].data = <<>>
        BY <2>5, <4>1
      <4>. QED BY <2>7, <4>2
    <3>. QED BY <3>1, <3>2
  <2>. QED BY <1>1, <1>2, <2>7 DEF OwnRecords
<1>. QED BY <1>4, <1>5

LEMMA RecordsKeep ==
  ASSUME IInv, StreamInv, OwnLaunch, OwnRecords, [Next]_vars
  PROVE  OwnRecords'
<1>1. SUFFICES ASSUME faults' <= 1
               PROVE  OwnRecords'
  BY DEF OwnRecords
<1>2. faults <= 1
  BY <1>1, StreamKeeps
<1>3. ASSUME UNCHANGED <<proj, analysis, rows>>
      PROVE  OwnRecords'
  BY <1>2, <1>3 DEF OwnRecords
<1>4. CASE Replay
  <2>1. UNCHANGED <<analysis, rows>>
    BY <1>4 DEF Replay, ConsumerStays, fitter
  <2>2. CASE proj' = proj
    BY <1>3, <2>1, <2>2
  <2>3. CASE proj' # proj
    <3>1. Replayed(cursor) /\ proj' = Append(proj, RowOf(cursor)) /\ cursor <= Len(ram)
      BY <1>4, <2>3 DEF Replay
    <3>2. RowOf(cursor) \in ProjectionRow /\ proj \in Seq(ProjectionRow)
      BY <3>1, RowTyped DEF IInv, Types
    <3>3. RowOf(cursor).kind = "record" => RowOf(cursor).id[1] = RowOf(cursor).k
      BY <1>2, <3>1, RowOwn
    <3>4. /\ DOMAIN proj' = 1..(Len(proj) + 1) /\ DOMAIN proj = 1..Len(proj)
          /\ proj'[Len(proj) + 1] = RowOf(cursor)
          /\ \A i \in DOMAIN proj : proj'[i] = proj[i]
          /\ Len(proj) \in Nat
      BY <3>1, <3>2, AppendOf
    <3>5. ASSUME NEW i \in DOMAIN proj', proj'[i].kind = "record"
          PROVE  proj'[i].id[1] = proj'[i].k
      <4>1. CASE i \in DOMAIN proj
        BY <1>2, <3>4, <3>5, <4>1 DEF OwnRecords
      <4>2. CASE i \notin DOMAIN proj
        <5>1. proj'[i] = RowOf(cursor)
          BY <3>4, <4>2
        <5>. QED BY <3>3, <3>5, <5>1
      <4>. QED BY <4>1, <4>2
    <3>. QED BY <1>2, <2>1, <3>5 DEF OwnRecords
  <2>. QED BY <2>2, <2>3
<1>5. CASE ReadRow
  BY <1>2, <1>5, ReadRowOwn
<1>6. CASE Commit
  BY <1>2, <1>6, CommitOwn
<1>7. CASE HostMoves
  <2>1. HostStays
    BY <1>7 DEF HostMoves, Host, EmitFrame, ClosePipe, HostExits, BrokenPipe, SamplerFault,
                HostHangs
  <2>. QED BY <1>3, <2>1 DEF HostStays, fitter
<1>8. CASE Capture \/ CaptureEnds \/ Qualify \/ ReplayEnds \/ MarkerTimeout
  <2>1. ConsumerStays /\ UNCHANGED proj
    BY <1>8 DEF Capture, CaptureEnds, Qualify, ReplayEnds, MarkerTimeout
  <2>. QED BY <1>3, <2>1 DEF ConsumerStays, fitter
<1>9. CASE Boss \/ Interrupted \/ BudgetSpent \/ Deaths
  <2>1. BossStays
    BY <1>9 DEF Boss, SpawnFitter, SpawnConsumer, SpawnHost, Spawn, While, MarkProducer,
                OutOfTime, PollStatus, Accept, Reaped, Interrupted, BudgetSpent, Deaths,
                Killed, ChildDies, ChildCrashes
  <2>. QED BY <1>3, <2>1 DEF BossStays, fitter
<1>10. CASE UNCHANGED vars
  BY <1>3, <1>10 DEF vars, fitter
<1>. QED BY <1>4, <1>5, <1>6, <1>7, <1>8, <1>9, <1>10
         DEF Next, Consumer, Fitter, Ended, HostMoves, Deaths

(* With at most one fault a published pass means what PassMeansExact says: *)
(* each launch is fitted once, and each that is fitted, from just the      *)
(* records the device pushed for it, in their order.                       *)
THEOREM ExactPass == Spec => [](faults <= 1 => PassMeansExact)
<1>1. ExactInv /\ IInv /\ [Next]_vars => ExactInv'
  BY StreamKeeps, LaunchKeeps, RecordsKeep DEF ExactInv
<1>2. ASSUME IInv, ExactInv, faults <= 1, result = "PASS"
      PROVE  PassMeansExact
  <2>1. ASSUME NEW i \in DOMAIN rows, rows[i].status \in {"PASS", "REJECTED"}
        PROVE  rows[i].data = Exact(rows[i].k)
    <3>1. rows[i].data \in Seq(Nat \X Nat)
      <4>1. rows[i] \in ProfileRow
        BY <1>2 DEF IInv, Types
      <4>. QED BY <4>1 DEF ProfileRow
    <3>2. Len(rows[i].data) = NRecords /\ Numbered(rows[i].data)
      BY <1>2, <2>1, CompletePass DEF PassMeansComplete
    <3>3. \A j \in DOMAIN rows[i].data : rows[i].data[j][1] = rows[i].k
      BY <1>2 DEF ExactInv, OwnRecords
    <3>4. DOMAIN rows[i].data = 1..NRecords
      BY <3>1, <3>2
    <3>5. rows[i].data \in [1..NRecords -> Nat \X Nat]
      BY <3>1, <3>2
    <3>6. ASSUME NEW j \in 1..NRecords
          PROVE  rows[i].data[j] = <<rows[i].k, j - 1>>
      <4>1. rows[i].data[j] \in Nat \X Nat
        BY <3>5
      <4>2. rows[i].data[j][1] = rows[i].k /\ rows[i].data[j][2] = j - 1
        BY <3>2, <3>3, <3>4 DEF Numbered
      <4>. QED BY <4>1, <4>2
    <3>. DEFINE d == rows[i].data
                q == rows[i].k
    <3>7. d \in [1..NRecords -> Nat \X Nat] /\ \A j \in 1..NRecords : d[j] = <<q, j - 1>>
      BY <3>5, <3>6
    <3>. HIDE DEF d, q
    <3>8. d = [j \in 1..NRecords |-> <<q, j - 1>>]
      BY <3>7
    <3>. QED BY <3>8 DEF Exact, d, q
  <2>. QED BY <1>2, <2>1, CompletePass DEF PassMeansComplete, PassMeansExact
<1>3. IInv /\ ExactInv => (faults <= 1 => PassMeansExact)
  BY <1>2 DEF PassMeansExact
<1>4. Spec => []ExactInv
  BY Invariance, InitiallyExact, <1>1, PTL DEF Spec
<1>. QED BY Invariance, <1>3, <1>4, PTL
=============================================================================
