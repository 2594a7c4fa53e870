------------------------ MODULE ProfileRunner_proofs ------------------------
(***************************************************************************)
(* The inductive invariant of ProfileRunner and the theorems it gives, for *)
(* every length of the plan, every pool, window and progress interval.     *)
(***************************************************************************)
EXTENDS ProfileRunner, FiniteSetTheorems, TLAPS

(* Where the main thread has not yet raised nor ended.                     *)
Pulling == {"start", "submit_all", "fill", "pull"}
Writing == {"pack", "index", "progress", "resume"}
Closing == {"close", "verdict", "passed"}
Broken == {"except", "cancelled", "failed", "killed"}

(* Rows whose result the writer was handed.                                *)
Handed == IF pc \in Writing THEN Head1 ELSE nextEmit

(* The files are the first kernels of the plan, a row apart at most, and   *)
(* their lengths tell how far the writer is.                               *)
FilesInv ==
    /\ \A i \in DOMAIN pack : pack[i] = i
    /\ \A i \in DOMAIN index : index[i] = [kernel |-> i, offset |-> i]
    /\ pc \in Pulling \cup {"pack"} \cup Closing
         => Len(pack) = nextEmit /\ Len(index) = nextEmit
    /\ pc = "index" => Len(pack) = Head1 /\ Len(index) = nextEmit
    /\ pc \in {"progress", "resume"} => Len(pack) = Head1 /\ Len(index) = Head1
    /\ pc \in Broken => /\ nextEmit <= Len(index)
                        /\ Len(index) <= Len(pack) /\ Len(pack) <= Len(index) + 1
    /\ pc \in Writing => nextEmit < NRows
    /\ pc \in Closing => nextEmit = NRows

(* The manifest counts what is indexed, and its status is the thread's.    *)
CountInv ==
    /\ manifest.completed <= done /\ done <= Len(index)
    /\ pc \in Pulling \cup {"pack", "index", "progress"} => done = nextEmit
    /\ pc = "resume" => done = Head1
    /\ pc \in Closing => done = NRows
    /\ manifest.status = "PASS" <=> pc = "passed"
    /\ manifest.status = "FAIL" <=> pc = "failed"
    /\ pc = "passed" => manifest.completed = done

(* No row is handed to the writer, or held for it, but a profile.          *)
ResultsInv ==
    /\ runner = "serial" => /\ \A r \in Row : fut[r] = "none"
                            /\ pc \notin {"submit_all", "fill"}
    /\ runner # "serial" => \A r \in 1..Handed : fut[r] = "ok"
    /\ pc \notin Broken => \A r \in completed : fut[r] = "ok"
    /\ pc \in {"start", "submit_all", "fill"} =>
          nextEmit = 0 /\ nextSubmit = 0 /\ pending = {} /\ completed = {}

(* In the bounded runner the rows submitted and not handed out are those   *)
(* waited for and those held; all of them fit in the window.               *)
WindowInv ==
    /\ pc = "submit_all" => runner = "map"
    /\ runner # "bounded" => pending = {} /\ completed = {} /\ pc # "fill"
    /\ runner = "bounded" =>
          /\ nextSubmit - nextEmit <= Window
          /\ pc \in Pulling \cup Writing =>
                /\ pending \cap completed = {}
                /\ pending \cup completed = (Handed + 1)..nextSubmit
                /\ Handed <= nextSubmit

IInv == TypeOK /\ FilesInv /\ CountInv /\ ResultsInv /\ WindowInv

-----------------------------------------------------------------------------
(* Sets of rows.                                                           *)

(* The rows of the plan are finitely many, and so is every set of them.    *)
LEMMA RowsFinite ==
  /\ NRows \in Nat /\ Window \in Nat
  /\ IsFiniteSet(Row)
  /\ \A S \in SUBSET Row : IsFiniteSet(S) /\ Cardinality(S) \in Nat
<1>1. NRows \in Nat /\ Workers \in Nat \ {0}
  BY ConstantsAssumption
<1>2. IsFiniteSet(Row)
  BY <1>1, FS_Interval DEF Row
<1>3. ASSUME NEW S \in SUBSET Row
      PROVE  IsFiniteSet(S) /\ Cardinality(S) \in Nat
  BY <1>2, <1>3, FS_Subset, FS_CardinalityType
<1>. QED BY <1>1, <1>2, <1>3 DEF Window

(* Two disjoint sets of rows that make up an interval count its rows.      *)
LEMMA PartitionCounts ==
  ASSUME NEW P \in SUBSET Row, NEW C \in SUBSET Row,
         NEW a \in Nat, NEW b \in Nat, a <= b,
         P \cap C = {}, P \cup C = (a + 1)..b
  PROVE  Cardinality(P) + Cardinality(C) = b - a
<1>1. /\ IsFiniteSet(P) /\ Cardinality(P) \in Nat
      /\ IsFiniteSet(C) /\ Cardinality(C) \in Nat
  BY RowsFinite
<1>2. Cardinality(P \cup C) = Cardinality(P) + Cardinality(C)
  <2>1. Cardinality(P \cup C)
          = Cardinality(P) + Cardinality(C) - Cardinality(P \cap C)
    BY <1>1, FS_Union, Zenon
  <2>2. Cardinality(P \cap C) = 0
    BY FS_EmptySet
  <2>. QED BY <1>1, <2>1, <2>2
<1>3. Cardinality((a + 1)..b) = b - a
  <2>1. a + 1 \in Int /\ b \in Int
    OBVIOUS
  <2>2. Cardinality((a + 1)..b) = IF a + 1 > b THEN 0 ELSE b - (a + 1) + 1
    BY <2>1, FS_Interval, Zenon
  <2>. QED BY <2>2
<1>. QED BY <1>1, <1>2, <1>3

(* A call of fill() on a window that is not overfull leaves it so: the     *)
(* rows it submits are the next ones, and they fit.                        *)
LEMMA FillRoom ==
  ASSUME NEW P \in SUBSET Row, NEW C \in SUBSET Row,
         NEW a \in Nat, NEW b \in 0..NRows, a <= b, b - a <= Window,
         P \cap C = {}, P \cup C = (a + 1)..b
  PROVE  LET last == FillTo(b, P, C)
         IN  /\ last \in b..NRows
             /\ last - a <= Window
<1>1. /\ NRows \in Nat /\ Window \in Nat
      /\ Cardinality(P) \in Nat /\ Cardinality(C) \in Nat
  BY RowsFinite
<1>2. Cardinality(P) + Cardinality(C) = b - a
  BY PartitionCounts, <1>1
<1>. QED BY <1>1, <1>2 DEF FillTo

-----------------------------------------------------------------------------
(* Each action keeps the invariant.                                        *)

(* A step of the pool: futures change, results stay results.               *)
LEMMA PoolKeeps ==
  ASSUME IInv, Pool PROVE IInv'
<1>1. UNCHANGED <<runner, pc, generator, files, done>>
  BY DEF Pool, WorkerTakes, WorkerReturns, WorkerDies
<1>2. /\ fut' \in [Row -> {"none", "queued", "running", "ok", "failed", "cancelled"}]
      /\ broken' \in BOOLEAN
      /\ \A r \in Row : fut[r] \in {"none", "ok"} => fut'[r] = fut[r]
  BY DEF IInv, TypeOK, Pool, WorkerTakes, WorkerReturns, WorkerDies, BuildOutcome
<1>3. Row = 1..NRows /\ NRows \in Nat
  BY RowsFinite DEF Row
<1>4. TypeOK' /\ FilesInv' /\ CountInv'
  BY <1>1, <1>2 DEF IInv, TypeOK, FilesInv, CountInv, generator, files, Head1
<1>5. 1..Handed \subseteq Row
  BY <1>3 DEF IInv, TypeOK, FilesInv, Handed, Head1
<1>6. ResultsInv'
  BY <1>1, <1>2, <1>3, <1>5
     DEF IInv, TypeOK, ResultsInv, generator, files, Handed, Head1
<1>7. WindowInv'
  BY <1>1 DEF IInv, WindowInv, generator, files, Handed, Head1
<1>. QED BY <1>4, <1>6, <1>7 DEF IInv

(* Leaving the try block, by a raise or a kill, is possible anywhere: the  *)
(* files need not have caught up with each other.                          *)
LEMMA BrokenKeeps ==
  ASSUME IInv, pc \notin {"passed", "failed", "killed"},
         pc' \in {"except", "killed"},
         UNCHANGED <<runner, pool, generator, files, done>>
  PROVE  IInv'
<1>1. TypeOK'
  BY DEF IInv, TypeOK, pool, generator, files
<1>2. nextEmit \in Nat /\ Len(pack) \in Nat /\ Len(index) \in Nat
  BY RowsFinite DEF IInv, TypeOK
<1>3. FilesInv'
  BY <1>2 DEF IInv, TypeOK, FilesInv, Pulling, Writing, Closing, Broken,
              pool, generator, files, Head1
<1>4. CountInv'
  BY <1>2 DEF IInv, TypeOK, FilesInv, CountInv, Pulling, Closing, generator, files, Head1
<1>5. Handed' = nextEmit /\ nextEmit <= Handed
  BY <1>2 DEF Handed, Writing, generator, Head1
<1>6. ResultsInv'
  BY <1>2, <1>5 DEF IInv, TypeOK, ResultsInv, Broken, pool, generator, Handed, Head1
<1>7. WindowInv'
  BY <1>2, <1>5 DEF IInv, WindowInv, Pulling, Writing, pool, generator
<1>. QED BY <1>1, <1>3, <1>4, <1>6, <1>7 DEF IInv

(* fill() submits the rows after the last one submitted, and no result     *)
(* that is there changes.                                                  *)
LEMMA FillEffect ==
  ASSUME TypeOK, NEW P \in SUBSET Row, NEW C \in SUBSET Row, NEW a \in Nat,
         a <= nextSubmit, nextSubmit - a <= Window,
         P \cap C = {}, P \cup C = (a + 1)..nextSubmit,
         Fill(P, C, "pull")
  PROVE  /\ pc' \in {"pull", "except"}
         /\ nextSubmit' \in nextSubmit..NRows /\ nextSubmit' - a <= Window
         /\ completed' = C /\ pending' \subseteq Row
         /\ fut' \in [Row -> {"none", "queued", "running", "ok", "failed", "cancelled"}]
         /\ \A r \in 1..nextSubmit : fut'[r] = fut[r]
         /\ pc' = "pull" => /\ pending' \cap C = {}
                            /\ pending' \cup C = (a + 1)..nextSubmit'
<1>. DEFINE last == FillTo(nextSubmit, P, C)
            new == (nextSubmit + 1)..last
<1>1. /\ NRows \in Nat /\ Window \in Nat /\ nextSubmit \in 0..NRows /\ Row = 1..NRows
  BY RowsFinite DEF TypeOK, Row
<1>2. last \in nextSubmit..NRows /\ last - a <= Window
  BY <1>1, FillRoom
<1>3. new \subseteq Row /\ \A r \in 1..nextSubmit : r \in Row /\ r \notin new
  BY <1>1, <1>2
<1>4. CASE broken /\ new # {}
  <2>1. pc' = "except" /\ pending' = P /\ completed' = C
        /\ UNCHANGED <<fut, nextSubmit>>
    BY <1>4 DEF Fill
  <2>. QED BY <1>1, <2>1 DEF TypeOK
<1>5. CASE ~(broken /\ new # {})
  <2>1. /\ pc' = "pull" /\ pending' = P \cup new /\ completed' = C
        /\ nextSubmit' = last
        /\ fut' = [r \in Row |-> IF r \in new THEN "queued" ELSE fut[r]]
    BY <1>5 DEF Fill
  <2>. HIDE DEF last
  <2>2. fut' \in [Row -> {"none", "queued", "running", "ok", "failed", "cancelled"}]
    BY <2>1 DEF TypeOK
  <2>3. \A r \in 1..nextSubmit : fut'[r] = fut[r]
    BY <1>3, <2>1
  <2>4. (P \cup new) \cap C = {} /\ (P \cup new) \cup C = (a + 1)..last
    BY <1>1, <1>2
  <2>. QED BY <1>2, <1>3, <2>1, <2>2, <2>3, <2>4
<1>. QED BY <1>4, <1>5

(* A fill of the bounded generator, with the rows P still waited for and   *)
(* the rows C held, after the rows up to the a-th were handed out.         *)
LEMMA FillKeeps ==
  ASSUME IInv, runner = "bounded", UNCHANGED <<runner, broken, files, done>>,
         NEW P \in SUBSET Row, NEW C \in SUBSET Row, nextEmit' = Handed,
         pc \in {"fill", "pull", "resume"},
         Handed <= nextSubmit, nextSubmit - Handed <= Window,
         P \cap C = {}, P \cup C = (Handed + 1)..nextSubmit,
         \A r \in C : fut[r] = "ok",
         Fill(P, C, "pull")
  PROVE  IInv'
<1>1. /\ NRows \in Nat /\ nextEmit \in 0..NRows /\ nextSubmit \in 0..NRows
      /\ Row = 1..NRows /\ Window \in Nat
  BY RowsFinite DEF IInv, TypeOK, Row
<1>2. Handed \in 0..NRows
  BY <1>1 DEF IInv, FilesInv, Handed, Head1
<1>3. /\ pc' \in {"pull", "except"}
      /\ nextSubmit' \in nextSubmit..NRows /\ nextSubmit' - Handed <= Window
      /\ completed' = C /\ pending' \subseteq Row
      /\ fut' \in [Row -> {"none", "queued", "running", "ok", "failed", "cancelled"}]
      /\ \A r \in 1..nextSubmit : fut'[r] = fut[r]
      /\ pc' = "pull" => /\ pending' \cap C = {}
                         /\ pending' \cup C = (Handed + 1)..nextSubmit'
  BY <1>2, FillEffect DEF IInv
<1>4. TypeOK'
  BY <1>1, <1>2, <1>3 DEF IInv, TypeOK, files
<1>5. Handed' = Handed
  BY <1>3 DEF Handed, Writing
<1>6. Len(pack) = Handed /\ Len(index) = Handed /\ pc \notin Closing
  BY DEF IInv, FilesInv, Handed, Pulling, Writing, Closing
<1>7. FilesInv'
  BY <1>1, <1>2, <1>3, <1>6
     DEF IInv, FilesInv, Pulling, Writing, Closing, Broken, files
<1>8. CountInv'
  BY <1>1, <1>3 DEF IInv, CountInv, Handed, Pulling, Writing, Closing, files, Head1
<1>9. ResultsInv'
  <2>1. \A r \in 1..Handed : fut'[r] = "ok"
    BY <1>1, <1>2, <1>3 DEF IInv, ResultsInv
  <2>2. \A r \in C : r \in 1..nextSubmit
    BY <1>1, <1>2
  <2>. QED BY <1>3, <1>5, <2>1, <2>2 DEF ResultsInv
<1>10. WindowInv'
  <2>1. runner' = "bounded" /\ pc' # "submit_all"
    BY <1>3
  <2>2. nextSubmit' - nextEmit' <= Window' /\ Handed' <= nextSubmit'
    BY <1>1, <1>2, <1>3, <1>5 DEF Window
  <2>3. pc' \in (Pulling \cup Writing)' =>
          /\ pending' \cap completed' = {}
          /\ pending' \cup completed' = (Handed' + 1)..nextSubmit'
    BY <1>3, <1>5 DEF Pulling, Writing
  <2>. QED BY <2>1, <2>2, <2>3 DEF WindowInv
<1>. QED BY <1>4, <1>7, <1>8, <1>9, <1>10 DEF IInv

(* What the actions of the main thread rely on.                            *)
LEMMA Ranges ==
  ASSUME IInv
  PROVE  /\ NRows \in Nat /\ Row = 1..NRows /\ Window \in Nat
         /\ nextEmit \in 0..NRows /\ nextSubmit \in 0..NRows
         /\ Handed \in 0..NRows /\ nextEmit <= Handed
         /\ Len(pack) \in Nat /\ Len(index) \in Nat
         /\ done \in 0..NRows /\ manifest.completed \in 0..NRows
         /\ ~AtEnd => Head1 \in Row
BY RowsFinite DEF IInv, TypeOK, FilesInv, Handed, Head1, Row, AtEnd

(* The steps before the first pull.                                        *)
LEMMA OpeningKeeps ==
  ASSUME IInv, Start \/ SubmitAll \/ FirstFill PROVE IInv'
<1>. USE Ranges DEF pool, generator, files
<1>1. CASE Start
  <2>1. /\ pc = "start" /\ manifest' = [status |-> "STARTED", completed |-> done]
        /\ pc' = CASE runner = "serial" -> "pull"
                   [] runner = "map" -> "submit_all"
                   [] runner = "bounded" -> "fill"
        /\ UNCHANGED <<runner, pool, generator, pack, index, done>>
    BY <1>1 DEF Start, WriteManifest
  <2>2. \/ runner = "serial" /\ pc' = "pull"
        \/ runner = "map" /\ pc' = "submit_all"
        \/ runner = "bounded" /\ pc' = "fill"
    <3>1. runner \in {"serial", "map", "bounded"}
      BY ConstantsAssumption DEF IInv, TypeOK
    <3>2. CASE runner = "serial"
      BY <2>1, <3>2
    <3>3. CASE runner = "map"
      BY <2>1, <3>3
    <3>4. CASE runner = "bounded"
      BY <2>1, <3>4
    <3>. QED BY <3>1, <3>2, <3>3, <3>4
  <2>3. TypeOK'
    BY <2>1, <2>2 DEF IInv, TypeOK
  <2>4. FilesInv' /\ CountInv'
    BY <2>1, <2>2 DEF IInv, TypeOK, FilesInv, CountInv, Pulling, Writing, Closing, Broken
  <2>5. Handed' = Handed
    BY <2>1, <2>2 DEF Handed, Writing
  <2>6. ResultsInv' /\ WindowInv'
    BY <2>1, <2>2, <2>5 DEF IInv, ResultsInv, WindowInv, Pulling, Writing, Broken
  <2>. QED BY <2>3, <2>4, <2>6 DEF IInv
<1>2. CASE SubmitAll
  <2>1. /\ pc = "submit_all" /\ pc' = "pull" /\ runner = "map"
        /\ fut' = [r \in Row |-> "queued"] /\ nextSubmit' = NRows
        /\ UNCHANGED <<runner, broken, nextEmit, pending, completed, files, done>>
    BY <1>2 DEF SubmitAll, IInv, WindowInv
  <2>2. nextEmit = 0 /\ completed = {} /\ pending = {} /\ Handed' = 0
    BY <2>1 DEF IInv, ResultsInv, Handed, Writing
  <2>3. TypeOK'
    BY <2>1 DEF IInv, TypeOK
  <2>4. FilesInv' /\ CountInv'
    BY <2>1 DEF IInv, TypeOK, FilesInv, CountInv, Pulling, Writing, Closing, Broken
  <2>5. ResultsInv' /\ WindowInv'
    BY <2>1, <2>2 DEF ResultsInv, WindowInv
  <2>. QED BY <2>3, <2>4, <2>5 DEF IInv
<1>3. CASE FirstFill
  <2>1. /\ pc = "fill" /\ Fill(pending, completed, "pull")
        /\ UNCHANGED <<runner, broken, nextEmit, files, done>>
    BY <1>3 DEF FirstFill
  <2>2. /\ runner = "bounded" /\ Handed = nextEmit
        /\ pending \in SUBSET Row /\ completed \in SUBSET Row
        /\ pending \cap completed = {} /\ Handed <= nextSubmit
        /\ pending \cup completed = (Handed + 1)..nextSubmit
        /\ nextSubmit - Handed <= Window
        /\ \A r \in completed : fut[r] = "ok"
    BY <2>1 DEF IInv, TypeOK, ResultsInv, WindowInv, Handed, Pulling, Writing, Broken
  <2>. QED BY <2>1, <2>2, FillKeeps
<1>. QED BY <1>1, <1>2, <1>3

(* The pulls that leave the window alone.                                  *)
LEMMA PullKeeps ==
  ASSUME IInv, PullEnd \/ PullSerial \/ PullMapped PROVE IInv'
<1>. USE Ranges DEF pool, generator, files
<1>1. /\ pc = "pull" /\ UNCHANGED <<runner, pool, generator, files, done>>
      /\ \/ pc' = "except"
         \/ pc' = "close" /\ AtEnd
         \/ pc' = "pack" /\ ~AtEnd /\ runner = "serial"
         \/ pc' = "pack" /\ ~AtEnd /\ runner = "map" /\ fut[Head1] = "ok"
  BY DEF PullEnd, PullSerial, PullMapped
<1>2. CASE pc' = "except"
  BY <1>1, <1>2, BrokenKeeps
<1>3. CASE pc' = "close" /\ AtEnd
  <2>1. TypeOK'
    BY <1>1, <1>3 DEF IInv, TypeOK
  <2>2. FilesInv' /\ CountInv'
    BY <1>1, <1>3 DEF IInv, TypeOK, FilesInv, CountInv, AtEnd,
                      Pulling, Writing, Closing, Broken
  <2>3. Handed' = Handed
    BY <1>1, <1>3 DEF Handed, Writing
  <2>4. ResultsInv' /\ WindowInv'
    BY <1>1, <1>3, <2>3 DEF IInv, ResultsInv, WindowInv, Pulling, Writing, Broken
  <2>. QED BY <2>1, <2>2, <2>4 DEF IInv
<1>4. CASE pc' = "pack" /\ ~AtEnd /\ runner # "bounded"
           /\ (runner = "map" => fut[Head1] = "ok")
  <2>1. TypeOK'
    BY <1>1, <1>4 DEF IInv, TypeOK
  <2>2. FilesInv' /\ CountInv'
    BY <1>1, <1>4 DEF IInv, TypeOK, FilesInv, CountInv, AtEnd, Head1,
                      Pulling, Writing, Closing, Broken
  <2>3. Handed' = Head1 /\ Handed = nextEmit /\ Head1 = nextEmit + 1
    BY <1>1, <1>4 DEF Handed, Head1, Writing
  <2>4. ResultsInv' /\ WindowInv'
    BY <1>1, <1>4, <2>3 DEF IInv, TypeOK, ResultsInv, WindowInv, Broken
  <2>. QED BY <2>1, <2>2, <2>4 DEF IInv
<1>. QED BY <1>1, <1>2, <1>3, <1>4

(* The bounded generator takes the finished futures over.                  *)
LEMMA WaitFirstCompletedKeeps ==
  ASSUME IInv, WaitFirstCompleted PROVE IInv'
<1>1. /\ pc = "pull" /\ runner = "bounded"
      /\ UNCHANGED <<runner, broken, nextEmit, files, done>>
  BY DEF WaitFirstCompleted
<1>2. CASE \E r \in Ready : fut[r] = "failed"
  <2>1. pc' = "except" /\ UNCHANGED <<fut, nextSubmit, pending, completed>>
    BY <1>2 DEF WaitFirstCompleted
  <2>. QED BY <1>1, <2>1, BrokenKeeps DEF pool, generator
<1>3. CASE ~ \E r \in Ready : fut[r] = "failed"
  <2>. DEFINE P == pending \ Ready
              C == completed \cup Ready
  <2>1. Fill(P, C, "pull")
    BY <1>3 DEF WaitFirstCompleted
  <2>2. /\ Handed = nextEmit /\ Handed <= nextSubmit
        /\ nextSubmit - Handed <= Window
        /\ pending \subseteq Row /\ completed \subseteq Row
        /\ pending \cap completed = {}
        /\ pending \cup completed = (Handed + 1)..nextSubmit
        /\ \A r \in completed : fut[r] = "ok"
    BY <1>1 DEF IInv, TypeOK, ResultsInv, WindowInv, Handed, Pulling, Writing, Broken
  <2>3. Ready \subseteq pending /\ \A r \in Ready : fut[r] = "ok"
    BY <1>3 DEF Ready, BuildOutcome
  <2>4. /\ P \in SUBSET Row /\ C \in SUBSET Row
        /\ P \cap C = {} /\ P \cup C = (Handed + 1)..nextSubmit
        /\ \A r \in C : fut[r] = "ok"
    BY <2>2, <2>3
  <2>. HIDE DEF P, C
  <2>. QED BY <1>1, <2>1, <2>2, <2>4, FillKeeps
<1>. QED BY <1>2, <1>3

(* It hands out the head row, which is held.                               *)
LEMMA YieldHeadKeeps ==
  ASSUME IInv, YieldHead PROVE IInv'
<1>. USE Ranges DEF pool, generator, files
<1>1. /\ pc = "pull" /\ pc' = "pack" /\ ~AtEnd /\ runner = "bounded"
      /\ Head1 \in completed /\ completed' = completed \ {Head1}
      /\ UNCHANGED <<runner, pool, nextSubmit, nextEmit, pending, files, done>>
  BY DEF YieldHead
<1>2. Handed' = Head1 /\ Handed = nextEmit /\ Head1 = nextEmit + 1
  BY <1>1 DEF Handed, Head1, Writing
<1>3. TypeOK'
  BY <1>1 DEF IInv, TypeOK
<1>4. FilesInv' /\ CountInv'
  BY <1>1 DEF IInv, TypeOK, FilesInv, CountInv, AtEnd, Head1,
              Pulling, Writing, Closing, Broken
<1>5. ResultsInv'
  BY <1>1, <1>2 DEF IInv, TypeOK, ResultsInv, Broken
<1>6. WindowInv'
  <2>1. /\ pending \cap completed = {} /\ nextSubmit - nextEmit <= Window
        /\ pending \cup completed = (nextEmit + 1)..nextSubmit
    BY <1>1, <1>2 DEF IInv, WindowInv, Pulling
  <2>2. Head1 \notin pending /\ Head1 <= nextSubmit
    BY <1>1, <1>2, <2>1
  <2>3. pending \cup (completed \ {Head1}) = (Head1 + 1)..nextSubmit
    BY <1>2, <2>1, <2>2
  <2>. QED BY <1>1, <1>2, <2>1, <2>2, <2>3 DEF WindowInv
<1>. QED BY <1>3, <1>4, <1>5, <1>6 DEF IInv

(* The writer's steps: the row it writes is the head, whose result is ok.  *)
LEMMA WritingKeeps ==
  ASSUME IInv, AppendPack \/ AppendIndex \/ SaveProgress PROVE IInv'
<1>. USE Ranges DEF pool, generator, files
<1>1. /\ pc \in Writing /\ pc' \in Writing
      /\ UNCHANGED <<runner, pool, generator>>
  BY DEF AppendPack, AppendIndex, SaveProgress, Writing
<1>2. Handed' = Handed /\ Handed = Head1 /\ Head1 \in Row
  BY <1>1 DEF Handed, Head1, IInv, FilesInv
<1>3. ResultsInv' /\ WindowInv'
  BY <1>1, <1>2 DEF IInv, ResultsInv, WindowInv, Pulling, Writing, Broken
<1>4. CASE AppendPack
  <2>1. /\ pc = "pack" /\ pc' = "index" /\ pack' = Append(pack, Head1)
        /\ UNCHANGED <<index, manifest, done>>
    BY <1>4 DEF AppendPack
  <2>2. TypeOK'
    BY <1>1, <1>2, <2>1 DEF IInv, TypeOK
  <2>3. FilesInv'
    BY <1>1, <1>2, <2>1
       DEF IInv, TypeOK, FilesInv, Head1, Pulling, Writing, Closing, Broken
  <2>4. CountInv'
    BY <1>1, <1>2, <2>1 DEF IInv, CountInv, Head1, Pulling, Closing
  <2>. QED BY <1>3, <2>2, <2>3, <2>4 DEF IInv
<1>5. CASE AppendIndex
  <2>1. /\ pc = "index" /\ pc' = "progress"
        /\ index' = Append(index, [kernel |-> Head1, offset |-> Len(pack)])
        /\ UNCHANGED <<pack, manifest, done>>
    BY <1>5 DEF AppendIndex
  <2>2. Len(pack) = Head1 /\ Len(index) = nextEmit
    BY <2>1 DEF IInv, FilesInv
  <2>3. TypeOK'
    BY <1>1, <1>2, <2>1, <2>2 DEF IInv, TypeOK
  <2>4. FilesInv'
    <3>1. /\ Len(index') = Head1 /\ DOMAIN index' = 1..Head1
          /\ index'[Head1] = [kernel |-> Head1, offset |-> Head1]
          /\ \A i \in 1..nextEmit : index'[i] = index[i]
      BY <1>2, <2>1, <2>2 DEF IInv, TypeOK, Head1
    <3>2. DOMAIN index = 1..nextEmit /\ nextEmit \in Nat
      BY <2>2 DEF IInv, TypeOK
    <3>3. \A i \in DOMAIN index' : index'[i] = [kernel |-> i, offset |-> i]
      BY <3>1, <3>2 DEF IInv, FilesInv, Head1
    <3>. QED BY <1>1, <1>2, <2>1, <2>2, <3>1, <3>3
             DEF IInv, FilesInv, Head1, Pulling, Writing, Closing, Broken
  <2>5. CountInv'
    <3>1. done = nextEmit /\ manifest.completed <= done
      BY <2>1 DEF IInv, CountInv, Pulling
    <3>2. Len(index') = Len(index) + 1
      BY <1>2, <2>1 DEF IInv, TypeOK
    <3>. QED BY <1>1, <1>2, <2>1, <2>2, <3>1, <3>2 DEF IInv, TypeOK, CountInv, Head1,
                                                       Pulling, Closing
  <2>. QED BY <1>3, <2>3, <2>4, <2>5 DEF IInv
<1>6. CASE SaveProgress
  <2>1. /\ pc = "progress" /\ pc' = "resume" /\ done' = Head1
        /\ UNCHANGED <<pack, index>>
        /\ \/ manifest' = [status |-> "STARTED", completed |-> Head1]
           \/ manifest' = manifest
    BY <1>6 DEF SaveProgress, WriteManifest
  <2>2. TypeOK'
    BY <1>1, <1>2, <2>1 DEF IInv, TypeOK
  <2>3. FilesInv'
    BY <1>1, <1>2, <2>1 DEF IInv, FilesInv, Head1, Pulling, Writing, Closing, Broken
  <2>4. CountInv'
    <3>1. done = nextEmit /\ manifest.completed <= done /\ Len(index) = Head1
          /\ manifest.status \notin {"PASS", "FAIL"}
      BY <2>1 DEF IInv, FilesInv, CountInv, Pulling
    <3>2. manifest'.completed <= done' /\ manifest'.status \notin {"PASS", "FAIL"}
      BY <1>2, <2>1, <3>1 DEF IInv, TypeOK, Head1
    <3>3. index' = index /\ nextEmit' = nextEmit
      BY <1>1, <2>1
    <3>. QED BY <1>2, <2>1, <3>1, <3>2, <3>3 DEF CountInv, Head1, Pulling, Closing
  <2>. QED BY <1>3, <2>2, <2>3, <2>4 DEF IInv
<1>. QED BY <1>4, <1>5, <1>6

(* The generator resumes and, when it is bounded, refills its window.      *)
LEMMA ResumeKeeps ==
  ASSUME IInv, Resume PROVE IInv'
<1>. USE Ranges DEF pool, generator, files
<1>1. /\ pc = "resume" /\ nextEmit' = nextEmit + 1
      /\ UNCHANGED <<runner, broken, files, done>>
  BY DEF Resume
<1>2. Handed = Head1 /\ Head1 = nextEmit + 1 /\ nextEmit < NRows
  BY <1>1 DEF Handed, Head1, Writing, IInv, FilesInv
<1>3. CASE runner = "bounded"
  <2>1. Fill(pending, completed, "pull")
    BY <1>3 DEF Resume
  <2>2. /\ Handed <= nextSubmit /\ nextSubmit - Handed <= Window
        /\ pending \in SUBSET Row /\ completed \in SUBSET Row
        /\ pending \cap completed = {}
        /\ pending \cup completed = (Handed + 1)..nextSubmit
        /\ \A r \in completed : fut[r] = "ok"
    <3>1. pending \in SUBSET Row /\ completed \in SUBSET Row
      BY DEF IInv, TypeOK
    <3>2. \A r \in completed : fut[r] = "ok"
      BY <1>1 DEF IInv, ResultsInv, Broken
    <3>3. /\ nextSubmit - nextEmit <= Window /\ Handed <= nextSubmit
          /\ pending \cap completed = {}
          /\ pending \cup completed = (Handed + 1)..nextSubmit
      BY <1>1, <1>3 DEF IInv, WindowInv, Writing
    <3>. QED BY <1>2, <3>1, <3>2, <3>3
  <2>. QED BY <1>1, <1>2, <1>3, <2>1, <2>2, FillKeeps
<1>4. CASE runner # "bounded"
  <2>1. pc' = "pull" /\ UNCHANGED <<fut, nextSubmit, pending, completed>>
    BY <1>4 DEF Resume
  <2>2. Handed' = Handed
    BY <1>1, <1>2, <2>1 DEF Handed, Writing
  <2>3. TypeOK'
    BY <1>1, <1>2, <2>1 DEF IInv, TypeOK
  <2>4. FilesInv' /\ CountInv'
    BY <1>1, <1>2, <2>1 DEF IInv, TypeOK, FilesInv, CountInv, Head1,
                            Pulling, Writing, Closing, Broken
  <2>5. ResultsInv' /\ WindowInv'
    BY <1>1, <1>2, <1>4, <2>1, <2>2
       DEF IInv, ResultsInv, WindowInv, Pulling, Writing, Broken
  <2>. QED BY <2>3, <2>4, <2>5 DEF IInv
<1>. QED BY <1>3, <1>4

(* The end of the run: the pool is shut down, the verdict published.       *)
LEMMA EndingKeeps ==
  ASSUME IInv, Close \/ PublishPass \/ CancelQueued \/ PublishFail PROVE IInv'
<1>. USE Ranges DEF pool, generator, files
<1>1. UNCHANGED <<runner, broken, generator, pack, index, done>>
  BY DEF Close, PublishPass, CancelQueued, PublishFail
<1>2. /\ fut' \in [Row -> {"none", "queued", "running", "ok", "failed", "cancelled"}]
      /\ \A r \in Row : fut[r] \in {"none", "ok"} => fut'[r] = fut[r]
  BY DEF Close, PublishPass, CancelQueued, PublishFail, IInv, TypeOK
<1>3. \/ pc = "close" /\ pc' = "verdict" /\ UNCHANGED manifest
      \/ pc = "verdict" /\ pc' = "passed"
           /\ manifest' = [status |-> "PASS", completed |-> done]
      \/ pc = "except" /\ pc' = "cancelled" /\ UNCHANGED manifest
      \/ pc = "cancelled" /\ pc' = "failed"
           /\ manifest' = [status |-> "FAIL", completed |-> done]
  BY DEF Close, PublishPass, CancelQueued, PublishFail, WriteManifest
<1>4. Handed' = Handed /\ Handed = nextEmit
  BY <1>1, <1>3 DEF Handed, Writing
<1>5. TypeOK'
  BY <1>1, <1>2, <1>3 DEF IInv, TypeOK
<1>6. FilesInv'
  BY <1>1, <1>3 DEF IInv, FilesInv, Pulling, Writing, Closing, Broken
<1>7. CountInv'
  <2>1. done' = done /\ index' = index /\ nextEmit' = nextEmit
    BY <1>1
  <2>2. manifest.completed <= done /\ done <= Len(index) /\ done \in Nat
    BY DEF IInv, TypeOK, CountInv
  <2>3. /\ manifest.status = "PASS" <=> pc = "passed"
        /\ manifest.status = "FAIL" <=> pc = "failed"
        /\ pc \in Closing => done = NRows
    BY DEF IInv, CountInv
  <2>4. CASE manifest' = manifest
    BY <1>3, <2>1, <2>2, <2>3, <2>4 DEF CountInv, Pulling, Closing
  <2>5. CASE pc = "verdict" /\ pc' = "passed" /\ manifest' = [status |-> "PASS", completed |-> done]
    BY <2>1, <2>2, <2>3, <2>5 DEF CountInv, Pulling, Closing
  <2>6. CASE pc = "cancelled" /\ pc' = "failed" /\ manifest' = [status |-> "FAIL", completed |-> done]
    BY <2>1, <2>2, <2>3, <2>6 DEF CountInv, Pulling, Closing
  <2>. QED BY <1>3, <2>4, <2>5, <2>6
<1>8. ResultsInv'
  <2>1. 1..nextEmit \subseteq Row /\ completed \subseteq Row
    BY DEF IInv, TypeOK
  <2>. QED BY <1>1, <1>2, <1>3, <1>4, <2>1 DEF IInv, ResultsInv, Broken
<1>9. WindowInv'
  BY <1>1, <1>3, <1>4 DEF IInv, WindowInv, Pulling, Writing
<1>. QED BY <1>5, <1>6, <1>7, <1>8, <1>9 DEF IInv

LEMMA StutterKeeps ==
  ASSUME IInv, UNCHANGED vars PROVE IInv'
BY DEF vars, pool, generator, files, IInv, TypeOK, FilesInv, CountInv,
       ResultsInv, WindowInv, Handed, Head1

LEMMA Initially == Init => IInv
<1>. SUFFICES ASSUME Init PROVE IInv
  OBVIOUS
<1>. USE RowsFinite DEF Init, NoManifest
<1>1. TypeOK
  <2>1. pack \in Seq(Row) /\ index \in Seq([kernel : Row, offset : Row])
    OBVIOUS
  <2>2. fut \in [Row -> {"none", "queued", "running", "ok", "failed", "cancelled"}]
    OBVIOUS
  <2>3. manifest \in [status : {"absent", "STARTED", "PASS", "FAIL"},
                      completed : 0..NRows]
    OBVIOUS
  <2>. QED BY <2>1, <2>2, <2>3 DEF TypeOK
<1>2. FilesInv /\ CountInv
  BY DEF FilesInv, CountInv, Pulling, Writing, Closing, Broken
<1>3. Handed = 0
  BY DEF Handed, Writing
<1>4. ResultsInv /\ WindowInv
  BY <1>3 DEF ResultsInv, WindowInv, Pulling, Writing
<1>. QED BY <1>1, <1>2, <1>4 DEF IInv

LEMMA NextKeeps ==
  ASSUME IInv, [Next]_vars PROVE IInv'
<1>1. CASE Main
  BY <1>1, OpeningKeeps, PullKeeps, WaitFirstCompletedKeeps, YieldHeadKeeps,
     WritingKeeps, ResumeKeeps, EndingKeeps DEF Main
<1>2. CASE Raise
  BY <1>2, BrokenKeeps DEF Raise
<1>3. CASE Pool
  BY <1>3, PoolKeeps
<1>4. CASE Killed
  BY <1>4, BrokenKeeps DEF Killed
<1>5. CASE UNCHANGED vars
  BY <1>5, StutterKeeps
<1>. QED BY <1>1, <1>2, <1>3, <1>4, <1>5 DEF Next, Ended

-----------------------------------------------------------------------------
(* In every reachable state of every run, whatever the plan, the pool and  *)
(* the order in which its workers finish, fail or die, the invariant holds.*)
THEOREM Invariance == Spec => []IInv
<1>1. IInv /\ [Next]_vars => IInv'
  BY NextKeeps
<1>. QED BY Initially, <1>1, PTL DEF Spec

(* The runner's positions, futures, sets and files are of their types.     *)
THEOREM TypeCorrect == Spec => []TypeOK
<1>1. IInv => TypeOK
  BY DEF IInv
<1>. QED BY Invariance, <1>1, PTL

(* Pack, index and manifest agree wherever the run stops, and a manifest   *)
(* that says PASS counts the whole plan, with no call outstanding.         *)
THEOREM FilesAlwaysAgree == Spec => []FilesAgree
<1>1. IInv => FilesAgree
  <2>. SUFFICES ASSUME IInv PROVE FilesAgree
    OBVIOUS
  <2>. USE Ranges
  <2>1. /\ \A i \in DOMAIN pack : pack[i] = i
        /\ \A i \in DOMAIN index : index[i] = [kernel |-> i, offset |-> i]
    BY DEF IInv, FilesInv
  <2>2. Len(pack) - Len(index) \in {0, 1}
    BY DEF IInv, TypeOK, FilesInv, Pulling, Closing, Broken, Head1
  <2>3. manifest.completed <= Len(index)
    BY DEF IInv, CountInv
  <2>4. ASSUME manifest.status = "PASS"
        PROVE  /\ Len(index) = NRows /\ Len(pack) = NRows
               /\ manifest.completed = NRows
               /\ \A r \in Row : fut[r] \in {"none", "ok"}
    <3>1. pc = "passed" /\ manifest.completed = done
      BY <2>4 DEF IInv, CountInv
    <3>2. nextEmit = NRows /\ Len(index) = NRows /\ Len(pack) = NRows /\ done = NRows
      BY <3>1 DEF IInv, FilesInv, CountInv, Closing
    <3>3. Handed = NRows
      BY <3>1, <3>2 DEF Handed, Writing
    <3>4. \A r \in Row : fut[r] \in {"none", "ok"}
      BY <3>3 DEF IInv, ResultsInv
    <3>. QED BY <3>1, <3>2, <3>4
  <2>. QED BY <2>1, <2>2, <2>3, <2>4 DEF FilesAgree
<1>. QED BY Invariance, <1>1, PTL

(* However slow the head of the plan is, the bounded runner never has more *)
(* profiles under way or held than its window.                             *)
THEOREM WindowHolds == Spec => []LookAheadBounded
<1>1. IInv => LookAheadBounded
  <2>. SUFFICES ASSUME IInv, runner = "bounded"
                PROVE  nextSubmit - Len(index) <= Window
    BY DEF LookAheadBounded
  <2>. USE Ranges
  <2>1. nextEmit <= Len(index)
    BY DEF IInv, TypeOK, FilesInv, Pulling, Closing, Broken, Head1
  <2>2. nextSubmit - nextEmit <= Window
    BY DEF IInv, WindowInv
  <2>. QED BY <2>1, <2>2
<1>. QED BY Invariance, <1>1, PTL

(* Every step of the runner records the next kernel of the plan, publishes *)
(* the one verdict, or leaves the ledger alone.                            *)
THEOREM Refinement == Spec => LedgerSpec
<1>1. Init => Ledger!Init
  BY DEF Init, NoManifest, Ledger!Init
<1>2. ASSUME IInv, [Next]_vars
      PROVE  [Ledger!Next]_Ledger!vars
  <2>. USE Ranges DEF files
  <2>0. /\ manifest.status = "PASS" <=> pc = "passed"
        /\ manifest.status = "FAIL" <=> pc = "failed"
    BY <1>2 DEF IInv, CountInv
  <2>1. CASE AppendIndex
    <3>1. pc = "index" /\ Len(index) = nextEmit /\ nextEmit < NRows
      BY <1>2, <2>1 DEF AppendIndex, IInv, FilesInv, Writing
    <3>2. Len(index') = Len(index) + 1 /\ manifest' = manifest
      BY <1>2, <2>1 DEF AppendIndex, IInv, TypeOK
    <3>. QED BY <2>0, <3>1, <3>2 DEF Ledger!Next, Ledger!Record
  <2>2. CASE PublishPass
    <3>1. pc = "verdict" /\ Len(index) = NRows
      BY <1>2, <2>2 DEF PublishPass, IInv, FilesInv, Closing
    <3>2. manifest'.status = "PASS" /\ index' = index
      BY <2>2 DEF PublishPass, WriteManifest
    <3>. QED BY <2>0, <3>1, <3>2 DEF Ledger!Next, Ledger!Pass
  <2>3. CASE PublishFail
    <3>1. pc = "cancelled"
      BY <2>3 DEF PublishFail
    <3>2. manifest'.status = "FAIL" /\ index' = index
      BY <2>3 DEF PublishFail, WriteManifest
    <3>. QED BY <2>0, <3>1, <3>2 DEF Ledger!Next, Ledger!Fail
  <2>4. CASE Start \/ SaveProgress
    <3>1. index' = index /\ pc \notin {"passed", "failed"}
      BY <2>4 DEF Start, SaveProgress
    <3>2. manifest' = manifest \/ manifest'.status = "STARTED"
      BY <2>4 DEF Start, SaveProgress, WriteManifest
    <3>. QED BY <2>0, <3>1, <3>2 DEF Ledger!vars
  <2>5. CASE UNCHANGED <<index, manifest>>
    BY <2>5 DEF Ledger!vars
  <2>. QED
    BY <1>2, <2>1, <2>2, <2>3, <2>4, <2>5
       DEF Next, Main, Raise, Pool, Killed, Ended, vars,
           SubmitAll, FirstFill, PullEnd, PullSerial, PullMapped,
           WaitFirstCompleted, YieldHead, AppendPack, Resume, Close,
           CancelQueued, WorkerTakes, WorkerReturns, WorkerDies
<1>. QED BY <1>1, <1>2, Invariance, PTL DEF Spec, LedgerSpec, Ledger!Spec
=============================================================================
