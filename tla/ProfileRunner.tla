--------------------------- MODULE ProfileRunner ---------------------------
(***************************************************************************)
(* The workload profile runners (run_workload_profiles_*.py): one profile  *)
(* per kernel of the plan is computed, in this process or by a pool of     *)
(* worker processes, and a single writer appends it to the pack, then to   *)
(* the index, in kernel order, saving a manifest as it goes.               *)
(*                                                                         *)
(* Three generations of the script differ in how results are pulled:       *)
(*   "serial"  the profile of a row is computed when it is pulled;         *)
(*   "map"     every row is submitted at once, results are taken in order; *)
(*   "bounded" rows are submitted inside a look-ahead window, and any      *)
(*             failed result that is waited for is raised at once.         *)
(***************************************************************************)
EXTENDS Naturals, Sequences, FiniteSets

CONSTANTS NRows,         \* rows of the profile plan, kernels 1..NRows
          Workers,       \* worker processes of the pool
          Interval,      \* --progress-interval
          Runners        \* the generations of the script considered

ASSUME ConstantsAssumption ==
    /\ NRows \in Nat /\ Workers \in Nat \ {0} /\ Interval \in Nat \ {0}
    /\ Runners \subseteq {"serial", "map", "bounded"}

Row == 1..NRows

VARIABLES runner,        \* the generation that runs
          pc,            \* where the main thread is
          fut,           \* fut[r]: the future of row r in the executor
          broken,        \* a worker process died: the pool is unusable
          nextSubmit,    \* rows submitted so far
          nextEmit,      \* rows the generator has finished with
          pending,       \* rows whose future the generator still waits for
          completed,     \* rows whose result it holds
          pack, index,   \* kernels on disk, in file order
          done,          \* manifest["completed_kernels"], in memory
          manifest       \* the manifest on disk

pool == <<fut, broken>>
generator == <<nextSubmit, nextEmit, pending, completed>>
files == <<pack, index, manifest>>
vars == <<runner, pc, pool, generator, files, done>>

NoManifest == [status |-> "absent", completed |-> 0]

Init == /\ runner \in Runners
        /\ pc = "start"
        /\ fut = [r \in Row |-> "none"] /\ broken = FALSE
        /\ nextSubmit = 0 /\ nextEmit = 0
        /\ pending = {} /\ completed = {}
        /\ pack = <<>> /\ index = <<>>
        /\ done = 0 /\ manifest = NoManifest

-----------------------------------------------------------------------------
(* The executor.                                                           *)

Window == 2 * Workers

(* Mutant of FillTo: the results held are not considered.                  *)
FillToPending(nsub, pend, comp) ==
    LET room == Window - Cardinality(pend)
    IN  IF nsub + room > NRows THEN NRows ELSE nsub + room

(* How many rows fill() may hand over now.                                 *)
FillTo(nsub, pend, comp) ==
    LET room == Window - (Cardinality(pend) + Cardinality(comp))
    IN  IF nsub + room > NRows THEN NRows ELSE nsub + room

(* fill(): submit rows until the window or the plan is exhausted. submit() *)
(* raises once the pool is broken.                                         *)
Fill(pend, comp, then) ==
    LET last == FillTo(nextSubmit, pend, comp)
        new == (nextSubmit + 1)..last
    IN  /\ completed' = comp
        /\ IF broken /\ new # {}
           THEN /\ pc' = "except" /\ pending' = pend
                /\ UNCHANGED <<fut, nextSubmit>>
           ELSE /\ pc' = then /\ pending' = pend \cup new
                /\ nextSubmit' = last
                /\ fut' = [r \in Row |-> IF r \in new THEN "queued" ELSE fut[r]]

(* A worker takes the oldest queued call.                                  *)
WorkerTakes ==
    /\ ~broken
    /\ Cardinality({r \in Row : fut[r] = "running"}) < Workers
    /\ \E r \in Row : /\ fut[r] = "queued"
                      /\ \A q \in 1..(r - 1) : fut[q] # "queued"
                      /\ fut' = [fut EXCEPT ![r] = "running"]
    /\ UNCHANGED <<runner, pc, broken, generator, files, done>>

(* build_profile_row returns an admitted profile, or raises: the row is    *)
(* not admissible, the profiler raised, or its status is no PASS_.         *)
BuildOutcome == {"ok", "failed"}

WorkerReturns ==
    /\ \E r \in Row, o \in BuildOutcome : /\ fut[r] = "running"
                                          /\ fut' = [fut EXCEPT ![r] = o]
    /\ UNCHANGED <<runner, pc, broken, generator, files, done>>

(* A worker process dies: every call not finished fails with it.           *)
WorkerDies ==
    /\ \E r \in Row : fut[r] = "running"
    /\ broken' = TRUE
    /\ fut' = [r \in Row |-> IF fut[r] \in {"queued", "running"}
                             THEN "failed" ELSE fut[r]]
    /\ UNCHANGED <<runner, pc, generator, files, done>>

-----------------------------------------------------------------------------
(* The main thread: the manifest, then one pull per row.                   *)

WriteManifest(status, count) ==
    manifest' = [status |-> status, completed |-> count]

(* The output root is new, the plan and the capture agree: the run starts. *)
Start ==
    /\ pc = "start"
    /\ WriteManifest("STARTED", done)
    /\ pc' = CASE runner = "serial" -> "pull"
               [] runner = "map" -> "submit_all"
               [] runner = "bounded" -> "fill"
    /\ UNCHANGED <<runner, pool, generator, pack, index, done>>

(* executor.map: every row is submitted before the first result is taken.  *)
SubmitAll ==
    /\ pc = "submit_all"
    /\ fut' = [r \in Row |-> "queued"]
    /\ nextSubmit' = NRows
    /\ pc' = "pull"
    /\ UNCHANGED <<runner, broken, nextEmit, pending, completed, files, done>>

(* The generator's first fill().                                           *)
FirstFill ==
    /\ pc = "fill"
    /\ Fill(pending, completed, "pull")
    /\ UNCHANGED <<runner, broken, nextEmit, files, done>>

(* Mutant: the generator ends when nothing is pending any more.            *)
AtEndNonePending == \/ nextEmit = NRows
                    \/ runner = "bounded" /\ nextSubmit = NRows /\ pending = {}

AtEnd == nextEmit = NRows
Head1 == nextEmit + 1

(* The generator is exhausted.                                             *)
PullEnd == /\ pc = "pull" /\ AtEnd
           /\ pc' = "close"
           /\ UNCHANGED <<runner, pool, generator, files, done>>

(* Serial generations compute the row's profile now.                       *)
PullSerial == /\ pc = "pull" /\ ~AtEnd /\ runner = "serial"
              /\ pc' \in {"pack", "except"}
              /\ UNCHANGED <<runner, pool, generator, files, done>>

(* executor.map: result() of the next row in order, or its exception.      *)
PullMapped == /\ pc = "pull" /\ ~AtEnd /\ runner = "map"
              /\ fut[Head1] \in BuildOutcome
              /\ pc' = IF fut[Head1] = "ok" THEN "pack" ELSE "except"
              /\ UNCHANGED <<runner, pool, generator, files, done>>

(* Mutant: a future that failed is not taken for a finished one.           *)
ReadyOk == {r \in pending : fut[r] = "ok"}

Ready == {r \in pending : fut[r] \in BuildOutcome}

(* The bounded generator waits while the next row is not at hand, and      *)
(* moves every finished future over; the first failed one raises.          *)
WaitFirstCompleted ==
    /\ pc = "pull" /\ ~AtEnd /\ runner = "bounded"
    /\ Head1 \notin completed
    /\ Ready # {}
    /\ IF \E r \in Ready : fut[r] = "failed"
       THEN pc' = "except" /\ UNCHANGED <<fut, nextSubmit, pending, completed>>
       ELSE Fill(pending \ Ready, completed \cup Ready, "pull")
    /\ UNCHANGED <<runner, broken, nextEmit, files, done>>

(* It yields the next row's result.                                        *)
YieldHead ==
    /\ pc = "pull" /\ ~AtEnd /\ runner = "bounded"
    /\ Head1 \in completed
    /\ completed' = completed \ {Head1}
    /\ pc' = "pack"
    /\ UNCHANGED <<runner, pool, nextSubmit, nextEmit, pending, files, done>>

-----------------------------------------------------------------------------
(* The single writer: pack, index, manifest, each flushed in turn.         *)

AppendPack == /\ pc = "pack"
              /\ pack' = Append(pack, Head1)
              /\ pc' = "index"
              /\ UNCHANGED <<runner, pool, generator, index, manifest, done>>

(* Mutant: the offset is taken after the write.                            *)
AppendIndexTellAfter ==
    /\ pc = "index"
    /\ index' = Append(index, [kernel |-> Head1, offset |-> Len(pack) + 1])
    /\ pc' = "progress"
    /\ UNCHANGED <<runner, pool, generator, pack, manifest, done>>

(* The index row names the byte range the pack just received.              *)
AppendIndex == /\ pc = "index"
               /\ index' = Append(index, [kernel |-> Head1, offset |-> Len(pack)])
               /\ pc' = "progress"
               /\ UNCHANGED <<runner, pool, generator, pack, manifest, done>>

(* The row is counted, and every Interval rows the count is saved.         *)
SaveProgress == /\ pc = "progress"
                /\ done' = Head1
                /\ IF Head1 % Interval = 0 \/ Head1 = NRows
                   THEN WriteManifest("STARTED", Head1) ELSE UNCHANGED manifest
                /\ pc' = "resume"
                /\ UNCHANGED <<runner, pool, generator, pack, index>>

(* The generator resumes after its yield: only now is the window refilled. *)
Resume ==
    /\ pc = "resume"
    /\ nextEmit' = nextEmit + 1
    /\ IF runner = "bounded"
       THEN Fill(pending, completed, "pull")
       ELSE pc' = "pull" /\ UNCHANGED <<fut, nextSubmit, pending, completed>>
    /\ UNCHANGED <<runner, broken, files, done>>

(* shutdown(wait=True): nothing is left to wait for but running calls.     *)
Idle == \A r \in Row : fut[r] # "running"

Close == /\ pc = "close" /\ Idle
         /\ pc' = "verdict"
         /\ UNCHANGED <<runner, pool, generator, files, done>>

(* The final manifest.                                                     *)
PublishPass == /\ pc = "verdict"
               /\ WriteManifest("PASS", done)
               /\ pc' = "passed"
               /\ UNCHANGED <<runner, pool, generator, pack, index, done>>

(* Any statement of the try block may raise: a full disk, an interrupt.    *)
Raise == /\ pc \in {"submit_all", "fill", "pull", "pack", "index",
                    "progress", "resume", "close"}
         /\ pc' = "except"
         /\ UNCHANGED <<runner, pool, generator, files, done>>

(* except: shutdown(cancel_futures=True) drops the calls not yet started   *)
(* and waits for the others.                                               *)
CancelQueued ==
    /\ pc = "except"
    /\ fut' = [r \in Row |-> IF fut[r] = "queued" THEN "cancelled" ELSE fut[r]]
    /\ pc' = "cancelled"
    /\ UNCHANGED <<runner, broken, generator, files, done>>

PublishFail == /\ pc = "cancelled" /\ Idle
               /\ WriteManifest("FAIL", done)
               /\ pc' = "failed"
               /\ UNCHANGED <<runner, pool, generator, pack, index, done>>

(* The process is killed; a second run refuses the output root it leaves.  *)
Killed == /\ pc \notin {"passed", "failed", "killed"}
          /\ pc' = "killed"
          /\ UNCHANGED <<runner, pool, generator, files, done>>

Ended == pc \in {"passed", "failed", "killed"} /\ UNCHANGED vars

Pool == WorkerTakes \/ WorkerReturns \/ WorkerDies

Main == \/ Start \/ SubmitAll \/ FirstFill \/ PullEnd \/ PullSerial
        \/ PullMapped \/ WaitFirstCompleted \/ YieldHead
        \/ AppendPack \/ AppendIndex \/ SaveProgress \/ Resume
        \/ Close \/ PublishPass \/ CancelQueued \/ PublishFail

Next == Main \/ Raise \/ Pool \/ Killed \/ Ended

(* The main thread is never blocked for ever by the operating system, an   *)
(* idle worker takes a queued call and a profile computation ends.         *)
Spec == /\ Init /\ [][Next]_vars
        /\ WF_vars(Main) /\ WF_vars(WorkerTakes) /\ WF_vars(WorkerReturns)

-----------------------------------------------------------------------------
(* Properties.                                                             *)

(* Positions, futures, sets and files of ordered_parallel_profiles are of  *)
(* their types; the properties below rely on it and say more.              *)
TypeOK ==
    /\ runner \in Runners
    /\ pc \in {"start", "submit_all", "fill", "pull", "pack", "index", "progress",
               "resume", "close", "verdict", "passed", "except", "cancelled",
               "failed", "killed"}
    /\ fut \in [Row -> {"none", "queued", "running", "ok", "failed", "cancelled"}]
    /\ broken \in BOOLEAN
    /\ nextSubmit \in 0..NRows /\ nextEmit \in 0..NRows
    /\ pending \subseteq Row /\ completed \subseteq Row
    /\ pack \in Seq(Row) /\ index \in Seq([kernel : Row, offset : Row])
    /\ done \in 0..NRows
    /\ manifest \in [status : {"absent", "STARTED", "PASS", "FAIL"},
                     completed : 0..NRows]

(* Whatever the order in which the workers finish and wherever the run     *)
(* stops, the files agree: pack and index hold the kernels in dense order, *)
(* an index row names its own kernel's bytes, at most the last profile of  *)
(* the pack is not indexed yet, and the manifest never counts a kernel     *)
(* that is not indexed. A PASS manifest counts them all, with no profile   *)
(* of the pool outstanding.                                                *)
FilesAgree ==
    /\ \A i \in DOMAIN pack : pack[i] = i
    /\ Len(pack) - Len(index) \in {0, 1}
    /\ \A i \in DOMAIN index : index[i] = [kernel |-> i, offset |-> i]
    /\ manifest.completed <= Len(index)
    /\ manifest.status = "PASS" =>
          /\ Len(index) = NRows /\ Len(pack) = NRows
          /\ manifest.completed = NRows
          /\ \A r \in Row : fut[r] \in {"none", "ok"}

(* ordered_parallel_profiles: a slow early kernel never lets more than the *)
(* window's profiles pile up, counting the queued, the running, those held *)
(* out of order and the one being written.                                 *)
LookAheadBounded ==
    runner = "bounded" => nextSubmit - Len(index) <= Window

(* The output directory is an ordered ledger of the plan's kernels.        *)
Ledger == INSTANCE OrderedLedger WITH
    NItems <- NRows,
    recorded <- Len(index),
    verdict <- CASE manifest.status = "PASS" -> "pass"
                 [] manifest.status = "FAIL" -> "fail"
                 [] OTHER -> "none"

LedgerSpec == Ledger!Spec

(* A run that is not killed publishes a verdict: a window full of results  *)
(* waiting for a slow head, a failed profile or a dead worker never leaves *)
(* the main thread waiting for ever.                                       *)
VerdictPublished == <>(pc \in {"passed", "failed", "killed"})

=============================================================================
