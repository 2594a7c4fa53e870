---------------------------- MODULE MatrixQueues ----------------------------
(***************************************************************************)
(* The two queues that run the SGLang case matrix over shared CPU leases.  *)
(* The metadata queue (batch_prepare.py) takes each case through two jobs, *)
(* "metadata" and "graph"; a worker of the cache queue (cache_queue.py)    *)
(* waits for each case's graph and runs its "cache" job. Both start jobs   *)
(* through run_job(), which spawns the controller run_job.py: it takes the *)
(* CPU's lease, makes the output directory, runs the test and reports.     *)
(* A thread of the worker watches for the start of the job it waits for.   *)
(* A worker may be killed and started again with a new state directory;    *)
(* the outputs of the case matrix stay where they are.                     *)
(***************************************************************************)
EXTENDS Naturals, FiniteSets

CONSTANTS NCases,        \* cases of the worker's plan, taken in order
          MaxRestarts    \* bound: restarts of a killed cache worker

ASSUME ConstantsAssumption == NCases \in Nat \ {0} /\ MaxRestarts \in Nat

Case == 1..NCases
Queue == {"meta", "cache"}
Stage == {"metadata", "graph", "cache"}
Job == Stage \X Case
Slot == Queue \cup {"orphan"}     \* a controller whose queue is gone is an orphan

VARIABLES out,           \* out[j]: the output directory of job j
          product,       \* product[j]: what its test left behind
          starts,        \* starts[j]: how often its test was started (history)
          lock,          \* holder of the CPU's lease, or "free"
          child,         \* child[s]: the controller process in slot s
          pc,            \* pc[q]: where the queue's main thread is
          pos,           \* pos[q]: the case it works on
          stage,         \* the metadata queue's current stage
          stop,          \* stop[q]: a signal was received
          wall,          \* the worker's wall bound is reached
          status,        \* status[q], in memory
          entry,         \* entry[c]: the worker's status of case c, in memory
          observer,      \* the worker's observer thread
          stopObserver,  \* the event the main thread stops it with
          saved,         \* the worker's state.json
          savedMeta,     \* the metadata queue's status on disk
          generation     \* restarts of the worker so far

disk == <<out, product, starts>>
procs == <<lock, child>>
meta == <<stage, savedMeta>>
worker == <<entry, observer, stopObserver, saved, generation>>
flags == <<stop, wall>>
vars == <<disk, procs, pc, pos, flags, status, meta, worker>>

NoChild == [job |-> <<"cache", 1>>, pc |-> "none", sig |-> FALSE, exit |-> "none"]
NewChild(j) == [job |-> j, pc |-> "boot", sig |-> FALSE, exit |-> "none"]
Alive(s) == child[s].pc \in {"boot", "leased", "run"}

FreshEntries == [c \in Case |-> "PENDING_GRAPH"]

Init == /\ out = [j \in Job |-> "absent"]
        /\ product = [j \in Job |-> "none"]
        /\ starts = [j \in Job |-> 0]
        /\ lock = "free"
        /\ child = [s \in Slot |-> NoChild]
        /\ pc = [q \in Queue |-> "next"] /\ pos = [q \in Queue |-> 1]
        /\ stage = "metadata"
        /\ stop = [q \in Queue |-> FALSE] /\ wall = FALSE
        /\ status = [q \in Queue |-> "RUNNING"]
        /\ entry = FreshEntries
        /\ observer = "off" /\ stopObserver = FALSE
        /\ saved = [status |-> "none", entry |-> FreshEntries]
        /\ savedMeta = "none"
        /\ generation = 0

Goto(q, l) == pc' = [pc EXCEPT ![q] = l]
JobOf(q) == IF q = "cache" THEN <<"cache", pos[q]>> ELSE <<stage, pos[q]>>

-----------------------------------------------------------------------------
(* The controller run_job.py.                                              *)

Exit(s, code) ==
    /\ child' = [child EXCEPT ![s] = [NoChild EXCEPT !.pc = "dead", !.exit = code]]
    /\ lock' = IF lock = s THEN "free" ELSE lock

(* The spec or a pinned source is refused, or a signal comes before the    *)
(* handlers are installed.                                                 *)
ChildRefuses(s) == /\ child[s].pc = "boot"
                   /\ Exit(s, "error")
                   /\ UNCHANGED <<disk, pc, pos, flags, status, meta, worker>>

(* leases(): never blocks; a lease that is taken is ResourceBusy.          *)
ChildLease(s) ==
    /\ child[s].pc = "boot"
    /\ IF lock = "free"
       THEN /\ lock' = s
            /\ child' = [child EXCEPT ![s].pc = "leased"]
       ELSE Exit(s, "busy")
    /\ UNCHANGED <<disk, pc, pos, flags, status, meta, worker>>

(* gpu_admission() finds the GPU taken, after the leases.                  *)
ChildGpuBusy(s) == /\ child[s].pc = "leased"
                   /\ child[s].job[1] = "metadata"
                   /\ Exit(s, "busy")
                   /\ UNCHANGED <<disk, pc, pos, flags, status, meta, worker>>

(* mkdir(exist_ok=False), then job-start.json and run_process.             *)
(* Mutant: mkdir(exist_ok=True).                                           *)
MayReuseOutput(j) == TRUE
MayMakeOutput(j) == out[j] = "absent"

ChildStart(s) ==
    LET j == child[s].job IN
    /\ child[s].pc = "leased"
    /\ IF MayMakeOutput(j)
       THEN /\ out' = [out EXCEPT ![j] = "started"]
            /\ starts' = [starts EXCEPT ![j] = @ + 1]
            /\ child' = [child EXCEPT ![s].pc = "run"]
            /\ UNCHANGED lock
       ELSE Exit(s, "error") /\ UNCHANGED <<out, starts>>
    /\ UNCHANGED <<product, pc, pos, flags, status, meta, worker>>

(* The test ends; job-finish.json is saved; 0 only for PASS_PROCESS_ONLY.  *)
(* A test that passes as a process may still leave an incomplete product,  *)
(* and one that is signalled does not pass.                                *)
ChildFinish(s) ==
    LET j == child[s].job IN
    /\ child[s].pc = "run"
    /\ \/ /\ ~child[s].sig
          /\ out' = [out EXCEPT ![j] = "pass"]
          /\ \E p \in {"complete", "incomplete"} :
                product' = [product EXCEPT ![j] = p]
          /\ Exit(s, "ok")
       \/ /\ out' = [out EXCEPT ![j] = "fail"]
          /\ Exit(s, "error")
          /\ UNCHANGED product
    /\ UNCHANGED <<starts, pc, pos, flags, status, meta, worker>>

Child(s) == \/ ChildRefuses(s) \/ ChildLease(s) \/ ChildGpuBusy(s)
            \/ ChildStart(s) \/ ChildFinish(s)

-----------------------------------------------------------------------------
(* run_job(): one attempt after the other, until the job ends.             *)

MustStop(q) == stop[q] \/ (q = "cache" /\ wall)
Signal(q) == child' = [child EXCEPT ![q].sig = TRUE]

(* The loop's head: signal and wall bound, then a controller is spawned.   *)
Call(q) ==
    /\ pc[q] = "call"
    /\ IF MustStop(q)
       THEN Goto(q, "raise") /\ UNCHANGED child
       ELSE /\ child' = [child EXCEPT ![q] = NewChild(JobOf(q))]
            /\ Goto(q, "poll")
    /\ UNCHANGED <<disk, lock, pos, flags, status, meta, worker>>

(* The controller is still running when a signal or the bound is noticed.  *)
PollStopped(q) ==
    /\ pc[q] = "poll" /\ Alive(q)
    /\ MustStop(q)
    /\ Signal(q)
    /\ Goto(q, "reap")
    /\ UNCHANGED <<disk, lock, pos, flags, status, meta, worker>>

(* wait(timeout=120): it ended, or TimeoutExpired leaves it running.       *)
Reap(q) ==
    /\ pc[q] = "reap"
    /\ Goto(q, "raise")
    /\ UNCHANGED <<disk, procs, pos, flags, status, meta, worker>>

(* Only an admission that was refused before any output is tried again.    *)
Retryable(q) == child[q].exit = "busy" /\ out[JobOf(q)] = "absent"

Exited(q) == pc[q] = "poll" /\ child[q].pc = "dead"

PollReturns(q) ==
    /\ Exited(q) /\ child[q].exit = "ok"
    /\ child' = [child EXCEPT ![q] = NoChild]
    /\ Goto(q, "return")
    /\ UNCHANGED <<disk, lock, pos, flags, status, meta, worker>>

PollRetries(q) ==
    /\ Exited(q) /\ Retryable(q)
    /\ child' = [child EXCEPT ![q] = NoChild]
    /\ Goto(q, "call")
    /\ UNCHANGED <<disk, lock, pos, flags, status, meta, worker>>

(* The job failed, or the resource wait has lasted long enough.            *)
PollGivesUp(q) ==
    /\ Exited(q) /\ child[q].exit # "ok"
    /\ child' = [child EXCEPT ![q] = NoChild]
    /\ Goto(q, "raise")
    /\ UNCHANGED <<disk, lock, pos, flags, status, meta, worker>>

(* except BaseException: the controller is asked to clean up, and waited   *)
(* for. If it does not end in time the status is never changed.            *)
Except(q, verdict) ==
    /\ pc[q] = "except"
    /\ IF Alive(q) THEN Signal(q) ELSE UNCHANGED child
    /\ status' = [status EXCEPT ![q] = verdict]
    /\ Goto(q, "finally")
    /\ UNCHANGED <<disk, lock, pos, flags, meta, worker>>

ExceptTimeout(q) ==
    /\ pc[q] = "except" /\ Alive(q)
    /\ Signal(q)
    /\ Goto(q, "finally")
    /\ UNCHANGED <<disk, lock, pos, flags, status, meta, worker>>

RunJob(q) == \/ Call(q) \/ PollStopped(q) \/ Reap(q)
             \/ PollReturns(q) \/ PollRetries(q) \/ PollGivesUp(q)

(* stop_handler: the flag, and the running controller is signalled.        *)
StopSignal(q) ==
    /\ pc[q] \notin {"ended", "dead"} /\ ~stop[q]
    /\ stop' = [stop EXCEPT ![q] = TRUE]
    /\ IF Alive(q) THEN Signal(q) ELSE UNCHANGED child
    /\ UNCHANGED <<disk, lock, pc, pos, wall, status, meta, worker>>

(* Time reaches the worker's wall bound. (Stopped by a signal or by its    *)
(* own bound, the metadata queue does the same: one flag stands for both.) *)
WallBound ==
    /\ pc["cache"] \notin {"ended", "dead"} /\ ~wall
    /\ wall' = TRUE
    /\ UNCHANGED <<disk, procs, pc, pos, stop, status, meta, worker>>

-----------------------------------------------------------------------------
(* The metadata queue: batch_prepare.py execute.                           *)

SaveMeta == savedMeta' = status["meta"]

FreshOutputs(c) == /\ out[<<"metadata", c>>] = "absent"
                   /\ out[<<"graph", c>>] = "absent"

(* The next case; all its outputs must be fresh.                           *)
MetaNext ==
    /\ pc["meta"] = "next"
    /\ \/ /\ pos["meta"] > NCases
          /\ status' = [status EXCEPT !["meta"] = "PASS"]
          /\ Goto("meta", "finally")
          /\ UNCHANGED meta
       \/ /\ pos["meta"] <= NCases
          /\ stop["meta"] \/ ~FreshOutputs(pos["meta"])
          /\ Goto("meta", "raise")
          /\ UNCHANGED <<status, meta>>
       \/ /\ pos["meta"] <= NCases
          /\ ~stop["meta"] /\ FreshOutputs(pos["meta"])
          /\ stage' = "metadata" /\ SaveMeta
          /\ Goto("meta", "call")
          /\ UNCHANGED status
    /\ UNCHANGED <<disk, procs, pos, flags, worker>>

(* A job returned: its record or receipt must close, then the next stage.  *)
MetaReturn ==
    /\ pc["meta"] = "return"
    /\ \/ /\ product[JobOf("meta")] # "complete"
          /\ Goto("meta", "raise")
          /\ UNCHANGED <<pos, meta>>
       \/ /\ product[JobOf("meta")] = "complete" /\ stage = "metadata"
          /\ stage' = "graph" /\ SaveMeta
          /\ Goto("meta", "call")
          /\ UNCHANGED pos
       \/ /\ product[JobOf("meta")] = "complete" /\ stage = "graph"
          /\ pos' = [pos EXCEPT !["meta"] = @ + 1] /\ SaveMeta
          /\ Goto("meta", "next")
          /\ UNCHANGED stage
    /\ UNCHANGED <<disk, procs, flags, status, worker>>

MetaRaise ==
    /\ pc["meta"] = "raise"
    /\ Goto("meta", "except")
    /\ UNCHANGED <<disk, procs, pos, flags, status, meta, worker>>

(* finally: the state is saved; the process ends, and a controller that    *)
(* outlives it is signalled by the kernel (PR_SET_PDEATHSIG).              *)
MetaFinally ==
    /\ pc["meta"] = "finally"
    /\ SaveMeta
    /\ IF Alive("meta") THEN Signal("meta") ELSE UNCHANGED child
    /\ Goto("meta", "ended")
    /\ stop' = [stop EXCEPT !["meta"] = FALSE]
    /\ UNCHANGED <<disk, lock, pos, wall, status, stage, worker>>

Meta == \/ RunJob("meta") \/ MetaNext \/ MetaReturn \/ MetaRaise
        \/ Except("meta", "STOPPED") \/ ExceptTimeout("meta") \/ MetaFinally

-----------------------------------------------------------------------------
(* The cache worker: cache_queue.py execute.                               *)

SaveWorker(e) == saved' = [status |-> status["cache"], entry |-> e]

Here == pos["cache"]
SetEntry(s) == entry' = [entry EXCEPT ![Here] = s]

CacheNext ==
    /\ pc["cache"] = "next"
    /\ IF Here > NCases
       THEN /\ status' = [status EXCEPT !["cache"] =
                  IF \E c \in Case : entry[c] = "FAILED" THEN "WITH_FAILURES"
                                                         ELSE "PASS"]
            /\ Goto("cache", "finally")
       ELSE /\ Goto("cache", IF out[<<"cache", Here>>] # "absent"
                             THEN "failed" ELSE "wait")
            /\ UNCHANGED status
    /\ UNCHANGED <<disk, procs, pos, flags, meta, worker>>

(* graph_readiness: a closed job that failed, and a closed converter       *)
(* without its complete graph and receipt, raise.                          *)
(* Mutant: the receipt of a closed converter is not examined.              *)
GraphRefusedByJobOnly(c) ==
    out[<<"metadata", c>>] = "fail" \/ out[<<"graph", c>>] = "fail"
GraphRefused(c) ==
    \/ out[<<"metadata", c>>] = "fail" \/ out[<<"graph", c>>] = "fail"
    \/ out[<<"graph", c>>] = "pass" /\ product[<<"graph", c>>] # "complete"
GraphReady(c) == ~GraphRefused(c) /\ out[<<"graph", c>>] = "pass"

(* Mutant: only a refused graph ends the wait loop.                        *)
CacheGivesUpRefused ==
    /\ pc["cache"] = "wait"
    /\ GraphRefused(Here)
    /\ Goto("cache", "failed")
    /\ UNCHANGED <<disk, procs, pos, flags, status, meta, worker>>

(* The wait loop gives up on a signal, at the wall bound, on a refused     *)
(* graph, or when it has waited too long for this one.                     *)
CacheGivesUp ==
    /\ pc["cache"] = "wait"
    /\ stop["cache"] \/ wall \/ ~GraphReady(Here)
    /\ Goto("cache", "failed")
    /\ UNCHANGED <<disk, procs, pos, flags, status, meta, worker>>

CacheWaits ==
    /\ pc["cache"] = "wait"
    /\ ~stop["cache"] /\ ~wall
    /\ ~GraphReady(Here) /\ ~GraphRefused(Here)
    /\ SetEntry("WAITING_GRAPH") /\ SaveWorker(entry')
    /\ UNCHANGED <<disk, procs, pc, pos, flags, status, meta, observer,
                   stopObserver, generation>>

(* The graph is ready: the spec is written and the observer started.       *)
CacheSpec ==
    /\ pc["cache"] = "wait"
    /\ ~stop["cache"] /\ ~wall /\ GraphReady(Here)
    /\ SetEntry("WAITING_CPU") /\ SaveWorker(entry')
    /\ observer' = "watch" /\ stopObserver' = FALSE
    /\ Goto("cache", "call")
    /\ UNCHANGED <<disk, procs, pos, flags, status, meta, generation>>

(* The observer wakes each second unless stopped; job-start.json may have  *)
(* appeared; it marks the entry, saves the state and ends.                 *)
ObserverWakes ==
    /\ observer = "watch"
    /\ observer' = IF stopObserver THEN "done" ELSE "look"
    /\ UNCHANGED <<disk, procs, pc, pos, flags, status, meta, entry,
                   stopObserver, saved, generation>>

ObserverLooks ==
    /\ observer = "look"
    /\ IF out[<<"cache", Here>>] # "absent"
       THEN SetEntry("RUNNING_CACHE") /\ observer' = "save"
       ELSE observer' = "watch" /\ UNCHANGED entry
    /\ UNCHANGED <<disk, procs, pc, pos, flags, status, meta,
                   stopObserver, saved, generation>>

ObserverSaves ==
    /\ observer = "save"
    /\ SaveWorker(entry)
    /\ observer' = "done"
    /\ UNCHANGED <<disk, procs, pc, pos, flags, status, meta, entry,
                   stopObserver, generation>>

(* finally of run_job(): the observer is stopped, then joined.             *)
StopObserver ==
    /\ pc["cache"] \in {"return", "raise"}
    /\ stopObserver' = TRUE
    /\ Goto("cache", IF pc["cache"] = "return" THEN "join" ELSE "join_raise")
    /\ UNCHANGED <<disk, procs, pos, flags, status, meta, entry, observer,
                   saved, generation>>

(* Mutant: stop_observer.set() without join().                             *)
JoinedAtOnce == TRUE
Joined == observer = "done"

JoinObserver ==
    /\ pc["cache"] \in {"join", "join_raise"} /\ Joined
    /\ Goto("cache", IF pc["cache"] = "join" THEN "summary" ELSE "failed")
    /\ UNCHANGED <<disk, procs, pos, flags, status, meta, worker>>

(* Mutant: a job that returned is a case that passed.                      *)
CacheSummaryByExit ==
    /\ pc["cache"] = "summary"
    /\ SetEntry("PASS") /\ Goto("cache", "save")
    /\ UNCHANGED <<disk, procs, pos, flags, status, meta, observer,
                   stopObserver, saved, generation>>

(* result_summary: the traffic result must be the complete declared graph. *)
CacheSummary ==
    /\ pc["cache"] = "summary"
    /\ IF product[<<"cache", Here>>] = "complete"
       THEN SetEntry("PASS") /\ Goto("cache", "save")
       ELSE Goto("cache", "failed") /\ UNCHANGED entry
    /\ UNCHANGED <<disk, procs, pos, flags, status, meta, observer,
                   stopObserver, saved, generation>>

(* except Exception: a stopped worker raises on, else the case is retained.*)
CacheFailed ==
    /\ pc["cache"] = "failed"
    /\ IF stop["cache"]
       THEN Goto("cache", "except") /\ UNCHANGED entry
       ELSE SetEntry("FAILED") /\ Goto("cache", "save")
    /\ UNCHANGED <<disk, procs, pos, flags, status, meta, observer,
                   stopObserver, saved, generation>>

CacheSave ==
    /\ pc["cache"] = "save"
    /\ SaveWorker(entry)
    /\ pos' = [pos EXCEPT !["cache"] = @ + 1]
    /\ Goto("cache", "next")
    /\ UNCHANGED <<disk, procs, flags, status, meta, entry, observer,
                   stopObserver, generation>>

CacheFinally ==
    /\ pc["cache"] = "finally"
    /\ SaveWorker(entry)
    /\ IF Alive("cache") THEN Signal("cache") ELSE UNCHANGED child
    /\ Goto("cache", "ended")
    /\ stop' = [stop EXCEPT !["cache"] = FALSE] /\ wall' = FALSE
    /\ UNCHANGED <<disk, lock, pos, status, meta, entry, observer,
                   stopObserver, generation>>

Observer == ObserverWakes \/ ObserverLooks \/ ObserverSaves

Cache == \/ RunJob("cache") \/ CacheNext \/ CacheGivesUp \/ CacheWaits
         \/ CacheSpec \/ StopObserver \/ JoinObserver \/ CacheSummary
         \/ CacheFailed \/ CacheSave \/ CacheFinally
         \/ Except("cache", "STOPPED") \/ ExceptTimeout("cache")

(* What a new worker process starts from.                                  *)
FreshWorker ==
    /\ pos' = [pos EXCEPT !["cache"] = 1]
    /\ stop' = [stop EXCEPT !["cache"] = FALSE] /\ wall' = FALSE
    /\ status' = [status EXCEPT !["cache"] = "RUNNING"]
    /\ entry' = FreshEntries
    /\ observer' = "off" /\ stopObserver' = FALSE

(* The worker is killed: its memory is gone, its controller is signalled   *)
(* by the kernel and becomes an orphan (of the one killed before, nothing  *)
(* is left to wait for).                                                   *)
CacheKilled ==
    /\ pc["cache"] \notin {"ended", "dead"} /\ generation < MaxRestarts
    /\ ~Alive("orphan")
    /\ Goto("cache", "dead")
    /\ FreshWorker
    /\ child' = [child EXCEPT !["cache"] = NoChild,
                             !["orphan"] = IF Alive("cache")
                                           THEN [child["cache"] EXCEPT !.sig = TRUE]
                                           ELSE NoChild]
    /\ lock' = IF lock = "cache" THEN "orphan" ELSE lock
    /\ UNCHANGED <<disk, meta, saved, generation>>

(* The same plan is executed again, with a new state directory.            *)
CacheRestart ==
    /\ pc["cache"] = "dead" /\ generation < MaxRestarts
    /\ generation' = generation + 1
    /\ Goto("cache", "next")
    /\ saved' = [status |-> "none", entry |-> FreshEntries]
    /\ UNCHANGED <<disk, procs, pos, flags, status, meta, entry, observer,
                   stopObserver>>

AllEnded == /\ \A q \in Queue : pc[q] \in {"ended", "dead"}
            /\ \A s \in Slot : ~Alive(s)
            /\ UNCHANGED vars

Next == \/ Meta \/ Cache \/ Observer
        \/ \E s \in Slot : Child(s)
        \/ \E q \in Queue : StopSignal(q)
        \/ WallBound
        \/ CacheKilled \/ CacheRestart
        \/ AllEnded

(* The queues are never blocked by the operating system, every test runs   *)
(* under a time limit of its own, and time passes: the wall bound comes,   *)
(* and an admission retried for ever exceeds maximum_resource_wait_seconds.*)
Spec == /\ Init /\ [][Next]_vars
        /\ WF_vars(Meta) /\ WF_vars(Cache) /\ WF_vars(Observer)
        /\ \A s \in Slot : WF_vars(Child(s))
        /\ WF_vars(WallBound)
        /\ \A q \in Queue : SF_vars(PollGivesUp(q))

-----------------------------------------------------------------------------
(* Properties.                                                             *)

(* What the variables range over.                                          *)
TypeOK ==
    /\ out \in [Job -> {"absent", "started", "pass", "fail"}]
    /\ product \in [Job -> {"none", "complete", "incomplete"}]
    /\ starts \in [Job -> Nat]
    /\ lock \in Slot \cup {"free"}
    /\ child \in [Slot -> [job : Job, sig : BOOLEAN,
                          pc : {"none", "boot", "leased", "run", "dead"},
                          exit : {"none", "ok", "busy", "error"}]]
    /\ pos \in [Queue -> 1..(NCases + 1)]
    /\ stage \in {"metadata", "graph"}
    /\ stop \in [Queue -> BOOLEAN] /\ wall \in BOOLEAN
    /\ entry \in [Case -> {"PENDING_GRAPH", "WAITING_GRAPH", "WAITING_CPU",
                          "RUNNING_CACHE", "PASS", "FAILED"}]
    /\ observer \in {"off", "watch", "look", "save", "done"}
    /\ stopObserver \in BOOLEAN
    /\ generation \in 0..MaxRestarts

(* Retries, restarts and the orphan of a killed worker never start a       *)
(* case's test twice ("will not start duplicate", run_job's retry), never  *)
(* run two tests on the leased CPU at once, and never spawn a controller   *)
(* while the queue's last one is alive (parallel_jobs_per_worker = 1).     *)
JobsExclusive ==
    /\ \A j \in Job : starts[j] <= 1
    /\ Cardinality({s \in Slot : child[s].pc = "run"}) <= 1
    /\ \A q \in Queue : pc[q] = "call" /\ ~MustStop(q) => ~Alive(q)

(* A cache test only ever starts on a case whose metadata and graph jobs   *)
(* closed completely, whichever queue stopped, failed or was restarted.    *)
CacheAfterGraph ==
    \A c \in Case : starts[<<"cache", c>>] > 0 =>
        /\ product[<<"metadata", c>>] = "complete"
        /\ product[<<"graph", c>>] = "complete"

(* The state file on disk tells no untruth at any moment: a case reported  *)
(* as passed passed, one reported as running was started, a worker that    *)
(* reports completion decided every case, and the metadata queue reports   *)
(* PASS only with every graph complete.                                    *)
ReportTruthful ==
    /\ \A c \in Case :
        /\ saved.entry[c] = "PASS" => /\ out[<<"cache", c>>] = "pass"
                                      /\ product[<<"cache", c>>] = "complete"
        /\ saved.entry[c] = "RUNNING_CACHE" => starts[<<"cache", c>>] = 1
        /\ saved.status = "PASS" => saved.entry[c] = "PASS"
        /\ saved.status = "WITH_FAILURES" => saved.entry[c] \in {"PASS", "FAILED"}
    /\ savedMeta = "PASS" =>
        \A c \in Case : product[<<"graph", c>>] = "complete"

(* While a worker lives, a case's verdict is final: the observer thread    *)
(* never marks a case as running after its verdict was recorded.           *)
VerdictsKept ==
    [][pc'["cache"] # "dead" =>
        \A c \in Case : entry[c] \in {"PASS", "FAILED"} => entry'[c] = entry[c]]_vars

(* Both queues come to an end, whatever the jobs, the leases and each      *)
(* other do: a graph that never comes, a busy CPU or an unfinished         *)
(* observer never holds them for ever.                                     *)
QueuesEnd == \A q \in Queue : pc[q] = "next" ~> pc[q] \in {"ended", "dead"}

=============================================================================
