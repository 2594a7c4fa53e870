------------------------ MODULE MatrixQueues_proofs ------------------------
(***************************************************************************)
(* The inductive invariant of MatrixQueues and the theorems it gives, for  *)
(* every number of cases and of restarts of the worker.                    *)
(***************************************************************************)
EXTENDS MatrixQueues, Integers, FiniteSetTheorems, TLAPS

Verdict == {"PASS", "FAILED"}
EntryStatus == {"PENDING_GRAPH", "WAITING_GRAPH", "WAITING_CPU", "RUNNING_CACHE"}
                 \cup Verdict

RunningJob == {"call", "poll", "reap", "return"}
Joining == {"raise", "join", "join_raise"}
QueueAt == RunningJob \cup Joining \cup
             {"next", "except", "finally", "ended", "dead",
              "wait", "summary", "failed", "save"}

(* Where the variables that TypeOK leaves out range.                       *)
RangeInv ==
    /\ pc \in [Queue -> QueueAt]
    /\ pc["meta"] # "dead"
    /\ status \in [Queue -> {"RUNNING", "PASS", "WITH_FAILURES", "STOPPED"}]
    /\ saved \in [status : {"none", "RUNNING", "PASS", "WITH_FAILURES", "STOPPED"},
                  entry : [Case -> EntryStatus]]

Complete(s, c) == product[<<s, c>>] = "complete"

(* The controller that holds the lease is the one that leased or runs.     *)
LeaseInv ==
    \A s \in Slot : lock = s <=> child[s].pc \in {"leased", "run"}

(* An output directory is made by the one start of its job, and a product  *)
(* is that of a test that passed.                                          *)
OutputInv ==
    /\ \A j \in Job : starts[j] = IF out[j] = "absent" THEN 0 ELSE 1
    /\ \A j \in Job : product[j] # "none" => out[j] = "pass"
    /\ \A s \in Slot : child[s].pc = "run" => out[child[s].job] = "started"

(* What must be complete before a job of a case is run.                    *)
Inputs(j) == /\ j[1] \in {"graph", "cache"} => Complete("metadata", j[2])
             /\ j[1] = "cache" => Complete("graph", j[2])

(* A job is called, spawned and started only with its inputs complete.     *)
ChainInv ==
    /\ \A j \in Job : out[j] # "absent" => Inputs(j)
    /\ \A s \in Slot : Alive(s) => Inputs(child[s].job)
    /\ pc["meta"] \in {"call", "poll", "return"} => Inputs(JobOf("meta"))
    /\ pc["cache"] \in {"call", "poll"} => Inputs(JobOf("cache"))

(* A queue beyond its plan only closes; and a controller still alive when  *)
(* its queue no longer polls it was left behind by a stop.                 *)
QueueInv ==
    /\ pc["meta"] \in RunningJob => pos["meta"] <= NCases
    /\ pc["cache"] \notin {"next", "finally", "ended"} => pos["cache"] <= NCases
    /\ \A q \in Queue : Alive(q) => pc[q] \in {"poll", "ended"} \/ MustStop(q)

(* The cases before the worker's position are decided, those after it are  *)
(* not, its own while it is being saved; and the observer lives no longer  *)
(* than the job it observes.                                               *)
WorkerInv ==
    /\ \A c \in Case : entry[c] \in Verdict <=>
          c < pos["cache"] \/ (c = pos["cache"] /\ pc["cache"] = "save")
    /\ \A c \in Case : entry[c] = "PASS" => Complete("cache", c)
    /\ \A c \in Case : entry[c] = "RUNNING_CACHE" => out[<<"cache", c>>] # "absent"
    /\ observer \in {"watch", "look", "save"} => pc["cache"] \in RunningJob \cup Joining
    /\ status["cache"] # "RUNNING" => pc["cache"] \in {"finally", "ended"}
    /\ status["cache"] = "PASS" => \A c \in Case : entry[c] = "PASS"
    /\ status["cache"] = "WITH_FAILURES" => \A c \in Case : entry[c] \in Verdict

(* The metadata queue counts only complete graphs.                         *)
MetaInv ==
    /\ \A c \in Case : c < pos["meta"] => Complete("graph", c)
    /\ status["meta"] = "PASS" => \A c \in Case : Complete("graph", c)

IInv == /\ TypeOK /\ RangeInv /\ LeaseInv /\ OutputInv /\ ChainInv
        /\ QueueInv /\ WorkerInv /\ MetaInv /\ ReportTruthful

-----------------------------------------------------------------------------
(* What the steps rely on.                                                 *)

LEMMA CaseJobs ==
  /\ NCases \in Nat /\ NCases >= 1 /\ Case = 1..NCases /\ 1 \in Case
  /\ \A c \in Case : /\ <<"metadata", c>> \in Job
                     /\ <<"graph", c>> \in Job
                     /\ <<"cache", c>> \in Job
  /\ \A j \in Job : /\ j[2] \in Case
                    /\ \/ j[1] = "metadata" /\ j = <<"metadata", j[2]>>
                       \/ j[1] = "graph" /\ j = <<"graph", j[2]>>
                       \/ j[1] = "cache" /\ j = <<"cache", j[2]>>
BY ConstantsAssumption DEF Case, Job, Stage

(* The job a queue works on is one of the matrix.                          *)
LEMMA JobAtHand ==
  ASSUME IInv
  PROVE  /\ \A s \in Slot : child[s].job \in Job
         /\ pc["meta"] \in RunningJob => pos["meta"] \in Case /\ JobOf("meta") \in Job
         /\ pc["cache"] \notin {"next", "finally", "ended"}
               => pos["cache"] \in Case /\ JobOf("cache") \in Job
<1>1. \A s \in Slot : child[s].job \in Job
  BY DEF IInv, TypeOK
<1>2. pos["meta"] \in 1..(NCases + 1) /\ pos["cache"] \in 1..(NCases + 1)
  BY DEF IInv, TypeOK, Queue
<1>3. ASSUME pc["meta"] \in RunningJob
      PROVE  pos["meta"] \in Case /\ JobOf("meta") \in Job
  <2>1. pos["meta"] \in Case /\ stage \in {"metadata", "graph"}
    BY <1>2, <1>3, CaseJobs DEF IInv, TypeOK, QueueInv
  <2>. QED BY <2>1, CaseJobs DEF JobOf
<1>4. ASSUME pc["cache"] \notin {"next", "finally", "ended"}
      PROVE  pos["cache"] \in Case /\ JobOf("cache") \in Job
  <2>1. pos["cache"] \in Case
    BY <1>2, <1>4, CaseJobs DEF IInv, QueueInv
  <2>. QED BY <2>1, CaseJobs DEF JobOf
<1>. QED BY <1>1, <1>3, <1>4

(* At most one controller runs a test.                                     *)
LEMMA OneRuns ==
  ASSUME LeaseInv, NEW s \in Slot, NEW t \in Slot,
         child[s].pc \in {"leased", "run"}, child[t].pc \in {"leased", "run"}
  PROVE  s = t
BY DEF LeaseInv

(* Products that were complete stay so, and made directories stay made.    *)
Grows == \A j \in Job : /\ out[j] = "pass" => out'[j] = "pass"
                        /\ out[j] # "absent" => out'[j] # "absent"
                        /\ product[j] = "complete" => product'[j] = "complete"

LEMMA InputsGrow ==
  ASSUME Grows, NEW j \in Job, Inputs(j)
  PROVE  /\ j[1] \in {"graph", "cache"} => product'[<<"metadata", j[2]>>] = "complete"
         /\ j[1] = "cache" => product'[<<"graph", j[2]>>] = "complete"
<1>1. /\ j[2] \in Case
      /\ <<"metadata", j[2]>> \in Job /\ <<"graph", j[2]>> \in Job
  BY CaseJobs
<1>. QED BY <1>1 DEF Inputs, Complete, Grows

-----------------------------------------------------------------------------
(* The controller's steps.                                                 *)

(* What a step of a controller means for the queues: outputs only grow,    *)
(* no controller comes to life or changes its job, and a directory is only *)
(* made with the job's inputs complete.                                    *)
LEMMA QueuesUnmoved ==
  ASSUME IInv, Grows, UNCHANGED <<pc, pos, flags, status, meta, worker>>,
         \A t \in Slot : /\ child'[t].job \in Job
                         /\ Alive(t)' => Alive(t) /\ child'[t].job = child[t].job,
         \A j \in Job : out'[j] # "absent" => Inputs(j),
         \A j \in Job : out'[j] # "absent" => starts'[j] = 1
  PROVE  /\ RangeInv' /\ ChainInv' /\ QueueInv' /\ WorkerInv' /\ MetaInv'
         /\ ReportTruthful'
<1>. USE CaseJobs DEF flags, meta, worker
<1>1. RangeInv'
  BY DEF IInv, RangeInv
<1>2. ChainInv'
  <2>1. ASSUME NEW j \in Job, out'[j] # "absent" PROVE Inputs(j)'
    BY <2>1, InputsGrow DEF Inputs, Complete
  <2>2. ASSUME NEW t \in Slot, Alive(t)' PROVE Inputs(child[t].job)'
    <3>1. child[t].job \in Job /\ child'[t].job = child[t].job /\ Inputs(child[t].job)
      BY <2>2, JobAtHand DEF IInv, ChainInv
    <3>. QED BY <3>1, InputsGrow DEF Inputs, Complete
  <2>3. ASSUME pc'["meta"] \in {"call", "poll", "return"} PROVE Inputs(JobOf("meta"))'
    <3>1. JobOf("meta") \in Job /\ JobOf("meta")' = JobOf("meta") /\ Inputs(JobOf("meta"))
      BY <2>3, JobAtHand DEF IInv, ChainInv, JobOf, RunningJob
    <3>. QED BY <3>1, InputsGrow DEF Inputs, Complete
  <2>4. ASSUME pc'["cache"] \in {"call", "poll"} PROVE Inputs(JobOf("cache"))'
    <3>1. JobOf("cache") \in Job /\ JobOf("cache")' = JobOf("cache") /\ Inputs(JobOf("cache"))
      BY <2>4, JobAtHand DEF IInv, ChainInv, JobOf
    <3>. QED BY <3>1, InputsGrow DEF Inputs, Complete
  <2>. QED BY <2>1, <2>2, <2>3, <2>4 DEF ChainInv
<1>3. QueueInv'
  BY DEF IInv, QueueInv, MustStop, Slot
<1>4. WorkerInv'
  BY DEF IInv, WorkerInv, Complete, Grows
<1>5. MetaInv'
  BY DEF IInv, MetaInv, Complete, Grows
<1>6. ReportTruthful'
  <2>1. ASSUME NEW c \in Case
        PROVE  out[<<"cache", c>>] # "absent" <=> starts[<<"cache", c>>] = 1
    <3>1. starts[<<"cache", c>>] = IF out[<<"cache", c>>] = "absent" THEN 0 ELSE 1
      BY DEF IInv, OutputInv
    <3>. QED BY <3>1
  <2>2. saved' = saved /\ savedMeta' = savedMeta
    OBVIOUS
  <2>3. \A j \in Job : /\ out[j] = "pass" => out'[j] = "pass"
                       /\ product[j] = "complete" => product'[j] = "complete"
                       /\ out[j] # "absent" => out'[j] # "absent"
    BY DEF Grows
  <2>4. ASSUME NEW c \in Case
        PROVE  /\ saved'.entry[c] = "PASS" => /\ out'[<<"cache", c>>] = "pass"
                                              /\ product'[<<"cache", c>>] = "complete"
               /\ saved'.entry[c] = "RUNNING_CACHE" => starts'[<<"cache", c>>] = 1
               /\ saved'.status = "PASS" => saved'.entry[c] = "PASS"
               /\ saved'.status = "WITH_FAILURES" => saved'.entry[c] \in {"PASS", "FAILED"}
    <3>1. <<"cache", c>> \in Job
      BY CaseJobs
    <3>2. /\ saved.entry[c] = "PASS" => /\ out[<<"cache", c>>] = "pass"
                                        /\ product[<<"cache", c>>] = "complete"
          /\ saved.entry[c] = "RUNNING_CACHE" => starts[<<"cache", c>>] = 1
          /\ saved.status = "PASS" => saved.entry[c] = "PASS"
          /\ saved.status = "WITH_FAILURES" => saved.entry[c] \in {"PASS", "FAILED"}
      BY DEF IInv, ReportTruthful
    <3>3. out[<<"cache", c>>] # "absent" => starts'[<<"cache", c>>] = 1
      BY <2>3, <3>1
    <3>. QED BY <2>1, <2>2, <2>3, <3>1, <3>2, <3>3
  <2>5. savedMeta' = "PASS" => \A c \in Case : product'[<<"graph", c>>] = "complete"
    BY <2>2, <2>3 DEF IInv, ReportTruthful
  <2>. QED BY <2>4, <2>5 DEF ReportTruthful
<1>. QED BY <1>1, <1>2, <1>3, <1>4, <1>5, <1>6

ChildRecord == [job : Job, sig : BOOLEAN,
                pc : {"none", "boot", "leased", "run", "dead"},
                exit : {"none", "ok", "busy", "error"}]

(* A controller that exits is dead and gives the lease back.               *)
LEMMA ExitEffect ==
  ASSUME IInv, NEW s \in Slot, NEW code \in {"ok", "busy", "error"}, Exit(s, code)
  PROVE  /\ child' \in [Slot -> ChildRecord] /\ lock' \in Slot \cup {"free"}
         /\ child'[s].pc = "dead"
         /\ \A t \in Slot \ {s} : child'[t] = child[t]
         /\ \A t \in Slot : /\ child'[t].job \in Job
                            /\ Alive(t)' => Alive(t) /\ child'[t].job = child[t].job
         /\ LeaseInv'
<1>. DEFINE gone == [NoChild EXCEPT !.pc = "dead", !.exit = code]
<1>1. gone \in ChildRecord /\ gone.pc = "dead"
  BY CaseJobs DEF NoChild, ChildRecord
<1>2. child \in [Slot -> ChildRecord] /\ lock \in Slot \cup {"free"}
  BY DEF IInv, TypeOK, ChildRecord
<1>3. child' = [child EXCEPT ![s] = gone] /\ lock' = IF lock = s THEN "free" ELSE lock
  BY DEF Exit
<1>. HIDE DEF gone
<1>4. child' \in [Slot -> ChildRecord] /\ lock' \in Slot \cup {"free"}
  BY <1>1, <1>2, <1>3
<1>5. child'[s].pc = "dead" /\ \A t \in Slot \ {s} : child'[t] = child[t]
  BY <1>1, <1>2, <1>3
<1>6. \A t \in Slot : Alive(t)' => Alive(t) /\ child'[t].job = child[t].job
  BY <1>5 DEF Alive
<1>7. LeaseInv'
  <2>1. "free" \notin Slot
    BY DEF Slot, Queue
  <2>. QED BY <1>3, <1>5, <2>1 DEF IInv, LeaseInv
<1>. QED BY <1>4, <1>5, <1>6, <1>7 DEF ChildRecord

(* The steps of a controller before it makes its output directory.         *)
LEMMA AdmissionKeeps ==
  ASSUME IInv, NEW s \in Slot,
         ChildRefuses(s) \/ ChildLease(s) \/ ChildGpuBusy(s)
  PROVE  IInv'
<1>1. UNCHANGED <<disk, pc, pos, flags, status, meta, worker>>
  BY DEF ChildRefuses, ChildLease, ChildGpuBusy
<1>2. /\ child' \in [Slot -> ChildRecord] /\ lock' \in Slot \cup {"free"}
      /\ \A t \in Slot : /\ child'[t].job \in Job
                         /\ Alive(t)' => Alive(t) /\ child'[t].job = child[t].job
                         /\ child'[t].pc = "run" => child[t].pc = "run"
      /\ LeaseInv'
  <2>1. CASE child[s].pc = "boot" /\ lock = "free" /\ lock' = s
             /\ child' = [child EXCEPT ![s].pc = "leased"]
    <3>1. child \in [Slot -> ChildRecord]
      BY DEF IInv, TypeOK, ChildRecord
    <3>2. child' \in [Slot -> ChildRecord]
      BY <2>1, <3>1 DEF ChildRecord
    <3>3. /\ child'[s].pc = "leased" /\ child'[s].job = child[s].job
          /\ \A t \in Slot \ {s} : child'[t] = child[t]
      BY <2>1, <3>1 DEF ChildRecord
    <3>4. LeaseInv'
      <4>1. "free" \notin Slot
        BY DEF Slot, Queue
      <4>. QED BY <2>1, <3>3, <4>1 DEF IInv, LeaseInv
    <3>. QED BY <2>1, <3>2, <3>3, <3>4 DEF Alive, ChildRecord
  <2>2. CASE Exit(s, "busy") \/ Exit(s, "error")
    BY <2>2, ExitEffect
  <2>. QED BY <2>1, <2>2 DEF ChildRefuses, ChildLease, ChildGpuBusy
<1>3. TypeOK'
  BY <1>1, <1>2 DEF IInv, TypeOK, ChildRecord, disk, flags, meta, worker
<1>4. OutputInv'
  BY <1>1, <1>2 DEF IInv, OutputInv, disk, Alive
<1>5. /\ Grows
      /\ \A j \in Job : out'[j] # "absent" => Inputs(j) /\ starts'[j] = 1
  BY <1>1 DEF IInv, OutputInv, ChainInv, Grows, disk
<1>6. /\ RangeInv' /\ ChainInv' /\ QueueInv' /\ WorkerInv' /\ MetaInv'
      /\ ReportTruthful'
  BY <1>1, <1>2, <1>5, QueuesUnmoved
<1>. QED BY <1>2, <1>3, <1>4, <1>6 DEF IInv

(* It makes its output directory and starts the test, or finds it made.    *)
LEMMA ChildStartKeeps ==
  ASSUME IInv, NEW s \in Slot, ChildStart(s) PROVE IInv'
<1>. DEFINE j == child[s].job
<1>1. /\ child[s].pc = "leased" /\ Alive(s) /\ j \in Job /\ Inputs(j)
      /\ UNCHANGED <<product, pc, pos, flags, status, meta, worker>>
  BY JobAtHand DEF ChildStart, Alive, IInv, ChainInv
<1>2. CASE MayMakeOutput(j)
  <2>1. /\ out[j] = "absent" /\ out' = [out EXCEPT ![j] = "started"]
        /\ starts' = [starts EXCEPT ![j] = @ + 1]
        /\ child' = [child EXCEPT ![s].pc = "run"] /\ lock' = lock
    BY <1>2 DEF ChildStart, MayMakeOutput
  <2>2. /\ child \in [Slot -> ChildRecord]
        /\ out \in [Job -> {"absent", "started", "pass", "fail"}]
        /\ starts \in [Job -> Nat] /\ product \in [Job -> {"none", "complete", "incomplete"}]
    BY DEF IInv, TypeOK, ChildRecord
  <2>3. child' \in [Slot -> ChildRecord]
    BY <2>1, <2>2 DEF ChildRecord
  <2>4. /\ child'[s].pc = "run" /\ child'[s].job = j
        /\ \A t \in Slot \ {s} : child'[t] = child[t]
    BY <2>1, <2>2 DEF ChildRecord
  <2>5. /\ out'[j] = "started" /\ starts'[j] = 1 /\ product[j] = "none"
        /\ \A k \in Job \ {j} : out'[k] = out[k] /\ starts'[k] = starts[k]
    BY <1>1, <2>1, <2>2 DEF IInv, OutputInv
  <2>6. TypeOK'
    BY <1>1, <2>1, <2>2, <2>3 DEF IInv, TypeOK, ChildRecord, flags, meta, worker
  <2>7. LeaseInv'
    BY <1>1, <2>1, <2>4 DEF IInv, LeaseInv
  <2>8. OutputInv'
    <3>1. \A k \in Job : /\ starts'[k] = IF out'[k] = "absent" THEN 0 ELSE 1
                         /\ product'[k] # "none" => out'[k] = "pass"
      BY <1>1, <2>5 DEF IInv, OutputInv
    <3>2. ASSUME NEW t \in Slot, child'[t].pc = "run"
          PROVE  out'[child'[t].job] = "started"
      <4>1. CASE t = s
        BY <4>1, <2>4, <2>5
      <4>2. CASE t # s
        <5>1. child[t].pc = "run"
          BY <2>4, <3>2, <4>2
        <5>. QED BY <1>1, <4>2, <5>1, OneRuns DEF IInv
      <4>. QED BY <4>1, <4>2
    <3>. QED BY <3>1, <3>2 DEF OutputInv
  <2>9. Grows /\ \A k \in Job : out'[k] # "absent" => Inputs(k) /\ starts'[k] = 1
    BY <1>1, <2>1, <2>5 DEF IInv, OutputInv, ChainInv, Grows
  <2>10. \A t \in Slot : /\ child'[t].job \in Job
                         /\ Alive(t)' => Alive(t) /\ child'[t].job = child[t].job
    BY <1>1, <2>3, <2>4 DEF Alive, ChildRecord
  <2>11. /\ RangeInv' /\ ChainInv' /\ QueueInv' /\ WorkerInv' /\ MetaInv'
         /\ ReportTruthful'
    BY <1>1, <2>9, <2>10, QueuesUnmoved
  <2>. QED BY <2>6, <2>7, <2>8, <2>11 DEF IInv
<1>3. CASE ~MayMakeOutput(j)
  <2>1. Exit(s, "error") /\ UNCHANGED disk
    BY <1>3 DEF ChildStart, disk
  <2>2. /\ child' \in [Slot -> ChildRecord] /\ lock' \in Slot \cup {"free"}
        /\ \A t \in Slot : /\ child'[t].job \in Job
                           /\ Alive(t)' => Alive(t) /\ child'[t].job = child[t].job
                           /\ child'[t].pc = "run" => child[t].pc = "run"
        /\ LeaseInv'
    BY <2>1, ExitEffect
  <2>3. TypeOK'
    BY <1>1, <2>1, <2>2 DEF IInv, TypeOK, ChildRecord, disk, flags, meta, worker
  <2>4. OutputInv'
    BY <2>1, <2>2 DEF IInv, OutputInv, disk, Alive
  <2>5. Grows /\ \A k \in Job : out'[k] # "absent" => Inputs(k) /\ starts'[k] = 1
    BY <2>1 DEF IInv, OutputInv, ChainInv, Grows, disk
  <2>6. /\ RangeInv' /\ ChainInv' /\ QueueInv' /\ WorkerInv' /\ MetaInv'
        /\ ReportTruthful'
    BY <1>1, <2>2, <2>5, QueuesUnmoved
  <2>. QED BY <2>2, <2>3, <2>4, <2>6 DEF IInv
<1>. QED BY <1>2, <1>3

(* The test ends: only now is there a product.                             *)
LEMMA ChildFinishKeeps ==
  ASSUME IInv, NEW s \in Slot, ChildFinish(s) PROVE IInv'
<1>. DEFINE j == child[s].job
<1>1. /\ child[s].pc = "run" /\ Alive(s) /\ j \in Job
      /\ out[j] = "started" /\ product[j] = "none" /\ starts[j] = 1
      /\ UNCHANGED <<starts, pc, pos, flags, status, meta, worker>>
  <2>1. child[s].pc = "run" /\ UNCHANGED <<starts, pc, pos, flags, status, meta, worker>>
    BY DEF ChildFinish
  <2>2. j \in Job /\ out[j] = "started"
    BY <2>1, JobAtHand DEF IInv, OutputInv
  <2>. QED BY <2>1, <2>2 DEF Alive, IInv, OutputInv
<1>2. /\ Exit(s, "ok") \/ Exit(s, "error")
      /\ \/ /\ out' = [out EXCEPT ![j] = "pass"]
            /\ \E p \in {"complete", "incomplete"} :
                  product' = [product EXCEPT ![j] = p]
         \/ /\ out' = [out EXCEPT ![j] = "fail"]
            /\ product' = product
  BY DEF ChildFinish
<1>3. /\ child' \in [Slot -> ChildRecord] /\ lock' \in Slot \cup {"free"}
      /\ child'[s].pc = "dead"
      /\ \A t \in Slot \ {s} : child'[t] = child[t]
      /\ \A t \in Slot : /\ child'[t].job \in Job
                         /\ Alive(t)' => Alive(t) /\ child'[t].job = child[t].job
      /\ LeaseInv'
  BY <1>2, ExitEffect
<1>4. /\ out \in [Job -> {"absent", "started", "pass", "fail"}]
      /\ product \in [Job -> {"none", "complete", "incomplete"}]
  BY DEF IInv, TypeOK
<1>5. /\ out' \in [Job -> {"absent", "started", "pass", "fail"}]
      /\ product' \in [Job -> {"none", "complete", "incomplete"}]
      /\ out'[j] \in {"pass", "fail"}
      /\ product'[j] # "none" => out'[j] = "pass"
      /\ \A k \in Job \ {j} : out'[k] = out[k] /\ product'[k] = product[k]
  BY <1>1, <1>2, <1>4
<1>6. TypeOK'
  BY <1>1, <1>3, <1>5 DEF IInv, TypeOK, ChildRecord, flags, meta, worker
<1>7. OutputInv'
  <2>1. \A k \in Job : /\ starts'[k] = IF out'[k] = "absent" THEN 0 ELSE 1
                       /\ product'[k] # "none" => out'[k] = "pass"
    BY <1>1, <1>5 DEF IInv, OutputInv
  <2>2. \A t \in Slot : child'[t].pc # "run"
    BY <1>1, <1>3, OneRuns DEF IInv
  <2>. QED BY <2>1, <2>2 DEF OutputInv
<1>8. Grows /\ \A k \in Job : out'[k] # "absent" => Inputs(k) /\ starts'[k] = 1
  BY <1>1, <1>5 DEF IInv, OutputInv, ChainInv, Grows
<1>9. /\ RangeInv' /\ ChainInv' /\ QueueInv' /\ WorkerInv' /\ MetaInv'
      /\ ReportTruthful'
  BY <1>1, <1>3, <1>8, QueuesUnmoved
<1>. QED BY <1>3, <1>6, <1>7, <1>9 DEF IInv

LEMMA ChildKeeps ==
  ASSUME IInv, NEW s \in Slot, Child(s) PROVE IInv'
BY AdmissionKeeps, ChildStartKeeps, ChildFinishKeeps DEF Child

-----------------------------------------------------------------------------
(* The steps both queues take.                                             *)

(* A step of a queue that leaves the outputs alone touches at most its own *)
(* controller, which it signals, spawns or forgets.                        *)
LEMMA OwnController ==
  ASSUME IInv, NEW q \in Slot, UNCHANGED <<disk, lock>>,
         \/ child' = child
         \/ Signal(q)
         \/ ~Alive(q) /\ child' = [child EXCEPT ![q] = NoChild]
         \/ \E j \in Job : ~Alive(q) /\ child' = [child EXCEPT ![q] = NewChild(j)]
  PROVE  /\ child' \in [Slot -> ChildRecord]
         /\ \A t \in Slot \ {q} : child'[t] = child[t]
         /\ Alive(q) /\ Alive(q)' => child'[q].job = child[q].job
         /\ LeaseInv' /\ OutputInv'
<1>1. child \in [Slot -> ChildRecord]
  BY DEF IInv, TypeOK, ChildRecord
<1>2. /\ NoChild \in ChildRecord /\ NoChild.pc = "none"
      /\ \A j \in Job : NewChild(j) \in ChildRecord /\ NewChild(j).pc = "boot"
  BY CaseJobs DEF NoChild, NewChild, ChildRecord
<1>3. /\ child' \in [Slot -> ChildRecord]
      /\ \A t \in Slot \ {q} : child'[t] = child[t]
      /\ \/ child'[q].pc = child[q].pc /\ child'[q].job = child[q].job
         \/ ~Alive(q) /\ child'[q].pc \in {"none", "boot"}
  <2>1. CASE child' = child
    BY <1>1, <2>1
  <2>2. CASE Signal(q)
    <3>1. child' = [child EXCEPT ![q] = [child[q] EXCEPT !.sig = TRUE]]
      BY <2>2 DEF Signal
    <3>2. /\ [child[q] EXCEPT !.sig = TRUE] \in ChildRecord
          /\ [child[q] EXCEPT !.sig = TRUE].pc = child[q].pc
          /\ [child[q] EXCEPT !.sig = TRUE].job = child[q].job
      BY <1>1 DEF ChildRecord
    <3>. QED BY <1>1, <3>1, <3>2
  <2>3. CASE ~Alive(q) /\ child' = [child EXCEPT ![q] = NoChild]
    BY <1>1, <1>2, <2>3
  <2>4. CASE \E j \in Job : ~Alive(q) /\ child' = [child EXCEPT ![q] = NewChild(j)]
    BY <1>1, <1>2, <2>4
  <2>. QED BY <2>1, <2>2, <2>3, <2>4
<1>4. LeaseInv'
  BY <1>3 DEF IInv, LeaseInv, Alive
<1>5. OutputInv'
  BY <1>3 DEF IInv, OutputInv, disk
<1>. QED BY <1>3, <1>4, <1>5 DEF Alive

(* run_job(): the attempts of one job.                                     *)
LEMMA RunJobKeeps ==
  ASSUME IInv, NEW q \in Queue, RunJob(q) PROVE IInv'
<1>. USE DEF disk, flags, meta, worker
<1>1. /\ UNCHANGED <<disk, lock, pos, flags, status, meta, worker>>
      /\ pc[q] \in RunningJob
      /\ \E l \in RunningJob \cup {"raise"} :
            /\ pc' = [pc EXCEPT ![q] = l]
            /\ l \in {"call", "poll", "return"} => pc[q] \in {"call", "poll"}
  BY DEF RunJob, Call, PollStopped, Reap, PollReturns, PollRetries, PollGivesUp,
         Exited, Goto, procs, RunningJob
<1>2. pc \in [Queue -> QueueAt] /\ q \in Slot
  BY DEF IInv, RangeInv, Slot
<1>3. /\ pc' \in [Queue -> QueueAt] /\ pc'[q] \in RunningJob \cup {"raise"}
      /\ pc'[q] \in {"call", "poll", "return"} => pc[q] \in {"call", "poll"}
      /\ \A p \in Queue \ {q} : pc'[p] = pc[p]
  BY <1>1, <1>2 DEF QueueAt, Joining
<1>4. JobOf(q) \in Job
  BY <1>1, JobAtHand DEF Queue, RunningJob
<1>5. \/ child' = child
      \/ Signal(q)
      \/ ~Alive(q) /\ child' = [child EXCEPT ![q] = NoChild]
      \/ pc[q] = "call" /\ ~Alive(q) /\ child' = [child EXCEPT ![q] = NewChild(JobOf(q))]
  <2>1. CASE Call(q)
    <3>1. pc[q] = "call" /\ (~MustStop(q) => ~Alive(q))
      BY <2>1 DEF Call, IInv, QueueInv
    <3>. QED BY <2>1, <3>1 DEF Call
  <2>2. CASE Exited(q)
    BY <2>2 DEF RunJob, Call, PollStopped, Reap, PollReturns, PollRetries,
                PollGivesUp, Exited, Alive
  <2>. QED BY <2>1, <2>2 DEF RunJob, PollStopped, Reap, PollReturns, PollRetries,
                             PollGivesUp, procs
<1>6. /\ child' \in [Slot -> ChildRecord]
      /\ \A t \in Slot \ {q} : child'[t] = child[t]
      /\ Alive(q) /\ Alive(q)' => child'[q].job = child[q].job
      /\ LeaseInv' /\ OutputInv'
  BY <1>1, <1>2, <1>4, <1>5, OwnController
<1>7. TypeOK'
  BY <1>1, <1>6 DEF IInv, TypeOK, ChildRecord
<1>8. RangeInv'
  BY <1>1, <1>3 DEF IInv, RangeInv, RunningJob
<1>9. ChainInv'
  <2>1. /\ \A j : Inputs(j)' <=> Inputs(j)
        /\ \A p \in Queue : JobOf(p)' = JobOf(p)
    BY <1>1 DEF Inputs, Complete, JobOf
  <2>2. ASSUME NEW t \in Slot, Alive(t)' PROVE Inputs(child[t].job)'
    <3>1. CASE child'[t].job = child[t].job /\ Alive(t)
      BY <1>1, <3>1 DEF IInv, ChainInv, Inputs, Complete
    <3>2. CASE t = q /\ pc[q] = "call" /\ child' = [child EXCEPT ![q] = NewChild(JobOf(q))]
      <4>1. child'[t].job = JobOf(q)
        BY <1>2, <3>2 DEF NewChild, IInv, TypeOK
      <4>2. Inputs(JobOf(q))
        BY <3>2 DEF IInv, ChainInv, Queue
      <4>. QED BY <1>1, <4>1, <4>2 DEF Inputs, Complete
    <3>. QED BY <1>2, <1>5, <1>6, <2>2, <3>1, <3>2 DEF Alive, NoChild, Signal, IInv, TypeOK
  <2>3. ASSUME pc'["meta"] \in {"call", "poll", "return"} PROVE Inputs(JobOf("meta"))'
    <3>1. pc["meta"] \in {"call", "poll", "return"}
      BY <1>3, <2>3 DEF Queue
    <3>. QED BY <1>1, <3>1 DEF IInv, ChainInv, Inputs, Complete, JobOf
  <2>4. ASSUME pc'["cache"] \in {"call", "poll"} PROVE Inputs(JobOf("cache"))'
    <3>1. pc["cache"] \in {"call", "poll"}
      BY <1>3, <2>4 DEF Queue
    <3>. QED BY <1>1, <3>1 DEF IInv, ChainInv, Inputs, Complete, JobOf
  <2>. QED BY <1>1, <2>1, <2>2, <2>3, <2>4 DEF IInv, ChainInv
<1>10. QueueInv'
  <2>1. pc'["meta"] \in RunningJob => pc["meta"] \in RunningJob
    BY <1>1, <1>3 DEF Queue
  <2>2. pc'["cache"] \notin {"next", "finally", "ended"}
          => pc["cache"] \notin {"next", "finally", "ended"}
    BY <1>1, <1>3 DEF Queue, RunningJob
  <2>3. ASSUME NEW p \in Queue, Alive(p)'
        PROVE  pc'[p] \in {"poll", "ended"} \/ MustStop(p)'
    <3>1. CASE p # q
      BY <1>1, <1>2, <1>3, <1>6, <2>3, <3>1 DEF IInv, QueueInv, Alive, MustStop, Slot
    <3>2. CASE p = q
      BY <1>1, <1>2, <2>3, <3>2
         DEF RunJob, Call, PollStopped, Reap, PollReturns, PollRetries, PollGivesUp,
             Goto, procs, IInv, QueueInv, Alive, MustStop, NoChild, TypeOK, Exited
    <3>. QED BY <3>1, <3>2
  <2>. QED BY <1>1, <2>1, <2>2, <2>3 DEF IInv, QueueInv
<1>11. WorkerInv'
  <2>1. /\ pc'["cache"] = "save" <=> pc["cache"] = "save"
        /\ pc["cache"] \in RunningJob \cup Joining
              => pc'["cache"] \in RunningJob \cup Joining
        /\ pc["cache"] \in {"finally", "ended"} => pc'["cache"] = pc["cache"]
    BY <1>1, <1>3 DEF Queue, RunningJob, Joining
  <2>. QED BY <1>1, <2>1 DEF IInv, WorkerInv, Complete
<1>12. MetaInv' /\ ReportTruthful'
  BY <1>1 DEF IInv, MetaInv, ReportTruthful, Complete
<1>. QED BY <1>6, <1>7, <1>8, <1>9, <1>10, <1>11, <1>12 DEF IInv

(* A step that spawns and forgets no controller.                           *)
LEMMA NoneSpawned ==
  ASSUME IInv, NEW q \in Queue, UNCHANGED <<disk, lock>>, child' = child \/ Signal(q)
  PROVE  /\ child' \in [Slot -> ChildRecord]
         /\ \A t \in Slot : child'[t].job = child[t].job /\ child'[t].pc = child[t].pc
         /\ LeaseInv' /\ OutputInv'
         /\ \A j \in Job : out'[j] # "absent" => Inputs(j)'
         /\ \A t \in Slot : Alive(t)' => Inputs(child[t].job)'
<1>1. q \in Slot /\ child \in [Slot -> ChildRecord]
  BY DEF IInv, TypeOK, ChildRecord, Slot
<1>2. /\ child' \in [Slot -> ChildRecord]
      /\ \A t \in Slot : child'[t].job = child[t].job /\ child'[t].pc = child[t].pc
  <2>1. CASE child' = child
    BY <1>1, <2>1
  <2>2. CASE Signal(q)
    <3>1. child' = [child EXCEPT ![q] = [child[q] EXCEPT !.sig = TRUE]]
      BY <2>2 DEF Signal
    <3>2. /\ [child[q] EXCEPT !.sig = TRUE] \in ChildRecord
          /\ [child[q] EXCEPT !.sig = TRUE].pc = child[q].pc
          /\ [child[q] EXCEPT !.sig = TRUE].job = child[q].job
      BY <1>1 DEF ChildRecord
    <3>. QED BY <1>1, <3>1, <3>2
  <2>. QED BY <2>1, <2>2
<1>3. LeaseInv' /\ OutputInv'
  BY <1>1, OwnController
<1>4. \A t \in Slot : Alive(t)' => Inputs(child[t].job)'
  BY <1>2 DEF IInv, ChainInv, Inputs, Complete, Alive, disk
<1>5. \A j \in Job : out'[j] # "absent" => Inputs(j)'
  BY DEF IInv, ChainInv, Inputs, Complete, disk
<1>. QED BY <1>2, <1>3, <1>4, <1>5

(* The stop of a queue, and the end of its job after one.                  *)
LEMMA StopKeeps ==
  ASSUME IInv, NEW q \in Queue,
         StopSignal(q) \/ WallBound \/ Except(q, "STOPPED") \/ ExceptTimeout(q)
  PROVE  IInv'
<1>. USE DEF flags, meta, worker
<1>1. /\ UNCHANGED <<disk, lock, pos, meta, worker>>
      /\ child' = child \/ Signal(q)
  BY DEF StopSignal, WallBound, Except, ExceptTimeout, procs
<1>2. /\ child' \in [Slot -> ChildRecord]
      /\ \A t \in Slot : child'[t].job = child[t].job /\ child'[t].pc = child[t].pc
      /\ LeaseInv' /\ OutputInv'
      /\ \A j \in Job : out'[j] # "absent" => Inputs(j)'
      /\ \A t \in Slot : Alive(t)' => Inputs(child[t].job)'
  BY <1>1, NoneSpawned
<1>3. /\ pc \in [Queue -> QueueAt] /\ stop \in [Queue -> BOOLEAN]
      /\ status \in [Queue -> {"RUNNING", "PASS", "WITH_FAILURES", "STOPPED"}]
  BY DEF IInv, TypeOK, RangeInv
<1>4. \A p \in Queue : MustStop(p) => MustStop(p)'
  BY <1>3 DEF StopSignal, WallBound, Except, ExceptTimeout, MustStop
<1>5. /\ pc' = pc \/ (pc[q] = "except" /\ pc' = [pc EXCEPT ![q] = "finally"])
      /\ \/ status' = status
         \/ /\ status' = [status EXCEPT ![q] = "STOPPED"]
            /\ pc' = [pc EXCEPT ![q] = "finally"]
  BY DEF StopSignal, WallBound, Except, ExceptTimeout, Goto
<1>6. /\ stop' \in [Queue -> BOOLEAN] /\ wall' \in BOOLEAN
      /\ pc' \in [Queue -> QueueAt] /\ \A p \in Queue : pc'[p] # pc[p] =>
                                          pc[p] = "except" /\ pc'[p] = "finally"
      /\ status' \in [Queue -> {"RUNNING", "PASS", "WITH_FAILURES", "STOPPED"}]
      /\ \A p \in Queue : status'[p] # status[p] =>
                              status'[p] = "STOPPED" /\ pc'[p] = "finally"
  <2>1. stop' \in [Queue -> BOOLEAN] /\ wall' \in BOOLEAN
    BY <1>3 DEF StopSignal, WallBound, Except, ExceptTimeout, IInv, TypeOK
  <2>. QED BY <1>3, <1>5, <2>1 DEF QueueAt
<1>7. TypeOK'
  BY <1>1, <1>2, <1>6 DEF IInv, TypeOK, ChildRecord, disk
<1>8. RangeInv'
  BY <1>1, <1>6 DEF IInv, RangeInv, Queue
<1>9. ChainInv'
  <2>1. pc'["meta"] \in {"call", "poll", "return"} => Inputs(JobOf("meta"))'
    BY <1>1, <1>6 DEF IInv, ChainInv, Queue, Inputs, Complete, JobOf, disk
  <2>2. pc'["cache"] \in {"call", "poll"} => Inputs(JobOf("cache"))'
    BY <1>1, <1>6 DEF IInv, ChainInv, Queue, Inputs, Complete, JobOf, disk
  <2>. QED BY <1>2, <2>1, <2>2 DEF ChainInv
<1>10. QueueInv'
  <2>1. \A p \in Queue : Alive(p)' => pc'[p] \in {"poll", "ended"} \/ MustStop(p)'
    BY <1>2, <1>4, <1>6 DEF IInv, QueueInv, Alive, Slot
  <2>2. pc'["meta"] \in RunningJob => pos'["meta"] <= NCases
    BY <1>1, <1>6 DEF IInv, QueueInv, RunningJob, Queue
  <2>3. pc'["cache"] \notin {"next", "finally", "ended"} => pos'["cache"] <= NCases
    BY <1>1, <1>6 DEF IInv, QueueInv, Queue
  <2>. QED BY <2>1, <2>2, <2>3 DEF QueueInv
<1>11. WorkerInv'
  BY <1>1, <1>6 DEF IInv, WorkerInv, Complete, Queue, RunningJob, Joining, disk
<1>12. MetaInv' /\ ReportTruthful'
  BY <1>1, <1>6 DEF IInv, MetaInv, ReportTruthful, Complete, Queue, disk
<1>. QED BY <1>2, <1>7, <1>8, <1>9, <1>10, <1>11, <1>12 DEF IInv

-----------------------------------------------------------------------------
(* The metadata queue's own steps.                                         *)

(* Where they lead: to the next stage with its inputs complete, to the     *)
(* next case with the graph complete, or to the end.                       *)
LEMMA MetaEffect ==
  ASSUME IInv, MetaNext \/ MetaReturn \/ MetaRaise \/ MetaFinally
  PROVE  \E l \in QueueAt \ {"dead"}, n \in 1..(NCases + 1),
            g \in {"metadata", "graph"}, v \in {status["meta"], "PASS"} :
            /\ pc' = [pc EXCEPT !["meta"] = l] /\ pos' = [pos EXCEPT !["meta"] = n]
            /\ stage' = g /\ status' = [status EXCEPT !["meta"] = v]
            /\ savedMeta' \in {savedMeta, status["meta"]}
            /\ l \in RunningJob => /\ l = "call" /\ n <= NCases
                                   /\ g = "graph" => Complete("metadata", n)
            /\ n = pos["meta"] \/ (n = pos["meta"] + 1 /\ Complete("graph", pos["meta"]))
            /\ v = "PASS" => v = status["meta"] \/ pos["meta"] > NCases
            /\ Alive("meta") => l \in {"ended"} \/ MustStop("meta")'
<1>1. /\ pos["meta"] \in 1..(NCases + 1) /\ stage \in {"metadata", "graph"}
      /\ pos = [pos EXCEPT !["meta"] = pos["meta"]]
      /\ status = [status EXCEPT !["meta"] = status["meta"]]
  BY DEF IInv, TypeOK, RangeInv, Queue
<1>2. /\ NCases \in Nat
      /\ {"next", "call", "raise", "except", "finally", "ended"} \subseteq QueueAt \ {"dead"}
  BY CaseJobs DEF QueueAt, RunningJob, Joining
<1>3. CASE MetaNext
  <2>1. ~Alive("meta") \/ MustStop("meta")'
    BY <1>3 DEF MetaNext, IInv, QueueInv, Queue, MustStop, flags
  <2>. QED
    BY <1>1, <1>2, <1>3, <2>1 DEF MetaNext, Goto, SaveMeta, meta, RunningJob
<1>4. CASE MetaReturn
  <2>1. pc["meta"] = "return" /\ pos["meta"] \in Case /\ JobOf("meta") = <<stage, pos["meta"]>>
    BY <1>4, JobAtHand DEF MetaReturn, RunningJob, JobOf
  <2>2. ~Alive("meta") \/ MustStop("meta")'
    BY <1>4 DEF MetaReturn, IInv, QueueInv, Queue, MustStop, flags
  <2>3. pos["meta"] \in 1..NCases /\ pos["meta"] + 1 \in 1..(NCases + 1)
    BY <1>2, <2>1, CaseJobs
  <2>4. stage = "graph" => Complete("metadata", pos["meta"])
    BY <2>1 DEF IInv, ChainInv, Inputs
  <2>. QED
    BY <1>1, <1>2, <1>4, <2>1, <2>2, <2>3, <2>4
       DEF MetaReturn, Goto, SaveMeta, meta, RunningJob, Complete
<1>5. CASE MetaRaise
  <2>1. ~Alive("meta") \/ MustStop("meta")'
    BY <1>5 DEF MetaRaise, IInv, QueueInv, Queue, MustStop, flags
  <2>. QED BY <1>1, <1>2, <1>5, <2>1 DEF MetaRaise, Goto, meta, RunningJob
<1>6. CASE MetaFinally
  BY <1>1, <1>2, <1>6 DEF MetaFinally, Goto, SaveMeta, RunningJob
<1>. QED BY <1>3, <1>4, <1>5, <1>6

LEMMA MetaKeeps ==
  ASSUME IInv, MetaNext \/ MetaReturn \/ MetaRaise \/ MetaFinally
  PROVE  IInv'
<1>1. /\ UNCHANGED <<disk, lock, wall, worker>>
      /\ child' = child \/ Signal("meta")
      /\ stop' \in [Queue -> BOOLEAN] /\ stop'["cache"] = stop["cache"]
  <2>1. stop \in [Queue -> BOOLEAN] /\ "cache" \in Queue
    BY DEF IInv, TypeOK, Queue
  <2>2. CASE MetaFinally
    BY <2>1, <2>2 DEF MetaFinally
  <2>3. CASE MetaNext
    BY <2>1, <2>3 DEF MetaNext, procs, flags
  <2>4. CASE MetaReturn
    BY <2>1, <2>4 DEF MetaReturn, procs, flags
  <2>5. CASE MetaRaise
    BY <2>1, <2>5 DEF MetaRaise, procs, flags
  <2>. QED BY <2>2, <2>3, <2>4, <2>5
<1>2. /\ child' \in [Slot -> ChildRecord]
      /\ \A t \in Slot : child'[t].job = child[t].job /\ child'[t].pc = child[t].pc
      /\ LeaseInv' /\ OutputInv'
      /\ \A j \in Job : out'[j] # "absent" => Inputs(j)'
      /\ \A t \in Slot : Alive(t)' => Inputs(child[t].job)'
  BY <1>1, NoneSpawned DEF Queue
<1>3. PICK l \in QueueAt \ {"dead"}, n \in 1..(NCases + 1),
           g \in {"metadata", "graph"}, v \in {status["meta"], "PASS"} :
            /\ pc' = [pc EXCEPT !["meta"] = l] /\ pos' = [pos EXCEPT !["meta"] = n]
            /\ stage' = g /\ status' = [status EXCEPT !["meta"] = v]
            /\ savedMeta' \in {savedMeta, status["meta"]}
            /\ l \in RunningJob => /\ l = "call" /\ n <= NCases
                                   /\ g = "graph" => Complete("metadata", n)
            /\ n = pos["meta"] \/ (n = pos["meta"] + 1 /\ Complete("graph", pos["meta"]))
            /\ v = "PASS" => v = status["meta"] \/ pos["meta"] > NCases
            /\ Alive("meta") => l \in {"ended"} \/ MustStop("meta")'
  BY MetaEffect
<1>4. /\ pc \in [Queue -> QueueAt] /\ pos \in [Queue -> 1..(NCases + 1)]
      /\ status \in [Queue -> {"RUNNING", "PASS", "WITH_FAILURES", "STOPPED"}]
  BY DEF IInv, TypeOK, RangeInv
<1>5. /\ pc' \in [Queue -> QueueAt] /\ pos' \in [Queue -> 1..(NCases + 1)]
      /\ status' \in [Queue -> {"RUNNING", "PASS", "WITH_FAILURES", "STOPPED"}]
      /\ pc'["meta"] = l /\ pos'["meta"] = n /\ status'["meta"] = v
      /\ pc'["cache"] = pc["cache"] /\ pos'["cache"] = pos["cache"]
      /\ status'["cache"] = status["cache"]
  <2>1. v \in {"RUNNING", "PASS", "WITH_FAILURES", "STOPPED"}
    BY <1>4 DEF Queue
  <2>. QED BY <1>3, <1>4, <2>1 DEF Queue
<1>6. TypeOK'
  BY <1>1, <1>2, <1>3, <1>5 DEF IInv, TypeOK, ChildRecord, disk, worker
<1>7. RangeInv'
  BY <1>1, <1>5 DEF IInv, RangeInv, worker
<1>8. ChainInv'
  <2>1. ASSUME pc'["meta"] \in {"call", "poll", "return"} PROVE Inputs(JobOf("meta"))'
    <3>1. JobOf("meta")' = <<g, n>> /\ (g = "graph" => Complete("metadata", n))
      BY <1>3, <1>5, <2>1 DEF JobOf, RunningJob
    <3>. QED BY <1>1, <3>1 DEF Inputs, Complete, disk
  <2>2. pc'["cache"] \in {"call", "poll"} => Inputs(JobOf("cache"))'
    BY <1>1, <1>5 DEF IInv, ChainInv, Inputs, Complete, JobOf, disk
  <2>. QED BY <1>2, <2>1, <2>2 DEF ChainInv
<1>9. QueueInv'
  <2>1. Alive("meta")' => pc'["meta"] \in {"poll", "ended"} \/ MustStop("meta")'
    BY <1>2, <1>3, <1>5 DEF Alive, Slot, Queue
  <2>2. Alive("cache")' => pc'["cache"] \in {"poll", "ended"} \/ MustStop("cache")'
    BY <1>1, <1>2, <1>5 DEF IInv, QueueInv, Alive, MustStop, Slot, Queue
  <2>. QED BY <1>3, <1>5, <2>1, <2>2 DEF IInv, QueueInv, Queue
<1>10. WorkerInv'
  BY <1>1, <1>5 DEF IInv, WorkerInv, Complete, disk, worker
<1>11. MetaInv'
  <2>1. \A c \in Case : c < n => Complete("graph", c)
    BY <1>3, <1>4, CaseJobs DEF IInv, MetaInv, Queue
  <2>2. v = "PASS" => \A c \in Case : Complete("graph", c)
    BY <1>3, <1>4, CaseJobs DEF IInv, MetaInv, Queue
  <2>. QED BY <1>1, <1>5, <2>1, <2>2 DEF MetaInv, Complete, disk
<1>12. ReportTruthful'
  BY <1>1, <1>3 DEF IInv, MetaInv, ReportTruthful, Complete, disk, worker
<1>. QED BY <1>2, <1>6, <1>7, <1>8, <1>9, <1>10, <1>11, <1>12 DEF IInv

-----------------------------------------------------------------------------
(* The cache worker's own steps.                                           *)

(* The worker moves to l, with case n; its outputs and the metadata queue  *)
(* stay as they are.                                                       *)
Moves(l, n, v) ==
  /\ pc' = [pc EXCEPT !["cache"] = l]
  /\ pos' = [pos EXCEPT !["cache"] = n]
  /\ status' = [status EXCEPT !["cache"] = v]
  /\ stop' \in [Queue -> BOOLEAN] /\ stop'["meta"] = stop["meta"] /\ wall' \in BOOLEAN
  /\ l \in {"call", "poll"} => Inputs(<<"cache", n>>)
  /\ l \notin {"next", "finally", "ended"} => n <= NCases
  /\ Alive("cache") => l \in {"poll", "ended"} \/ MustStop("cache")'

Outcome == {"RUNNING", "PASS", "WITH_FAILURES", "STOPPED"}

(* What such a step leaves to be shown is about the worker's own records.  *)
LEMMA WorkerMoves ==
  ASSUME IInv, UNCHANGED <<disk, lock, meta, generation>>,
         child' = child \/ Signal("cache"),
         NEW l \in QueueAt, NEW n \in 1..(NCases + 1), NEW v \in Outcome, Moves(l, n, v),
         entry' \in [Case -> EntryStatus],
         observer' \in {"off", "watch", "look", "save", "done"}, stopObserver' \in BOOLEAN,
         saved' = saved \/ saved' = [status |-> v, entry |-> entry'],
         WorkerInv'
  PROVE  IInv'
<1>. USE DEF disk, meta
<1>1. /\ child' \in [Slot -> ChildRecord]
      /\ \A t \in Slot : child'[t].job = child[t].job /\ child'[t].pc = child[t].pc
      /\ LeaseInv' /\ OutputInv'
      /\ \A j \in Job : out'[j] # "absent" => Inputs(j)'
      /\ \A t \in Slot : Alive(t)' => Inputs(child[t].job)'
  BY NoneSpawned DEF Queue
<1>2. /\ pc \in [Queue -> QueueAt] /\ pos \in [Queue -> 1..(NCases + 1)]
      /\ status \in [Queue -> Outcome] /\ pc["meta"] # "dead"
      /\ entry \in [Case -> EntryStatus]
  BY DEF IInv, TypeOK, RangeInv, EntryStatus, Verdict, Outcome
<1>3. /\ pc' \in [Queue -> QueueAt] /\ pos' \in [Queue -> 1..(NCases + 1)]
      /\ status' \in [Queue -> Outcome]
      /\ pc'["cache"] = l /\ pos'["cache"] = n /\ status'["cache"] = v
      /\ pc'["meta"] = pc["meta"] /\ pos'["meta"] = pos["meta"]
      /\ status'["meta"] = status["meta"]
  BY <1>2 DEF Moves, Queue
<1>4. TypeOK'
  BY <1>1, <1>3 DEF IInv, TypeOK, ChildRecord, Moves, EntryStatus, Verdict
<1>5. RangeInv'
  BY <1>2, <1>3 DEF IInv, RangeInv, Outcome, Queue
<1>6. ChainInv'
  <2>1. pc'["meta"] \in {"call", "poll", "return"} => Inputs(JobOf("meta"))'
    BY <1>3 DEF IInv, ChainInv, Inputs, Complete, JobOf
  <2>2. pc'["cache"] \in {"call", "poll"} => Inputs(JobOf("cache"))'
    BY <1>3 DEF Moves, Inputs, Complete, JobOf
  <2>. QED BY <1>1, <2>1, <2>2 DEF ChainInv
<1>7. QueueInv'
  <2>1. Alive("meta")' => pc'["meta"] \in {"poll", "ended"} \/ MustStop("meta")'
    BY <1>1, <1>3 DEF Moves, IInv, QueueInv, Alive, MustStop, Slot, Queue
  <2>2. Alive("cache")' => pc'["cache"] \in {"poll", "ended"} \/ MustStop("cache")'
    BY <1>1, <1>3 DEF Moves, Alive, Slot, Queue
  <2>. QED BY <1>3, <2>1, <2>2 DEF Moves, IInv, QueueInv, Queue
<1>8. MetaInv'
  BY <1>3 DEF IInv, MetaInv, Complete
<1>9. ReportTruthful'
  <2>1. ASSUME saved' = [status |-> v, entry |-> entry'], NEW c \in Case
        PROVE  /\ entry'[c] = "PASS" => /\ out[<<"cache", c>>] = "pass"
                                        /\ product[<<"cache", c>>] = "complete"
               /\ entry'[c] = "RUNNING_CACHE" => starts[<<"cache", c>>] = 1
               /\ v = "PASS" => entry'[c] = "PASS"
               /\ v = "WITH_FAILURES" => entry'[c] \in {"PASS", "FAILED"}
    <3>1. <<"cache", c>> \in Job
      BY CaseJobs
    <3>2. /\ entry'[c] = "PASS" => product[<<"cache", c>>] = "complete"
          /\ entry'[c] = "RUNNING_CACHE" => out[<<"cache", c>>] # "absent"
          /\ v = "PASS" => entry'[c] = "PASS"
          /\ v = "WITH_FAILURES" => entry'[c] \in {"PASS", "FAILED"}
      BY <1>3 DEF WorkerInv, Complete, Verdict
    <3>3. /\ starts[<<"cache", c>>] = IF out[<<"cache", c>>] = "absent" THEN 0 ELSE 1
          /\ product[<<"cache", c>>] # "none" => out[<<"cache", c>>] = "pass"
      BY <3>1 DEF IInv, OutputInv
    <3>. QED BY <3>2, <3>3
  <2>2. savedMeta' = "PASS" => \A c \in Case : product'[<<"graph", c>>] = "complete"
    BY DEF IInv, ReportTruthful
  <2>. QED BY <2>1, <2>2 DEF IInv, ReportTruthful
<1>. QED BY <1>1, <1>4, <1>5, <1>6, <1>7, <1>8, <1>9 DEF IInv

(* Where the worker waits, or a job is observed, its case is undecided.    *)
LEMMA Undecided ==
  ASSUME IInv, pc["cache"] \notin {"next", "finally", "ended", "save"}
  PROVE  /\ pos["cache"] \in Case
         /\ \A c \in Case : c >= pos["cache"] => entry[c] \notin Verdict
BY JobAtHand, CaseJobs DEF IInv, WorkerInv

(* The value the worker's records get for its own case.                    *)
LEMMA EntrySet ==
  ASSUME IInv, pos["cache"] \in Case, NEW v \in EntryStatus, SetEntry(v)
  PROVE  /\ entry' \in [Case -> EntryStatus]
         /\ entry'[pos["cache"]] = v
         /\ \A c \in Case : c # pos["cache"] => entry'[c] = entry[c]
BY DEF SetEntry, Here, IInv, TypeOK, EntryStatus, Verdict

(* A step of the worker or of its observer that does not change flags.     *)
LEMMA Steady ==
  ASSUME IInv, UNCHANGED flags, NEW l, NEW n,
         l = pc["cache"] \/ (l # "call" /\ l # "poll"),
         l \in {"call", "poll"} => n = pos["cache"],
         l \notin {"next", "finally", "ended"} => n <= NCases,
         pc["cache"] \notin {"poll", "ended"} \/ l = pc["cache"],
         pc' = [pc EXCEPT !["cache"] = l], pos' = [pos EXCEPT !["cache"] = n]
  PROVE  \A v : status' = [status EXCEPT !["cache"] = v] => Moves(l, n, v)
<1>1. stop \in [Queue -> BOOLEAN] /\ wall \in BOOLEAN
  BY DEF IInv, TypeOK
<1>2. Alive("cache") => l \in {"poll", "ended"} \/ MustStop("cache")'
  BY DEF IInv, QueueInv, MustStop, flags, Queue
<1>3. l \in {"call", "poll"} => Inputs(<<"cache", n>>)
  BY DEF IInv, ChainInv, JobOf
<1>. QED BY <1>1, <1>2, <1>3 DEF Moves, flags

LEMMA Standing ==
  ASSUME IInv
  PROVE  /\ pc["cache"] \in QueueAt /\ pc = [pc EXCEPT !["cache"] = pc["cache"]]
         /\ pos["cache"] \in 1..(NCases + 1) /\ pos = [pos EXCEPT !["cache"] = pos["cache"]]
         /\ status["cache"] \in Outcome
         /\ status = [status EXCEPT !["cache"] = status["cache"]]
         /\ entry \in [Case -> EntryStatus]
         /\ observer \in {"off", "watch", "look", "save", "done"}
         /\ stopObserver \in BOOLEAN
BY DEF IInv, TypeOK, RangeInv, Queue, Outcome, EntryStatus, Verdict

(* The next case of the plan, or the worker's verdict.                     *)
LEMMA CacheNextKeeps ==
  ASSUME IInv, CacheNext PROVE IInv'
<1>. USE Standing, CaseJobs
<1>1. /\ pc["cache"] = "next" /\ UNCHANGED <<disk, procs, pos, flags, meta, worker>>
  BY DEF CacheNext
<1>2. CASE pos["cache"] > NCases
  <2>1. PICK v \in {"PASS", "WITH_FAILURES"} :
          /\ status' = [status EXCEPT !["cache"] = v] /\ pc' = [pc EXCEPT !["cache"] = "finally"]
          /\ v = "PASS" => ~ \E c \in Case : entry[c] = "FAILED"
    BY <1>2 DEF CacheNext, Here, Goto
  <2>2. Moves("finally", pos["cache"], v)
    BY <1>1, <1>2, <2>1, Steady
  <2>3. pc'["cache"] = "finally" /\ pos' = pos /\ status'["cache"] = v
    BY <1>1, <2>1 DEF IInv, RangeInv, Queue
  <2>4. \A c \in Case : entry[c] \in Verdict
    BY <1>2 DEF IInv, WorkerInv
  <2>5. WorkerInv'
    BY <1>1, <1>2, <2>1, <2>3, <2>4
       DEF IInv, WorkerInv, Complete, Verdict, RunningJob, Joining, disk, worker
  <2>6. "finally" \in QueueAt /\ v \in Outcome
    BY DEF QueueAt, Outcome
  <2>7. /\ UNCHANGED <<disk, lock, child, meta, generation>>
        /\ entry' \in [Case -> EntryStatus] /\ saved' = saved
        /\ observer' \in {"off", "watch", "look", "save", "done"} /\ stopObserver' \in BOOLEAN
    BY <1>1 DEF procs, worker
  <2>. QED BY <2>2, <2>5, <2>6, <2>7, WorkerMoves
<1>3. CASE pos["cache"] <= NCases
  <2>1. PICK l \in {"failed", "wait"} : pc' = [pc EXCEPT !["cache"] = l] /\ status' = status
    BY <1>3 DEF CacheNext, Here, Goto
  <2>2. Moves(l, pos["cache"], status["cache"])
    BY <1>1, <1>3, <2>1, Steady
  <2>3. pc'["cache"] = l /\ pos' = pos /\ status' = status
    BY <1>1, <2>1 DEF IInv, RangeInv, Queue
  <2>4. WorkerInv'
    BY <1>1, <2>1, <2>3
       DEF IInv, WorkerInv, Complete, RunningJob, Joining, disk, worker
  <2>5. l \in QueueAt
    BY DEF QueueAt
  <2>. QED
    BY <1>1, <2>2, <2>4, <2>5, WorkerMoves DEF procs, worker
<1>. QED BY <1>2, <1>3

(* The wait for the graph, and the spec once it is ready.                  *)
LEMMA CacheWaitKeeps ==
  ASSUME IInv, CacheGivesUp \/ CacheWaits \/ CacheSpec PROVE IInv'
<1>. USE Standing, CaseJobs
<1>1. /\ pc["cache"] = "wait" /\ UNCHANGED <<disk, procs, pos, flags, status, meta, generation>>
      /\ pos["cache"] \in Case
      /\ \A c \in Case : c >= pos["cache"] => entry[c] \notin Verdict
  BY Undecided DEF CacheGivesUp, CacheWaits, CacheSpec, worker
<1>2. CASE CacheGivesUp
  <2>1. pc' = [pc EXCEPT !["cache"] = "failed"] /\ UNCHANGED worker
    BY <1>2 DEF CacheGivesUp, Goto
  <2>2. Moves("failed", pos["cache"], status["cache"])
    <3>1. /\ pos' = [pos EXCEPT !["cache"] = pos["cache"]] /\ pos["cache"] <= NCases
          /\ status' = [status EXCEPT !["cache"] = status["cache"]]
      BY <1>1
    <3>. QED BY <1>1, <2>1, <3>1, Steady
  <2>3. pc'["cache"] = "failed"
    BY <2>1 DEF IInv, RangeInv, Queue
  <2>4. WorkerInv'
    BY <1>1, <2>1, <2>3 DEF IInv, WorkerInv, Complete, RunningJob, Joining, disk, worker
  <2>. QED BY <1>1, <2>1, <2>2, <2>4, WorkerMoves DEF procs, worker, QueueAt
<1>3. CASE CacheWaits
  <2>1. /\ SetEntry("WAITING_GRAPH") /\ UNCHANGED <<pc, observer, stopObserver>>
        /\ saved' = [status |-> status["cache"], entry |-> entry']
    BY <1>3 DEF CacheWaits, SaveWorker
  <2>2. Moves("wait", pos["cache"], status["cache"])
    BY <1>1, <2>1, Steady
  <2>3. /\ entry' \in [Case -> EntryStatus] /\ entry'[pos["cache"]] = "WAITING_GRAPH"
        /\ \A c \in Case : c # pos["cache"] => entry'[c] = entry[c]
    BY <1>1, <2>1, EntrySet DEF EntryStatus
  <2>4. WorkerInv'
    <3>1. status["cache"] = "RUNNING"
      BY <1>1 DEF IInv, WorkerInv
    <3>2. \A c \in Case : entry'[c] \in Verdict <=> c < pos["cache"]
      BY <1>1, <2>3 DEF IInv, WorkerInv, Verdict
    <3>3. \A c \in Case : /\ entry'[c] = "PASS" => Complete("cache", c)
                          /\ entry'[c] = "RUNNING_CACHE" => out[<<"cache", c>>] # "absent"
      BY <1>1, <2>3 DEF IInv, WorkerInv
    <3>4. observer' \notin {"watch", "look", "save"}
      BY <1>1, <2>1 DEF IInv, WorkerInv, RunningJob, Joining
    <3>. QED
      BY <1>1, <2>1, <3>1, <3>2, <3>3, <3>4 DEF WorkerInv, Complete, disk
  <2>. QED BY <1>1, <2>1, <2>2, <2>3, <2>4, WorkerMoves DEF procs, QueueAt
<1>4. CASE CacheSpec
  <2>1. /\ SetEntry("WAITING_CPU") /\ GraphReady(pos["cache"])
        /\ saved' = [status |-> status["cache"], entry |-> entry']
        /\ observer' = "watch" /\ stopObserver' = FALSE
        /\ pc' = [pc EXCEPT !["cache"] = "call"]
        /\ ~MustStop("cache")
    BY <1>4 DEF CacheSpec, SaveWorker, Goto, Here, MustStop
  <2>2. Inputs(<<"cache", pos["cache"]>>)
    <3>1. /\ out[<<"graph", pos["cache"]>>] = "pass"
          /\ product[<<"graph", pos["cache"]>>] = "complete"
      BY <2>1 DEF GraphReady, GraphRefused
    <3>2. <<"graph", pos["cache"]>> \in Job /\ Inputs(<<"graph", pos["cache"]>>)
      BY <1>1, <3>1 DEF IInv, ChainInv
    <3>. QED BY <3>1, <3>2 DEF Inputs, Complete
  <2>3. ~Alive("cache")
    BY <1>1, <2>1 DEF IInv, QueueInv, Queue
  <2>4. Moves("call", pos["cache"], status["cache"])
    BY <1>1, <2>1, <2>2, <2>3 DEF Moves, IInv, TypeOK, flags
  <2>5. /\ entry' \in [Case -> EntryStatus] /\ entry'[pos["cache"]] = "WAITING_CPU"
        /\ \A c \in Case : c # pos["cache"] => entry'[c] = entry[c]
    BY <1>1, <2>1, EntrySet DEF EntryStatus
  <2>6. pc'["cache"] = "call"
    BY <2>1 DEF IInv, RangeInv, Queue
  <2>7. WorkerInv'
    <3>1. status["cache"] = "RUNNING"
      BY <1>1 DEF IInv, WorkerInv
    <3>2. \A c \in Case : entry'[c] \in Verdict <=> c < pos["cache"]
      BY <1>1, <2>5 DEF IInv, WorkerInv, Verdict
    <3>3. \A c \in Case : /\ entry'[c] = "PASS" => Complete("cache", c)
                          /\ entry'[c] = "RUNNING_CACHE" => out[<<"cache", c>>] # "absent"
      BY <1>1, <2>5 DEF IInv, WorkerInv
    <3>. QED
      BY <1>1, <2>1, <2>6, <3>1, <3>2, <3>3
         DEF WorkerInv, Complete, RunningJob, Joining, disk
  <2>. QED
    BY <1>1, <2>1, <2>4, <2>5, <2>7, WorkerMoves DEF procs, QueueAt, RunningJob
<1>. QED BY <1>2, <1>3, <1>4

(* The observer is stopped and joined, and the outcome goes on.            *)
LEMMA CacheJoinKeeps ==
  ASSUME IInv, StopObserver \/ JoinObserver PROVE IInv'
<1>. USE Standing, CaseJobs
<1>1. /\ pc["cache"] \in {"return", "raise", "join", "join_raise"}
      /\ UNCHANGED <<disk, procs, pos, flags, status, meta, generation, entry,
                     observer, saved>>
      /\ pos["cache"] \in Case
  BY Undecided DEF StopObserver, JoinObserver, worker
<1>2. PICK l \in {"join", "join_raise", "summary", "failed"} :
        /\ pc' = [pc EXCEPT !["cache"] = l]
        /\ observer \in {"watch", "look", "save"} => l \in {"join", "join_raise"}
        /\ stopObserver' \in BOOLEAN
  BY DEF StopObserver, JoinObserver, Joined, Goto, worker
<1>3. Moves(l, pos["cache"], status["cache"])
  <2>1. /\ pos' = [pos EXCEPT !["cache"] = pos["cache"]] /\ pos["cache"] <= NCases
        /\ status' = [status EXCEPT !["cache"] = status["cache"]]
    BY <1>1
  <2>. QED BY <1>1, <1>2, <2>1, Steady
<1>4. pc'["cache"] = l
  BY <1>2 DEF IInv, RangeInv, Queue
<1>5. WorkerInv'
  BY <1>1, <1>2, <1>4 DEF IInv, WorkerInv, Complete, RunningJob, Joining, disk
<1>. QED BY <1>1, <1>2, <1>3, <1>5, WorkerMoves DEF procs, QueueAt, Joining

(* The verdict on a case, and the failure of a stopped worker.             *)
LEMMA CacheVerdictKeeps ==
  ASSUME IInv, CacheSummary \/ CacheFailed PROVE IInv'
<1>. USE Standing, CaseJobs
<1>1. /\ pc["cache"] \in {"summary", "failed"}
      /\ UNCHANGED <<disk, procs, pos, flags, status, meta, generation,
                     observer, stopObserver, saved>>
      /\ pos["cache"] \in Case
      /\ \A c \in Case : c >= pos["cache"] => entry[c] \notin Verdict
      /\ observer \notin {"watch", "look", "save"} /\ status["cache"] = "RUNNING"
  BY Undecided DEF CacheSummary, CacheFailed, IInv, WorkerInv, RunningJob, Joining
<1>2. ASSUME NEW l \in {"failed", "except", "save"}, pc' = [pc EXCEPT !["cache"] = l]
      PROVE  Moves(l, pos["cache"], status["cache"]) /\ pc'["cache"] = l
  <2>1. /\ pos' = [pos EXCEPT !["cache"] = pos["cache"]] /\ pos["cache"] <= NCases
        /\ status' = [status EXCEPT !["cache"] = status["cache"]]
    BY <1>1
  <2>2. Moves(l, pos["cache"], status["cache"])
    BY <1>1, <1>2, <2>1, Steady
  <2>. QED BY <1>2, <2>2 DEF IInv, RangeInv, Queue
<1>3. ASSUME NEW l \in {"failed", "except"}, pc' = [pc EXCEPT !["cache"] = l],
             entry' = entry
      PROVE  IInv'
  <2>1. WorkerInv'
    BY <1>1, <1>2, <1>3 DEF IInv, WorkerInv, Complete, disk
  <2>. QED BY <1>1, <1>2, <1>3, <2>1, WorkerMoves DEF procs, QueueAt
<1>4. ASSUME NEW v \in Verdict, SetEntry(v), pc' = [pc EXCEPT !["cache"] = "save"],
             v = "PASS" => Complete("cache", pos["cache"])
      PROVE  IInv'
  <2>1. /\ entry' \in [Case -> EntryStatus] /\ entry'[pos["cache"]] = v
        /\ \A c \in Case : c # pos["cache"] => entry'[c] = entry[c]
    BY <1>1, <1>4, EntrySet DEF EntryStatus
  <2>2. WorkerInv'
    <3>1. \A c \in Case : entry'[c] \in Verdict <=> c <= pos["cache"]
      BY <1>1, <1>4, <2>1 DEF IInv, WorkerInv
    <3>2. ASSUME NEW c \in Case
          PROVE  /\ entry'[c] = "PASS" => Complete("cache", c)
                 /\ entry'[c] = "RUNNING_CACHE" => out[<<"cache", c>>] # "absent"
      <4>1. v # "RUNNING_CACHE"
        BY DEF Verdict
      <4>2. CASE c = pos["cache"]
        BY <1>4, <2>1, <4>1, <4>2
      <4>3. CASE c # pos["cache"]
        BY <2>1, <4>3 DEF IInv, WorkerInv
      <4>. QED BY <4>2, <4>3
    <3>. QED BY <1>1, <1>2, <1>4, <3>1, <3>2 DEF WorkerInv, Complete, disk
  <2>. QED BY <1>1, <1>2, <1>4, <2>1, <2>2, WorkerMoves DEF procs, QueueAt
<1>5. CASE CacheSummary
  BY <1>3, <1>4, <1>5 DEF CacheSummary, Goto, Here, Complete, Verdict
<1>6. CASE CacheFailed
  BY <1>3, <1>4, <1>6 DEF CacheFailed, Goto, Verdict
<1>. QED BY <1>5, <1>6

(* The state is saved: after a case, and when the worker ends.             *)
LEMMA CacheSaveKeeps ==
  ASSUME IInv, CacheSave \/ CacheFinally PROVE IInv'
<1>. USE Standing, CaseJobs
<1>1. CASE CacheSave
  <2>1. /\ pc["cache"] = "save" /\ pc' = [pc EXCEPT !["cache"] = "next"]
        /\ pos' = [pos EXCEPT !["cache"] = pos["cache"] + 1]
        /\ saved' = [status |-> status["cache"], entry |-> entry']
        /\ UNCHANGED <<disk, procs, flags, status, meta, entry, observer,
                       stopObserver, generation>>
    BY <1>1 DEF CacheSave, Goto, SaveWorker
  <2>2. pos["cache"] \in Case /\ pos["cache"] + 1 \in 1..(NCases + 1)
    BY <2>1, JobAtHand
  <2>3. Moves("next", pos["cache"] + 1, status["cache"])
    <3>1. status' = [status EXCEPT !["cache"] = status["cache"]]
      BY <2>1
    <3>. QED BY <2>1, <3>1, Steady
  <2>4. pc'["cache"] = "next" /\ pos'["cache"] = pos["cache"] + 1
    BY <2>1 DEF IInv, RangeInv, TypeOK, Queue
  <2>5. WorkerInv'
    BY <2>1, <2>2, <2>4
       DEF IInv, WorkerInv, Complete, RunningJob, Joining, disk
  <2>. QED BY <2>1, <2>2, <2>3, <2>5, WorkerMoves DEF procs, QueueAt
<1>2. CASE CacheFinally
  <2>1. /\ pc["cache"] = "finally" /\ pc' = [pc EXCEPT !["cache"] = "ended"]
        /\ child' = child \/ Signal("cache")
        /\ saved' = [status |-> status["cache"], entry |-> entry']
        /\ stop' = [stop EXCEPT !["cache"] = FALSE] /\ wall' = FALSE
        /\ UNCHANGED <<disk, lock, pos, status, meta, entry, observer,
                       stopObserver, generation>>
    BY <1>2 DEF CacheFinally, Goto, SaveWorker
  <2>2. Moves("ended", pos["cache"], status["cache"])
    BY <2>1 DEF Moves, IInv, TypeOK, Queue
  <2>3. pc'["cache"] = "ended"
    BY <2>1 DEF IInv, RangeInv, Queue
  <2>4. WorkerInv'
    BY <2>1, <2>3 DEF IInv, WorkerInv, Complete, RunningJob, Joining, disk
  <2>. QED BY <2>1, <2>2, <2>4, WorkerMoves DEF QueueAt
<1>. QED BY <1>1, <1>2

(* The observer thread, while the job it observes is not joined.           *)
LEMMA ObserverKeeps ==
  ASSUME IInv, Observer PROVE IInv'
<1>. USE Standing, CaseJobs
<1>1. /\ observer \in {"watch", "look", "save"}
      /\ UNCHANGED <<disk, procs, pc, pos, flags, status, meta, stopObserver, generation>>
      /\ pc["cache"] \in RunningJob \cup Joining
  BY DEF Observer, ObserverWakes, ObserverLooks, ObserverSaves, IInv, WorkerInv
<1>2. /\ pos["cache"] \in Case
      /\ \A c \in Case : c >= pos["cache"] => entry[c] \notin Verdict
      /\ status["cache"] = "RUNNING"
  BY <1>1, Undecided DEF IInv, WorkerInv, RunningJob, Joining
<1>3. Moves(pc["cache"], pos["cache"], status["cache"])
  <2>1. /\ pos' = [pos EXCEPT !["cache"] = pos["cache"]] /\ pos["cache"] <= NCases
        /\ status' = [status EXCEPT !["cache"] = status["cache"]]
        /\ pc' = [pc EXCEPT !["cache"] = pc["cache"]]
    BY <1>1, <1>2
  <2>2. pc["cache"] \in {"call", "poll"} => pos["cache"] = pos["cache"]
    OBVIOUS
  <2>. QED BY <1>1, <2>1, <2>2, Steady
<1>4. observer' \in {"watch", "look", "save", "done"}
  BY <1>1 DEF Observer, ObserverWakes, ObserverLooks, ObserverSaves
<1>5. CASE entry' = entry
  <2>1. saved' = saved \/ saved' = [status |-> status["cache"], entry |-> entry']
    BY <1>5 DEF Observer, ObserverWakes, ObserverLooks, ObserverSaves, SaveWorker
  <2>2. WorkerInv'
    BY <1>1, <1>5 DEF IInv, WorkerInv, Complete, disk
  <2>. QED BY <1>1, <1>3, <1>4, <1>5, <2>1, <2>2, WorkerMoves DEF procs
<1>6. CASE entry' # entry
  <2>1. /\ SetEntry("RUNNING_CACHE") /\ out[<<"cache", pos["cache"]>>] # "absent"
        /\ saved' = saved
    BY <1>6 DEF Observer, ObserverWakes, ObserverLooks, ObserverSaves, Here
  <2>2. /\ entry' \in [Case -> EntryStatus] /\ entry'[pos["cache"]] = "RUNNING_CACHE"
        /\ \A c \in Case : c # pos["cache"] => entry'[c] = entry[c]
    BY <1>2, <2>1, EntrySet DEF EntryStatus
  <2>3. WorkerInv'
    <3>1. \A c \in Case : entry'[c] \in Verdict <=> entry[c] \in Verdict
      BY <1>2, <2>2 DEF Verdict
    <3>2. \A c \in Case : /\ entry'[c] = "PASS" => Complete("cache", c)
                          /\ entry'[c] = "RUNNING_CACHE" => out[<<"cache", c>>] # "absent"
      BY <2>1, <2>2 DEF IInv, WorkerInv
    <3>. QED BY <1>1, <1>2, <3>1, <3>2 DEF IInv, WorkerInv, Complete, disk
  <2>. QED BY <1>1, <1>3, <1>4, <2>1, <2>2, <2>3, WorkerMoves DEF procs
<1>. QED BY <1>5, <1>6

(* A killed worker leaves its controller, and the lease it holds, to the   *)
(* orphan's slot.                                                          *)
LEMMA KilledChild ==
  ASSUME IInv, CacheKilled
  PROVE  /\ child' \in [Slot -> ChildRecord] /\ lock' \in Slot \cup {"free"}
         /\ child'["cache"].pc = "none" /\ child'["meta"] = child["meta"]
         /\ Alive("orphan")' => Alive("cache")
         /\ child["cache"].pc \in {"leased", "run"} \/ child'["orphan"].pc \in {"leased", "run"}
               => child'["orphan"].pc = child["cache"].pc
         /\ Alive("orphan")' => child'["orphan"].pc = child["cache"].pc
                                  /\ child'["orphan"].job = child["cache"].job
         /\ LeaseInv'
<1>. DEFINE left == IF Alive("cache") THEN [child["cache"] EXCEPT !.sig = TRUE] ELSE NoChild
<1>1. /\ child' = [child EXCEPT !["cache"] = NoChild, !["orphan"] = left]
      /\ lock' = IF lock = "cache" THEN "orphan" ELSE lock
      /\ ~Alive("orphan")
  BY DEF CacheKilled
<1>2. /\ child \in [Slot -> ChildRecord] /\ lock \in Slot \cup {"free"}
      /\ Slot = {"meta", "cache", "orphan"}
  BY DEF IInv, TypeOK, ChildRecord, Slot, Queue
<1>3. NoChild \in ChildRecord /\ NoChild.pc = "none"
  BY CaseJobs DEF NoChild, ChildRecord
<1>4. /\ left \in ChildRecord
      /\ Alive("cache") => left.pc = child["cache"].pc /\ left.job = child["cache"].job
      /\ ~Alive("cache") => left.pc = "none"
  <2>1. CASE Alive("cache")
    BY <1>2, <2>1 DEF ChildRecord
  <2>2. CASE ~Alive("cache")
    BY <1>3, <2>2
  <2>. QED BY <2>1, <2>2
<1>. HIDE DEF left
<1>5. /\ child' \in [Slot -> ChildRecord]
      /\ child'["cache"] = NoChild /\ child'["orphan"] = left
      /\ child'["meta"] = child["meta"]
  BY <1>1, <1>2, <1>3, <1>4
<1>6. lock' \in Slot \cup {"free"}
  BY <1>1, <1>2
<1>7. LeaseInv'
  <2>1. /\ lock = "cache" <=> child["cache"].pc \in {"leased", "run"}
        /\ lock = "meta" <=> child["meta"].pc \in {"leased", "run"}
        /\ lock # "orphan"
    BY <1>1, <1>2 DEF IInv, LeaseInv, Alive
  <2>2. child'["orphan"].pc \in {"leased", "run"} <=> child["cache"].pc \in {"leased", "run"}
    BY <1>4, <1>5 DEF Alive
  <2>. QED BY <1>1, <1>2, <1>3, <1>5, <2>1, <2>2 DEF LeaseInv
<1>. QED BY <1>3, <1>4, <1>5, <1>6, <1>7 DEF Alive

LEMMA CacheKilledKeeps ==
  ASSUME IInv, CacheKilled PROVE IInv'
<1>. USE CaseJobs DEF disk, meta
<1>1. /\ UNCHANGED <<disk, meta, saved, generation>>
      /\ pc' = [pc EXCEPT !["cache"] = "dead"] /\ FreshWorker
  BY DEF CacheKilled, Goto
<1>2. Slot = {"meta", "cache", "orphan"}
  BY DEF Slot, Queue
<1>3. /\ pc' \in [Queue -> QueueAt] /\ pos' \in [Queue -> 1..(NCases + 1)]
      /\ status' \in [Queue -> {"RUNNING", "PASS", "WITH_FAILURES", "STOPPED"}]
      /\ stop' \in [Queue -> BOOLEAN]
      /\ pc'["cache"] = "dead" /\ pos'["cache"] = 1 /\ status'["cache"] = "RUNNING"
      /\ pc'["meta"] = pc["meta"] /\ pos'["meta"] = pos["meta"]
      /\ status'["meta"] = status["meta"] /\ stop'["meta"] = stop["meta"]
  BY <1>1 DEF FreshWorker, IInv, TypeOK, RangeInv, Queue, QueueAt
<1>4. TypeOK'
  BY <1>1, <1>3, KilledChild DEF FreshWorker, FreshEntries, IInv, TypeOK, ChildRecord
<1>5. RangeInv'
  BY <1>1, <1>3 DEF IInv, RangeInv
<1>6. OutputInv'
  <2>1. ASSUME NEW s \in Slot, child'[s].pc = "run" PROVE out[child'[s].job] = "started"
    <3>1. CASE s = "meta"
      BY <1>2, <2>1, <3>1, KilledChild DEF IInv, OutputInv
    <3>2. CASE s = "orphan"
      BY <1>2, <2>1, <3>2, KilledChild DEF IInv, OutputInv, Alive
    <3>. QED BY <1>2, <2>1, <3>1, <3>2, KilledChild
  <2>. QED BY <1>1, <2>1 DEF IInv, OutputInv
<1>7. ChainInv'
  <2>1. ASSUME NEW s \in Slot, Alive(s)' PROVE Inputs(child[s].job)'
    <3>1. CASE s = "meta"
      <4>1. child'["meta"] = child["meta"]
        BY KilledChild
      <4>2. Alive("meta") /\ Inputs(child["meta"].job)
        BY <1>2, <2>1, <3>1, <4>1 DEF IInv, ChainInv, Alive
      <4>3. product' = product /\ child'[s].job = child["meta"].job
        BY <1>1, <3>1, <4>1
      <4>. QED BY <4>2, <4>3 DEF Inputs, Complete
    <3>2. CASE s = "orphan"
      BY <1>1, <1>2, <2>1, <3>2, KilledChild DEF IInv, ChainInv, Inputs, Complete
    <3>. QED BY <1>2, <2>1, <3>1, <3>2, KilledChild DEF Alive
  <2>2. pc'["meta"] \in {"call", "poll", "return"} => Inputs(JobOf("meta"))'
    BY <1>1, <1>3 DEF IInv, ChainInv, Inputs, Complete, JobOf
  <2>3. \A j \in Job : out'[j] # "absent" => Inputs(j)'
    BY <1>1 DEF IInv, ChainInv, Inputs, Complete
  <2>. QED BY <1>3, <2>1, <2>2, <2>3 DEF ChainInv
<1>8. QueueInv'
  <2>1. Alive("meta")' => pc'["meta"] \in {"poll", "ended"} \/ MustStop("meta")'
    BY <1>3, KilledChild DEF IInv, QueueInv, Alive, MustStop, Queue
  <2>2. ~Alive("cache")'
    BY KilledChild DEF Alive
  <2>. QED BY <1>3, <2>1, <2>2 DEF IInv, QueueInv, Queue
<1>9. WorkerInv'
  <2>1. /\ \A c \in Case : entry'[c] = "PENDING_GRAPH"
        /\ observer' = "off"
    BY <1>1 DEF FreshWorker, FreshEntries
  <2>. QED BY <1>3, <2>1 DEF WorkerInv, Verdict
<1>10. MetaInv'
  BY <1>1, <1>3 DEF IInv, MetaInv, Complete
<1>11. ReportTruthful'
  BY <1>1 DEF IInv, ReportTruthful
<1>. QED BY <1>4, <1>5, <1>6, <1>7, <1>8, <1>9, <1>10, <1>11, KilledChild DEF IInv

(* The worker is started again, with an empty state directory.             *)
LEMMA CacheRestartKeeps ==
  ASSUME IInv, CacheRestart PROVE IInv'
<1>. USE CaseJobs DEF disk, procs, flags, meta
<1>1. /\ pc["cache"] = "dead" /\ pc' = [pc EXCEPT !["cache"] = "next"]
      /\ generation' = generation + 1 /\ generation < MaxRestarts
      /\ saved' = [status |-> "none", entry |-> FreshEntries]
      /\ UNCHANGED <<disk, procs, pos, flags, status, meta, entry, observer, stopObserver>>
  BY DEF CacheRestart, Goto
<1>2. /\ pc' \in [Queue -> QueueAt] /\ pc'["cache"] = "next" /\ pc'["meta"] = pc["meta"]
      /\ FreshEntries \in [Case -> EntryStatus]
      /\ \A c \in Case : FreshEntries[c] = "PENDING_GRAPH"
  BY <1>1 DEF IInv, RangeInv, QueueAt, Queue, FreshEntries, EntryStatus
<1>3. TypeOK'
  BY <1>1, ConstantsAssumption DEF IInv, TypeOK
<1>4. RangeInv'
  BY <1>1, <1>2 DEF IInv, RangeInv
<1>5. LeaseInv' /\ OutputInv'
  BY <1>1 DEF IInv, LeaseInv, OutputInv
<1>6. ChainInv'
  BY <1>1, <1>2 DEF IInv, ChainInv, Inputs, Complete, JobOf, Alive
<1>7. QueueInv'
  <2>1. Alive("meta")' => pc'["meta"] \in {"poll", "ended"} \/ MustStop("meta")'
    BY <1>1, <1>2 DEF IInv, QueueInv, Alive, MustStop, Queue
  <2>2. Alive("cache")' => MustStop("cache")'
    BY <1>1 DEF IInv, QueueInv, Alive, MustStop, Queue
  <2>. QED BY <1>1, <1>2, <2>1, <2>2 DEF IInv, QueueInv, Queue
<1>8. WorkerInv'
  BY <1>1, <1>2 DEF IInv, WorkerInv, Complete, RunningJob, Joining
<1>9. MetaInv'
  BY <1>1 DEF IInv, MetaInv, Complete
<1>10. ReportTruthful'
  BY <1>1, <1>2 DEF IInv, ReportTruthful
<1>. QED BY <1>3, <1>4, <1>5, <1>6, <1>7, <1>8, <1>9, <1>10 DEF IInv

LEMMA Initially == Init => IInv
<1>. SUFFICES ASSUME Init PROVE IInv
  OBVIOUS
<1>. USE CaseJobs DEF Init
<1>1. /\ NoChild \in ChildRecord /\ NoChild.pc = "none"
      /\ FreshEntries \in [Case -> EntryStatus]
      /\ \A c \in Case : FreshEntries[c] = "PENDING_GRAPH"
  BY DEF NoChild, ChildRecord, FreshEntries, EntryStatus
<1>2. /\ \A s \in Slot : child[s] = NoChild
      /\ \A q \in Queue : pc[q] = "next" /\ pos[q] = 1 /\ status[q] = "RUNNING"
      /\ "meta" \in Queue /\ "cache" \in Queue
  BY DEF Queue
<1>3. TypeOK
  <2>1. /\ child \in [Slot -> ChildRecord] /\ pos \in [Queue -> 1..(NCases + 1)]
        /\ entry \in [Case -> EntryStatus]
    BY <1>1
  <2>2. generation \in 0..MaxRestarts
    BY ConstantsAssumption
  <2>. QED BY <2>1, <2>2 DEF TypeOK, ChildRecord, EntryStatus, Verdict
<1>4. RangeInv
  BY <1>1, <1>2 DEF RangeInv, QueueAt
<1>5. LeaseInv
  <2>1. "free" \notin Slot
    BY DEF Slot, Queue
  <2>. QED BY <1>1, <1>2, <2>1 DEF LeaseInv
<1>6. OutputInv /\ ChainInv
  BY <1>1, <1>2 DEF OutputInv, ChainInv, Alive
<1>7. QueueInv
  BY <1>1, <1>2, <1>5 DEF QueueInv, Alive, RunningJob, Slot
<1>8. WorkerInv
  BY <1>1, <1>2 DEF WorkerInv, Verdict
<1>9. MetaInv /\ ReportTruthful
  BY <1>1, <1>2 DEF MetaInv, ReportTruthful
<1>. QED BY <1>3, <1>4, <1>5, <1>6, <1>7, <1>8, <1>9 DEF IInv

LEMMA StutterKeeps ==
  ASSUME IInv, UNCHANGED vars PROVE IInv'
<1>. USE DEF vars, disk, procs, meta, worker, flags
<1>1. TypeOK' /\ RangeInv' /\ LeaseInv' /\ OutputInv'
  BY DEF IInv, TypeOK, RangeInv, LeaseInv, OutputInv
<1>2. ChainInv' /\ MetaInv' /\ ReportTruthful'
  BY DEF IInv, ChainInv, MetaInv, ReportTruthful, Inputs, Complete, JobOf, Alive
<1>3. QueueInv' /\ WorkerInv'
  BY DEF IInv, QueueInv, WorkerInv, MustStop, Complete, Alive
<1>. QED BY <1>1, <1>2, <1>3 DEF IInv

LEMMA NextKeeps ==
  ASSUME IInv, [Next]_vars PROVE IInv'
<1>. USE DEF Queue
<1>1. CASE Meta
  BY <1>1, RunJobKeeps, MetaKeeps, StopKeeps DEF Meta
<1>2. CASE Cache
  BY <1>2, RunJobKeeps, CacheNextKeeps, CacheWaitKeeps, CacheJoinKeeps,
     CacheVerdictKeeps, CacheSaveKeeps, StopKeeps DEF Cache
<1>3. CASE Observer
  BY <1>3, ObserverKeeps
<1>4. CASE \E s \in Slot : Child(s)
  BY <1>4, ChildKeeps
<1>5. CASE WallBound \/ \E q \in Queue : StopSignal(q)
  BY <1>5, StopKeeps
<1>6. CASE CacheKilled
  BY <1>6, CacheKilledKeeps
<1>7. CASE CacheRestart
  BY <1>7, CacheRestartKeeps
<1>8. CASE UNCHANGED vars
  BY <1>8, StutterKeeps
<1>. QED
  BY <1>1, <1>2, <1>3, <1>4, <1>5, <1>6, <1>7, <1>8 DEF Next, AllEnded

-----------------------------------------------------------------------------
(* In every reachable state, for every plan and every number of restarts,  *)
(* whatever the order of the queues, controllers, signals and kills, the   *)
(* invariant holds.                                                        *)
THEOREM Invariance == Spec => []IInv
<1>1. IInv /\ [Next]_vars => IInv'
  BY NextKeeps
<1>. QED BY Initially, <1>1, PTL DEF Spec

(* Outputs, leases, controllers, positions and records are of their types. *)
THEOREM TypeCorrect == Spec => []TypeOK
<1>1. IInv => TypeOK
  BY DEF IInv
<1>. QED BY Invariance, <1>1, PTL

(* However often run_job() retries and the worker is killed and started    *)
(* again beside the orphan of the one before, no case's test is started    *)
(* twice, at most one test runs on the leased CPU, and a queue that will   *)
(* spawn a controller has none alive.                                      *)
THEOREM RunsExclude == Spec => []JobsExclusive
<1>1. IInv => JobsExclusive
  <2>. SUFFICES ASSUME IInv PROVE JobsExclusive
    OBVIOUS
  <2>1. \A j \in Job : starts[j] <= 1
    BY DEF IInv, OutputInv
  <2>2. Cardinality({s \in Slot : child[s].pc = "run"}) <= 1
    <3>. DEFINE Running == {s \in Slot : child[s].pc = "run"}
    <3>1. CASE Running = {}
      BY <3>1, FS_EmptySet
    <3>2. CASE Running # {}
      <4>1. PICK s \in Running : TRUE
        BY <3>2
      <4>2. Running = {s}
        BY <4>1, OneRuns DEF IInv
      <4>3. Cardinality({s}) = 1
        BY FS_Singleton
      <4>. QED BY <4>2, <4>3
    <3>. QED BY <3>1, <3>2
  <2>3. ASSUME NEW q \in Queue, pc[q] = "call", ~MustStop(q) PROVE ~Alive(q)
    BY <2>3 DEF IInv, QueueInv
  <2>. QED BY <2>1, <2>2, <2>3 DEF JobsExclusive
<1>. QED BY Invariance, <1>1, PTL

(* No controller of either queue, orphaned or not, starts a cache test on  *)
(* a case whose metadata or graph is missing or incomplete.                *)
THEOREM GraphFirst == Spec => []CacheAfterGraph
<1>1. IInv => CacheAfterGraph
  <2>. SUFFICES ASSUME IInv, NEW c \in Case, starts[<<"cache", c>>] > 0
                PROVE  Complete("metadata", c) /\ Complete("graph", c)
    BY DEF CacheAfterGraph, Complete
  <2>1. <<"cache", c>> \in Job
    BY CaseJobs
  <2>2. starts[<<"cache", c>>] = IF out[<<"cache", c>>] = "absent" THEN 0 ELSE 1
    BY <2>1 DEF IInv, OutputInv
  <2>3. out[<<"cache", c>>] # "absent"
    BY <2>2
  <2>. QED BY <2>1, <2>3 DEF IInv, ChainInv, Inputs
<1>. QED BY Invariance, <1>1, PTL

(* The state files never report a verdict, a start or an end that did not  *)
(* happen, whoever wrote them last.                                        *)
THEOREM ReportsTrue == Spec => []ReportTruthful
<1>1. IInv => ReportTruthful
  BY DEF IInv
<1>. QED BY Invariance, <1>1, PTL

(* Only steps of the worker and of its observer touch the entry of a case, *)
(* and only the one at hand, before it has a verdict.                      *)
LEMMA EntriesWritten ==
  ASSUME IInv, [Next]_vars, pc'["cache"] # "dead"
  PROVE  \/ entry' = entry
         \/ /\ pos["cache"] \in Case /\ entry[pos["cache"]] \notin Verdict
            /\ \E v \in EntryStatus : SetEntry(v)
<1>1. CASE CacheWaits \/ CacheSpec \/ CacheSummary \/ CacheFailed
  <2>1. pc["cache"] \in {"wait", "summary", "failed"}
    BY <1>1 DEF CacheWaits, CacheSpec, CacheSummary, CacheFailed
  <2>2. pos["cache"] \in Case /\ entry[pos["cache"]] \notin Verdict
    BY <2>1, Undecided, CaseJobs
  <2>3. entry' = entry \/ \E v \in EntryStatus : SetEntry(v)
    BY <1>1 DEF CacheWaits, CacheSpec, CacheSummary, CacheFailed, EntryStatus, Verdict
  <2>. QED BY <2>2, <2>3
<1>2. CASE Observer
  <2>1. pc["cache"] \in RunningJob \cup Joining
    BY <1>2 DEF Observer, ObserverWakes, ObserverLooks, ObserverSaves, IInv, WorkerInv
  <2>2. pos["cache"] \in Case /\ entry[pos["cache"]] \notin Verdict
    BY <2>1, Undecided, CaseJobs DEF RunningJob, Joining
  <2>3. entry' = entry \/ SetEntry("RUNNING_CACHE")
    BY <1>2 DEF Observer, ObserverWakes, ObserverLooks, ObserverSaves
  <2>. QED BY <2>2, <2>3 DEF EntryStatus
<1>3. CASE CacheKilled
  BY <1>3 DEF CacheKilled, Goto, IInv, RangeInv, Queue
<1>4. CASE Meta
  BY <1>4 DEF Meta, RunJob, Call, PollStopped, Reap, PollReturns, PollRetries, PollGivesUp,
              MetaNext, MetaReturn, MetaRaise, MetaFinally, Except, ExceptTimeout, worker
<1>5. CASE RunJob("cache") \/ CacheNext \/ CacheGivesUp \/ StopObserver \/ JoinObserver
           \/ CacheSave \/ CacheFinally \/ Except("cache", "STOPPED")
           \/ ExceptTimeout("cache")
  BY <1>5 DEF RunJob, Call, PollStopped, Reap, PollReturns, PollRetries, PollGivesUp,
              CacheNext, CacheGivesUp, StopObserver, JoinObserver, CacheSave,
              CacheFinally, Except, ExceptTimeout, worker
<1>6. CASE \E s \in Slot : Child(s)
  BY <1>6 DEF Child, ChildRefuses, ChildLease, ChildGpuBusy, ChildStart, ChildFinish, worker
<1>7. CASE WallBound \/ (\E q \in Queue : StopSignal(q)) \/ CacheRestart \/ UNCHANGED vars
  BY <1>7 DEF WallBound, StopSignal, CacheRestart, vars, worker
<1>. QED BY <1>1, <1>2, <1>3, <1>4, <1>5, <1>6, <1>7 DEF Next, Cache, AllEnded

(* Neither the observer thread nor the worker itself ever takes back a     *)
(* verdict: a case's entry is only written before it has one.              *)
THEOREM VerdictsFinal == Spec => VerdictsKept
<1>1. ASSUME IInv, [Next]_vars
      PROVE  [pc'["cache"] # "dead" =>
                \A c \in Case : entry[c] \in {"PASS", "FAILED"} => entry'[c] = entry[c]]_vars
  BY <1>1, EntriesWritten, EntrySet DEF Verdict
<1>. QED BY <1>1, Invariance, PTL DEF Spec, VerdictsKept
=============================================================================
