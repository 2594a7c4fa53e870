--------------------------- MODULE SamplePipeline ---------------------------
(***************************************************************************)
(* One sampling job of the SGLang integration: sample_pipeline.py starts   *)
(* three processes joined by two pipes,                                    *)
(*                                                                         *)
(*     host  --raw-->  consumer  --projection-->  profiles                 *)
(*                                                                         *)
(* The host runs the model under the sampler, which writes a stream of     *)
(* frames. The consumer (stream_consumer.py, packet_stream.py,             *)
(* ram_capture.py) keeps the whole stream in RAM, waits until the parent   *)
(* has seen the host exit, qualifies the transport and only then replays   *)
(* it as rows. The profile fitter (full_source_postprocess.py,             *)
(* postprocess_samples.py) fits one kernel at a time, provisionally, and   *)
(* commits at the end of the rows, against the consumer's receipt.         *)
(*                                                                         *)
(* A record is known by its kernel and its number. The stream's hashes are *)
(* those of whatever the sampler wrote: they hide a frame lost before it   *)
(* was hashed, and the reader's other rules must find it.                  *)
(***************************************************************************)
EXTENDS Naturals, Sequences, FiniteSets

CONSTANTS NKernels,      \* launches selected by the plan
          NRecords,      \* records the device pushes for each of them
          PipeCap,       \* rows or frames a pipe holds
          MaxFaults      \* bound: frames lost, repeated or swapped

ASSUME ConstantsAssumption ==
    /\ NKernels \in Nat \ {0} /\ NRecords \in Nat \ {0}
    /\ PipeCap \in Nat \ {0} /\ MaxFaults \in Nat

Kernel == 1..NKernels
Child == {"host", "consumer", "profiles"}

VARIABLES parent,        \* where sample_pipeline.py is
          late,          \* the job's budget of seconds is spent
          marker,        \* producer-exit.json
          result,        \* finish.json
          pc,            \* pc[c]: where child c is
          rc,            \* rc[c]: its exit status
          sig,           \* children sent SIGTERM
          script,        \* frames the sampler still has to write
          faults,        \* sampler faults so far
          finish,        \* the observer's finish.json
          raw,           \* frames in the raw pipe
          reader,        \* the consumer's read_stream
          ram,           \* frames it captured
          cursor,        \* frames replayed so far
          receipt,       \* consumer.json
          proj,          \* rows in the projection pipe
          analysis,      \* the fitter's analyze()
          rows,          \* the fitter's profile rows
          profiles,      \* profiles/receipt.json
          quality        \* quality[k]: how kernel k's records lend themselves

boss == <<parent, late, marker, result>>
sampler == <<script, faults, finish>>
consumer == <<reader, ram, cursor, receipt>>
fitter == <<analysis, rows, profiles>>
vars == <<boss, pc, rc, sig, sampler, raw, consumer, proj, fitter, quality>>

Spawning == {"spawn", "spawn_consumer", "spawn_host"}

Alive(c) == pc[c] \notin {"none", "dead"}

Goto(c, l) == pc' = [pc EXCEPT ![c] = l]
ExitWith(c, code) == Goto(c, "dead") /\ rc' = [rc EXCEPT ![c] = code]

-----------------------------------------------------------------------------
(* The sampler's frames.                                                   *)

Frame(kind, k, n) == [kind |-> kind, k |-> k, n |-> n]

KernelFrames(k) ==
    <<Frame("begin", k, 0)>>
      \o [i \in 1..NRecords |-> Frame("record", k, i - 1)]
      \o <<Frame("end", k, NRecords)>>

(* The frames of the launches seen, kernels 1..m in launch order; CLOSED   *)
(* tells their number, and that is the plan's or it is not complete.       *)
ScriptOf(m) ==
    LET f[k \in 0..m] == IF k = 0 THEN <<Frame("hello", 0, 0), Frame("static", 0, 0)>>
                                  ELSE f[k - 1] \o KernelFrames(k)
    IN  f[m] \o <<Frame("closed", m, m * NRecords)>>

NoReader == [hello |-> FALSE, static |-> FALSE, cur |-> 0, records |-> 0,
             keys |-> {}, kernels |-> 0, total |-> 0, closed |-> FALSE]

NoAnalysis == [header |-> FALSE, cur |-> 0, records |-> <<>>, retained |-> 0,
               error |-> FALSE, results |-> <<>>, rows |-> 0]

NoMarker == [rc |-> "none", pins |-> FALSE]

Init == /\ parent = "spawn" /\ late = FALSE /\ marker = NoMarker /\ result = "none"
        /\ pc = [c \in Child |-> "none"] /\ rc = [c \in Child |-> "none"] /\ sig = {}
        /\ \E m \in {NKernels - 1, NKernels} : script = ScriptOf(m)
        /\ faults = 0 /\ finish = "none"
        /\ raw = <<>> /\ proj = <<>>
        /\ reader = NoReader /\ ram = <<>> /\ cursor = 0 /\ receipt = "none"
        /\ analysis = NoAnalysis /\ rows = <<>> /\ profiles = "none"
        /\ quality \in [Kernel -> {"fits", "unfit", "unsupported"}]

-----------------------------------------------------------------------------
(* The host and its sampler (the C++ side, seen through its pipe).         *)

HostStays == UNCHANGED <<boss, sig, consumer, proj, fitter, quality>>

EmitFrame == /\ pc["host"] = "run" /\ script # <<>>
             /\ pc["consumer"] # "dead"
             /\ Len(raw) < PipeCap
             /\ raw' = Append(raw, Head(script)) /\ script' = Tail(script)
             /\ UNCHANGED <<pc, rc, faults, finish>> /\ HostStays

(* A frame is lost, written twice, or written after the next one.          *)
SamplerFault ==
    /\ pc["host"] = "run" /\ script # <<>> /\ faults < MaxFaults
    /\ \/ script' = Tail(script)
       \/ script' = <<Head(script)>> \o script
       \/ /\ Len(script) > 1
          /\ script' = <<script[2], script[1]>> \o SubSeq(script, 3, Len(script))
    /\ faults' = faults + 1
    /\ UNCHANGED <<pc, rc, finish, raw>> /\ HostStays

(* The sampler closes its pipe, the host goes on to its own end.           *)
ClosePipe == /\ pc["host"] = "run" /\ script = <<>>
             /\ Goto("host", "closed")
             /\ UNCHANGED <<rc, sampler, raw>> /\ HostStays

(* The host exits; its observer may have closed, failed or left no file.   *)
HostExits == /\ pc["host"] = "closed"
             /\ \E code \in {"0", "1"}, f \in {"none", "PASS", "FAIL"} :
                   ExitWith("host", code) /\ finish' = f
             /\ UNCHANGED <<script, faults, raw>> /\ HostStays

(* Its write finds the consumer gone.                                      *)
BrokenPipe == /\ pc["host"] = "run" /\ script # <<>> /\ pc["consumer"] = "dead"
              /\ ExitWith("host", "1")
              /\ UNCHANGED <<sampler, raw>> /\ HostStays

HostHangs == /\ pc["host"] = "run"
             /\ Goto("host", "hung")
             /\ UNCHANGED <<rc, sampler, raw>> /\ HostStays

-----------------------------------------------------------------------------
(* The consumer. read_stream, one frame at a time.                         *)

(* A record is the next of its kernel. Mutant: any record will do.         *)
AnyRecord(r, f) == f.n \in Nat
NextRecord(r, f) == f.n = r.records

(* END conserves the packets: pushed = received = selected = records read. *)
EndConserves(r, f) == f.k = r.cur /\ f.n = r.records

(* CLOSED counts kernels and records, and the plan is complete.            *)
(* Mutant: the plan's completeness is not asked.                           *)
CloseCountsOnly(r, f) == f.k = r.kernels /\ f.n = r.total
CloseComplete(r, f) == f.k = r.kernels /\ f.n = r.total /\ f.k = NKernels

Admits(r, f) ==
    /\ ~r.closed
    /\ \/ f.kind = "hello" /\ ~r.hello /\ ~r.static /\ r.cur = 0 /\ r.kernels = 0
       \/ f.kind = "static" /\ r.hello /\ r.cur = 0 /\ ~r.static
       \/ f.kind = "begin" /\ r.hello /\ r.cur = 0 /\ f.k \notin r.keys
       \/ f.kind = "record" /\ r.cur # 0 /\ r.static /\ NextRecord(r, f)
       \/ f.kind = "end" /\ r.cur # 0 /\ EndConserves(r, f)
       \/ f.kind = "closed" /\ r.hello /\ r.cur = 0 /\ CloseComplete(r, f)

Read(r, f) ==
    CASE f.kind = "hello"  -> [r EXCEPT !.hello = TRUE]
      [] f.kind = "static" -> [r EXCEPT !.static = TRUE]
      [] f.kind = "begin"  -> [r EXCEPT !.cur = f.k, !.records = 0, !.keys = @ \cup {f.k}]
      [] f.kind = "record" -> [r EXCEPT !.records = @ + 1, !.total = @ + 1]
      [] f.kind = "end"    -> [r EXCEPT !.cur = 0, !.kernels = @ + 1]
      [] f.kind = "closed" -> [r EXCEPT !.closed = TRUE]

ConsumerStays == UNCHANGED <<boss, sig, sampler, fitter, quality>>

(* The FAIL receipt is written after the RAM is cleared, then it exits 1.  *)
ConsumerFails == /\ receipt' = "FAIL" /\ ram' = <<>>
                 /\ ExitWith("consumer", "1")
                 /\ UNCHANGED <<reader, cursor>>

(* No process can write to the raw pipe any more: the parent holds a write *)
(* end until the host is spawned, or until it gives up.                    *)
RawEnds == /\ raw = <<>>
           /\ \/ pc["host"] \in {"closed", "dead"}
              \/ pc["host"] = "none" /\ parent \notin Spawning

Capture ==
    /\ pc["consumer"] = "capture" /\ raw # <<>>
    /\ raw' = Tail(raw)
    /\ IF Admits(reader, Head(raw))
       THEN /\ reader' = Read(reader, Head(raw)) /\ ram' = Append(ram, Head(raw))
            /\ UNCHANGED <<pc, rc, cursor, receipt>>
       ELSE ConsumerFails
    /\ UNCHANGED proj /\ ConsumerStays

(* The end of the pipe: right after CLOSED, or a truncated stream.         *)
CaptureEnds ==
    /\ pc["consumer"] = "capture" /\ RawEnds
    /\ IF reader.closed
       THEN Goto("consumer", "marker") /\ UNCHANGED <<rc, consumer>>
       ELSE ConsumerFails
    /\ UNCHANGED <<raw, proj>> /\ ConsumerStays

(* The parent's marker is there: qualify_transport and the checks before.  *)
(* Mutant: that the host has exited is enough.                             *)
QualifiesOnExit == marker # NoMarker
Qualifies == marker.rc = "0" /\ marker.pins /\ finish = "PASS"

Qualify ==
    /\ pc["consumer"] = "marker" /\ marker # NoMarker
    /\ IF Qualifies
       THEN Goto("consumer", "replay") /\ UNCHANGED <<rc, consumer>>
       ELSE ConsumerFails
    /\ UNCHANGED <<raw, proj>> /\ ConsumerStays

(* 30 s after the end of the stream the marker is still not there.         *)
MarkerTimeout == /\ pc["consumer"] = "marker" /\ marker = NoMarker
                 /\ ConsumerFails
                 /\ UNCHANGED <<raw, proj>> /\ ConsumerStays

(* replay_projection: the header, then begin, record and end rows; a       *)
(* record's row carries the launch it is read in. Row 0 is the header.     *)
RowOf(i) ==
    IF i = 0 THEN [kind |-> "header", k |-> 0, n |-> 0, id |-> <<0, 0>>]
    ELSE LET begun == {b \in 1..i : ram[b].kind = "begin"}
             last == CHOOSE b \in begun : \A a \in begun : a <= b
         IN  [kind |-> ram[i].kind, k |-> ram[last].k, n |-> ram[i].n,
              id |-> <<ram[i].k, ram[i].n>>]

Replayed(i) == i = 0 \/ ram[i].kind \in {"begin", "record", "end"}

Replay ==
    /\ pc["consumer"] = "replay" /\ cursor <= Len(ram)
    /\ IF Replayed(cursor) /\ pc["profiles"] = "dead"
       THEN ConsumerFails /\ UNCHANGED proj
       ELSE /\ Replayed(cursor) => Len(proj) < PipeCap
            /\ proj' = IF Replayed(cursor) THEN Append(proj, RowOf(cursor)) ELSE proj
            /\ cursor' = cursor + 1
            /\ UNCHANGED <<pc, rc, reader, ram, receipt>>
    /\ UNCHANGED raw /\ ConsumerStays

(* The receipt seals the replay and is written before stdout is closed.    *)
ReplayEnds == /\ pc["consumer"] = "replay" /\ cursor > Len(ram)
              /\ receipt' = "PASS" /\ ram' = <<>>
              /\ ExitWith("consumer", "0")
              /\ UNCHANGED <<reader, cursor, raw, proj>> /\ ConsumerStays

-----------------------------------------------------------------------------
(* The profile fitter.                                                     *)

FitterStays == UNCHANGED <<boss, sig, sampler, raw, consumer, quality>>

Demoted(r) == IF r.status \in {"PROVISIONAL", "PASS"}
              THEN [r EXCEPT !.status = "REJECTED_GLOBAL"] ELSE r

(* except: no provisional row survives, the receipt is FAIL, exit 1.       *)
FitterFails == /\ rows' = [i \in DOMAIN rows |-> Demoted(rows[i])]
               /\ profiles' = "FAIL"
               /\ ExitWith("profiles", "1")
               /\ UNCHANGED analysis

RowAdmitted(a, row) ==
    \/ row.kind = "header" /\ ~a.header
    \/ row.kind = "begin" /\ a.header /\ a.cur = 0
         /\ row.k \notin {a.results[i] : i \in DOMAIN a.results}
    \/ row.kind = "record" /\ a.header /\ a.cur # 0 /\ row.k = a.cur
    \/ row.kind = "end" /\ a.header /\ a.cur # 0 /\ row.k = a.cur
         /\ row.n = a.rows /\ row.n = NRecords

(* In an unsupported kernel, the last record's instruction is.             *)
Unsupported(row) == quality[row.k] = "unsupported" /\ row.n = NRecords - 1

(* Such a record invalidates its kernel and releases what the kernel held. *)
Held(a, row) == IF a.error \/ Unsupported(row) THEN <<>> ELSE Append(a.records, row.id)

(* Mutant: what an error releases is not given back.                       *)
RetainedForward(a, row) == IF Held(a, row) = <<>> THEN a.retained ELSE a.retained + 1
Retained(a, row) == a.retained + Len(Held(a, row)) - Len(a.records)

Analyzed(a, row) ==
    CASE row.kind = "header" -> [a EXCEPT !.header = TRUE]
      [] row.kind = "begin" ->
            [a EXCEPT !.cur = row.k, !.records = <<>>, !.error = FALSE, !.rows = 0]
      [] row.kind = "record" ->
            [a EXCEPT !.records = Held(a, row), !.rows = @ + 1,
                      !.error = @ \/ Unsupported(row),
                      !.retained = Retained(a, row)]
      [] row.kind = "end" ->
            [a EXCEPT !.cur = 0, !.records = <<>>, !.retained = @ - Len(a.records),
                      !.results = Append(@, row.k)]

(* decoded(): fit one kernel; its profile is provisional or rejected.      *)
FitRow(a, k) == [k |-> k, data |-> a.records,
                 status |-> IF quality[k] = "fits" THEN "PROVISIONAL" ELSE "REJECTED"]

(* Mutant: the fitter waits for the receipt before it drains its rows.     *)
RowAfterReceipt == proj # <<>> /\ receipt # "none"
RowWaiting == proj # <<>>

ReadRow ==
    /\ pc["profiles"] = "read" /\ RowWaiting
    /\ proj' = Tail(proj)
    /\ LET row == Head(proj)
           next == Analyzed(analysis, row)
       IN  IF /\ RowAdmitted(analysis, row)
              /\ row.kind = "end" => next.retained = 0
           THEN /\ analysis' = next
                /\ rows' = IF row.kind = "end" /\ ~analysis.error
                           THEN Append(rows, FitRow(analysis, row.k)) ELSE rows
                /\ UNCHANGED <<pc, rc, profiles>>
           ELSE FitterFails
    /\ FitterStays

(* No process can write to the projection pipe any more.                   *)
ProjectionEnds == /\ proj = <<>>
                  /\ \/ pc["consumer"] = "dead"
                     \/ pc["consumer"] = "none" /\ parent \notin Spawning

(* After the last row: the consumer's receipt, and the launches in order.  *)
Commits == /\ analysis.cur = 0 /\ analysis.results # <<>>
           /\ receipt = "PASS"
           /\ Len(analysis.results) = reader.kernels

(* The members of a set of positions, in order.                            *)
InOrder(S) == CHOOSE f \in [1..Cardinality(S) -> S] :
                 \A a, b \in DOMAIN f : a < b => f[a] < f[b]

(* A kernel that never reached the fitter is rejected before packing.      *)
BeforePacking ==
    LET missing == {i \in DOMAIN analysis.results :
                      \A j \in DOMAIN rows : rows[j].k # analysis.results[i]}
        place == InOrder(missing)
    IN  [j \in DOMAIN place |-> [k |-> analysis.results[place[j]], data |-> <<>>,
                                status |-> "REJECTED_BEFORE"]]

Commit ==
    /\ pc["profiles"] = "read" /\ ProjectionEnds
    /\ IF Commits
       THEN /\ rows' = [i \in DOMAIN rows |->
                          IF rows[i].status = "PROVISIONAL"
                          THEN [rows[i] EXCEPT !.status = "PASS"] ELSE rows[i]]
                       \o BeforePacking
            /\ profiles' = "PASS"
            /\ ExitWith("profiles", "0")
            /\ UNCHANGED analysis
       ELSE FitterFails
    /\ UNCHANGED proj /\ FitterStays

-----------------------------------------------------------------------------
(* sample_pipeline.py.                                                     *)

BossStays == UNCHANGED <<sampler, raw, consumer, proj, fitter, quality>>

Spawn(from, c, l, to) == /\ parent = from
                         /\ Goto(c, l) /\ parent' = to
                         /\ UNCHANGED <<late, marker, result, rc, sig>> /\ BossStays

SpawnFitter == Spawn("spawn", "profiles", "read", "spawn_consumer")
SpawnConsumer == Spawn("spawn_consumer", "consumer", "capture", "spawn_host")
SpawnHost == Spawn("spawn_host", "host", "run", "while")

(* finally: every descriptor is closed, every child still alive is sent    *)
(* SIGTERM; then each is waited for, 10 s, and killed.                     *)
Cleanup(l) == /\ parent' = l
              /\ sig' = {c \in Child : Alive(c)}

(* A child cannot be spawned, or a signal raises InterruptedError.         *)
Interrupted == /\ parent \in Spawning \cup {"while", "producer", "status", "accept"}
               /\ Cleanup("reap_fail")
               /\ UNCHANGED <<late, marker, result, pc, rc>> /\ BossStays

(* The budget is looked at once per turn.                                  *)
OutOfTime == /\ parent = "producer" /\ late
             /\ Cleanup("reap_fail")
             /\ UNCHANGED <<late, marker, result, pc, rc>> /\ BossStays

(* while any child runs; then the producer must have been marked.          *)
While ==
    /\ parent = "while"
    /\ IF \E c \in Child : Alive(c)
       THEN parent' = "producer" /\ UNCHANGED sig
       ELSE IF marker # NoMarker
            THEN parent' = "accept" /\ UNCHANGED sig
            ELSE Cleanup("reap_fail")
    /\ UNCHANGED <<late, marker, result, pc, rc>> /\ BossStays

(* The host has exited: its observer's file, the pinned sources, marker.   *)
MarkProducer ==
    /\ parent = "producer" /\ ~late
    /\ IF pc["host"] # "dead" \/ marker # NoMarker
       THEN parent' = "status" /\ UNCHANGED <<marker, sig>>
       ELSE IF finish = "none"
            THEN Cleanup("reap_fail") /\ UNCHANGED marker
            ELSE /\ \E pins \in BOOLEAN : marker' = [rc |-> rc["host"], pins |-> pins]
                 /\ parent' = "status" /\ UNCHANGED sig
    /\ UNCHANGED <<late, result, pc, rc>> /\ BossStays

PollStatus ==
    /\ parent = "status"
    /\ IF \E c \in Child : rc[c] \notin {"none", "0"}
       THEN Cleanup("reap_fail")
       ELSE parent' = "while" /\ UNCHANGED sig
    /\ UNCHANGED <<late, marker, result, pc, rc>> /\ BossStays

(* The receipts of consumer and fitter decide. A failed fitter's receipt   *)
(* has no "packed_models_missing".                                         *)
Accept == /\ parent = "accept"
          /\ Cleanup(IF receipt = "PASS" /\ profiles = "PASS" THEN "reap_pass" ELSE "reap_fail")
          /\ UNCHANGED <<late, marker, result, pc, rc>> /\ BossStays

(* A child dies by itself, without a receipt.                              *)
ChildCrashes(c) == /\ c \notin sig /\ Alive(c)
                   /\ ExitWith(c, "signal")
                   /\ UNCHANGED <<boss, sig>> /\ BossStays

(* A child that was sent SIGTERM dies of it, or is killed 10 s later.      *)
ChildDies(c) == /\ c \in sig /\ Alive(c)
                /\ ExitWith(c, "signal")
                /\ UNCHANGED <<boss, sig>> /\ BossStays

Reaped == /\ parent \in {"reap_fail", "reap_pass"}
          /\ \A c \in Child : ~Alive(c)
          /\ result' = IF parent = "reap_pass" THEN "PASS" ELSE "FAIL"
          /\ parent' = "done"
          /\ UNCHANGED <<late, marker, pc, rc, sig>> /\ BossStays

(* The parent is killed, or a second signal escapes from its "finally":    *)
(* its children's parent-death signal kills them.                          *)
Killed == /\ parent \notin {"done", "gone"}
          /\ parent' = "gone"
          /\ pc' = [c \in Child |-> IF Alive(c) THEN "dead" ELSE pc[c]]
          /\ rc' = [c \in Child |-> IF Alive(c) THEN "signal" ELSE rc[c]]
          /\ UNCHANGED <<late, marker, result, sig>> /\ BossStays

BudgetSpent == /\ parent \in {"while", "producer", "status"}
               /\ ~late /\ late' = TRUE
               /\ UNCHANGED <<parent, marker, result, pc, rc, sig>> /\ BossStays

-----------------------------------------------------------------------------
Host == EmitFrame \/ ClosePipe \/ HostExits \/ BrokenPipe
Consumer == Capture \/ CaptureEnds \/ Qualify \/ Replay \/ ReplayEnds
Fitter == ReadRow \/ Commit
Boss == SpawnFitter \/ SpawnConsumer \/ SpawnHost \/ While \/ MarkProducer
          \/ OutOfTime \/ PollStatus \/ Accept \/ Reaped

Ended == parent \in {"done", "gone"} /\ UNCHANGED vars

Next == \/ Host \/ Consumer \/ Fitter \/ Boss
        \/ SamplerFault \/ HostHangs \/ MarkerTimeout
        \/ Interrupted \/ BudgetSpent \/ Killed
        \/ \E c \in Child : ChildDies(c) \/ ChildCrashes(c)
        \/ Ended

(* Every process runs and a terminated child dies. Time passes only as far *)
(* as it must: the budget is spent for sure when the host hangs.           *)
Spec == /\ Init /\ [][Next]_vars
        /\ WF_vars(Host) /\ WF_vars(Consumer) /\ WF_vars(Fitter) /\ WF_vars(Boss)
        /\ WF_vars(pc["host"] = "hung" /\ BudgetSpent)
        /\ \A c \in Child : WF_vars(ChildDies(c))

-----------------------------------------------------------------------------
(* Properties.                                                             *)

TypeOK ==
    /\ parent \in Spawning \cup {"while", "producer", "status", "accept", "reap_fail",
                                  "reap_pass", "done", "gone"}
    /\ pc \in [Child -> {"none", "run", "closed", "hung", "capture", "marker", "replay",
                         "read", "dead"}]
    /\ rc \in [Child -> {"none", "0", "1", "signal"}]
    /\ result \in {"none", "PASS", "FAIL"}
    /\ receipt \in {"none", "PASS", "FAIL"} /\ profiles \in {"none", "PASS", "FAIL"}
    /\ analysis.retained = Len(analysis.records)
    /\ Len(raw) <= PipeCap /\ Len(proj) <= PipeCap

Exact(k) == [i \in 1..NRecords |-> <<k, i - 1>>]

(* A job published as passed fitted every selected launch exactly once,    *)
(* from exactly the records the device pushed, in order, when one frame is *)
(* lost, repeated or swapped; the launches it rejects are only those whose *)
(* records do not fit, and every process is gone. Four such faults can     *)
(* carry a record past the end of its launch and make up for one lost in   *)
(* the next: a record's frame does not name its launch.                    *)
PassMeansExact ==
    result = "PASS" =>
        /\ \A k \in Kernel : Cardinality({i \in DOMAIN rows : rows[i].k = k}) = 1
        /\ \A i \in DOMAIN rows :
              /\ rows[i].status = "PASS" <=> quality[rows[i].k] = "fits"
              /\ rows[i].status \in {"PASS", "REJECTED"} => rows[i].data = Exact(rows[i].k)
        /\ \A c \in Child : ~Alive(c) /\ rc[c] = "0"

(* No profile is ever published as accepted on its own evidence: a row     *)
(* that reads PASS on disk has a sealed transport behind it, and that a    *)
(* host that exited with 0, unchanged sources and a closed observer. Until *)
(* the fitter ends every row is provisional, after a failure none is left. *)
ProfilesSealed ==
    /\ (\E i \in DOMAIN rows : rows[i].status = "PASS") => profiles = "PASS"
    /\ profiles = "PASS" => receipt = "PASS"
    /\ receipt = "PASS" => rc["host"] = "0" /\ marker = [rc |-> "0", pins |-> TRUE]
                           /\ finish = "PASS"
    /\ profiles = "FAIL" => \A i \in DOMAIN rows : rows[i].status \notin {"PASS", "PROVISIONAL"}

(* The fitter's directory is an ordered ledger of the selected launches.   *)
Ledger == INSTANCE OrderedLedger WITH
    NItems <- NKernels,
    recorded <- Len(analysis.results),
    verdict <- CASE profiles = "PASS" -> "pass"
                 [] profiles = "FAIL" -> "fail"
                 [] OTHER -> "none"

LedgerSpec == Ledger!Spec

(* Pipes that fill, a reader that dies, a host that hangs: nobody waits    *)
(* for ever, and unless it is killed the job ends with a verdict.          *)
PipelineEnds == <>(parent = "gone" \/ result # "none")

=============================================================================
