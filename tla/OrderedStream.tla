--------------------------- MODULE OrderedStream ---------------------------
(***************************************************************************)
(* What a profile stream promises the cache backend, whatever carries it:  *)
(* the records the workload source yields reach the backend in source      *)
(* order, each exactly once, and a run is reported complete only after the *)
(* end-of-stream record, the last one, has been delivered.                 *)
(***************************************************************************)
EXTENDS Naturals, Sequences

CONSTANT Kind            \* the kinds of records, "Done" among them

VARIABLES log,           \* kinds of the records the source yielded, in order
          received,      \* number of records delivered
          last,          \* position in log of the record delivered last
          outcome        \* how the consumer's run ended, "running" until then

vars == <<log, received, last, outcome>>

Init == log = <<>> /\ received = 0 /\ last = 0 /\ outcome = "running"

(* The source yields one more record.                                      *)
Yield == /\ \E k \in Kind : log' = Append(log, k)
         /\ UNCHANGED <<received, last, outcome>>

(* The consumer receives the record after the one it received last.        *)
Deliver == /\ outcome = "running"
           /\ received < Len(log)
           /\ received' = received + 1
           /\ last' = received'
           /\ UNCHANGED <<log, outcome>>

(* The run succeeds: everything was delivered, up to the end of stream.    *)
Complete == /\ outcome = "running"
            /\ last = Len(log)
            /\ last > 0 /\ log[last] = "Done"
            /\ outcome' = "complete"
            /\ UNCHANGED <<log, received, last>>

(* The run fails: the source or the backend raised an exception.           *)
Fail == /\ outcome = "running"
        /\ outcome' \in {"producer_error", "backend_error"}
        /\ UNCHANGED <<log, received, last>>

Next == Yield \/ Deliver \/ Complete \/ Fail

Spec == Init /\ [][Next]_vars
=============================================================================
