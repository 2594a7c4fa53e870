--------------------------- MODULE OrderedLedger ---------------------------
(***************************************************************************)
(* What a batch run promises whoever reads its output directory: results   *)
(* are recorded one at a time in the order of the plan, nothing is         *)
(* recorded once a verdict is published, a verdict is never revised, and   *)
(* a run is published as passed only with every item of the plan recorded. *)
(***************************************************************************)
EXTENDS Naturals

CONSTANT NItems          \* a natural number: the items of the plan

VARIABLES recorded,      \* number of items recorded: items 1..recorded
          verdict        \* "none" until one is published

vars == <<recorded, verdict>>

Init == recorded = 0 /\ verdict = "none"

(* The next item of the plan is recorded.                                  *)
Record == /\ verdict = "none"
          /\ recorded < NItems
          /\ recorded' = recorded + 1
          /\ UNCHANGED verdict

(* The run is published as passed: every item is recorded.                 *)
Pass == /\ verdict = "none"
        /\ recorded = NItems
        /\ verdict' = "pass"
        /\ UNCHANGED recorded

(* The run is published as failed, whatever it recorded before.            *)
Fail == /\ verdict = "none"
        /\ verdict' = "fail"
        /\ UNCHANGED recorded

Next == Record \/ Pass \/ Fail

Spec == Init /\ [][Next]_vars
=============================================================================
