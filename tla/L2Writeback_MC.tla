-------------------------- MODULE L2Writeback_MC --------------------------
(* Values for TLC: two bytes stand for the 32 of a sector, partial or full. *)
EXTENDS L2Writeback

MCTag == 0 .. 2
MCByte == {"lo", "hi"}
Whole == {"all"}

(* All lines compete for one set; or the last has a set of its own.        *)
OneSet == [t \in MCTag |-> 0]
TwoSets == [t \in MCTag |-> IF t = 2 THEN 1 ELSE 0]

(* Kept from kernel to kernel, as run_memgen sets it (no drain, no stream) *)
(* and with what the command line can add; or cleared at a kernel's start, *)
(* with or without a flush at the end of the one before.                   *)
Kept == {p \in Policy : p.preserve /\ ~p.flush}
KeptDrained == {p \in Kept : p.drain /\ ~p.stream}
Cleared == {p \in Policy : ~p.preserve /\ ~p.drain /\ p.stream}
=============================================================================
