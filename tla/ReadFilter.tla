----------------------------- MODULE ReadFilter -----------------------------
(***************************************************************************)
(* What an L1 read filter promises, whatever it replaces: each SM holds    *)
(* sectors it has itself read in this kernel, a read hits exactly when its *)
(* sector is held, and a read of a line that is not held makes room by     *)
(* dropping at most one other line of that SM, whole.                      *)
(***************************************************************************)
CONSTANTS Sm, Line, Sector

VARIABLES held,          \* sectors held, as <<SM, line, sector>>
          answer         \* the last read and its outcome

vars == <<held, answer>>

Outcome == {"hit", "line_miss", "sector_miss"}
NoAnswer == [outcome |-> "none"]
Begun == [outcome |-> "kernel"]      \* a kernel has begun since

OfLine(sm, line) == {x \in held : x[1] = sm /\ x[2] = line}

Init == held = {} /\ answer = NoAnswer

(* A kernel starts with nothing held.                                      *)
BeginKernel == held' = {} /\ answer' = Begun

Hit(sm, line, s) == /\ <<sm, line, s>> \in held
                    /\ UNCHANGED held

SectorMiss(sm, line, s) == /\ <<sm, line, s>> \notin held
                           /\ OfLine(sm, line) # {}
                           /\ held' = held \cup {<<sm, line, s>>}

LineMiss(sm, line, s) ==
  /\ OfLine(sm, line) = {}
  /\ \/ held' = held \cup {<<sm, line, s>>}
     \/ \E victim \in Line : held' = (held \ OfLine(sm, victim))
                                     \cup {<<sm, line, s>>}

Read == \E sm \in Sm, line \in Line, s \in Sector, outcome \in Outcome :
          /\ \/ outcome = "hit" /\ Hit(sm, line, s)
             \/ outcome = "sector_miss" /\ SectorMiss(sm, line, s)
             \/ outcome = "line_miss" /\ LineMiss(sm, line, s)
          /\ answer' = [outcome |-> outcome, read |-> <<sm, line, s>>]

(* A read outside every allocation is refused; a store holds nothing.      *)
Refuse == answer' = NoAnswer /\ UNCHANGED held

Next == BeginKernel \/ Read \/ Refuse

Spec == Init /\ [][Next]_vars
=============================================================================
