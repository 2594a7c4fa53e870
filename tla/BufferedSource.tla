--------------------------- MODULE BufferedSource ---------------------------
(***************************************************************************)
(* BufferedWorkloadSource: the bounded ring through which the HBServe      *)
(* address generator (the producer thread, running produce()) hands        *)
(* KernelStart / Instruction / KernelEnd / Done records to the Memgen      *)
(* backend (the thread of run_memgen, calling begin_next and next_inst).   *)
(*                                                                         *)
(* One mutex guards the indices, the count and the flags, and no thread    *)
(* blocks while it holds it, so each critical section is one action.       *)
(* Slots are written and read outside the mutex: these are actions of      *)
(* their own, between the critical sections that claim and hand over the   *)
(* slot.  A thread whose condition-variable predicate is false goes        *)
(* "asleep"; a notification (or a spurious wake-up) makes it test the      *)
(* predicate again.                                                        *)
(***************************************************************************)
EXTENDS Naturals, Sequences

CONSTANTS Capacity,      \* slots_.size()
          MaxItems       \* bound: records the workload holds, Done included

ASSUME CapacityAssumption == Capacity \in Nat /\ Capacity >= 2
ASSUME MaxItemsAssumption == MaxItems \in Nat /\ MaxItems >= 1

Kind == {"KernelStart", "Instruction", "KernelEnd", "Done"}
Index == 0 .. Capacity - 1
NoSlot == Capacity                      \* held_ without a value

VARIABLES
  slots, readIndex, writeIndex, count, producerDone, cancelled, producerError,
  held, inKernel, sawDone,
  ppc, pindex,           \* producer: place in produce(), index it reserved
  announced,             \* begin_next returned, its record is not written yet
  cpc, cindex,           \* consumer: place in its call, index it acquired
  log,                   \* kinds of the records the source yielded (history)
  threw,                 \* whether a source call threw (history)
  received,              \* number of records the consumer read (history)
  last,                  \* position in log of the record read last (history)
  outcome                \* how run_memgen ends

ring == <<readIndex, writeIndex, count>>
flags == <<producerDone, cancelled, producerError>>
producerVars == <<ppc, pindex, announced, log, threw>>
consumerVars == <<cpc, cindex, held, inKernel, sawDone, received, last,
                  outcome>>
vars == <<slots, ring, flags, producerVars, consumerVars>>

ProducerAt == {"begin", "reserve", "asleep", "fill", "publish",
               "setDone", "catch", "notify", "exited"}
ConsumerAt == {"call", "acquire", "asleep", "read", "release", "joinDone",
               "finish", "cancel", "notify", "join", "returned"}
Outcome == {"running", "complete", "producer_error", "backend_error",
            "protocol_error"}

Init ==
  /\ slots = [i \in Index |-> [kind |-> "Done", item |-> 0]]
  /\ readIndex = 0 /\ writeIndex = 0 /\ count = 0
  /\ producerDone = FALSE /\ cancelled = FALSE /\ producerError = FALSE
  /\ held = NoSlot /\ inKernel = FALSE /\ sawDone = FALSE
  /\ ppc = "begin" /\ pindex = 0 /\ announced = FALSE
  /\ log = <<>> /\ threw = FALSE
  /\ cpc = "call" /\ cindex = 0 /\ received = 0 /\ last = 0
  /\ outcome = "running"

\* Mutant of NextIndex: the index does not wrap.
NextIndexNoWrap(i) == i + 1

NextIndex(i) == IF i + 1 = Capacity THEN 0 ELSE i + 1

(* notify_one / notify_all: each condition variable has one waiter.        *)
WakeProducer == ppc' = IF ppc = "asleep" THEN "reserve" ELSE ppc
WakeConsumer == cpc' = IF cpc = "asleep" THEN "acquire" ELSE cpc

-----------------------------------------------------------------------------
(* The producer thread: produce().                                         *)

(* Bound: behind this record the workload still ends a kernel and itself.  *)
SourceHasMore == Len(log) + 3 =< MaxItems

(* source_.begin_next: a kernel, or the end of the workload.               *)
BeginKernel ==
  /\ ppc = "begin"
  /\ \/ SourceHasMore /\ log' = Append(log, "KernelStart")
     \/ log' = Append(log, "Done")
  /\ announced' = TRUE
  /\ ppc' = "reserve"
  /\ UNCHANGED <<slots, ring, flags, pindex, threw, consumerVars>>

\* Mutant of MayWrite: off by one at a full ring.
MayWriteWhenFull == cancelled \/ count =< Capacity

(* The wait's predicate: the condition variable lets the producer pass.    *)
MayWrite == cancelled \/ count < Capacity

ReserveWrite ==
  /\ ppc = "reserve"
  /\ \/ ~MayWrite /\ ppc' = "asleep" /\ UNCHANGED pindex
     \/ MayWrite /\ cancelled /\ ppc' = "catch" /\ UNCHANGED pindex
     \/ MayWrite /\ ~cancelled /\ ppc' = "fill" /\ pindex' = writeIndex
  /\ UNCHANGED <<slots, ring, flags, announced, log, threw, consumerVars>>

\* Mutant of WriteSlot: the announced record is not marked as written.
WriteSlotAgain(kind, item) ==
  /\ slots' = [slots EXCEPT ![pindex] = [kind |-> kind, item |-> item]]
  /\ ppc' = "publish"
  /\ UNCHANGED announced

WriteSlot(kind, item) ==
  /\ slots' = [slots EXCEPT ![pindex] = [kind |-> kind, item |-> item]]
  /\ ppc' = "publish"
  /\ announced' = FALSE

(* The slot takes the record begin_next announced, or source_.next_inst    *)
(* fills it in place with an instruction or finds the kernel at its end.   *)
FillSlot ==
  /\ ppc = "fill"
  /\ \/ /\ announced
        /\ WriteSlot(log[Len(log)], Len(log))
        /\ UNCHANGED log
     \/ /\ ~announced
        /\ \E kind \in {"Instruction", "KernelEnd"} :
             /\ kind = "Instruction" => SourceHasMore
             /\ log' = Append(log, kind)
             /\ WriteSlot(kind, Len(log'))
  /\ UNCHANGED <<ring, flags, pindex, threw, consumerVars>>

(* begin_next or next_inst throws; next_inst leaves a torn payload behind. *)
SourceThrows ==
  /\ \/ ppc = "begin" /\ UNCHANGED slots
     \/ /\ ppc = "fill" /\ ~announced
        /\ slots' = [slots EXCEPT ![pindex].item = 0]
  /\ threw' = TRUE
  /\ ppc' = "catch"
  /\ UNCHANGED <<ring, flags, pindex, announced, log, consumerVars>>

AfterPublish == IF slots[pindex].kind = "Done" THEN "setDone"
                ELSE IF slots[pindex].kind = "KernelEnd" THEN "begin"
                ELSE "reserve"

(* publish: a cancellation or an index that moved makes it throw.          *)
Publish ==
  /\ ppc = "publish"
  /\ IF ~cancelled /\ pindex = writeIndex /\ count < Capacity
     THEN /\ writeIndex' = NextIndex(writeIndex)
          /\ count' = count + 1
          /\ WakeConsumer
          /\ ppc' = AfterPublish
     ELSE /\ ppc' = "catch"
          /\ UNCHANGED <<writeIndex, count, cpc>>
  /\ UNCHANGED <<slots, readIndex, flags, pindex, announced, log, threw,
                 cindex, held, inKernel, sawDone, received, last,
                 outcome>>

SetProducerDone ==
  /\ ppc = "setDone"
  /\ producerDone' = TRUE
  /\ ppc' = "notify"
  /\ UNCHANGED <<slots, ring, cancelled, producerError, pindex, announced,
                 log, threw, consumerVars>>

\* Mutant of IsSourceError: every exception counts.
IsAnyError == TRUE

(* An exception caught after the cancellation is taken for its effect.     *)
IsSourceError == ~cancelled

(* catch (...): the flags under the mutex.                                 *)
CatchProducer ==
  /\ ppc = "catch"
  /\ producerError' = (producerError \/ IsSourceError)
  /\ producerDone' = TRUE
  /\ ppc' = "notify"
  /\ UNCHANGED <<slots, ring, cancelled, pindex, announced, log, threw,
                 consumerVars>>

(* The last notifications, after the mutex is released; the thread ends.   *)
ProducerExit ==
  /\ ppc = "notify"
  /\ WakeConsumer
  /\ ppc' = "exited"
  /\ UNCHANGED <<slots, ring, flags, pindex, announced, log, threw,
                 cindex, held, inKernel, sawDone, received, last,
                 outcome>>

-----------------------------------------------------------------------------
(* The consumer: run_memgen and the backend's begin_next / next_inst.      *)

Raise(error) == cpc' = "cancel" /\ outcome' = error

\* Mutant of ReleaseSlot: no notify_one.
ReleaseSlotSilently ==
  /\ readIndex' = NextIndex(readIndex)
  /\ count' = count - 1
  /\ UNCHANGED ppc

(* release: the slot goes back to the producer.                            *)
ReleaseSlot ==
  /\ readIndex' = NextIndex(readIndex)
  /\ count' = count - 1
  /\ WakeProducer

MayRelease(index) == index = readIndex /\ count > 0

(* begin_next, outside a kernel, or next_inst before the first record.     *)
CallSource ==
  /\ cpc = "call" /\ held = NoSlot
  /\ cpc' = "acquire"
  /\ UNCHANGED <<slots, ring, flags, producerVars, cindex, held, inKernel,
                 sawDone, received, last, outcome>>

(* next_inst gives back the slot of the instruction it returned before.    *)
ReleaseHeld ==
  /\ cpc = "call" /\ held # NoSlot
  /\ held' = NoSlot
  /\ IF inKernel /\ MayRelease(held)
     THEN /\ ReleaseSlot
          /\ cpc' = "acquire"
          /\ UNCHANGED outcome
     ELSE /\ Raise("protocol_error")
          /\ UNCHANGED <<readIndex, count, ppc>>
  /\ UNCHANGED <<slots, writeIndex, flags, pindex, announced, log, threw,
                 cindex, inKernel, sawDone, received, last>>

(* The wait's predicate: the condition variable lets the consumer pass.    *)
MayRead == count > 0 \/ producerDone

\* Mutant of RecordReady: the producer's error preempts its records.
RecordReadyUnlessError == count > 0 /\ ~producerError

(* Whether there is a record to read, tested before the producer's error.  *)
RecordReady == count > 0

(* acquire_ready: published records come before the producer's error.      *)
AcquireReady ==
  /\ cpc = "acquire"
  /\ IF ~MayRead
     THEN cpc' = "asleep" /\ UNCHANGED <<cindex, outcome>>
     ELSE IF RecordReady
     THEN cpc' = "read" /\ cindex' = readIndex /\ UNCHANGED outcome
     ELSE /\ IF producerError THEN Raise("producer_error")
             ELSE IF inKernel THEN Raise("protocol_error")
             ELSE cpc' = "joinDone" /\ UNCHANGED outcome
          /\ UNCHANGED cindex
  /\ UNCHANGED <<slots, ring, flags, producerVars, held, inKernel, sawDone,
                 received, last>>

Expected == IF inKernel THEN {"Instruction", "KernelEnd"}
                        ELSE {"KernelStart", "Done"}

(* The caller looks at the record.  An instruction stays in its slot while *)
(* the backend works on it; every other slot is given back at once.        *)
ReadSlot ==
  /\ cpc = "read"
  /\ received' = received + 1
  /\ last' = slots[cindex].item
  /\ IF slots[cindex].kind \notin Expected
     THEN Raise("protocol_error") /\ UNCHANGED held
     ELSE /\ UNCHANGED outcome
          /\ \/ /\ slots[cindex].kind = "Instruction"
                /\ cpc' = "call" /\ held' = cindex
             \/ /\ slots[cindex].kind # "Instruction"
                /\ cpc' = "release" /\ UNCHANGED held
  /\ UNCHANGED <<slots, ring, flags, producerVars, cindex, inKernel, sawDone>>

(* The tail of begin_next (KernelStart, Done) and of next_inst (KernelEnd).*)
ReleaseRead ==
  /\ cpc = "release"
  /\ IF MayRelease(cindex)
     THEN /\ ReleaseSlot
          /\ inKernel' = (slots[cindex].kind = "KernelStart")
          /\ sawDone' = (sawDone \/ slots[cindex].kind = "Done")
          /\ cpc' = IF slots[cindex].kind = "Done" THEN "joinDone" ELSE "call"
          /\ UNCHANGED outcome
     ELSE /\ Raise("protocol_error")
          /\ UNCHANGED <<readIndex, count, ppc, inKernel, sawDone>>
  /\ UNCHANGED <<slots, writeIndex, flags, pindex, announced, log, threw,
                 cindex, held, received, last>>

(* begin_next joins the producer before it reports the end of the stream.  *)
JoinDone ==
  /\ cpc = "joinDone" /\ ppc = "exited"
  /\ IF producerError THEN Raise("producer_error")
                      ELSE cpc' = "finish" /\ UNCHANGED outcome
  /\ UNCHANGED <<slots, ring, flags, producerVars, cindex, held, inKernel,
                 sawDone, received, last>>

(* finish(), then the destructor.                                          *)
Finish ==
  /\ cpc = "finish"
  /\ cpc' = "cancel"
  /\ outcome' = IF inKernel \/ held # NoSlot THEN "protocol_error"
                ELSE IF producerError THEN "producer_error"
                ELSE IF ~sawDone THEN "protocol_error" ELSE "complete"
  /\ UNCHANGED <<slots, ring, flags, producerVars, cindex, held, inKernel,
                 sawDone, received, last>>

(* The backend throws or returns a code other than 0, between two calls.   *)
BackendFails ==
  /\ cpc \in {"call", "finish"}
  /\ Raise("backend_error")
  /\ UNCHANGED <<slots, ring, flags, producerVars, cindex, held, inKernel,
                 sawDone, received, last>>

(* cancel(): the flag under the mutex, the notifications after it.         *)
Cancel ==
  /\ cpc = "cancel"
  /\ cancelled' = TRUE
  /\ cpc' = "notify"
  /\ UNCHANGED <<slots, ring, producerDone, producerError, producerVars,
                 cindex, held, inKernel, sawDone, received, last,
                 outcome>>

CancelNotify ==
  /\ cpc = "notify"
  /\ WakeProducer
  /\ cpc' = "join"
  /\ UNCHANGED <<slots, ring, flags, pindex, announced, log, threw, cindex,
                 held, inKernel, sawDone, received, last,
                 outcome>>

(* join_noexcept: run_memgen returns or rethrows, the source may go away.  *)
JoinNoexcept ==
  /\ cpc = "join" /\ ppc = "exited"
  /\ cpc' = "returned"
  /\ UNCHANGED <<slots, ring, flags, producerVars, cindex, held, inKernel,
                 sawDone, received, last, outcome>>

-----------------------------------------------------------------------------
(* A condition variable may wake its waiter for no reason.                 *)
SpuriousWake ==
  /\ \/ ppc = "asleep" /\ WakeProducer /\ UNCHANGED cpc
     \/ cpc = "asleep" /\ WakeConsumer /\ UNCHANGED ppc
  /\ UNCHANGED <<slots, ring, flags, pindex, announced, log, threw, cindex,
                 held, inKernel, sawDone, received, last,
                 outcome>>

Terminated == cpc = "returned" /\ ppc = "exited"
Stop == Terminated /\ UNCHANGED vars

Producer == \/ BeginKernel \/ ReserveWrite \/ FillSlot \/ SourceThrows
            \/ Publish \/ SetProducerDone \/ CatchProducer \/ ProducerExit
Consumer == \/ CallSource \/ ReleaseHeld \/ AcquireReady \/ ReadSlot
            \/ ReleaseRead \/ JoinDone \/ Finish \/ BackendFails
            \/ Cancel \/ CancelNotify \/ JoinNoexcept

Next == Producer \/ Consumer \/ SpuriousWake \/ Stop

(* Both threads are scheduled; nothing is assumed of spurious wake-ups.    *)
Fairness == WF_vars(Producer) /\ WF_vars(Consumer)

Spec == Init /\ [][Next]_vars /\ Fairness

-----------------------------------------------------------------------------
(* Properties.                                                             *)

Owning == cpc \in {"read", "release"} \/ held # NoSlot
OwnedIndex == IF held # NoSlot THEN held ELSE cindex

(* Every variable stays in its range: the indices inside the ring, the     *)
(* count between empty and full.                                           *)
TypeOK ==
  /\ slots \in [Index -> [kind : Kind, item : Nat]]
  /\ readIndex \in Index /\ writeIndex \in Index /\ count \in 0 .. Capacity
  /\ producerDone \in BOOLEAN /\ cancelled \in BOOLEAN
  /\ producerError \in BOOLEAN /\ announced \in BOOLEAN /\ threw \in BOOLEAN
  /\ held \in Index \cup {NoSlot} /\ inKernel \in BOOLEAN
  /\ sawDone \in BOOLEAN
  /\ ppc \in ProducerAt /\ pindex \in Index
  /\ cpc \in ConsumerAt /\ cindex \in Index
  /\ log \in Seq(Kind) /\ received \in Nat /\ last \in Nat
  /\ outcome \in Outcome

(* The slot the producer writes outside the mutex is never the slot the    *)
(* consumer reads, or lends the backend, outside the mutex: no data race.  *)
SlotExclusive ==
  ppc \in {"fill", "publish"} /\ Owning => pindex # OwnedIndex

(* No interleaving trips a need() that guards the protocol itself: every   *)
(* record has the kind its reader expects, slots are published and given   *)
(* back in order, finish() sees the end of the stream; and the error the   *)
(* producer stores is one the source raised, never the cancellation.       *)
NoProtocolError ==
  /\ outcome # "protocol_error"
  /\ producerError => threw

(* The consumer hears of the source's failure only after it has read every *)
(* record published before the failure.                                    *)
DrainedBeforeError ==
  outcome = "producer_error" => count = 0

(* The ring is an ordered stream: in order, exactly once, and a completed  *)
(* run has seen the end of the stream.                                     *)
Stream == INSTANCE OrderedStream
StreamOrder == Stream!Spec

(* No schedule, failure or cancellation leaves either thread blocked: the  *)
(* producer exits and run_memgen returns.                                  *)
Termination == <>Terminated
=============================================================================
