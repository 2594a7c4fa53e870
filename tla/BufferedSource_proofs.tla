----------------------- MODULE BufferedSource_proofs -----------------------
(***************************************************************************)
(* The inductive invariant of BufferedSource and the theorems it gives,    *)
(* for every ring capacity and every length of workload.                   *)
(***************************************************************************)
EXTENDS BufferedSource, TLAPS

(* Where the k-th published record sits, counted from the oldest.          *)
Position(k) == IF readIndex + k < Capacity THEN readIndex + k
                                           ELSE readIndex + k - Capacity

(* 1 when the oldest published record was read and not given back yet.     *)
Taken == IF cpc = "release" \/ held # NoSlot THEN 1 ELSE 0

(* How many records were published so far.                                 *)
Published == last + count - Taken

Opens(k) == k \in {"KernelStart", "Instruction"}
InLog(i) == i \in 1 .. Len(log)
EndsWithDone == Len(log) > 0 /\ log[Len(log)] = "Done"

(* The slots between the two indices are the published ones, and a slot    *)
(* used outside the mutex is the one at its owner's index.                 *)
RingInv ==
  /\ writeIndex = Position(count)
  /\ cpc \in {"read", "release"} => cindex = readIndex /\ count > 0
                                    /\ held = NoSlot
  /\ held # NoSlot => held = readIndex /\ count > 0
  /\ ppc \in {"fill", "publish"} => pindex = writeIndex /\ count < Capacity

(* The source's records are whole kernels followed by one end of stream.   *)
LogInv ==
  /\ \A i \in 1 .. Len(log) :
       log[i] \in {"Instruction", "KernelEnd"} <=> i > 1 /\ Opens(log[i - 1])
  /\ \A i \in 1 .. Len(log) : i < Len(log) => log[i] # "Done"

(* The published slots hold the records of the log that were not given     *)
(* back, in order.                                                         *)
ContentInv ==
  /\ Published =< Len(log)
  /\ \A k \in 0 .. count - 1 :
       slots[Position(k)] = [kind |-> log[last + k + 1 - Taken],
                             item |-> last + k + 1 - Taken]

(* What the producer's place says of the record it works on.               *)
ProducerInv ==
  /\ announced => Len(log) = Published + 1
                  /\ log[Len(log)] \in {"KernelStart", "Done"}
  /\ ppc = "publish" => /\ ~announced
                        /\ Len(log) = Published + 1
                        /\ slots[pindex] = [kind |-> log[Len(log)],
                                            item |-> Len(log)]
  /\ ppc = "begin" => /\ ~announced
                      /\ Len(log) = Published
                      /\ Len(log) > 0 => log[Len(log)] = "KernelEnd"
  /\ ppc \in {"reserve", "asleep", "fill"} /\ ~announced
       => Len(log) = Published /\ Len(log) > 0 /\ Opens(log[Len(log)])
  /\ ppc = "setDone" => EndsWithDone /\ Len(log) = Published
  /\ ppc = "catch" => threw \/ cancelled
  /\ ppc \in {"notify", "exited"}
       => \/ producerError \/ cancelled
          \/ EndsWithDone /\ Len(log) = Published
  /\ producerDone => ppc \in {"notify", "exited"}
  /\ producerError => producerDone /\ threw

(* What the consumer's place says of the record it read last.              *)
ConsumerInv ==
  /\ received = last
  /\ cpc # "release" =>
       (inKernel <=> last > 0 /\ Opens(log[last]))
  /\ cpc = "release" => /\ last > 0 /\ log[last] # "Instruction"
                        /\ inKernel <=> log[last] = "KernelEnd"
  /\ held # NoSlot => last > 0 /\ log[last] = "Instruction"
                      /\ cpc \notin {"acquire", "asleep"}
  /\ cpc \in {"call", "acquire", "asleep", "read"}
       => ~(last > 0 /\ log[last] = "Done") 
  /\ cpc \in {"joinDone", "finish"}
       => sawDone /\ last > 0 /\ log[last] = "Done" /\ ~inKernel
          /\ held = NoSlot
  /\ cpc \in {"call", "acquire", "asleep", "read", "release", "joinDone",
              "finish"} => outcome = "running" /\ ~cancelled
  /\ cancelled => cpc \in {"notify", "join", "returned"}
  /\ outcome = "complete" => last > 0 /\ last = Len(log) /\ log[last] = "Done"
  /\ outcome = "producer_error" => producerDone /\ count = 0
  /\ outcome # "protocol_error"

IInv == /\ TypeOK /\ RingInv /\ LogInv /\ ContentInv
        /\ ProducerInv /\ ConsumerInv

-----------------------------------------------------------------------------
USE CapacityAssumption, MaxItemsAssumption

(* What appending a record does to the log.                                *)
LEMMA AppendLog ==
  ASSUME NEW s \in Seq(Kind), NEW e \in Kind
  PROVE  /\ Append(s, e) \in Seq(Kind)
         /\ Len(Append(s, e)) = Len(s) + 1
         /\ Append(s, e)[Len(s) + 1] = e
         /\ \A i \in 1 .. Len(s) : Append(s, e)[i] = s[i]
OBVIOUS

(* The ranges of the counts, and how they compare.                         *)
LEMMA Bounds ==
  ASSUME IInv
  PROVE  /\ count \in 0 .. Capacity /\ last \in Nat /\ Len(log) \in Nat
         /\ Taken \in {0, 1} /\ Taken =< count /\ Taken =< last
         /\ last =< Len(log)
<1>1. count \in 0 .. Capacity /\ last \in Nat
  BY DEF IInv, TypeOK
<1>2. Len(log) \in Nat
  BY DEF IInv, TypeOK
<1>3. Taken \in {0, 1}
  BY DEF Taken
<1>4. Taken =< count
  BY <1>1 DEF IInv, RingInv, Taken
<1>5. Taken =< last
  BY <1>1 DEF IInv, ConsumerInv, Taken
<1>6. last + count - Taken =< Len(log)
  BY DEF IInv, ContentInv, Published
<1>. QED BY <1>1, <1>2, <1>3, <1>4, <1>5, <1>6, CapacityAssumption

(* BeginKernel preserves the invariant.                                   *)
LEMMA BeginKernelStep == IInv /\ BeginKernel => IInv'
<1> SUFFICES ASSUME IInv, BeginKernel PROVE IInv'
  OBVIOUS
<1>0. ppc = "begin" /\ ppc' = "reserve" /\ announced' = TRUE
      /\ UNCHANGED <<slots, ring, flags, pindex, threw, consumerVars>>
  BY DEF BeginKernel
<1>1. PICK e \in {"KernelStart", "Done"} : log' = Append(log, e)
  BY DEF BeginKernel
<1>2. /\ log' \in Seq(Kind)
      /\ Len(log') = Len(log) + 1 /\ Len(log) \in Nat
      /\ log'[Len(log) + 1] = e
      /\ \A i \in 1 .. Len(log) : log'[i] = log[i]
  BY <1>1, AppendLog DEF IInv, TypeOK, Kind
<1> USE DEF IInv, ring, flags, consumerVars
<1>3. TypeOK'
  BY <1>0, <1>2 DEF TypeOK, ProducerAt
<1>4. RingInv'
  BY <1>0 DEF RingInv, Position
<1>5. LogInv'
  BY <1>0, <1>2 DEF LogInv, ProducerInv, Opens
<1>6. ContentInv'
  <2>1. Published' = Published /\ Taken' = Taken
        /\ last + count - Taken =< Len(log)
    BY <1>0 DEF ContentInv, Published, Taken
  <2>2. ASSUME NEW k \in 0 .. count - 1
        PROVE  log'[last + k + 1 - Taken] = log[last + k + 1 - Taken]
    <3>1. last + k + 1 - Taken \in 1 .. Len(log)
      BY Bounds, <2>1
    <3>. QED BY <3>1, <1>2
  <2>3. Published' =< Len(log')
    BY <2>1, <1>2, Bounds DEF ContentInv, Published
  <2>4. ASSUME NEW k \in 0 .. count - 1
        PROVE  slots[Position(k)] = [kind |-> log'[last + k + 1 - Taken],
                             item |-> last + k + 1 - Taken]
    BY <2>2 DEF ContentInv
  <2>5. UNCHANGED <<slots, readIndex, count, last>>
    BY <1>0
  <2>. QED BY <2>1, <2>3, <2>4, <2>5 DEF ContentInv, Position
<1>7. ProducerInv'
  BY <1>0, <1>2 DEF ProducerInv, Published, Taken, TypeOK, EndsWithDone
<1>8. ConsumerInv'
  BY Bounds, <1>0, <1>2 DEF ConsumerInv, Opens, ProducerInv, TypeOK
<1>9. QED
  BY <1>3, <1>4, <1>5, <1>6, <1>7, <1>8

(* Positions in the ring: all distinct from the write position unless the  *)
(* ring is full, and shifted by one when the oldest slot is given back.    *)
LEMMA Positions ==
  ASSUME TypeOK
  PROVE  /\ Position(0) = readIndex
         /\ \A k \in 0 .. count : Position(k) \in Index
         /\ \A k \in 0 .. count - 1 :
              count < Capacity => Position(k) # Position(count)
         /\ \A k \in 0 .. count - 1 :
              Position(k + 1) = IF NextIndex(readIndex) + k < Capacity
                                THEN NextIndex(readIndex) + k
                                ELSE NextIndex(readIndex) + k - Capacity
         /\ count < Capacity =>
              NextIndex(Position(count)) =
                IF readIndex + count + 1 < Capacity THEN readIndex + count + 1
                ELSE readIndex + count + 1 - Capacity
<1>1. readIndex \in 0 .. Capacity - 1 /\ count \in 0 .. Capacity
      /\ Capacity \in Nat
  BY DEF TypeOK, Index
<1>2. Position(0) = readIndex
  BY <1>1 DEF Position
<1>3. \A k \in 0 .. count : Position(k) \in Index
  BY <1>1 DEF Position, Index
<1>4. \A k \in 0 .. count - 1 :
        count < Capacity => Position(k) # Position(count)
  BY <1>1 DEF Position
<1>5. \A k \in 0 .. count - 1 :
        Position(k + 1) = IF NextIndex(readIndex) + k < Capacity
                          THEN NextIndex(readIndex) + k
                          ELSE NextIndex(readIndex) + k - Capacity
  BY <1>1 DEF Position, NextIndex
<1>6. count < Capacity =>
        NextIndex(Position(count)) =
          IF readIndex + count + 1 < Capacity THEN readIndex + count + 1
          ELSE readIndex + count + 1 - Capacity
  BY <1>1 DEF Position, NextIndex
<1>. QED
  BY <1>2, <1>3, <1>4, <1>5, <1>6

(* FillSlot preserves the invariant.                                      *)
LEMMA FillSlotStep == IInv /\ FillSlot => IInv'
<1> SUFFICES ASSUME IInv, FillSlot PROVE IInv'
  OBVIOUS
<1>0. /\ ppc = "fill" /\ ppc' = "publish" /\ announced' = FALSE
      /\ UNCHANGED <<ring, flags, pindex, threw, consumerVars>>
  BY DEF FillSlot, WriteSlot
<1>1. /\ log' \in Seq(Kind) /\ Len(log') = Published + 1
      /\ Len(log) =< Len(log') /\ Published =< Len(log)
      /\ \A i \in 1 .. Len(log) : log'[i] = log[i]
      /\ slots' = [slots EXCEPT ![pindex] = [kind |-> log'[Len(log')],
                                             item |-> Len(log')]]
      /\ \/ log' = log
         \/ /\ Len(log') = Len(log) + 1
            /\ log'[Len(log')] \in {"Instruction", "KernelEnd"}
            /\ Len(log) > 0 /\ Opens(log[Len(log)])
  <2>1. CASE announced
    <3>1. log' = log /\ slots' = [slots EXCEPT ![pindex] =
                               [kind |-> log[Len(log)], item |-> Len(log)]]
      BY <2>1 DEF FillSlot, WriteSlot
    <3>2. log \in Seq(Kind) /\ Len(log) = Published + 1
      BY <2>1 DEF IInv, TypeOK, ProducerInv
    <3>. QED BY <3>1, <3>2, Bounds DEF IInv, ContentInv
  <2>2. CASE ~announced
    <3>1. PICK kind \in {"Instruction", "KernelEnd"} :
             /\ log' = Append(log, kind)
             /\ slots' = [slots EXCEPT ![pindex] =
                            [kind |-> kind, item |-> Len(log')]]
      BY <2>2 DEF FillSlot, WriteSlot
    <3>2. log \in Seq(Kind) /\ kind \in Kind
      BY DEF IInv, TypeOK, Kind
    <3>3. /\ log' \in Seq(Kind) /\ Len(log') = Len(log) + 1
          /\ log'[Len(log) + 1] = kind
          /\ \A i \in 1 .. Len(log) : log'[i] = log[i]
      BY <3>1, <3>2, AppendLog
    <3>4. Len(log) = Published /\ Len(log) > 0 /\ Opens(log[Len(log)])
      BY <2>2, <1>0 DEF IInv, ProducerInv
    <3>. QED BY <3>1, <3>3, <3>4, Bounds
  <2>. QED BY <2>1, <2>2
<1>2. Published' = Published /\ Taken' = Taken
  BY <1>0 DEF Published, Taken, ring, consumerVars
<1>3. pindex = Position(count) /\ count < Capacity
  BY <1>0 DEF IInv, RingInv
<1>4. pindex \in Index /\ slots \in [Index -> [kind : Kind, item : Nat]]
  BY DEF IInv, TypeOK
<1>5. log'[Len(log')] \in Kind /\ Len(log') \in Nat
  BY <1>1, Bounds DEF Published, Kind
<1> USE DEF ring, flags, consumerVars
<1>6. TypeOK'
  BY <1>0, <1>1, <1>4, <1>5 DEF IInv, TypeOK, ProducerAt
<1>7. RingInv'
  BY <1>0, <1>3 DEF IInv, RingInv, Position
<1>8. LogInv'
  <2>1. CASE log' = log
    BY <2>1 DEF IInv, LogInv
  <2>2. CASE log' # log
    <3>1. Len(log) # 0 /\ log[Len(log)] # "Done"
      BY <2>2, <1>1, Bounds DEF Opens
    <3>2. Len(log') = Len(log) + 1 /\ Len(log) \in Nat
      BY <2>2, <1>1, Bounds
    <3>3. ASSUME NEW i \in 1 .. Len(log)
          PROVE  /\ log'[i] = log[i]
                 /\ i > 1 => log'[i - 1] = log[i - 1]
                 /\ log'[i] # "Done"
      BY <3>1, <3>2, <1>1 DEF IInv, LogInv
    <3>4. ASSUME NEW i \in 1 .. Len(log')
          PROVE  /\ log'[i] \in {"Instruction", "KernelEnd"}
                      <=> i > 1 /\ Opens(log'[i - 1])
                 /\ i < Len(log') => log'[i] # "Done"
      <4>1. CASE i = Len(log')
        BY <4>1, <3>2, <2>2, <1>1
      <4>2. CASE i \in 1 .. Len(log)
        BY <4>2, <3>3 DEF IInv, LogInv
      <4>. QED BY <4>1, <4>2, <3>2
    <3>. QED BY <3>4 DEF LogInv, Opens
  <2>. QED BY <2>1, <2>2
<1>9. ContentInv'
  <2>1. ASSUME NEW k \in 0 .. count - 1
        PROVE  slots'[Position(k)] = [kind |-> log'[last + k + 1 - Taken],
                                      item |-> last + k + 1 - Taken]
    <3>1. Position(k) # pindex /\ Position(k) \in Index
      BY <1>3, Positions, Bounds DEF IInv
    <3>2. last + k + 1 - Taken \in 1 .. Len(log)
      BY Bounds, <1>1 DEF Published
    <3>. QED BY <3>1, <3>2, <1>1, <1>4 DEF IInv, ContentInv
  <2>2. UNCHANGED <<readIndex, count, last>>
    BY <1>0
  <2>3. Published' =< Len(log')
    <3>1. Published =< Len(log)
      BY DEF IInv, ContentInv
    <3>2. Len(log) =< Len(log')
      BY <1>1, Bounds
    <3>3. Published \in Nat /\ Len(log) \in Nat /\ Len(log') \in Nat
      BY Bounds, <1>5 DEF Published
    <3>. QED BY <3>1, <3>2, <3>3, <1>2
  <2>4. \A k \in 0 .. count' - 1 :
          slots'[Position(k)'] = [kind |-> log'[last' + k + 1 - Taken'],
                                  item |-> last' + k + 1 - Taken']
    BY <2>1, <2>2, <1>2 DEF Position
  <2>. QED BY <2>3, <2>4 DEF ContentInv
<1>10. ProducerInv'
  BY <1>0, <1>1, <1>2, <1>4, <1>5 DEF IInv, ProducerInv
<1>11. ConsumerInv'
  BY <1>0, <1>1, Bounds DEF IInv, ConsumerInv, ProducerInv, Opens
<1>. QED
  BY <1>6, <1>7, <1>8, <1>9, <1>10, <1>11 DEF IInv

(* SourceThrows preserves the invariant.                                  *)
LEMMA SourceThrowsStep == IInv /\ SourceThrows => IInv'
<1> SUFFICES ASSUME IInv, SourceThrows PROVE IInv'
  OBVIOUS
<1>0. /\ ppc \in {"begin", "fill"} /\ ppc' = "catch" /\ threw' = TRUE
      /\ UNCHANGED <<ring, flags, pindex, announced, log, consumerVars>>
  BY DEF SourceThrows
<1>1. /\ slots \in [Index -> [kind : Kind, item : Nat]]
      /\ slots' \in [Index -> [kind : Kind, item : Nat]]
  <2>1. /\ slots \in [Index -> [kind : Kind, item : Nat]]
        /\ pindex \in Index
    BY DEF IInv, TypeOK
  <2>2. slots[pindex] \in [kind : Kind, item : Nat]
    BY <2>1
  <2>3. slots' = slots \/ slots' = [slots EXCEPT ![pindex] =
                                    [slots[pindex] EXCEPT !.item = 0]]
    BY DEF SourceThrows
  <2>. QED BY <2>1, <2>2, <2>3
<1>2. ASSUME NEW k \in 0 .. count - 1
      PROVE  slots'[Position(k)] = slots[Position(k)]
  <2>1. CASE slots' = slots
    BY <2>1
  <2>2. CASE ppc = "fill" /\ slots' = [slots EXCEPT ![pindex].item = 0]
    <3>1. Position(k) # pindex /\ Position(k) \in Index
      <4>1. pindex = Position(count) /\ count < Capacity
        BY <2>2 DEF IInv, RingInv
      <4>. QED BY <4>1, Positions, Bounds DEF IInv
    <3>. QED BY <2>2, <3>1, <1>1
  <2>. QED BY <2>1, <2>2 DEF SourceThrows
<1> USE DEF IInv, ring, flags, consumerVars
<1>3. TypeOK'
  BY <1>0, <1>1 DEF TypeOK, ProducerAt
<1>4. RingInv'
  BY <1>0 DEF RingInv, Position
<1>5. LogInv'
  BY <1>0 DEF LogInv
<1>6. ContentInv'
  <2>1. UNCHANGED <<readIndex, count, last, log>> /\ Taken' = Taken
    BY <1>0 DEF Taken
  <2>2. \A k \in 0 .. count - 1 : slots'[Position(k)] =
           [kind |-> log[last + k + 1 - Taken], item |-> last + k + 1 - Taken]
    BY <1>2 DEF ContentInv
  <2>. QED BY <2>1, <2>2 DEF ContentInv, Position, Published
<1>7. ProducerInv'
  BY <1>0 DEF ProducerInv, Published, Taken
<1>8. ConsumerInv'
  BY <1>0 DEF ConsumerInv
<1>. QED
  BY <1>3, <1>4, <1>5, <1>6, <1>7, <1>8

(* Publish preserves the invariant.                                       *)
LEMMA PublishStep == IInv /\ Publish => IInv'
<1> SUFFICES ASSUME IInv, Publish PROVE IInv'
  OBVIOUS
<1> USE DEF IInv, flags
<1>0. /\ ppc = "publish" /\ pindex = writeIndex /\ count < Capacity
      /\ pindex = Position(count)
      /\ UNCHANGED <<slots, readIndex, flags, pindex, announced, log, threw,
                 cindex, held, inKernel, sawDone, received, last, outcome>>
  BY DEF Publish, RingInv
<1>1. CASE cancelled
  <2>1. ppc' = "catch" /\ UNCHANGED <<writeIndex, count, cpc>>
    BY <1>0, <1>1 DEF Publish
  <2>2. TypeOK'
    BY <1>0, <2>1 DEF TypeOK, ProducerAt
  <2>3. RingInv' /\ LogInv' /\ ContentInv'
    BY <1>0, <2>1 DEF RingInv, LogInv, ContentInv, Position, Published, Taken
  <2>4. ProducerInv' /\ ConsumerInv'
    BY <1>0, <1>1, <2>1 DEF ProducerInv, ConsumerInv, Published, Taken
  <2>. QED BY <2>2, <2>3, <2>4
<1>2. CASE ~cancelled
  <2>1. /\ writeIndex' = NextIndex(writeIndex) /\ count' = count + 1
        /\ cpc' = IF cpc = "asleep" THEN "acquire" ELSE cpc
        /\ ppc' = AfterPublish
    BY <1>0, <1>2 DEF Publish, WakeConsumer
  <2>2. Taken' = Taken /\ Published' = Published + 1
    BY <1>0, <2>1, Bounds DEF Taken, Published
  <2>3. /\ Len(log) = Published + 1 /\ ~announced
        /\ slots[pindex] = [kind |-> log[Len(log)], item |-> Len(log)]
        /\ log[Len(log)] \in Kind
    BY <1>0, Bounds DEF ProducerInv, TypeOK, Published
  <2>4. \/ ppc' = "setDone" /\ log[Len(log)] = "Done"
        \/ ppc' = "begin" /\ log[Len(log)] = "KernelEnd"
        \/ ppc' = "reserve" /\ Opens(log[Len(log)])
    BY <2>1, <2>3 DEF AfterPublish, Opens, Kind
  <2>5. TypeOK'
    <3>1. writeIndex' \in Index /\ count' \in 0 .. Capacity
      <4>1. writeIndex \in 0 .. Capacity - 1
        BY DEF TypeOK, Index
      <4>2. writeIndex' \in Index
        BY <4>1, <2>1 DEF NextIndex, Index
      <4>3. count' \in 0 .. Capacity
        BY <1>0, <2>1, Bounds
      <4>. QED BY <4>2, <4>3
    <3>2. ppc' \in ProducerAt /\ cpc' \in ConsumerAt
      BY <2>1, <2>4 DEF TypeOK, ProducerAt, ConsumerAt
    <3>. QED BY <1>0, <3>1, <3>2 DEF TypeOK
  <2>6. RingInv'
    <3>1. writeIndex' = Position(count)'
      <4>1. Position(count)' =
              IF readIndex + count + 1 < Capacity THEN readIndex + count + 1
              ELSE readIndex + count + 1 - Capacity
        BY <1>0, <2>1, Bounds DEF Position, TypeOK, Index
      <4>. QED BY <4>1, <1>0, <2>1, Positions
    <3>. QED BY <3>1, <1>0, <2>1, <2>4, Bounds DEF RingInv
  <2>7. LogInv'
    BY <1>0 DEF LogInv
  <2>8. ContentInv'
    <3>1. ASSUME NEW k \in 0 .. count
          PROVE  slots[Position(k)] = [kind |-> log[last + k + 1 - Taken],
                                       item |-> last + k + 1 - Taken]
      <4>1. CASE k = count
        <5>1. last + k + 1 - Taken = Len(log)
          BY <4>1, <2>3, Bounds DEF Published
        <5>. QED BY <4>1, <5>1, <1>0, <2>3
      <4>2. CASE k \in 0 .. count - 1
        BY <4>2 DEF ContentInv
      <4>. QED BY <4>1, <4>2, Bounds
    <3>2. 0 .. count' - 1 = 0 .. count
      BY <2>1, Bounds
    <3>3. Published' =< Len(log')
      BY <1>0, <2>2, <2>3, Bounds DEF Published
    <3>. QED BY <3>1, <3>2, <3>3, <1>0, <2>2 DEF ContentInv, Position
  <2>9. ProducerInv'
    <3>1. Len(log) \in Nat /\ Len(log) > 0 /\ Len(log) = Published'
      BY <2>2, <2>3, Bounds DEF Published
    <3>2. ~producerDone
      BY <1>0 DEF ProducerInv
    <3>. QED BY <1>0, <1>2, <2>3, <2>4, <3>1, <3>2
             DEF ProducerInv, EndsWithDone
  <2>10. ConsumerInv'
    BY <1>0, <1>2, <2>1, Bounds DEF ConsumerInv, ProducerInv
  <2>. QED BY <2>5, <2>6, <2>7, <2>8, <2>9, <2>10
<1>. QED
  BY <1>1, <1>2

(* Giving back the slot of the record read last.                           *)
LEMMA ReleaseSlotStep ==
  ASSUME IInv, ReleaseSlot, Taken = 1, Taken' = 0, last' = last,
         UNCHANGED <<slots, writeIndex, log>>
  PROVE  /\ readIndex' \in Index /\ count' \in 0 .. Capacity
         /\ writeIndex' = Position(count)'
         /\ Published' = Published
         /\ ContentInv'
         /\ ppc' = IF ppc = "asleep" THEN "reserve" ELSE ppc
<1>1. /\ readIndex \in 0 .. Capacity - 1 /\ count \in 1 .. Capacity
      /\ readIndex' = NextIndex(readIndex) /\ count' = count - 1
      /\ ppc' = IF ppc = "asleep" THEN "reserve" ELSE ppc
  BY Bounds DEF IInv, TypeOK, Index, ReleaseSlot, WakeProducer
<1>2. readIndex' \in Index /\ count' \in 0 .. Capacity
  BY <1>1 DEF NextIndex, Index
<1>3. writeIndex' = Position(count)'
  BY <1>1 DEF IInv, RingInv, Position, NextIndex
<1>4. Published' = Published
  BY <1>1, Bounds DEF Published
<1>5. ContentInv'
  <2>1. ASSUME NEW k \in 0 .. count' - 1
        PROVE  slots'[Position(k)'] =
                 [kind |-> log[last + k + 1], item |-> last + k + 1]
    <3>1. k + 1 \in 0 .. count - 1 /\ Position(k)' = Position(k + 1)
      BY <1>1 DEF Position, NextIndex
    <3>2. last + (k + 1) + 1 - Taken = last + k + 1
      BY Bounds
    <3>3. slots[Position(k + 1)] =
            [kind |-> log[last + (k + 1) + 1 - Taken],
             item |-> last + (k + 1) + 1 - Taken]
      BY <3>1 DEF IInv, ContentInv
    <3>. QED BY <3>1, <3>2, <3>3
  <2>2. ASSUME NEW k \in 0 .. count' - 1
        PROVE  last' + k + 1 - Taken' = last + k + 1
    BY Bounds
  <2>. QED BY <2>1, <2>2, <1>4 DEF IInv, ContentInv
<1>. QED
  BY <1>1, <1>2, <1>3, <1>4, <1>5

(* ReleaseHeld preserves the invariant.                                   *)
LEMMA ReleaseHeldStep == IInv /\ ReleaseHeld => IInv'
<1> SUFFICES ASSUME IInv, ReleaseHeld PROVE IInv'
  OBVIOUS
<1> USE DEF IInv, flags
<1>1. /\ cpc = "call" /\ held # NoSlot /\ held' = NoSlot
      /\ last > 0 /\ log[last] = "Instruction" /\ inKernel
      /\ held = readIndex /\ count > 0
      /\ UNCHANGED <<slots, writeIndex, flags, pindex, announced, log, threw,
                     cindex, inKernel, sawDone, received, last>>
  BY DEF ReleaseHeld, ConsumerInv, RingInv, Opens
<1>2. cpc' = "acquire" /\ outcome' = outcome /\ ReleaseSlot
  BY <1>1 DEF ReleaseHeld, MayRelease
<1>3. Taken = 1 /\ Taken' = 0
  BY <1>1, <1>2 DEF Taken
<1>4. /\ readIndex' \in Index /\ count' \in 0 .. Capacity
      /\ writeIndex' = Position(count)' /\ Published' = Published
      /\ ContentInv'
      /\ ppc' = IF ppc = "asleep" THEN "reserve" ELSE ppc
  BY <1>1, <1>2, <1>3, ReleaseSlotStep
<1>5. count' = count - 1
  BY <1>2 DEF ReleaseSlot
<1>6. TypeOK'
  BY <1>1, <1>2, <1>4 DEF TypeOK, ProducerAt, ConsumerAt
<1>7. RingInv'
  BY <1>1, <1>2, <1>4, <1>5, Bounds DEF RingInv
<1>8. LogInv'
  BY <1>1 DEF LogInv
<1>9. ProducerInv'
  BY <1>1, <1>4 DEF ProducerInv, EndsWithDone
<1>10. ConsumerInv'
  BY <1>1, <1>2 DEF ConsumerInv
<1>. QED
  BY <1>4, <1>6, <1>7, <1>8, <1>9, <1>10

(* What the consumer reads is the next record of the log, of a kind its    *)
(* caller expects.                                                         *)
LEMMA ReadSlotFacts ==
  ASSUME IInv, ReadSlot
  PROVE  /\ cpc = "read" /\ cindex = readIndex /\ count > 0 /\ held = NoSlot
         /\ UNCHANGED <<slots, ring, flags, producerVars, cindex, inKernel,
                        sawDone>>
         /\ outcome = "running" /\ ~cancelled /\ Taken = 0
         /\ received' = received + 1 /\ last' = last + 1
         /\ last' \in 1 .. Len(log) /\ log[last'] \in Expected
         /\ outcome' = outcome
         /\ \/ log[last'] = "Instruction" /\ cpc' = "call" /\ held' = cindex
            \/ log[last'] # "Instruction" /\ cpc' = "release" /\ held' = held
<1> USE DEF IInv, ring, flags, producerVars
<1>1. /\ cpc = "read" /\ cindex = readIndex /\ count > 0 /\ held = NoSlot
      /\ UNCHANGED <<slots, ring, flags, producerVars, cindex, inKernel,
                     sawDone>>
      /\ outcome = "running" /\ ~cancelled
      /\ received' = received + 1 /\ last' = slots[cindex].item
  BY DEF ReadSlot, RingInv, ConsumerInv
<1>2. Taken = 0
  BY <1>1 DEF Taken
<1>3. slots[cindex] = [kind |-> log[last + 1], item |-> last + 1]
  <2>1. Position(0) = cindex /\ 0 \in 0 .. count - 1
    BY <1>1, Positions, Bounds
  <2>2. last + 0 + 1 - Taken = last + 1
    BY <1>2, Bounds
  <2>. QED BY <2>1, <2>2 DEF ContentInv
<1>4. last' = last + 1 /\ last' \in 1 .. Len(log) /\ log[last'] \in Kind
  <2>1. last' = last + 1
    BY <1>1, <1>3
  <2>2. last + count =< Len(log)
    BY <1>2, Bounds DEF ContentInv, Published
  <2>3. last' \in 1 .. Len(log)
    BY <2>1, <2>2, <1>1, Bounds
  <2>. QED BY <2>1, <2>3 DEF TypeOK
<1>5. log[last'] \in Expected
  BY <1>1, <1>4, Bounds DEF Expected, ConsumerInv, LogInv, Kind
<1>6. /\ outcome' = outcome
      /\ \/ /\ log[last'] = "Instruction"
            /\ cpc' = "call" /\ held' = cindex
         \/ /\ log[last'] # "Instruction"
            /\ cpc' = "release" /\ held' = held
  BY <1>3, <1>4, <1>5 DEF ReadSlot
<1>. QED
  BY <1>1, <1>2, <1>4, <1>5, <1>6

(* ReadSlot preserves the invariant.                                      *)
LEMMA ReadSlotStep == IInv /\ ReadSlot => IInv'
<1> SUFFICES ASSUME IInv, ReadSlot PROVE IInv'
  OBVIOUS
<1> USE ReadSlotFacts DEF IInv, ring, flags, producerVars
<1>1. Taken = 0 /\ last' = last + 1
  OBVIOUS
<1>2. Taken' = 1 /\ Published' = Published /\ cindex \in Index
      /\ cindex # NoSlot
  <2>1. cindex \in Index /\ cindex # NoSlot
    BY DEF TypeOK, Index, NoSlot
  <2>2. Taken' = 1 /\ count' = count
    BY <2>1 DEF Taken
  <2>3. last' + count' - Taken' = last + count - Taken
    <3> HIDE ReadSlotFacts
    <3>. QED BY <1>1, <2>2, Bounds
  <2>. QED BY <2>1, <2>2, <2>3 DEF Published
<1>3. TypeOK'
  BY <1>2, Bounds DEF TypeOK, ConsumerAt
<1>4. RingInv'
  BY DEF RingInv, Position
<1>5. LogInv'
  BY DEF LogInv
<1>6. ContentInv'
  <2>1. ASSUME NEW k \in 0 .. count - 1
        PROVE  last' + k + 1 - Taken' = last + k + 1 - Taken
    <3> HIDE ReadSlotFacts
    <3>. QED BY <1>1, <1>2, Bounds
  <2>. QED BY <2>1, <1>2 DEF ContentInv, Position
<1>7. ProducerInv'
  BY <1>2 DEF ProducerInv, EndsWithDone
<1>8. ConsumerInv'
  BY <1>2, Bounds DEF ConsumerInv, Expected, Opens
<1>. QED
  BY <1>3, <1>4, <1>5, <1>6, <1>7, <1>8

(* ReleaseRead preserves the invariant.                                   *)
LEMMA ReleaseReadStep == IInv /\ ReleaseRead => IInv'
<1> SUFFICES ASSUME IInv, ReleaseRead PROVE IInv'
  OBVIOUS
<1> USE DEF IInv, flags
<1>1. /\ cpc = "release" /\ cindex = readIndex /\ count > 0 /\ held = NoSlot
      /\ last > 0 /\ log[last] # "Instruction"
      /\ UNCHANGED <<slots, writeIndex, flags, pindex, announced, log, threw,
                     cindex, held, received, last>>
  BY DEF ReleaseRead, RingInv, ConsumerInv
<1>2. Taken = 1
  BY <1>1 DEF Taken
<1>3. slots[cindex].kind = log[last]
  <2>1. Position(0) = cindex /\ 0 \in 0 .. count - 1
    BY <1>1, Positions, Bounds
  <2>2. last + 0 + 1 - Taken = last
    BY <1>2, Bounds
  <2>3. slots[Position(0)] = [kind |-> log[last + 0 + 1 - Taken],
                              item |-> last + 0 + 1 - Taken]
    BY <2>1 DEF ContentInv
  <2>. QED BY <2>1, <2>2, <2>3
<1>4. /\ ReleaseSlot /\ outcome' = outcome
      /\ inKernel' = (log[last] = "KernelStart")
      /\ sawDone' = (sawDone \/ log[last] = "Done")
      /\ cpc' = IF log[last] = "Done" THEN "joinDone" ELSE "call"
  BY <1>1, <1>3 DEF ReleaseRead, MayRelease
<1>5. Taken' = 0
  BY <1>1, <1>4 DEF Taken
<1>6. /\ readIndex' \in Index /\ count' \in 0 .. Capacity
      /\ writeIndex' = Position(count)' /\ Published' = Published
      /\ ContentInv'
      /\ ppc' = IF ppc = "asleep" THEN "reserve" ELSE ppc
  BY <1>1, <1>2, <1>4, <1>5, ReleaseSlotStep
<1>7. count' = count - 1
  BY <1>4 DEF ReleaseSlot
<1>8. TypeOK'
  BY <1>1, <1>4, <1>6 DEF TypeOK, ProducerAt, ConsumerAt
<1>9. RingInv'
  BY <1>1, <1>4, <1>6, <1>7, Bounds DEF RingInv
<1>10. LogInv'
  BY <1>1 DEF LogInv
<1>11. ProducerInv'
  BY <1>1, <1>6 DEF ProducerInv, EndsWithDone
<1>12. ConsumerInv'
  <2>1. log[last] \in Kind /\ outcome = "running" /\ ~cancelled
    BY <1>1, Bounds DEF TypeOK, ConsumerInv
  <2>. QED BY <2>1, <1>1, <1>4 DEF ConsumerInv, Opens, Kind
<1>. QED
  BY <1>6, <1>8, <1>9, <1>10, <1>11, <1>12

(* Once the end of the stream was read, nothing is left in the ring.       *)
LEMMA DoneIsLast ==
  ASSUME IInv, last > 0, log[last] = "Done"
  PROVE  last = Len(log) /\ count = Taken
<1>1. last = Len(log)
  BY Bounds DEF IInv, LogInv
<1>2. last + count - Taken =< Len(log)
  BY DEF IInv, ContentInv, Published
<1>. QED BY <1>1, <1>2, Bounds

(* The remaining actions leave the ring's content and the log alone.       *)
LEMMA ContentKept ==
  ASSUME IInv,
         UNCHANGED <<slots, ring, held, log, received, last>>,
         cpc = "release" <=> cpc' = "release"
  PROVE  LogInv' /\ ContentInv' /\ Published' = Published
BY DEF IInv, LogInv, ContentInv, Published, Taken, Position, ring

(* ReserveWrite preserves the invariant.                                  *)
LEMMA ReserveWriteStep == IInv /\ ReserveWrite => IInv'
<1> SUFFICES ASSUME IInv, ReserveWrite PROVE IInv'
  OBVIOUS
<1> USE DEF IInv, ReserveWrite, ring, flags, consumerVars
<1>1. LogInv' /\ ContentInv' /\ Published' = Published
  BY ContentKept
<1>2. TypeOK'
  BY DEF TypeOK, ProducerAt
<1>3. RingInv'
  BY Bounds DEF RingInv, Position, MayWrite
<1>4. ProducerInv'
  BY <1>1 DEF ProducerInv, EndsWithDone, MayWrite
<1>5. ConsumerInv'
  BY DEF ConsumerInv
<1>. QED
  BY <1>1, <1>2, <1>3, <1>4, <1>5

(* SetProducerDone preserves the invariant.                               *)
LEMMA SetProducerDoneStep == IInv /\ SetProducerDone => IInv'
<1> SUFFICES ASSUME IInv, SetProducerDone PROVE IInv'
  OBVIOUS
<1> USE DEF IInv, SetProducerDone, ring, flags, consumerVars
<1>1. LogInv' /\ ContentInv' /\ Published' = Published
  BY ContentKept
<1>2. TypeOK'
  BY DEF TypeOK, ProducerAt
<1>3. RingInv'
  BY DEF RingInv, Position
<1>4. ProducerInv'
  BY <1>1 DEF ProducerInv, EndsWithDone
<1>5. ConsumerInv'
  BY DEF ConsumerInv
<1>. QED
  BY <1>1, <1>2, <1>3, <1>4, <1>5

(* CatchProducer preserves the invariant.                                 *)
LEMMA CatchProducerStep == IInv /\ CatchProducer => IInv'
<1> SUFFICES ASSUME IInv, CatchProducer PROVE IInv'
  OBVIOUS
<1> USE DEF IInv, CatchProducer, IsSourceError, ring, flags, consumerVars
<1>1. LogInv' /\ ContentInv' /\ Published' = Published
  BY ContentKept
<1>2. TypeOK'
  BY DEF TypeOK, ProducerAt
<1>3. RingInv'
  BY DEF RingInv, Position
<1>4. ProducerInv'
  BY <1>1 DEF ProducerInv, EndsWithDone
<1>5. ConsumerInv'
  BY DEF ConsumerInv
<1>. QED
  BY <1>1, <1>2, <1>3, <1>4, <1>5

(* ProducerExit preserves the invariant.                                  *)
LEMMA ProducerExitStep == IInv /\ ProducerExit => IInv'
<1> SUFFICES ASSUME IInv, ProducerExit PROVE IInv'
  OBVIOUS
<1> USE DEF IInv, ProducerExit, WakeConsumer, ring, flags
<1>1. LogInv' /\ ContentInv' /\ Published' = Published
  BY ContentKept
<1>2. TypeOK'
  BY DEF TypeOK, ProducerAt, ConsumerAt
<1>3. RingInv'
  BY DEF RingInv, Position
<1>4. ProducerInv'
  BY <1>1 DEF ProducerInv, EndsWithDone
<1>5. ConsumerInv'
  BY DEF ConsumerInv
<1>. QED
  BY <1>1, <1>2, <1>3, <1>4, <1>5

(* CallSource preserves the invariant.                                    *)
LEMMA CallSourceStep == IInv /\ CallSource => IInv'
<1> SUFFICES ASSUME IInv, CallSource PROVE IInv'
  OBVIOUS
<1> USE DEF IInv, CallSource, ring, flags, producerVars
<1>1. LogInv' /\ ContentInv' /\ Published' = Published
  BY ContentKept
<1>2. TypeOK'
  BY DEF TypeOK, ConsumerAt
<1>3. RingInv'
  BY DEF RingInv, Position
<1>4. ProducerInv'
  BY <1>1 DEF ProducerInv, EndsWithDone
<1>5. ConsumerInv'
  BY DEF ConsumerInv
<1>. QED
  BY <1>1, <1>2, <1>3, <1>4, <1>5

(* AcquireReady preserves the invariant.                                  *)
LEMMA AcquireReadyStep == IInv /\ AcquireReady => IInv'
<1> SUFFICES ASSUME IInv, AcquireReady PROVE IInv'
  OBVIOUS
<1> USE DEF IInv, AcquireReady, RecordReady, MayRead, Raise, ring, flags,
            producerVars
<1>1. LogInv' /\ ContentInv' /\ Published' = Published
  BY ContentKept
<1>2. TypeOK'
  BY DEF TypeOK, ConsumerAt, Outcome
<1>3. RingInv'
  BY Bounds DEF RingInv, Position, ConsumerInv
<1>4. ProducerInv'
  BY <1>1 DEF ProducerInv, EndsWithDone
<1>5. ConsumerInv'
  <2>1. ~(~producerError /\ producerDone /\ count = 0)
    <3>1. ~cancelled /\ ~(last > 0 /\ log[last] = "Done") /\ held = NoSlot
          /\ cpc = "acquire"
      BY DEF ConsumerInv
    <3>2. producerDone /\ ~producerError
            => EndsWithDone /\ Len(log) = Published
      BY <3>1 DEF ProducerInv
    <3>3. count = 0 => Published = last
      BY <3>1, Bounds DEF Published, Taken
    <3>. QED BY <3>1, <3>2, <3>3 DEF EndsWithDone
  <2>2. MayRead /\ ~RecordReady => count = 0 /\ producerDone
    BY Bounds
  <2>. QED BY <2>1, <2>2 DEF ConsumerInv
<1>. QED
  BY <1>1, <1>2, <1>3, <1>4, <1>5

(* JoinDone preserves the invariant.                                      *)
LEMMA JoinDoneStep == IInv /\ JoinDone => IInv'
<1> SUFFICES ASSUME IInv, JoinDone PROVE IInv'
  OBVIOUS
<1> USE DEF IInv, JoinDone, Raise, ring, flags, producerVars
<1>1. LogInv' /\ ContentInv' /\ Published' = Published
  BY ContentKept
<1>2. TypeOK'
  BY DEF TypeOK, ConsumerAt, Outcome
<1>3. RingInv'
  BY DEF RingInv, Position
<1>4. ProducerInv'
  BY <1>1 DEF ProducerInv, EndsWithDone
<1>5. ConsumerInv'
  <2>1. sawDone /\ last > 0 /\ log[last] = "Done" /\ ~inKernel
        /\ held = NoSlot /\ cpc = "joinDone"
    BY DEF ConsumerInv
  <2>2. last = Len(log) /\ count = 0
    BY <2>1, DoneIsLast DEF Taken
  <2>. QED BY <2>1, <2>2 DEF ConsumerInv, ProducerInv
<1>. QED
  BY <1>1, <1>2, <1>3, <1>4, <1>5

(* Finish preserves the invariant.                                        *)
LEMMA FinishStep == IInv /\ Finish => IInv'
<1> SUFFICES ASSUME IInv, Finish PROVE IInv'
  OBVIOUS
<1> USE DEF IInv, Finish, ring, flags, producerVars
<1>1. LogInv' /\ ContentInv' /\ Published' = Published
  BY ContentKept
<1>2. TypeOK'
  BY DEF TypeOK, ConsumerAt, Outcome
<1>3. RingInv'
  BY DEF RingInv, Position
<1>4. ProducerInv'
  BY <1>1 DEF ProducerInv, EndsWithDone
<1>5. ConsumerInv'
  <2>1. sawDone /\ last > 0 /\ log[last] = "Done" /\ ~inKernel
        /\ held = NoSlot /\ cpc = "finish"
    BY DEF ConsumerInv
  <2>2. last = Len(log) /\ count = 0
    BY <2>1, DoneIsLast DEF Taken
  <2>. QED BY <2>1, <2>2 DEF ConsumerInv, ProducerInv
<1>. QED
  BY <1>1, <1>2, <1>3, <1>4, <1>5

(* BackendFails preserves the invariant.                                  *)
LEMMA BackendFailsStep == IInv /\ BackendFails => IInv'
<1> SUFFICES ASSUME IInv, BackendFails PROVE IInv'
  OBVIOUS
<1> USE DEF IInv, BackendFails, Raise, ring, flags, producerVars
<1>1. LogInv' /\ ContentInv' /\ Published' = Published
  BY ContentKept
<1>2. TypeOK'
  BY DEF TypeOK, ConsumerAt, Outcome
<1>3. RingInv'
  BY DEF RingInv, Position
<1>4. ProducerInv'
  BY <1>1 DEF ProducerInv, EndsWithDone
<1>5. ConsumerInv'
  BY DEF ConsumerInv
<1>. QED
  BY <1>1, <1>2, <1>3, <1>4, <1>5

(* Cancel preserves the invariant.                                        *)
LEMMA CancelStep == IInv /\ Cancel => IInv'
<1> SUFFICES ASSUME IInv, Cancel PROVE IInv'
  OBVIOUS
<1> USE DEF IInv, Cancel, ring, flags, producerVars
<1>1. LogInv' /\ ContentInv' /\ Published' = Published
  BY ContentKept
<1>2. TypeOK'
  BY DEF TypeOK, ConsumerAt
<1>3. RingInv'
  BY DEF RingInv, Position
<1>4. ProducerInv'
  BY <1>1 DEF ProducerInv, EndsWithDone
<1>5. ConsumerInv'
  BY DEF ConsumerInv
<1>. QED
  BY <1>1, <1>2, <1>3, <1>4, <1>5

(* CancelNotify preserves the invariant.                                  *)
LEMMA CancelNotifyStep == IInv /\ CancelNotify => IInv'
<1> SUFFICES ASSUME IInv, CancelNotify PROVE IInv'
  OBVIOUS
<1> USE DEF IInv, CancelNotify, WakeProducer, ring, flags
<1>1. LogInv' /\ ContentInv' /\ Published' = Published
  BY ContentKept
<1>2. TypeOK'
  BY DEF TypeOK, ProducerAt, ConsumerAt
<1>3. RingInv'
  BY DEF RingInv, Position
<1>4. ProducerInv'
  BY <1>1 DEF ProducerInv, EndsWithDone
<1>5. ConsumerInv'
  BY DEF ConsumerInv
<1>. QED
  BY <1>1, <1>2, <1>3, <1>4, <1>5

(* JoinNoexcept preserves the invariant.                                  *)
LEMMA JoinNoexceptStep == IInv /\ JoinNoexcept => IInv'
<1> SUFFICES ASSUME IInv, JoinNoexcept PROVE IInv'
  OBVIOUS
<1> USE DEF IInv, JoinNoexcept, ring, flags, producerVars
<1>1. LogInv' /\ ContentInv' /\ Published' = Published
  BY ContentKept
<1>2. TypeOK'
  BY DEF TypeOK, ConsumerAt
<1>3. RingInv'
  BY DEF RingInv, Position
<1>4. ProducerInv'
  BY <1>1 DEF ProducerInv, EndsWithDone
<1>5. ConsumerInv'
  BY DEF ConsumerInv
<1>. QED
  BY <1>1, <1>2, <1>3, <1>4, <1>5

(* SpuriousWake preserves the invariant.                                  *)
LEMMA SpuriousWakeStep == IInv /\ SpuriousWake => IInv'
<1> SUFFICES ASSUME IInv, SpuriousWake PROVE IInv'
  OBVIOUS
<1> USE DEF IInv, SpuriousWake, WakeProducer, WakeConsumer, ring, flags
<1>1. LogInv' /\ ContentInv' /\ Published' = Published
  BY ContentKept
<1>2. TypeOK'
  BY DEF TypeOK, ProducerAt, ConsumerAt
<1>3. RingInv'
  BY DEF RingInv, Position
<1>4. ProducerInv'
  BY <1>1 DEF ProducerInv, EndsWithDone
<1>5. ConsumerInv'
  BY DEF ConsumerInv
<1>. QED
  BY <1>1, <1>2, <1>3, <1>4, <1>5

(* Next preserves the invariant.                                          *)
LEMMA NextStep == IInv /\ [Next]_vars => IInv'
<1>1. CASE Producer
  BY <1>1, BeginKernelStep, ReserveWriteStep, FillSlotStep, SourceThrowsStep,
     PublishStep, SetProducerDoneStep, CatchProducerStep, ProducerExitStep
     DEF Producer
<1>2. CASE Consumer
  BY <1>2, CallSourceStep, ReleaseHeldStep, AcquireReadyStep, ReadSlotStep,
     ReleaseReadStep, JoinDoneStep, FinishStep, BackendFailsStep, CancelStep,
     CancelNotifyStep, JoinNoexceptStep
     DEF Consumer
<1>3. CASE SpuriousWake
  BY <1>3, SpuriousWakeStep
<1>4. ASSUME IInv, UNCHANGED vars
      PROVE  IInv'
  <2> USE <1>4 DEF vars, ring, flags, producerVars, consumerVars, IInv
  <2>1. TypeOK'
    BY DEF TypeOK
  <2>2. RingInv' /\ LogInv' /\ ContentInv'
    BY ContentKept DEF RingInv, Position
  <2>3. ProducerInv' /\ ConsumerInv'
    BY ContentKept DEF ProducerInv, ConsumerInv, EndsWithDone
  <2>. QED BY <2>1, <2>2, <2>3
<1>. QED
  BY <1>1, <1>2, <1>3, <1>4 DEF Next, Stop

-----------------------------------------------------------------------------
(* In every reachable state of every run, whatever the ring's capacity and *)
(* the workload, the invariant holds.                                      *)
THEOREM Invariance == Spec => []IInv
<1>1. Init => IInv
  BY DEF Init, IInv, TypeOK, RingInv, LogInv, ContentInv, ProducerInv,
         ConsumerInv, Position, Taken, Published, Opens, EndsWithDone,
         Index, NoSlot, Kind, ProducerAt, ConsumerAt, Outcome
<1>. QED
  BY <1>1, NextStep, PTL DEF Spec

(* BufferedWorkloadSource keeps its indices and its count inside the ring. *)
THEOREM TypeCorrect == Spec => []TypeOK
<1>1. IInv => TypeOK
  BY DEF IInv
<1>. QED BY <1>1, Invariance, PTL

(* The two threads never touch one slot at the same time although slots    *)
(* are written and read outside the mutex.                                 *)
THEOREM RaceFreedom == Spec => []SlotExclusive
<1>1. IInv => SlotExclusive
  <2> SUFFICES ASSUME IInv, ppc \in {"fill", "publish"}, Owning
               PROVE  pindex # OwnedIndex
    BY DEF SlotExclusive
  <2>1. OwnedIndex = readIndex /\ count > 0
    BY DEF IInv, RingInv, Owning, OwnedIndex
  <2>2. pindex = Position(count) /\ count < Capacity
    BY DEF IInv, RingInv
  <2>3. Position(0) = readIndex /\ 0 \in 0 .. count - 1
    BY <2>1, Positions, Bounds DEF IInv
  <2>. QED BY <2>1, <2>2, <2>3, Positions DEF IInv
<1>. QED BY <1>1, Invariance, PTL

(* No need() that guards the ring's own protocol can fail, and what the    *)
(* producer reports as an error was raised by the source.                  *)
THEOREM ProtocolKept == Spec => []NoProtocolError
<1>1. IInv => NoProtocolError
  BY DEF IInv, NoProtocolError, ProducerInv, ConsumerInv
<1>. QED BY <1>1, Invariance, PTL

(* The source's error reaches the backend after all published records.     *)
THEOREM ErrorComesLast == Spec => []DrainedBeforeError
<1>1. IInv => DrainedBeforeError
  BY DEF IInv, DrainedBeforeError, ConsumerInv
<1>. QED BY <1>1, Invariance, PTL

(* Every step of the ring is a step of the ordered stream or a stutter.    *)
THEOREM Refinement == Spec => StreamOrder
<1> USE DEF ring, flags, producerVars, consumerVars
<1>1. Init => Stream!Init
  BY DEF Init, Stream!Init
<1>2. ASSUME IInv, [Next]_vars
      PROVE  [Stream!Next]_Stream!vars
  <2>0. IInv'
    BY <1>2, NextStep
  <2>1. CASE BeginKernel
    <3>1. \E k \in Kind : log' = Append(log, k)
      BY <2>1 DEF BeginKernel, Kind
    <3>2. UNCHANGED <<received, last, outcome>>
      BY <2>1 DEF BeginKernel
    <3>. QED BY <3>1, <3>2 DEF Stream!Next, Stream!Yield
  <2>2. CASE FillSlot
    <3>1. UNCHANGED <<received, last, outcome>>
      BY <2>2 DEF FillSlot
    <3>2. log' = log \/ \E k \in Kind : log' = Append(log, k)
      BY <2>2 DEF FillSlot, Kind
    <3>. QED BY <3>1, <3>2 DEF Stream!Next, Stream!Yield, Stream!vars
  <2>3. CASE ReadSlot
    <3>1. UNCHANGED <<log, outcome>> /\ received = last /\ last \in Nat
      BY <1>2, <2>3, ReadSlotFacts DEF IInv, ConsumerInv, TypeOK
    <3>. QED BY <1>2, <2>3, <3>1, ReadSlotFacts, Bounds
             DEF Stream!Next, Stream!Deliver
  <2>4. CASE AcquireReady \/ JoinDone \/ Finish \/ BackendFails
    <3>1. outcome = "running" /\ received = last
      BY <1>2, <2>4 DEF IInv, ConsumerInv, AcquireReady, JoinDone, Finish,
         BackendFails
    <3>2. UNCHANGED <<log, received, last>>
      BY <2>4 DEF AcquireReady, JoinDone, Finish, BackendFails
    <3>3. /\ outcome' # "protocol_error"
          /\ outcome' = "complete" =>
               last > 0 /\ last = Len(log) /\ log[last] = "Done"
      BY <1>2, <2>0, <3>2 DEF IInv, ConsumerInv
    <3>4. outcome' \in Outcome
      BY <2>0 DEF IInv, TypeOK
    <3>. QED BY <3>1, <3>2, <3>3, <3>4
             DEF Outcome, Stream!Next, Stream!Complete, Stream!Fail,
                 Stream!vars
  <2>5. CASE ReleaseHeld \/ ReleaseRead
    <3>1. UNCHANGED <<log, received, last>>
      BY <2>5 DEF ReleaseHeld, ReleaseRead
    <3>2. outcome' \in {outcome, "protocol_error"}
      BY <2>5 DEF ReleaseHeld, ReleaseRead, Raise
    <3>3. outcome' # "protocol_error"
      BY <2>0 DEF IInv, ConsumerInv
    <3>. QED BY <3>1, <3>2, <3>3 DEF Stream!vars
  <2>6. CASE \/ ReserveWrite \/ SourceThrows \/ Publish \/ SetProducerDone
             \/ CatchProducer \/ ProducerExit \/ CallSource \/ Cancel
             \/ CancelNotify \/ JoinNoexcept \/ SpuriousWake \/ Stop
             \/ UNCHANGED vars
    BY <2>6 DEF ReserveWrite, SourceThrows, Publish, SetProducerDone,
         CatchProducer, ProducerExit, CallSource, Cancel, CancelNotify,
         JoinNoexcept, SpuriousWake, Stop, vars, Stream!vars
  <2>. QED
    BY <1>2, <2>1, <2>2, <2>3, <2>4, <2>5, <2>6 DEF Next, Producer, Consumer
<1>. QED
  BY <1>1, <1>2, Invariance, PTL DEF Spec, StreamOrder, Stream!Spec
=============================================================================
