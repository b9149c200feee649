------------------------- MODULE RuruRingBufProofs -------------------------
(***************************************************************************)
(* Proofs about RuruRingBuf, for every capacity and any number of beats.   *)
(***************************************************************************)
EXTENDS RuruRingBuf, SequenceTheorems, TLAPS

-----------------------------------------------------------------------------
(* What the wrapped increment computes, without the modulus.               *)

\* (i + 1) % cap is i + 1, or 0 at the end of memory.
LEMMA SuccValue ==
    ASSUME NEW i \in Slots
    PROVE  Succ(i) = IF i + 1 = Cap THEN 0 ELSE i + 1
<1>1. CASE i + 1 = Cap
  BY <1>1, CapAssumption DEF Succ, Slots
<1>2. CASE i + 1 # Cap
  BY <1>2, CapAssumption DEF Succ, Slots
<1> QED BY <1>1, <1>2

\* The index of RingBufRead and RingBufWrite stays inside memory.
LEMMA SuccInSlots ==
    ASSUME NEW i \in Slots
    PROVE  Succ(i) \in Slots
  BY SuccValue, CapAssumption DEF Slots

-----------------------------------------------------------------------------
(* RingInv is inductive.  Its parts need each other: the producer's slot   *)
(* stays free because the consumer only moves rd away from it, and the     *)
(* consumer's slot keeps its beat because the producer writes to wt, which *)
(* differs from rd as long as a beat is being read.                        *)

\* The constructor establishes RingInv.
LEMMA InitRingInv == Init => RingInv
<1> SUFFICES ASSUME Init PROVE RingInv
  OBVIOUS
<1>1. 0 \in Slots
  BY CapAssumption DEF Slots
<1>2. TypeOK
  BY <1>1 DEF Init, TypeOK, HeartBeatData, Unset, Beat
<1>3. WriterRoom /\ ReaderBeat /\ WriterCopy /\ ReaderCopy
  BY DEF Init, WriterRoom, ReaderBeat, WriterCopy, ReaderCopy, Writing, Reading
<1> QED BY <1>2, <1>3 DEF RingInv

\* Every step of RingBufWrite and RingBufRead keeps RingInv.
LEMMA NextRingInv == RingInv /\ [Next]_vars => RingInv'
<1> SUFFICES ASSUME RingInv, [Next]_vars PROVE RingInv'
  OBVIOUS
<1> USE DEF RingInv, TypeOK, WriterRoom, ReaderBeat, WriterCopy, ReaderCopy,
            Writing, Reading, HeartBeatData
<1>1. CASE WriteBegin
  BY <1>1 DEF WriteBegin, HasRoom
<1>2. CASE WriteFull
  BY <1>2 DEF WriteFull
<1>3. CASE WriteData
  BY <1>3 DEF WriteData
<1>4. CASE WriteLength
  BY <1>4 DEF WriteLength
<1>5. CASE WritePublish
  BY <1>5, SuccInSlots DEF WritePublish
<1>6. CASE ReadBegin
  BY <1>6 DEF ReadBegin, RingBufEmpty
<1>7. CASE ReadData
  BY <1>7 DEF ReadData
<1>8. CASE ReadLength
  BY <1>8 DEF ReadLength
<1>9. CASE ReadAdvance
  <2>1. Succ(rd) \in Slots
    BY SuccInSlots
  <2>2. Succ(rd) # Succ(wt)
    <3>1. rd # wt /\ rd \in Slots /\ wt \in Slots
      BY <1>9 DEF ReadAdvance
    <3>2. Succ(rd) = IF rd + 1 = Cap THEN 0 ELSE rd + 1
      BY <3>1, SuccValue
    <3>3. Succ(wt) = IF wt + 1 = Cap THEN 0 ELSE wt + 1
      BY <3>1, SuccValue
    <3> QED BY <3>1, <3>2, <3>3, CapAssumption DEF Slots
  <2> QED BY <1>9, <2>1, <2>2 DEF ReadAdvance
<1>10. CASE UNCHANGED vars
  BY <1>10 DEF vars
<1> QED
  BY <1>1, <1>2, <1>3, <1>4, <1>5, <1>6, <1>7, <1>8, <1>9, <1>10
  DEF Next, RingBufWrite, RingBufRead

\* RingInv holds in every reachable state of the two threads.
THEOREM RingInvariant == Spec => []RingInv
  BY InitRingInv, NextRingInv, PTL DEF Spec

\* The producer and the consumer never touch the same slot at the same time
\* (RingBufWrite against RingBufRead), whatever the capacity of the ring.
THEOREM SlotExclusion == Spec => []NoSlotShared
<1>1. RingInv => NoSlotShared
  BY DEF RingInv, ReaderBeat, NoSlotShared
<1> QED BY <1>1, RingInvariant, PTL

-----------------------------------------------------------------------------
(* The refinement.  Unread, the slots from rd up to wt, is the abstract    *)
(* queue: WritePublish appends to it, ReadAdvance removes its head,        *)
(* WriteFull is refused, and every other step leaves it alone.             *)

\* At most cap - 1 beats lie between rd and wt.
LEMMA CountType == RingInv => Count \in 0 .. Cap - 1
  BY CapAssumption DEF RingInv, TypeOK, Count, Slots

\* The unread beats are a sequence of that length.
LEMMA UnreadType == RingInv => Unread \in Seq(HeartBeatData) /\ Len(Unread) = Count
<1> SUFFICES ASSUME RingInv PROVE Unread \in Seq(HeartBeatData) /\ Len(Unread) = Count
  OBVIOUS
<1>1. Count \in 0 .. Cap - 1
  BY CountType
<1>2. \A k \in 1 .. Count : memory[SlotAt(k - 1)] \in HeartBeatData
  BY <1>1, CapAssumption DEF RingInv, TypeOK, SlotAt, Count, Slots
<1> QED BY <1>1, <1>2 DEF Unread

\* A HeartBeatData is its two fields.
LEMMA BeatEqual ==
    ASSUME NEW a \in HeartBeatData, NEW b \in HeartBeatData,
           a.data = b.data, a.length = b.length
    PROVE  a = b
<1>1. a = [data |-> a.data, length |-> a.length] /\ b = [data |-> b.data, length |-> b.length]
  BY DEF HeartBeatData
<1> QED BY <1>1

\* No unread slot is the slot at wt.
LEMMA UnreadAvoidsWt ==
    ASSUME RingInv, NEW k \in 1 .. Count
    PROVE  SlotAt(k - 1) \in Slots /\ SlotAt(k - 1) # wt
<1>1. Count \in 0 .. Cap - 1
  BY CountType
<1> QED BY <1>1, CapAssumption DEF RingInv, TypeOK, SlotAt, Count, Slots

\* A step that leaves rd, wt and every slot but the one at wt alone leaves
\* the abstract queue alone.
LEMMA UnreadUnchanged ==
    ASSUME RingInv, rd' = rd, wt' = wt,
           \A i \in Slots : i # wt => memory'[i] = memory[i]
    PROVE  Unread' = Unread
<1>1. Count' = Count
  BY DEF Count
<1>2. \A k \in 1 .. Count : SlotAt(k - 1)' = SlotAt(k - 1)
  BY DEF SlotAt
<1>3. \A k \in 1 .. Count : memory'[SlotAt(k - 1)'] = memory[SlotAt(k - 1)]
  BY <1>2, UnreadAvoidsWt
<1> QED BY <1>1, <1>3 DEF Unread

\* WritePublish appends the beat the producer has copied.
LEMMA PublishAppends ==
    ASSUME RingInv, WritePublish
    PROVE  /\ Count < Cap - 1
           /\ Unread' = Append(Unread, Beat(next))
<1> USE DEF RingInv, TypeOK
<1>1. /\ rd' = rd /\ memory' = memory /\ wt' = Succ(wt)
      /\ memory[wt] = Beat(next)
  <2>1. memory[wt] \in HeartBeatData /\ memory[wt].data = next /\ memory[wt].length = next
    BY DEF WritePublish, WriterCopy
  <2> QED BY <2>1 DEF WritePublish, HeartBeatData, Beat
<1>2. Succ(wt) = IF wt + 1 = Cap THEN 0 ELSE wt + 1
  BY SuccValue
<1>3. rd # Succ(wt)
  BY DEF WritePublish, WriterRoom, Writing
<1>4. Count \in 0 .. Cap - 2 /\ Count' = Count + 1
  BY <1>1, <1>2, <1>3, CapAssumption DEF Count, Slots
<1>5. SlotAt(Count) = wt
  BY CapAssumption DEF SlotAt, Count, Slots
<1>6. \A k \in 1 .. Count + 1 : SlotAt(k - 1)' = SlotAt(k - 1)
  BY <1>1 DEF SlotAt
<1>7. Unread' = [k \in 1 .. Count + 1 |-> memory[SlotAt(k - 1)]]
  BY <1>1, <1>4, <1>6 DEF Unread
<1>8. Unread \in Seq(HeartBeatData) /\ Len(Unread) = Count
  BY UnreadType
<1>9. Unread' = Append(Unread, Beat(next))
  <2>1. Beat(next) \in HeartBeatData
    BY DEF Beat, HeartBeatData
  <2>2. /\ Append(Unread, Beat(next)) \in Seq(HeartBeatData)
        /\ Len(Append(Unread, Beat(next))) = Count + 1
        /\ \A k \in 1 .. Count : Append(Unread, Beat(next))[k] = Unread[k]
        /\ Append(Unread, Beat(next))[Count + 1] = Beat(next)
    BY <1>8, <2>1, AppendProperties
  <2>3. \A k \in 1 .. Count : Unread[k] = memory[SlotAt(k - 1)]
    BY DEF Unread
  <2>4. \A k \in 1 .. Count + 1 : memory[SlotAt(k - 1)] = Append(Unread, Beat(next))[k]
    BY <1>1, <1>4, <1>5, <2>2, <2>3
  <2>5. \A k \in 1 .. Count + 1 : memory[SlotAt(k - 1)] \in HeartBeatData
    <3>1. \A k \in 1 .. Count + 1 : SlotAt(k - 1) \in Slots
      BY <1>4, CapAssumption DEF SlotAt, Slots
    <3> QED BY <3>1
  <2>6. Unread' \in Seq(HeartBeatData) /\ Len(Unread') = Count + 1
    BY <1>4, <1>7, <2>5
  <2>7. \A k \in 1 .. Count + 1 : Unread'[k] = Append(Unread, Beat(next))[k]
    BY <1>7, <2>4
  <2> QED BY <2>2, <2>6, <2>7, SeqEqual
<1> QED BY <1>4, <1>9, CapAssumption

\* ReadAdvance removes the oldest beat, which the consumer has copied.
LEMMA AdvanceRemovesHead ==
    ASSUME RingInv, ReadAdvance
    PROVE  /\ Unread # <<>>
           /\ beat = Head(Unread)
           /\ Unread' = Tail(Unread)
<1> USE DEF RingInv, TypeOK
<1>1. wt' = wt /\ memory' = memory /\ rd' = Succ(rd) /\ rd # wt
  BY DEF ReadAdvance, ReaderBeat, Reading
<1>2. Succ(rd) = IF rd + 1 = Cap THEN 0 ELSE rd + 1
  BY SuccValue
<1>3. Count \in 1 .. Cap - 1 /\ Count' = Count - 1
  BY <1>1, <1>2, CapAssumption DEF Count, Slots
<1>4. Unread \in Seq(HeartBeatData) /\ Len(Unread) = Count
  BY UnreadType
<1>5. beat = Head(Unread)
  <2>1. memory[rd] \in HeartBeatData /\ beat.data = memory[rd].data /\ beat.length = memory[rd].length
    BY DEF ReadAdvance, ReaderCopy
  <2>2. beat = memory[rd]
    BY <2>1, BeatEqual
  <2>3. SlotAt(0) = rd
    BY CapAssumption DEF SlotAt, Slots
  <2>4. Unread[1] = memory[rd]
    BY <1>3, <2>3 DEF Unread
  <2> QED BY <1>3, <1>4, <2>2, <2>4
<1>6. \A k \in 1 .. Count - 1 : SlotAt(k - 1)' = SlotAt(k)
  BY <1>1, <1>2, <1>3, CapAssumption DEF SlotAt, Slots
<1>7. Unread' = [k \in 1 .. Count - 1 |-> memory[SlotAt(k)]]
  BY <1>1, <1>3, <1>6 DEF Unread
<1>8. Unread # <<>>
  BY <1>3, <1>4
<1>9. Unread' = Tail(Unread)
  <2>1. /\ Tail(Unread) \in Seq(HeartBeatData)
        /\ Len(Tail(Unread)) = Count - 1
        /\ \A k \in 1 .. Count - 1 : Tail(Unread)[k] = Unread[k + 1]
    BY <1>3, <1>4, <1>8, HeadTailProperties
  <2>2. \A k \in 1 .. Count - 1 : Unread[k + 1] = memory[SlotAt(k)]
    BY <1>3 DEF Unread
  <2>3. \A k \in 1 .. Count - 1 : memory[SlotAt(k)] \in HeartBeatData
    <3>1. \A k \in 1 .. Count - 1 : SlotAt(k) \in Slots
      BY <1>3, CapAssumption DEF SlotAt, Slots
    <3> QED BY <3>1
  <2>4. Unread' \in Seq(HeartBeatData) /\ Len(Unread') = Count - 1
    BY <1>3, <1>7, <2>3
  <2>5. \A k \in 1 .. Count - 1 : Unread'[k] = Tail(Unread)[k]
    BY <1>7, <2>1, <2>2
  <2> QED BY <2>1, <2>4, <2>5, SeqEqual
<1> QED BY <1>5, <1>8, <1>9

\* Every step of the two threads is a step of the abstract queue or leaves
\* it alone.
LEMMA StepRefines == RingInv /\ [Next]_vars => [Fifo!Next]_(Fifo!vars)
<1> SUFFICES ASSUME RingInv, [Next]_vars PROVE [Fifo!Next]_(Fifo!vars)
  OBVIOUS
<1> USE DEF Fifo!Next, Fifo!vars
<1>1. CASE WriteBegin
  BY <1>1, UnreadUnchanged DEF WriteBegin
<1>2. CASE WriteFull
  <2>1. Count = Cap - 1
    <3>1. rd \in Slots /\ wt \in Slots /\ rd = Succ(wt)
      BY <1>2 DEF WriteFull, HasRoom, RingInv, TypeOK
    <3>2. Succ(wt) = IF wt + 1 = Cap THEN 0 ELSE wt + 1
      BY <3>1, SuccValue
    <3> QED BY <3>1, <3>2, CapAssumption DEF Count, Slots
  <2>2. Fifo!Refuse
    BY <1>2, <2>1, UnreadType, UnreadUnchanged DEF WriteFull, Fifo!Refuse
  <2> QED BY <2>2
<1>3. CASE WriteData
  <2>1. \A i \in Slots : i # wt => memory'[i] = memory[i]
    BY <1>3 DEF WriteData, RingInv, TypeOK
  <2> QED BY <1>3, <2>1, UnreadUnchanged DEF WriteData
<1>4. CASE WriteLength
  <2>1. \A i \in Slots : i # wt => memory'[i] = memory[i]
    BY <1>4 DEF WriteLength, RingInv, TypeOK
  <2> QED BY <1>4, <2>1, UnreadUnchanged DEF WriteLength
<1>5. CASE WritePublish
  <2>1. Len(Unread) = Count
    BY UnreadType
  <2>2. Fifo!Put
    BY <1>5, <2>1, PublishAppends DEF WritePublish, Fifo!Put
  <2> QED BY <2>2
<1>6. CASE ReadBegin
  BY <1>6, UnreadUnchanged DEF ReadBegin
<1>7. CASE ReadData
  BY <1>7, UnreadUnchanged DEF ReadData
<1>8. CASE ReadLength
  BY <1>8, UnreadUnchanged DEF ReadLength
<1>9. CASE ReadAdvance
  <2>1. Fifo!Take
    BY <1>9, AdvanceRemovesHead DEF ReadAdvance, Fifo!Take
  <2> QED BY <2>1
<1>10. CASE UNCHANGED vars
  BY <1>10, UnreadUnchanged DEF vars
<1> QED
  BY <1>1, <1>2, <1>3, <1>4, <1>5, <1>6, <1>7, <1>8, <1>9, <1>10
  DEF Next, RingBufWrite, RingBufRead

\* The lock-free ring implements the bounded first-in first-out queue, for
\* every capacity and any number of beats.
THEOREM RingImplementsFifo == Spec => ImplementsFifo
<1>1. Init => Fifo!Init
  <2> SUFFICES ASSUME Init PROVE Unread = <<>>
    BY DEF Init, Fifo!Init
  <2>1. Count = 0
    BY DEF Init, Count
  <2> QED BY <2>1 DEF Unread
<1> QED
  BY <1>1, StepRefines, RingInvariant, PTL DEF Spec, ImplementsFifo, Fifo!Spec
=============================================================================
