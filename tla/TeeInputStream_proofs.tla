------------------------- MODULE TeeInputStream_proofs -------------------------
(***************************************************************************)
(* Proofs about TeeInputStream, for buffers and sources of any size and    *)
(* any tees: no unread byte leaves the buffer, and what the tees' readers  *)
(* get is what TeeStreams promises them.                                   *)
(***************************************************************************)
EXTENDS TeeInputStream, SequenceTheorems, WellFoundedInduction, TLAPS

-----------------------------------------------------------------------------
(* The inductive invariant.                                                *)

\* The source is at its end when it has said so
SourceInv == sourceComplete => sourcePos = SourceLen

\* The reads of a tee returned the bytes before its offset
HistoryInv == \A i \in Tees : received[i] = [k \in 1 .. offset[i] |-> k - 1]

IInv == WindowHoldsUnreadBytes /\ SourceInv /\ HistoryInv

-----------------------------------------------------------------------------
(* The slots of the cyclic buffer.                                         *)

LEMMA SlotDivides ==
  ASSUME NEW n \in Int
  PROVE  Slot(n) \in Slots /\ \E q \in Int : n = BufferSize * q + Slot(n)
<1>1. n \div BufferSize \in Int
  BY ConstantsAssumption
<1>2. Slot(n) \in Slots /\ n = BufferSize * (n \div BufferSize) + Slot(n)
  BY ConstantsAssumption DEF Slot, Slots
<1>3. QED
  BY <1>1, <1>2

LEMMA SlotIsUnique ==
  ASSUME NEW q \in Int, NEW r \in Slots
  PROVE  Slot(BufferSize * q + r) = r
<1> DEFINE n == BufferSize * q + r
<1>1. n \in Int /\ r \in Int /\ BufferSize \in Int
  BY ConstantsAssumption DEF Slots
<1>2. PICK p \in Int : n = BufferSize * p + Slot(n)
  BY <1>1, SlotDivides
<1>3. Slot(n) \in Slots
  BY <1>1, SlotDivides
<1>4. BufferSize * (q - p) = Slot(n) - r
  BY <1>1, <1>2, <1>3 DEF Slots
<1>5. Slot(n) - r < BufferSize /\ Slot(n) - r > -BufferSize
  BY <1>1, <1>3, ConstantsAssumption DEF Slots
<1> HIDE DEF n
<1>6. q - p >= 1 => BufferSize * (q - p) >= BufferSize
  BY ConstantsAssumption
<1>7. q - p <= -1 => BufferSize * (q - p) <= -BufferSize
  BY ConstantsAssumption
<1>8. q - p = 0
  BY <1>1, <1>3, <1>4, <1>5, <1>6, <1>7 DEF Slots
<1>9. Slot(n) = r
  BY <1>1, <1>2, <1>3, <1>8 DEF n, Slots
<1>10. QED
  BY <1>9 DEF n

LEMMA SlotOfSum ==
  ASSUME NEW a \in Int, NEW b \in Int
  PROVE  Slot(Slot(a) + b) = Slot(a + b)
<1> DEFINE r == Slot(Slot(a) + b)
<1>1. PICK q \in Int : a = BufferSize * q + Slot(a)
  BY SlotDivides
<1>2. Slot(a) \in Int /\ Slot(a) + b \in Int /\ BufferSize \in Int
  BY SlotDivides, ConstantsAssumption DEF Slots
<1>3. PICK p \in Int : Slot(a) + b = BufferSize * p + r
  <2> DEFINE n == Slot(a) + b
  <2>1. n \in Int
    BY <1>2
  <2> HIDE DEF n
  <2>2. \E p \in Int : n = BufferSize * p + Slot(n)
    BY <2>1, SlotDivides
  <2>3. QED
    BY <2>2 DEF n
<1>4. r \in Slots /\ r \in Int
  BY <1>2, SlotDivides, ConstantsAssumption DEF Slots
<1> HIDE DEF r
<1>5. BufferSize * (q + p) = BufferSize * q + BufferSize * p
  BY <1>2
<1>6. a + b = BufferSize * (q + p) + r
  BY <1>1, <1>2, <1>3, <1>4, <1>5
<1>7. Slot(a + b) = r
  BY <1>4, <1>6, SlotIsUnique
<1>8. QED
  BY <1>7 DEF r

\* Filled finds by this how far a slot is behind the first it writes.
LEMMA SlotDistance ==
  ASSUME NEW a \in Int, NEW d \in Slots
  PROVE  Slot(Slot(a + d) + BufferSize - Slot(a)) = d
<1>1. d \in Int /\ BufferSize \in Int
  BY ConstantsAssumption DEF Slots
<1>2. PICK q \in Int : a = BufferSize * q + Slot(a)
  BY SlotDivides
<1>3. PICK p \in Int : a + d = BufferSize * p + Slot(a + d)
  <2> DEFINE n == a + d
  <2>1. n \in Int
    BY <1>1
  <2> HIDE DEF n
  <2>2. \E p \in Int : n = BufferSize * p + Slot(n)
    BY <2>1, SlotDivides
  <2>3. QED
    BY <2>2 DEF n
<1>4. Slot(a) \in Int /\ Slot(a + d) \in Int
  BY <1>1, SlotDivides, ConstantsAssumption DEF Slots
<1>5. BufferSize * (1 + q - p) = BufferSize + BufferSize * q - BufferSize * p
  BY <1>1
<1>6. Slot(a + d) + BufferSize - Slot(a) = BufferSize * (1 + q - p) + d
  BY <1>1, <1>2, <1>3, <1>4, <1>5
<1>7. QED
  BY <1>6, SlotIsUnique

-----------------------------------------------------------------------------
(* What a window holds.                                                    *)

\* valid bytes of the source, from byte first on, are in buffer from slot index on
Holds(buffer, index, valid, first) ==
  /\ index \in Slots
  /\ valid \in 0 .. BufferSize
  /\ \A k \in 0 .. valid - 1 : buffer[Slot(index + k)] = first + k

LEMMA AdvancedWindow ==
  ASSUME NEW buffer, NEW index, NEW valid, NEW first \in Int, NEW delta \in 0 .. valid,
         Holds(buffer, index, valid, first)
  PROVE  Holds(buffer, Slot(index + delta), valid - delta, first + delta)
<1>1. index \in Int /\ valid \in Int /\ delta \in Int /\ index + delta \in Int
  BY ConstantsAssumption DEF Holds, Slots
<1>2. Slot(index + delta) \in Slots
  BY <1>1, SlotDivides
<1>3. valid - delta \in 0 .. BufferSize
  BY <1>1, ConstantsAssumption DEF Holds
<1>4. ASSUME NEW k \in 0 .. valid - delta - 1
      PROVE  buffer[Slot(Slot(index + delta) + k)] = first + delta + k
  <2>1. k + delta \in 0 .. valid - 1 /\ k \in Int
    BY <1>1
  <2>2. Slot(Slot(index + delta) + k) = Slot(index + delta + k)
    BY <1>1, <2>1, SlotOfSum
  <2>3. index + delta + k = index + (k + delta) /\ first + delta + k = first + (k + delta)
    BY <1>1, <2>1
  <2>4. QED
    BY <2>1, <2>2, <2>3 DEF Holds
<1>5. QED
  BY <1>2, <1>3, <1>4 DEF Holds

\* Bytes written after the window's last, no more than there is room for, extend it.
LEMMA FilledWindow ==
  ASSUME NEW index, NEW valid, NEW first \in Int, NEW n \in 0 .. BufferSize - valid,
         sourcePos \in Int, sourcePos = first + valid, Holds(cyclicBuffer, index, valid, first)
  PROVE  Holds(Filled(index + valid, n), index, valid + n, first)
<1>1. index \in Int /\ valid \in Int /\ n \in Int /\ BufferSize \in Int /\ index + valid \in Int
  BY ConstantsAssumption DEF Holds, Slots
<1>2. valid + n \in 0 .. BufferSize
  BY <1>1 DEF Holds
<1>3. ASSUME NEW k \in 0 .. valid + n - 1
      PROVE  Filled(index + valid, n)[Slot(index + k)] = first + k
  <2> DEFINE j == Slot(index + k)
             d == Slot(j + BufferSize - Slot(index + valid))
  <2>1. k \in Int /\ index + k \in Int /\ j \in Slots
    BY <1>1, SlotDivides
  <2>2. Filled(index + valid, n)[j] = IF d < n THEN sourcePos + d ELSE cyclicBuffer[j]
    BY <2>1 DEF Filled
  <2>3. CASE k < valid
    <3>1. k - valid + BufferSize \in Slots /\ k - valid + BufferSize >= n
      BY <1>1, <1>2, <2>1, <2>3 DEF Slots, Holds
    <3>2. (index + valid) + (k - valid + BufferSize) = index + k + BufferSize
      BY <1>1, <2>1
    <3>3. Slot(index + k + BufferSize) = j
      <4>1. PICK q \in Int : index + k = BufferSize * q + j
        BY <2>1, SlotDivides
      <4>2. j \in Int
        BY <2>1, <1>1 DEF Slots
      <4> HIDE DEF j
      <4>3. BufferSize * (q + 1) = BufferSize * q + BufferSize
        BY <1>1
      <4>4. index + k + BufferSize = BufferSize * (q + 1) + j
        BY <1>1, <2>1, <4>1, <4>2, <4>3
      <4>5. QED
        BY <2>1, <4>4, SlotIsUnique
    <3>4. d = k - valid + BufferSize
      BY <1>1, <3>1, <3>2, <3>3, SlotDistance
    <3>5. ~(d < n)
      BY <1>1, <2>1, <3>1, <3>4
    <3>6. cyclicBuffer[j] = first + k
      BY <1>1, <2>1, <2>3 DEF Holds
    <3>7. QED
      BY <2>2, <3>5, <3>6
  <2>4. CASE ~(k < valid)
    <3>1. k - valid \in Slots /\ k - valid < n
      BY <1>1, <1>2, <2>1, <2>4 DEF Slots, Holds
    <3>2. (index + valid) + (k - valid) = index + k
      BY <1>1, <2>1
    <3>3. d = k - valid
      <4>1. Slot(Slot((index + valid) + (k - valid)) + BufferSize - Slot(index + valid)) = k - valid
        BY <1>1, <3>1, SlotDistance
      <4>2. QED
        BY <3>2, <4>1
    <3>4. sourcePos + d = first + k
      BY <1>1, <2>1, <3>3
    <3>5. QED
      BY <2>2, <3>1, <3>3, <3>4
  <2>5. QED
    BY <2>3, <2>4
<1>4. QED
  BY <1>2, <1>3 DEF Holds

-----------------------------------------------------------------------------
(* The pump.                                                               *)

\* An offset that no open tee's offset is below
LEMMA SlowestTee ==
  ASSUME TypeOK, OpenTees # {}
  PROVE  \E i \in OpenTees : \A h \in OpenTees : offset[i] <= offset[h]
<1> DEFINE S == {offset[i] : i \in OpenTees}
           R == OpToRel(<, Nat)
<1>1. S \subseteq Nat /\ S # {}
  BY DEF TypeOK, OpenTees
<1>2. IsWellFoundedOn(R, Nat)
  BY NatLessThanWellFounded
<1>3. \A x, y \in Nat : <<x, y>> \in R <=> x < y
  BY DEF OpToRel
<1> HIDE DEF R, S
<1>4. PICK m \in S : \A v \in S : ~(<<v, m>> \in R)
  BY <1>1, <1>2, WFMin
<1>5. \A v \in S : ~(v < m)
  BY <1>1, <1>3, <1>4
<1>6. \A v \in S : m <= v
  BY <1>1, <1>5
<1>7. PICK i \in OpenTees : m = offset[i]
  BY <1>4 DEF S
<1>8. \A h \in OpenTees : offset[h] \in S
  BY DEF S
<1>9. QED
  BY <1>6, <1>7, <1>8

LEMMA DeltaType ==
  ASSUME TypeOK
  PROVE  Delta \in Int /\ OffsetIndexAfter(Delta) \in Int
<1>1. Delta \in Int
  <2>1. CASE OpenTees = {}
    BY <2>1 DEF Delta, TypeOK
  <2>2. CASE OpenTees # {}
    <3> DEFINE i == CHOOSE i \in OpenTees : \A h \in OpenTees : offset[i] <= offset[h]
    <3>1. i \in OpenTees
      BY <2>2, SlowestTee
    <3>2. offset[i] \in Int
      BY <3>1 DEF TypeOK, OpenTees
    <3>3. Delta = IF offset[i] > cyclicBufferOffset THEN offset[i] - cyclicBufferOffset ELSE 0
      BY <2>2 DEF Delta
    <3> HIDE DEF i
    <3>4. QED
      BY <3>2, <3>3 DEF TypeOK
  <2>3. QED
    BY <2>1, <2>2
<1> DEFINE sum == cyclicBufferOffsetIndex + Delta
<1>2. sum \in Int
  BY <1>1 DEF TypeOK
<1>3. OffsetIndexAfter(Delta) = IF sum >= 0 THEN Slot(sum) ELSE -Slot(-sum)
  BY DEF OffsetIndexAfter
<1> HIDE DEF sum
<1>4. Slot(sum) \in Int /\ -Slot(-sum) \in Int
  <2>1. Slot(sum) \in Slots /\ Slot(-sum) \in Slots
    BY <1>2, SlotDivides
  <2>2. QED
    BY <2>1, ConstantsAssumption DEF Slots
<1>5. QED
  BY <1>1, <1>3, <1>4

\* While a tee is open, the window moves up to the slowest of them.
LEMMA DeltaToSlowest ==
  ASSUME WindowHoldsUnreadBytes, OpenTees # {}
  PROVE  /\ Delta \in 0 .. cyclicBufferValidSize
         /\ \A i \in OpenTees : cyclicBufferOffset + Delta <= offset[i]
         /\ OffsetIndexAfter(Delta) = Slot(cyclicBufferOffsetIndex + Delta)
<1> DEFINE i == CHOOSE i \in OpenTees : \A h \in OpenTees : offset[i] <= offset[h]
<1> TypeOK /\ Window
  BY DEF WindowHoldsUnreadBytes
<1>1. i \in OpenTees /\ \A h \in OpenTees : offset[i] <= offset[h]
  BY SlowestTee
<1>2. /\ cyclicBufferOffset \in Int /\ sourcePos \in Int /\ cyclicBufferValidSize \in Int
      /\ cyclicBufferOffsetIndex \in Nat
      /\ \A h \in OpenTees : offset[h] \in cyclicBufferOffset .. sourcePos
  BY ConstantsAssumption DEF TypeOK, WindowHoldsUnreadBytes, Window, Slots
<1>3. Delta = IF offset[i] > cyclicBufferOffset THEN offset[i] - cyclicBufferOffset ELSE 0
  BY DEF Delta
<1> HIDE DEF i
<1>4. offset[i] \in cyclicBufferOffset .. sourcePos
  BY <1>1, <1>2
<1>5. Delta = offset[i] - cyclicBufferOffset
  BY <1>2, <1>3, <1>4
<1>6. cyclicBufferOffset + cyclicBufferValidSize = sourcePos
  BY DEF Window
<1>7. Delta \in 0 .. cyclicBufferValidSize
  BY <1>2, <1>4, <1>5, <1>6
<1>8. cyclicBufferOffset + Delta = offset[i]
  BY <1>2, <1>4, <1>5
<1>9. OffsetIndexAfter(Delta) = Slot(cyclicBufferOffsetIndex + Delta)
  <2>1. cyclicBufferOffsetIndex + Delta >= 0
    BY <1>2, <1>7
  <2>2. QED
    BY <2>1 DEF OffsetIndexAfter
<1>10. QED
  BY <1>1, <1>7, <1>8, <1>9

\* n bytes are taken from the source and written after the valid ones.
Takes(n) ==
  LET valid == cyclicBufferValidSize - Delta IN
    /\ n \in 0 .. SourceLen - sourcePos
    /\ cyclicBufferValidSize' = valid + n
    /\ sourcePos' = sourcePos + n
    /\ \/ n = 0 /\ cyclicBuffer' = cyclicBuffer
       \/ n <= BufferSize - valid /\ cyclicBuffer' = Filled(cyclicBufferOffsetIndex' + valid, n)

LEMMA ReadCountsType ==
  ASSUME NEW len \in Int, NEW pos \in 0 .. SourceLen, NEW count \in ReadCounts(len, pos)
  PROVE  /\ Bytes(count) \in 0 .. SourceLen - pos
         /\ len > 0 => Bytes(count) <= len
         /\ len <= 0 => count = 0
         /\ count = EndOfSource => pos = SourceLen /\ Bytes(count) = 0
         /\ count # EndOfSource => count = Bytes(count)
BY ConstantsAssumption DEF ReadCounts, Bytes, EndOfSource, SmallerOf

LEMMA FillTakes ==
  ASSUME NEW index \in Int, NEW valid \in Int, valid < BufferSize, sourcePos \in 0 .. SourceLen,
         FillBuffer(index, valid)
  PROVE  /\ sourceComplete' \in BOOLEAN
         /\ sourceComplete' => sourcePos' = SourceLen
         /\ \E n \in 0 .. SourceLen - sourcePos :
              /\ n <= BufferSize - valid
              /\ cyclicBufferValidSize' = valid + n
              /\ sourcePos' = sourcePos + n
              /\ cyclicBuffer' = Filled(index + valid, n)
<1> DEFINE readOffset == index + valid
           readLen == BufferSize - valid
           len1 == SmallerOf(BufferSize - readOffset, readLen)
<1>1. PICK first \in ReadCounts(len1, sourcePos) :
        LET wrapLen == IF first # EndOfSource /\ readOffset + first >= BufferSize THEN readLen - first ELSE 0
        IN  \E second \in ReadCounts(wrapLen, sourcePos + Bytes(first)) :
              LET n == Bytes(first) + Bytes(second) IN
                /\ cyclicBuffer' = Filled(readOffset, n)
                /\ cyclicBufferValidSize' = valid + n
                /\ sourcePos' = sourcePos + n
                /\ sourceComplete' = (SaysEnd(first) \/ SaysEnd(second))
  BY DEF FillBuffer
<1> DEFINE wrapLen == IF first # EndOfSource /\ readOffset + first >= BufferSize THEN readLen - first ELSE 0
<1>2. PICK second \in ReadCounts(wrapLen, sourcePos + Bytes(first)) :
        LET n == Bytes(first) + Bytes(second) IN
          /\ cyclicBuffer' = Filled(readOffset, n)
          /\ cyclicBufferValidSize' = valid + n
          /\ sourcePos' = sourcePos + n
          /\ sourceComplete' = (SaysEnd(first) \/ SaysEnd(second))
  BY <1>1
<1> DEFINE n == Bytes(first) + Bytes(second)
<1>3. readLen \in Nat \ {0} /\ readOffset \in Int /\ len1 \in Int /\ len1 <= readLen /\ sourcePos \in Int
      /\ SourceLen \in Int
  BY ConstantsAssumption DEF SmallerOf
<1>4. /\ Bytes(first) \in 0 .. SourceLen - sourcePos
      /\ len1 > 0 => Bytes(first) <= len1
      /\ len1 <= 0 => first = 0
      /\ first = EndOfSource => sourcePos = SourceLen /\ Bytes(first) = 0
      /\ first # EndOfSource => first = Bytes(first)
  BY <1>3, ReadCountsType
<1>5. Bytes(first) \in Int /\ Bytes(first) <= readLen
  BY <1>3, <1>4 DEF EndOfSource
<1>6. wrapLen \in Int /\ wrapLen <= readLen - Bytes(first) /\ (first = EndOfSource => wrapLen = 0)
      /\ (wrapLen <= 0 => wrapLen = 0)
  BY <1>3, <1>4, <1>5 DEF EndOfSource
<1> HIDE DEF wrapLen, len1
<1>7. sourcePos + Bytes(first) \in 0 .. SourceLen
  BY <1>3, <1>4, <1>5
<1>8. /\ Bytes(second) \in 0 .. SourceLen - (sourcePos + Bytes(first))
      /\ wrapLen > 0 => Bytes(second) <= wrapLen
      /\ wrapLen <= 0 => second = 0
      /\ second = EndOfSource => sourcePos + Bytes(first) = SourceLen /\ Bytes(second) = 0
      /\ second # EndOfSource => second = Bytes(second)
  BY <1>2, <1>6, <1>7, ReadCountsType
<1>9. n \in 0 .. SourceLen - sourcePos /\ n <= readLen
  BY <1>3, <1>4, <1>5, <1>6, <1>8 DEF EndOfSource
<1>10. SaysEnd(first) \/ SaysEnd(second) => sourcePos + n = SourceLen
  BY <1>3, <1>4, <1>5, <1>6, <1>8 DEF SaysEnd, EndOfSource
<1>11. sourceComplete' \in BOOLEAN
  BY <1>2 DEF SaysEnd
<1>12. QED
  BY <1>2, <1>9, <1>10, <1>11

\* A round of the pump, whether source.read throws in it or not
LEMMA PumpRound ==
  ASSUME TypeOK, SourceInv, Loop \/ LoopFails
  PROVE  /\ cyclicBufferOffset' = cyclicBufferOffset + Delta
         /\ cyclicBufferOffsetIndex' = OffsetIndexAfter(Delta)
         /\ \E n \in Int : Takes(n)
         /\ SourceInv' /\ sourceComplete' \in BOOLEAN
         /\ UNCHANGED <<allClosed, readerVars, closed>>
         /\ pc' \in {"ended", "check", "failed"} /\ (UNCHANGED waiting \/ waiting' = NoOneWaits)
<1> DEFINE valid == cyclicBufferValidSize - Delta
<1>1. Delta \in Int /\ OffsetIndexAfter(Delta) \in Int /\ valid \in Int
  BY DeltaType DEF TypeOK
<1>2. sourcePos \in 0 .. SourceLen /\ BufferSize \in Nat \ {0} /\ SourceLen \in Nat
  BY ConstantsAssumption DEF TypeOK
<1>3. /\ cyclicBufferOffset' = cyclicBufferOffset + Delta
      /\ cyclicBufferOffsetIndex' = OffsetIndexAfter(Delta)
      /\ UNCHANGED <<allClosed, readerVars, closed>>
      /\ pc' \in {"ended", "check", "failed"} /\ (UNCHANGED waiting \/ waiting' = NoOneWaits)
  BY DEF Loop, LoopFails, UpdateOffsets, NotifyAll
<1>4. CASE Loop /\ ~sourceComplete /\ valid < BufferSize
  <2>1. FillBuffer(cyclicBufferOffsetIndex', valid)
    BY <1>4 DEF Loop
  <2> HIDE DEF valid
  <2>2. /\ sourceComplete' \in BOOLEAN
        /\ sourceComplete' => sourcePos' = SourceLen
        /\ \E n \in 0 .. SourceLen - sourcePos :
             /\ n <= BufferSize - valid
             /\ cyclicBufferValidSize' = valid + n
             /\ sourcePos' = sourcePos + n
             /\ cyclicBuffer' = Filled(cyclicBufferOffsetIndex' + valid, n)
    BY <1>1, <1>2, <1>3, <1>4, <2>1, FillTakes
  <2>3. \E n \in Int : Takes(n)
    BY <1>2, <2>2 DEF Takes, valid
  <2>4. QED
    BY <1>3, <2>2, <2>3 DEF SourceInv
<1>5. CASE Loop /\ ~(~sourceComplete /\ valid < BufferSize)
  <2>1. cyclicBufferValidSize' = valid /\ UNCHANGED <<cyclicBuffer, sourcePos, sourceComplete>>
    BY <1>5 DEF Loop
  <2>2. Takes(0)
    BY <1>1, <1>2, <2>1 DEF Takes
  <2>3. QED
    BY <1>3, <2>1, <2>2 DEF SourceInv, TypeOK
<1>6. CASE LoopFails
  <2>1. ~sourceComplete /\ sourceComplete' = sourceComplete /\ valid < BufferSize
    BY <1>6 DEF LoopFails
  <2> DEFINE toTheEnd == BufferSize - (cyclicBufferOffsetIndex' + valid)
  <2>2. PICK n \in {0} \cup ({toTheEnd} \cap (1 .. SourceLen - sourcePos)) :
          /\ n < BufferSize - valid
          /\ cyclicBuffer' = Filled(cyclicBufferOffsetIndex' + valid, n)
          /\ cyclicBufferValidSize' = valid + n
          /\ sourcePos' = sourcePos + n
    BY <1>6 DEF LoopFails
  <2>3. n \in 0 .. SourceLen - sourcePos /\ n \in Int
    BY <1>2
  <2>4. Takes(n)
    BY <1>1, <1>2, <2>2, <2>3 DEF Takes
  <2>5. QED
    BY <1>3, <2>1, <2>3, <2>4 DEF SourceInv, TypeOK
<1>7. QED
  BY <1>4, <1>5, <1>6

\* While a tee is open, the window the pump leaves is one that no tee has read beyond.
LEMMA PumpedWindow ==
  ASSUME WindowHoldsUnreadBytes, NEW n \in Int, Takes(n), OpenTees # {},
         cyclicBufferOffset' = cyclicBufferOffset + Delta,
         cyclicBufferOffsetIndex' = OffsetIndexAfter(Delta)
  PROVE  /\ Window'
         /\ \A i \in OpenTees : offset[i] \in cyclicBufferOffset' .. sourcePos'
<1> DEFINE valid == cyclicBufferValidSize - Delta
<1> TypeOK /\ Window
  BY DEF WindowHoldsUnreadBytes
<1>1. /\ Delta \in 0 .. cyclicBufferValidSize
      /\ \A i \in OpenTees : cyclicBufferOffset + Delta <= offset[i]
      /\ OffsetIndexAfter(Delta) = Slot(cyclicBufferOffsetIndex + Delta)
  BY DeltaToSlowest
<1>2. /\ cyclicBufferOffset \in Int /\ sourcePos \in Int /\ cyclicBufferValidSize \in Int /\ BufferSize \in Int
      /\ sourcePos = cyclicBufferOffset + cyclicBufferValidSize /\ Delta \in Int /\ valid \in Int
  BY <1>1, ConstantsAssumption DEF TypeOK, Window
<1>3. Holds(cyclicBuffer, cyclicBufferOffsetIndex, cyclicBufferValidSize, cyclicBufferOffset)
  BY DEF Holds, Window
<1>4. Holds(cyclicBuffer, cyclicBufferOffsetIndex', valid, cyclicBufferOffset')
  BY <1>1, <1>2, <1>3, AdvancedWindow
<1>5. /\ n \in 0 .. SourceLen - sourcePos
      /\ cyclicBufferValidSize' = valid + n /\ sourcePos' = sourcePos + n
      /\ \/ n = 0 /\ cyclicBuffer' = cyclicBuffer
         \/ n <= BufferSize - valid /\ cyclicBuffer' = Filled(cyclicBufferOffsetIndex' + valid, n)
  BY DEF Takes
<1>6. sourcePos = cyclicBufferOffset' + valid /\ cyclicBufferOffset' \in Int
  BY <1>2
<1> HIDE DEF valid
<1>7. Holds(cyclicBuffer', cyclicBufferOffsetIndex', valid + n, cyclicBufferOffset')
  <2>1. CASE n = 0 /\ cyclicBuffer' = cyclicBuffer
    <3>1. valid + n = valid
      BY <1>2, <2>1
    <3>2. QED
      BY <1>4, <2>1, <3>1
  <2>2. CASE n <= BufferSize - valid /\ cyclicBuffer' = Filled(cyclicBufferOffsetIndex' + valid, n)
    <3>1. n \in 0 .. BufferSize - valid
      BY <1>2, <1>5, <2>2
    <3>2. Holds(Filled(cyclicBufferOffsetIndex' + valid, n), cyclicBufferOffsetIndex', valid + n,
                cyclicBufferOffset')
      BY <1>2, <1>4, <1>6, <3>1, FilledWindow
    <3>3. QED
      BY <2>2, <3>2
  <2>3. QED
    BY <1>5, <2>1, <2>2
<1>8. cyclicBufferOffset' + cyclicBufferValidSize' = sourcePos'
  BY <1>2, <1>5, <1>6
<1>9. \A i \in OpenTees : offset[i] \in cyclicBufferOffset' .. sourcePos'
  <2> SUFFICES ASSUME NEW i \in OpenTees PROVE offset[i] \in cyclicBufferOffset' .. sourcePos'
    OBVIOUS
  <2>1. offset[i] \in cyclicBufferOffset .. sourcePos /\ cyclicBufferOffset + Delta <= offset[i]
    BY <1>1 DEF WindowHoldsUnreadBytes
  <2>2. QED
    BY <1>2, <1>5, <2>1
<1>10. QED
  BY <1>5, <1>7, <1>8, <1>9 DEF Holds, Window

-----------------------------------------------------------------------------
(* The readers.                                                            *)

\* What an open tee finds in the buffer k bytes after its offset
LEMMA UnreadByte ==
  ASSUME WindowHoldsUnreadBytes, NEW i \in OpenTees, NEW k \in Nat, k < MaxNonblockingReadLength(i)
  PROVE  cyclicBuffer[ReadOffset(i, k)] = offset[i] + k
<1> TypeOK /\ Window /\ i \in Tees
  BY DEF WindowHoldsUnreadBytes, OpenTees
<1> DEFINE j == offset[i] - cyclicBufferOffset + k
<1>1. /\ cyclicBufferOffset \in Int /\ sourcePos \in Int /\ cyclicBufferValidSize \in Int /\ offset[i] \in Int
      /\ cyclicBufferOffsetIndex \in Int /\ offset[i] >= cyclicBufferOffset
  BY ConstantsAssumption DEF TypeOK, WindowHoldsUnreadBytes, Window, Slots
<1>2. j \in 0 .. cyclicBufferValidSize - 1
  BY <1>1 DEF MaxNonblockingReadLength
<1>3. cyclicBuffer[Slot(cyclicBufferOffsetIndex + j)] = cyclicBufferOffset + j
  BY <1>2 DEF Window
<1>4. /\ cyclicBufferOffsetIndex + j = offset[i] - cyclicBufferOffset + cyclicBufferOffsetIndex + k
      /\ cyclicBufferOffset + j = offset[i] + k
  BY <1>1
<1>5. QED
  BY <1>3, <1>4 DEF ReadOffset

\* A read returns the next n bytes of the source, all of them in the window.
Returns(i, n) ==
  /\ n \in 1 .. MaxNonblockingReadLength(i)
  /\ offset' = [offset EXCEPT ![i] = @ + n]
  /\ received' = [received EXCEPT ![i] = @ \o [k \in 1 .. n |-> offset[i] + k - 1]]
  /\ UNCHANGED <<bufferVars, closed, eof>>

LEMMA ReadReturns ==
  ASSUME WindowHoldsUnreadBytes, NEW i \in OpenTees,
         ReadByte(i) \/ \E len \in 1 .. BufferSize + 1 : ReadBytes(i, len)
  PROVE  \/ \E n \in Nat : Returns(i, n)
         \/ offset[i] \in HighBytes /\ eof' = [eof EXCEPT ![i] = @ \cup {offset[i]}]
            /\ UNCHANGED <<bufferVars, closed, offset, received>>
<1> TypeOK /\ Window /\ i \in Tees
  BY DEF WindowHoldsUnreadBytes, OpenTees
<1>1. offset[i] \in Nat /\ MaxNonblockingReadLength(i) \in Int /\ received[i] \in Seq(Int)
  BY DEF TypeOK, MaxNonblockingReadLength
<1>2. CASE ReadByte(i)
  <2>1. MaxNonblockingReadLength(i) > 0
    BY <1>2 DEF ReadByte
  <2>2. cyclicBuffer[ReadOffset(i, 0)] = offset[i]
    BY <1>1, <2>1, UnreadByte
  <2>3. CASE offset[i] \in HighBytes
    BY <1>2, <2>2, <2>3 DEF ReadByte
  <2>4. CASE offset[i] \notin HighBytes
    <3>1. /\ offset' = [offset EXCEPT ![i] = @ + 1]
          /\ received' = [received EXCEPT ![i] = Append(@, offset[i])]
          /\ UNCHANGED <<bufferVars, closed, eof>>
      BY <1>2, <2>2, <2>4 DEF ReadByte
    <3>2. Append(received[i], offset[i]) = received[i] \o [k \in 1 .. 1 |-> offset[i] + k - 1]
      <4>1. [k \in 1 .. 1 |-> offset[i] + k - 1] = <<offset[i]>>
        BY <1>1
      <4>2. QED
        BY <1>1, <4>1, AppendIsConcat
    <3>3. received' = [received EXCEPT ![i] = @ \o [k \in 1 .. 1 |-> offset[i] + k - 1]]
      BY <3>1, <3>2
    <3>4. 1 \in 1 .. MaxNonblockingReadLength(i)
      BY <1>1, <2>1
    <3>5. Returns(i, 1)
      BY <3>1, <3>3, <3>4 DEF Returns
    <3>6. QED
      BY <3>5
  <2>5. QED
    BY <2>3, <2>4
<1>3. ASSUME NEW len \in 1 .. BufferSize + 1, ReadBytes(i, len)
      PROVE  \E n \in Nat : Returns(i, n)
  <2> DEFINE n == SmallerOf(len, MaxNonblockingReadLength(i))
  <2>1. n \in 1 .. MaxNonblockingReadLength(i) /\ n \in Nat
    BY <1>1, <1>3 DEF ReadBytes, SmallerOf
  <2>2. /\ offset' = [offset EXCEPT ![i] = @ + n]
        /\ received' = [received EXCEPT ![i] = @ \o [k \in 1 .. n |-> cyclicBuffer[ReadOffset(i, k - 1)]]]
        /\ UNCHANGED <<bufferVars, closed, eof>>
    BY <1>3 DEF ReadBytes
  <2> HIDE DEF n
  <2>3. \A k \in 1 .. n : cyclicBuffer[ReadOffset(i, k - 1)] = offset[i] + k - 1
    <3> SUFFICES ASSUME NEW k \in 1 .. n PROVE cyclicBuffer[ReadOffset(i, k - 1)] = offset[i] + k - 1
      OBVIOUS
    <3>1. k - 1 \in Nat /\ k - 1 < MaxNonblockingReadLength(i)
      BY <1>1, <2>1
    <3>2. cyclicBuffer[ReadOffset(i, k - 1)] = offset[i] + (k - 1)
      BY <3>1, UnreadByte
    <3>3. QED
      BY <1>1, <2>1, <3>2
  <2>4. [k \in 1 .. n |-> cyclicBuffer[ReadOffset(i, k - 1)]] = [k \in 1 .. n |-> offset[i] + k - 1]
    BY <2>3
  <2>5. Returns(i, n)
    BY <2>1, <2>2, <2>4 DEF Returns
  <2>6. QED
    BY <2>1, <2>5
<1>4. QED
  BY <1>2, <1>3

\* The end that a tee is told of when nothing is left is the source's.
LEMMA EndIsEnd ==
  ASSUME IInv, NEW i \in OpenTees, ReadAtEnd(i)
  PROVE  offset[i] = SourceLen
<1> TypeOK /\ Window
  BY DEF IInv, WindowHoldsUnreadBytes
<1>1. sourcePos = SourceLen
  BY DEF ReadAtEnd, IInv, SourceInv
<1>2. offset[i] \in cyclicBufferOffset .. sourcePos /\ cyclicBufferOffset + cyclicBufferValidSize = sourcePos
  BY DEF IInv, WindowHoldsUnreadBytes, Window
<1>3. QED
  BY <1>1, <1>2 DEF ReadAtEnd, MaxNonblockingReadLength, TypeOK

-----------------------------------------------------------------------------
(* Invariance.                                                             *)

LEMMA InitialInv == Init => IInv
<1> SUFFICES ASSUME Init PROVE IInv
  OBVIOUS
<1>1. TypeOK
  <2>1. received \in [Tees -> Seq(Int)] /\ eof \in [Tees -> SUBSET Nat]
    BY DEF Init
  <2>2. cyclicBuffer \in [Slots -> Int] /\ waiting \in [Tees -> BOOLEAN] /\ closed \in [Tees -> BOOLEAN]
    BY DEF Init, NoByte, NoOneWaits
  <2>3. offset \in [Tees -> Nat] /\ sourcePos \in 0 .. SourceLen
    BY ConstantsAssumption DEF Init
  <2>4. cyclicBufferOffsetIndex = 0 /\ cyclicBufferOffset = 0 /\ cyclicBufferValidSize = 0 /\ pc = "check"
        /\ sourceComplete = FALSE /\ allClosed = FALSE
    BY DEF Init
  <2>5. sourceComplete \in BOOLEAN /\ allClosed \in BOOLEAN
    BY <2>4
  <2>6. cyclicBufferOffsetIndex \in Int /\ cyclicBufferOffset \in Int /\ cyclicBufferValidSize \in Int
        /\ pc \in {"check", "loop", "ended", "failed"}
    BY <2>4
  <2>7. QED
    BY <2>1, <2>2, <2>3, <2>5, <2>6 DEF TypeOK
<1>2. Window /\ \A i \in Tees : offset[i] \in cyclicBufferOffset .. sourcePos
  BY ConstantsAssumption DEF Init, Window, Slots
<1>3. WindowHoldsUnreadBytes
  BY <1>1, <1>2 DEF WindowHoldsUnreadBytes, OpenTees
<1>4. \A i \in Tees : received[i] = [k \in 1 .. offset[i] |-> k - 1]
  <2>1. \A i \in Tees : received[i] = <<>> /\ offset[i] = 0
    BY DEF Init
  <2>2. [k \in 1 .. 0 |-> k - 1] = <<>>
    OBVIOUS
  <2>3. QED
    BY <2>1, <2>2
<1>5. QED
  BY <1>3, <1>4 DEF IInv, SourceInv, HistoryInv, Init

\* The bytes before an offset, and the n after it
LEMMA BytesFollow ==
  ASSUME NEW m \in Nat, NEW n \in Nat
  PROVE  [k \in 1 .. m |-> k - 1] \o [k \in 1 .. n |-> m + k - 1] = [k \in 1 .. m + n |-> k - 1]
<1> DEFINE s == [k \in 1 .. m |-> k - 1]
           t == [k \in 1 .. n |-> m + k - 1]
           u == [k \in 1 .. m + n |-> k - 1]
<1>1. s \in Seq(Int) /\ t \in Seq(Int) /\ u \in Seq(Int) /\ Len(s) = m /\ Len(t) = n /\ Len(u) = m + n
  OBVIOUS
<1>2. /\ s \o t \in Seq(Int)
      /\ Len(s \o t) = m + n
      /\ \A k \in 1 .. m + n : (s \o t)[k] = IF k <= m THEN s[k] ELSE t[k - m]
  BY <1>1, ConcatProperties
<1>3. ASSUME NEW k \in 1 .. m + n
      PROVE  (s \o t)[k] = u[k]
  <2>1. CASE k <= m
    BY <1>2, <2>1
  <2>2. CASE ~(k <= m)
    <3>1. k - m \in 1 .. n /\ m + (k - m) - 1 = k - 1
      BY <2>2
    <3>2. t[k - m] = k - 1
      BY <3>1
    <3>3. QED
      BY <1>2, <2>2, <3>2
  <2>3. QED
    BY <2>1, <2>2
<1> HIDE DEF s, t, u
<1>4. s \o t = u
  BY <1>1, <1>2, <1>3, SeqEqual
<1>5. QED
  BY <1>4 DEF s, t, u

LEMMA PumpInvariance ==
  ASSUME IInv, Loop \/ LoopFails
  PROVE  IInv'
<1> TypeOK /\ WindowHoldsUnreadBytes /\ SourceInv
  BY DEF IInv, WindowHoldsUnreadBytes
<1>1. /\ cyclicBufferOffset' = cyclicBufferOffset + Delta
      /\ cyclicBufferOffsetIndex' = OffsetIndexAfter(Delta)
      /\ SourceInv' /\ sourceComplete' \in BOOLEAN
      /\ UNCHANGED <<allClosed, readerVars, closed>>
      /\ pc' \in {"ended", "check", "failed"} /\ (UNCHANGED waiting \/ waiting' = NoOneWaits)
  BY PumpRound
<1>2. PICK n \in Int : Takes(n)
  BY PumpRound
<1>3. TypeOK'
  <2>1. Delta \in Int /\ OffsetIndexAfter(Delta) \in Int
    BY DeltaType
  <2>2. /\ cyclicBufferValidSize' = cyclicBufferValidSize - Delta + n
        /\ sourcePos' = sourcePos + n /\ n \in 0 .. SourceLen - sourcePos
    BY <1>2 DEF Takes
  <2>3. cyclicBufferValidSize' \in Int /\ sourcePos' \in 0 .. SourceLen
    BY <2>1, <2>2, ConstantsAssumption DEF TypeOK
  <2>4. cyclicBuffer' \in [Slots -> Int]
    <3>1. ASSUME NEW start \in Int
          PROVE  Filled(start, n) \in [Slots -> Int]
      <4>1. ASSUME NEW j \in Slots
            PROVE  Slot(j + BufferSize - Slot(start)) \in Int /\ cyclicBuffer[j] \in Int /\ sourcePos \in Int
        <5>1. j \in Int /\ BufferSize \in Int /\ Slot(start) \in Int
          BY SlotDivides, ConstantsAssumption DEF Slots
        <5>2. Slot(j + BufferSize - Slot(start)) \in Slots
          BY <5>1, SlotDivides
        <5>3. QED
          BY <5>1, <5>2 DEF Slots, TypeOK
      <4>2. QED
        BY <4>1 DEF Filled
    <3>2. cyclicBufferOffsetIndex' + (cyclicBufferValidSize - Delta) \in Int
      BY <1>1, <2>1 DEF TypeOK
    <3>3. QED
      BY <1>2, <3>1, <3>2 DEF Takes, TypeOK
  <2>5. waiting' \in [Tees -> BOOLEAN]
    BY <1>1 DEF TypeOK, NoOneWaits
  <2>6. QED
    BY <1>1, <2>1, <2>3, <2>4, <2>5 DEF TypeOK, readerVars
<1>4. \A i \in OpenTees' : Window' /\ offset'[i] \in cyclicBufferOffset' .. sourcePos'
  <2>1. OpenTees' = OpenTees /\ offset' = offset
    BY <1>1 DEF OpenTees, readerVars
  <2>2. QED
    BY <1>1, <1>2, <2>1, PumpedWindow
<1>5. HistoryInv'
  BY <1>1 DEF IInv, HistoryInv, readerVars
<1>6. QED
  BY <1>1, <1>3, <1>4, <1>5 DEF IInv, WindowHoldsUnreadBytes

LEMMA ReadInvariance ==
  ASSUME IInv, NEW i \in Tees, Read(i)
  PROVE  IInv'
<1> TypeOK /\ WindowHoldsUnreadBytes /\ SourceInv /\ HistoryInv
  BY DEF IInv, WindowHoldsUnreadBytes
<1>1. i \in OpenTees
  BY DEF Read, ReadByte, ReadBytes, ReadAtEnd, ReadWaits, OpenTees
<1>2. /\ UNCHANGED <<bufferVars, pumpVars, closed>>
      /\ waiting' \in [Tees -> BOOLEAN]
  <2>1. UNCHANGED <<bufferVars, pumpVars, closed>>
    BY DEF Read, ReadByte, ReadBytes, ReadAtEnd, ReadWaits
  <2>2. waiting' = NoOneWaits \/ waiting' = [waiting EXCEPT ![i] = TRUE]
    BY DEF Read, ReadByte, ReadBytes, ReadAtEnd, ReadWaits, NotifyAll
  <2>3. QED
    BY <2>1, <2>2 DEF NoOneWaits, TypeOK
<1>3. ASSUME offset' \in [Tees -> Nat], received' \in [Tees -> Seq(Int)], eof' \in [Tees -> SUBSET Nat],
             HistoryInv', \A h \in OpenTees : offset'[h] \in cyclicBufferOffset .. sourcePos
      PROVE  IInv'
  <2>1. TypeOK'
    BY <1>2, <1>3 DEF TypeOK, bufferVars, pumpVars
  <2>2. Window' /\ SourceInv' /\ OpenTees' = OpenTees
    BY <1>1, <1>2 DEF WindowHoldsUnreadBytes, Window, SourceInv, OpenTees, bufferVars
  <2>3. UNCHANGED <<cyclicBufferOffset, sourcePos>>
    BY <1>2 DEF bufferVars
  <2>4. QED
    BY <1>3, <2>1, <2>2, <2>3 DEF IInv, WindowHoldsUnreadBytes
<1>4. ASSUME UNCHANGED <<offset, received>>, eof' \in [Tees -> SUBSET Nat]
      PROVE  IInv'
  BY <1>3, <1>4 DEF TypeOK, HistoryInv, WindowHoldsUnreadBytes
<1>5. ASSUME NEW n \in Nat, Returns(i, n)
      PROVE  IInv'
  <2> DEFINE m == offset[i]
             bytes == [k \in 1 .. n |-> m + k - 1]
  <2>1. /\ m \in Nat /\ received[i] \in Seq(Int) /\ n \in 1 .. MaxNonblockingReadLength(i)
        /\ offset' = [offset EXCEPT ![i] = m + n]
        /\ received' = [received EXCEPT ![i] = received[i] \o bytes]
        /\ eof' = eof
    BY <1>5 DEF Returns, TypeOK
  <2>2. received[i] = [k \in 1 .. m |-> k - 1]
    BY DEF HistoryInv
  <2>3. received[i] \o bytes = [k \in 1 .. m + n |-> k - 1]
    BY <2>1, <2>2, BytesFollow
  <2>4. [k \in 1 .. m + n |-> k - 1] \in Seq(Int)
    <3>1. m + n \in Nat
      BY <2>1
    <3>2. \A l \in Nat : [k \in 1 .. l |-> k - 1] \in Seq(Int)
      OBVIOUS
    <3>3. QED
      BY <3>1, <3>2
  <2>5. m + n \in cyclicBufferOffset .. sourcePos
    <3>1. m \in cyclicBufferOffset .. sourcePos /\ cyclicBufferOffset + cyclicBufferValidSize = sourcePos
      BY <1>1 DEF WindowHoldsUnreadBytes, Window
    <3>2. n <= cyclicBufferValidSize - (m - cyclicBufferOffset)
      BY <2>1 DEF MaxNonblockingReadLength, TypeOK
    <3>3. QED
      BY <2>1, <3>1, <3>2 DEF TypeOK
  <2> HIDE DEF m, bytes
  <2>6. offset' \in [Tees -> Nat] /\ received' \in [Tees -> Seq(Int)] /\ eof' \in [Tees -> SUBSET Nat]
    BY <2>1, <2>3, <2>4 DEF TypeOK
  <2>7. HistoryInv'
    <3> SUFFICES ASSUME NEW h \in Tees PROVE received'[h] = [k \in 1 .. offset'[h] |-> k - 1]
      BY DEF HistoryInv
    <3>1. CASE h = i
      BY <2>1, <2>3, <3>1 DEF TypeOK
    <3>2. CASE h # i
      BY <2>1, <3>2 DEF TypeOK, HistoryInv
    <3>3. QED
      BY <3>1, <3>2
  <2>8. \A h \in OpenTees : offset'[h] \in cyclicBufferOffset .. sourcePos
    BY <2>1, <2>5 DEF TypeOK, OpenTees, WindowHoldsUnreadBytes
  <2>9. QED
    BY <1>3, <2>6, <2>7, <2>8
<1>6. CASE ReadByte(i) \/ \E len \in 1 .. BufferSize + 1 : ReadBytes(i, len)
  <2>1. \/ \E n \in Nat : Returns(i, n)
        \/ offset[i] \in HighBytes /\ eof' = [eof EXCEPT ![i] = @ \cup {offset[i]}]
           /\ UNCHANGED <<bufferVars, closed, offset, received>>
    BY <1>1, <1>6, ReadReturns
  <2>2. QED
    <3>1. eof \in [Tees -> SUBSET Nat] /\ offset[i] \in Nat
      BY DEF TypeOK
    <3>2. [eof EXCEPT ![i] = @ \cup {offset[i]}] \in [Tees -> SUBSET Nat]
      BY <3>1
    <3>3. QED
      BY <1>4, <1>5, <2>1, <3>2
<1>7. CASE ReadAtEnd(i) \/ ReadWaits(i)
  <2>1. eof \in [Tees -> SUBSET Nat] /\ offset[i] \in Nat
    BY DEF TypeOK
  <2>2. UNCHANGED <<offset, received>> /\ eof' \in [Tees -> SUBSET Nat]
    BY <1>7, <2>1 DEF ReadAtEnd, ReadWaits, readerVars
  <2>3. QED
    BY <1>4, <2>2
<1>8. QED
  BY <1>6, <1>7 DEF Read

LEMMA StepInvariance ==
  ASSUME IInv, [Next]_vars
  PROVE  IInv'
<1> TypeOK /\ WindowHoldsUnreadBytes /\ SourceInv /\ HistoryInv
  BY DEF IInv, WindowHoldsUnreadBytes
<1>1. CASE CheckClosed
  <2>1. TypeOK'
    BY <1>1 DEF CheckClosed, AllClosed, TypeOK, bufferVars, readerVars
  <2>2. QED
    BY <1>1, <2>1
       DEF CheckClosed, IInv, WindowHoldsUnreadBytes, Window, SourceInv, HistoryInv, OpenTees, bufferVars, readerVars
<1>2. CASE Loop \/ LoopFails
  BY <1>2, PumpInvariance
<1>3. ASSUME NEW i \in Tees, Read(i)
      PROVE  IInv'
  BY <1>3, ReadInvariance
<1>4. ASSUME NEW i \in Tees, Close(i)
      PROVE  IInv'
  <2>1. TypeOK' /\ OpenTees' \subseteq OpenTees
    BY <1>4 DEF Close, NotifyAll, NoOneWaits, TypeOK, OpenTees, bufferVars, pumpVars, readerVars
  <2>2. QED
    BY <1>4, <2>1 DEF Close, IInv, WindowHoldsUnreadBytes, Window, SourceInv, HistoryInv, bufferVars, readerVars
<1>5. CASE UNCHANGED vars
  BY <1>5 DEF vars, IInv, WindowHoldsUnreadBytes, TypeOK, Window, SourceInv, HistoryInv, OpenTees, bufferVars,
              pumpVars, readerVars
<1>6. QED
  BY <1>1, <1>2, <1>3, <1>4, <1>5 DEF Next, Pump

LEMMA Invariance == Spec => []IInv
<1>1. IInv /\ [Next]_vars => IInv'
  BY StepInvariance
<1>2. QED
  BY <1>1, InitialInv, PTL DEF Spec

(***************************************************************************)
(* While a tee is open, the buffer holds what it has not read: no unread   *)
(* byte is overwritten, and readInternal's "attempting to read previous    *)
(* data" is never thrown, for any buffer, source and readers.              *)
(***************************************************************************)
THEOREM UnreadBytesAreHeld == Spec => []WindowHoldsUnreadBytes
<1>1. IInv => WindowHoldsUnreadBytes
  BY DEF IInv
<1>2. QED
  BY <1>1, Invariance, PTL

-----------------------------------------------------------------------------
(* The refinement.                                                         *)

LEMMA PumpRefines ==
  ASSUME IInv, IInv', Loop \/ LoopFails
  PROVE  [Streams!Next]_(Streams!vars)
<1> TypeOK /\ WindowHoldsUnreadBytes /\ SourceInv
  BY DEF IInv, WindowHoldsUnreadBytes
<1>1. UNCHANGED <<received, eof, closed, offset>>
  BY PumpRound DEF readerVars
<1>2. PICK n \in Int : n \in 0 .. SourceLen - sourcePos /\ sourcePos' = sourcePos + n
  BY PumpRound DEF Takes
<1>3. CASE n = 0
  BY <1>1, <1>2, <1>3 DEF Streams!vars, TypeOK
<1>4. CASE n # 0
  <2>1. n \in 1 .. SourceLen - sourcePos
    BY <1>2, <1>4
  <2>2. ASSUME NEW i \in Tees, ~closed[i]
        PROVE  sourcePos + n <= Len(received[i]) + BufferSize
    <3>1. i \in OpenTees' /\ offset' = offset
      BY <1>1, <2>2 DEF OpenTees
    <3>2. /\ cyclicBufferOffset' + cyclicBufferValidSize' = sourcePos'
          /\ cyclicBufferValidSize' \in 0 .. BufferSize
          /\ offset[i] \in cyclicBufferOffset' .. sourcePos'
      BY <3>1 DEF IInv, WindowHoldsUnreadBytes, Window
    <3>3. Len(received[i]) = offset[i] /\ offset[i] \in Nat
      BY DEF IInv, HistoryInv, TypeOK
    <3>4. cyclicBufferOffset' \in Int /\ BufferSize \in Int
      BY ConstantsAssumption DEF IInv, WindowHoldsUnreadBytes, TypeOK
    <3>5. QED
      BY <1>2, <3>2, <3>3, <3>4
  <2>3. Streams!Feed
    BY <1>1, <1>2, <2>1, <2>2 DEF Streams!Feed
  <2>4. QED
    BY <2>3 DEF Streams!Next
<1>5. QED
  BY <1>3, <1>4

LEMMA ReadRefines ==
  ASSUME IInv, NEW i \in Tees, Read(i)
  PROVE  [Streams!Next]_(Streams!vars)
<1> TypeOK /\ WindowHoldsUnreadBytes
  BY DEF IInv, WindowHoldsUnreadBytes
<1>1. i \in OpenTees /\ ~closed[i]
  BY DEF Read, ReadByte, ReadBytes, ReadAtEnd, ReadWaits, OpenTees
<1>2. Len(received[i]) = offset[i] /\ offset[i] \in Nat
  BY DEF IInv, HistoryInv, TypeOK
<1>3. ASSUME NEW n \in Nat, Returns(i, n)
      PROVE  Streams!Deliver(i)
  <2>1. n \in 1 .. sourcePos - Len(received[i])
    <3>1. n \in 1 .. cyclicBufferValidSize - (offset[i] - cyclicBufferOffset)
      BY <1>3 DEF Returns, MaxNonblockingReadLength
    <3>2. cyclicBufferOffset + cyclicBufferValidSize = sourcePos
      BY <1>1 DEF WindowHoldsUnreadBytes, Window
    <3>3. QED
      BY <1>2, <3>1, <3>2 DEF TypeOK
  <2>2. received' = [received EXCEPT ![i] = @ \o [k \in 1 .. n |-> Len(received[i]) + k - 1]]
    BY <1>2, <1>3 DEF Returns
  <2>3. QED
    BY <1>1, <1>3, <2>1, <2>2 DEF Returns, Streams!Deliver, bufferVars
<1>4. ASSUME offset[i] \in {SourceLen} \cup HighBytes, eof' = [eof EXCEPT ![i] = @ \cup {offset[i]}],
             UNCHANGED <<sourcePos, received, closed>>
      PROVE  Streams!EndOfStream(i)
  BY <1>1, <1>2, <1>4 DEF Streams!EndOfStream
<1>5. CASE ReadByte(i) \/ \E len \in 1 .. BufferSize + 1 : ReadBytes(i, len)
  <2>1. \/ \E n \in Nat : Returns(i, n)
        \/ offset[i] \in HighBytes /\ eof' = [eof EXCEPT ![i] = @ \cup {offset[i]}]
           /\ UNCHANGED <<bufferVars, closed, offset, received>>
    BY <1>1, <1>5, ReadReturns
  <2>2. Streams!Deliver(i) \/ Streams!EndOfStream(i)
    BY <1>3, <1>4, <2>1 DEF bufferVars
  <2>3. QED
    BY <2>2 DEF Streams!Next
<1>6. CASE ReadAtEnd(i)
  <2>1. offset[i] = SourceLen
    BY <1>1, <1>6, EndIsEnd
  <2>2. Streams!EndOfStream(i)
    BY <1>4, <1>6, <2>1 DEF ReadAtEnd, bufferVars
  <2>3. QED
    BY <2>2 DEF Streams!Next
<1>7. CASE ReadWaits(i)
  BY <1>7 DEF ReadWaits, Streams!vars, bufferVars, readerVars
<1>8. QED
  BY <1>5, <1>6, <1>7 DEF Read

(***************************************************************************)
(* The tee implements the streams it promises: every reader gets every     *)
(* byte of the source once and in order, is told of an end only where one  *)
(* is, or where a byte is 0xFF, and the pump is held back by the slowest.  *)
(***************************************************************************)
THEOREM StreamsAreImplemented == Spec => ImplementsStreams
<1>1. Init => Streams!Init
  BY DEF Init, Streams!Init
<1>2. IInv /\ IInv' /\ [Next]_vars => [Streams!Next]_(Streams!vars)
  <2> SUFFICES ASSUME IInv, IInv', [Next]_vars
               PROVE  [Streams!Next]_(Streams!vars)
    OBVIOUS
  <2>1. CASE CheckClosed
    BY <2>1 DEF CheckClosed, Streams!vars, bufferVars, readerVars
  <2>2. CASE Loop \/ LoopFails
    BY <2>2, PumpRefines
  <2>3. ASSUME NEW i \in Tees, Read(i)
        PROVE  [Streams!Next]_(Streams!vars)
    BY <2>3, ReadRefines
  <2>4. ASSUME NEW i \in Tees, Close(i)
        PROVE  [Streams!Next]_(Streams!vars)
    BY <2>4 DEF Close, Streams!Next, Streams!Close, bufferVars, readerVars
  <2>5. CASE UNCHANGED vars
    BY <2>5 DEF vars, Streams!vars, bufferVars, readerVars
  <2>6. QED
    BY <2>1, <2>2, <2>3, <2>4, <2>5 DEF Next, Pump
<1>3. QED
  BY <1>1, <1>2, Invariance, PTL DEF Spec, ImplementsStreams, Streams!Spec
=============================================================================
