---------------------------- MODULE TeeInputStream ----------------------------
(***************************************************************************)
(* TeeInputStream: one thread pumps a source into a cyclic buffer, several *)
(* threads read the buffer, each at its own pace, as if each had the       *)
(* source for itself.                                                      *)
(*                                                                         *)
(* Every method body is one synchronized block on cyclicBufferLock and is  *)
(* one action here, except that a read that finds nothing waits (which     *)
(* lets the lock go) until notifyAll.  A byte is its position in the       *)
(* source.                                                                 *)
(***************************************************************************)
EXTENDS Integers, Sequences

CONSTANTS
  Tees,            \* indices of the array tees
  BufferSize,      \* cyclicBuffer.length
  SourceLen,       \* bytes of the source
  HighBytes,       \* positions of the bytes 0xFF (every byte from 0x80 up is returned negative, but
                   \* only -1 is taken for the end)
  SourceMayFail    \* source.read may throw

ASSUME ConstantsAssumption ==
  /\ Tees # {}
  /\ BufferSize \in Nat \ {0}
  /\ SourceLen \in Nat
  /\ HighBytes \subseteq 0 .. SourceLen - 1
  /\ SourceMayFail \in BOOLEAN

VARIABLES
  cyclicBuffer,             \* cyclicBuffer[j]: a byte, or NoByte
  cyclicBufferOffsetIndex,
  cyclicBufferOffset,
  cyclicBufferValidSize,
  sourceComplete,
  sourcePos,                \* bytes read from the source
  pc,                       \* the pumping thread: "check", "loop", "ended", "failed"
  allClosed,
  offset,                   \* offset[i] of an open tee; a closed one's is not used
  closed,
  waiting,                  \* waiting[i]: in cyclicBufferLock.wait()
  received,                 \* history: bytes the reads of i returned
  eof                       \* history: offsets at which a read of i returned -1

bufferVars == <<cyclicBuffer, cyclicBufferOffsetIndex, cyclicBufferOffset,
                cyclicBufferValidSize, sourceComplete, sourcePos>>
pumpVars == <<pc, allClosed>>
readerVars == <<offset, received, eof>>
vars == <<bufferVars, pumpVars, readerVars, closed, waiting>>

NoByte == -1
EndOfSource == -1
Slots == 0 .. BufferSize - 1
Slot(n) == n % BufferSize
SmallerOf(m, n) == IF m <= n THEN m ELSE n
NoOneWaits == [i \in Tees |-> FALSE]

NotifyNone == UNCHANGED waiting                                         \* mutant
NotifyAll == waiting' = NoOneWaits

Init ==
  /\ cyclicBuffer = [j \in Slots |-> NoByte]
  /\ cyclicBufferOffsetIndex = 0
  /\ cyclicBufferOffset = 0
  /\ cyclicBufferValidSize = 0
  /\ sourceComplete = FALSE
  /\ sourcePos = 0
  /\ pc = "check"
  /\ allClosed = FALSE
  /\ offset = [i \in Tees |-> 0]
  /\ closed = [i \in Tees |-> FALSE]
  /\ waiting = NoOneWaits
  /\ received = [i \in Tees |-> <<>>]
  /\ eof = [i \in Tees |-> {}]

-----------------------------------------------------------------------------
(* The pumping thread: loopUntilTeesAreClosed.                             *)

OpenTees == {i \in Tees : ~closed[i]}

AllClosedAndRead == OpenTees = {} /\ sourceComplete                     \* mutant
AllClosed == OpenTees = {}

\* isClosed is read without the lock; a tee stays closed.
CheckClosed ==
  /\ pc = "check"
  /\ allClosed' = AllClosed
  /\ pc' = "loop"
  /\ UNCHANGED <<bufferVars, readerVars, closed, waiting>>

DeltaToFastest ==                                                      \* mutant
  IF OpenTees = {} THEN -1 - cyclicBufferOffset
  ELSE LET i == CHOOSE i \in OpenTees : \A h \in OpenTees : offset[i] >= offset[h]
       IN  offset[i] - cyclicBufferOffset

\* (int) (lowestOffset - cyclicBufferOffset).  With every tee closed
\* lowestOffset is Long.MAX_VALUE, and the cast keeps the low 32 bits of
\* 2^63 - 1 - cyclicBufferOffset, which are those of -1 - cyclicBufferOffset.
Delta ==
  IF OpenTees = {} THEN -1 - cyclicBufferOffset
  ELSE LET i == CHOOSE i \in OpenTees : \A h \in OpenTees : offset[i] <= offset[h]
       IN  IF offset[i] > cyclicBufferOffset THEN offset[i] - cyclicBufferOffset ELSE 0

\* Java's remainder has the sign of the dividend.
OffsetIndexAfter(delta) ==
  LET sum == cyclicBufferOffsetIndex + delta
  IN  IF sum >= 0 THEN Slot(sum) ELSE -Slot(-sum)

\* What source.read(cyclicBuffer, _, len) may return, pos bytes into the
\* source; 0 stands for no call.
ReadCounts(len, pos) ==
  IF len <= 0 THEN {0}
  ELSE IF pos = SourceLen THEN {EndOfSource}
  ELSE 1 .. SmallerOf(len, SourceLen - pos)

ShortReadIsEnd(count) == count # 0 /\ count < BufferSize               \* mutant
SaysEnd(count) == count = EndOfSource

Bytes(count) == IF count = EndOfSource THEN 0 ELSE count

\* The buffer with n bytes of the source written from start on, wrapping.
Filled(start, n) ==
  [j \in Slots |->
     LET k == Slot(j + BufferSize - Slot(start))
     IN  IF k < n THEN sourcePos + k ELSE cyclicBuffer[j]]

\* The branch of loop that reads the source: up to the end of the buffer and,
\* when that was reached, again from its beginning.
FillBuffer(index, valid) ==
  LET readOffset == index + valid
      readLen    == BufferSize - valid
  IN  \E first \in ReadCounts(SmallerOf(BufferSize - readOffset, readLen), sourcePos) :
        LET wrapLen == IF first # EndOfSource /\ readOffset + first >= BufferSize
                         THEN readLen - first ELSE 0
        IN  \E second \in ReadCounts(wrapLen, sourcePos + Bytes(first)) :
              LET n == Bytes(first) + Bytes(second) IN
                /\ cyclicBuffer' = Filled(readOffset, n)
                /\ cyclicBufferValidSize' = valid + n
                /\ sourcePos' = sourcePos + n
                /\ sourceComplete' = (SaysEnd(first) \/ SaysEnd(second))

UpdateOffsets ==
  /\ cyclicBufferOffset' = cyclicBufferOffset + Delta
  /\ cyclicBufferOffsetIndex' = OffsetIndexAfter(Delta)

Loop ==
  /\ pc = "loop"
  /\ UpdateOffsets
  /\ LET valid == cyclicBufferValidSize - Delta IN
       IF ~sourceComplete /\ valid < BufferSize
         THEN /\ FillBuffer(cyclicBufferOffsetIndex', valid)
              /\ NotifyAll
         ELSE /\ cyclicBufferValidSize' = valid
              /\ UNCHANGED <<cyclicBuffer, sourcePos, sourceComplete, waiting>>
  /\ pc' = IF allClosed THEN "ended" ELSE "check"
  /\ UNCHANGED <<allClosed, readerVars, closed>>

\* The first read, or the second after a first that reached the end of the
\* buffer, throws: nobody is notified, and the tees stay open.
LoopFails ==
  /\ SourceMayFail
  /\ pc = "loop" /\ ~sourceComplete
  /\ UpdateOffsets
  /\ LET valid      == cyclicBufferValidSize - Delta
         readOffset == cyclicBufferOffsetIndex' + valid
         toTheEnd   == BufferSize - readOffset
     IN  /\ valid < BufferSize
         /\ \E n \in {0} \cup ({toTheEnd} \cap (1 .. SourceLen - sourcePos)) :
              /\ n < BufferSize - valid
              /\ cyclicBuffer' = Filled(readOffset, n)
              /\ cyclicBufferValidSize' = valid + n
              /\ sourcePos' = sourcePos + n
  /\ pc' = "failed"
  /\ UNCHANGED <<sourceComplete, allClosed, readerVars, closed, waiting>>

-----------------------------------------------------------------------------
(* The thread that reads tee i.                                            *)

MaxNonblockingReadLength(i) ==
  cyclicBufferValidSize - (offset[i] - cyclicBufferOffset)

\* The index in the buffer of the byte k bytes after the next one of tee i.
ReadOffset(i, k) == Slot(offset[i] - cyclicBufferOffset + cyclicBufferOffsetIndex + k)

\* read(): a byte 0xFF is returned as -1, and the offset stays before it.
ReadByte(i) ==
  /\ ~closed[i] /\ ~waiting[i]
  /\ MaxNonblockingReadLength(i) > 0
  /\ LET byte == cyclicBuffer[ReadOffset(i, 0)] IN
       IF byte \in HighBytes
         THEN /\ eof' = [eof EXCEPT ![i] = @ \cup {offset[i]}]
              /\ UNCHANGED <<offset, received>>
         ELSE /\ offset' = [offset EXCEPT ![i] = @ + 1]
              /\ received' = [received EXCEPT ![i] = Append(@, byte)]
              /\ UNCHANGED eof
  /\ NotifyAll
  /\ UNCHANGED <<bufferVars, pumpVars, closed>>

\* read(b, off, len) copies what there is of len bytes.
ReadBytes(i, len) ==
  /\ ~closed[i] /\ ~waiting[i]
  /\ MaxNonblockingReadLength(i) > 0
  /\ LET readLen == SmallerOf(len, MaxNonblockingReadLength(i)) IN
       /\ offset' = [offset EXCEPT ![i] = @ + readLen]
       /\ received' = [received EXCEPT
                         ![i] = @ \o [k \in 1 .. readLen |-> cyclicBuffer[ReadOffset(i, k - 1)]]]
  /\ NotifyAll
  /\ UNCHANGED <<bufferVars, pumpVars, eof, closed>>

\* Either read, when nothing is left of a complete source.
ReadAtEnd(i) ==
  /\ ~closed[i] /\ ~waiting[i]
  /\ MaxNonblockingReadLength(i) <= 0
  /\ sourceComplete
  /\ eof' = [eof EXCEPT ![i] = @ \cup {offset[i]}]
  /\ NotifyAll
  /\ UNCHANGED <<bufferVars, pumpVars, offset, received, closed>>

\* Either read, when there is nothing yet.
ReadWaits(i) ==
  /\ ~closed[i] /\ ~waiting[i]
  /\ MaxNonblockingReadLength(i) <= 0
  /\ ~sourceComplete
  /\ waiting' = [waiting EXCEPT ![i] = TRUE]
  /\ UNCHANGED <<bufferVars, pumpVars, readerVars, closed>>

\* The thread that reads a tee is the one that closes it.
Close(i) ==
  /\ ~closed[i] /\ ~waiting[i]
  /\ closed' = [closed EXCEPT ![i] = TRUE]
  /\ NotifyAll
  /\ UNCHANGED <<bufferVars, pumpVars, readerVars>>

Pump == CheckClosed \/ Loop

Read(i) ==
  \/ ReadByte(i)
  \/ \E len \in 1 .. BufferSize + 1 : ReadBytes(i, len)
  \/ ReadAtEnd(i)
  \/ ReadWaits(i)

Next ==
  \/ Pump
  \/ LoopFails
  \/ \E i \in Tees : Read(i) \/ Close(i)

Spec == Init /\ [][Next]_vars

\* The pump runs, and a worker goes on reading until it is told of the end.
FairSpec ==
  /\ Spec
  /\ WF_vars(Pump)
  /\ \A i \in Tees : WF_vars(eof[i] = {} /\ Read(i))

-----------------------------------------------------------------------------
TypeOK ==
  /\ cyclicBuffer \in [Slots -> Int]
  /\ cyclicBufferOffsetIndex \in Int
  /\ cyclicBufferOffset \in Int
  /\ cyclicBufferValidSize \in Int
  /\ sourceComplete \in BOOLEAN
  /\ sourcePos \in 0 .. SourceLen
  /\ pc \in {"check", "loop", "ended", "failed"}
  /\ allClosed \in BOOLEAN
  /\ offset \in [Tees -> Nat]
  /\ closed \in [Tees -> BOOLEAN]
  /\ waiting \in [Tees -> BOOLEAN]
  /\ received \in [Tees -> Seq(Int)]
  /\ eof \in [Tees -> SUBSET Nat]

(* The window: offset index, offset and valid size describe a run of bytes *)
(* of the source held in the buffer, the last of them the last byte read.  *)
Window ==
  /\ cyclicBufferOffsetIndex \in Slots
  /\ cyclicBufferValidSize \in 0 .. BufferSize
  /\ cyclicBufferOffset + cyclicBufferValidSize = sourcePos
  /\ \A k \in 0 .. cyclicBufferValidSize - 1 :
       cyclicBuffer[Slot(cyclicBufferOffsetIndex + k)] = cyclicBufferOffset + k

(* A tee that is not closed has read no byte that left the window and none *)
(* that has not entered it: readInternal's "attempting to read previous    *)
(* data is not permitted" is never thrown, and no unread byte is           *)
(* overwritten.                                                            *)
WindowHoldsUnreadBytes ==
  /\ TypeOK
  /\ \A i \in OpenTees :
       /\ Window
       /\ offset[i] \in cyclicBufferOffset .. sourcePos

Streams == INSTANCE TeeStreams WITH fed <- sourcePos, Capacity <- BufferSize

(* The tee implements the streams it promises, back pressure included.     *)
ImplementsStreams == Streams!Spec

\* The source broke, of which loop() tells nobody, or an open tee was told of
\* an end that is none, at a byte 0xFF, and its reader stops there.
HeldUp == pc = "failed" \/ \E i \in OpenTees : eof[i] \cap HighBytes # {}

(* Readers that keep reading reach the end, the slowest included, and no    *)
(* wakeup is lost on the way, unless the source breaks or an open reader   *)
(* was misled and stops.                                                   *)
EveryReaderEnds == \A i \in Tees : <>(eof[i] # {} \/ closed[i] \/ HeldUp)

(* loopUntilTeesAreClosed returns, or throws, once they are.               *)
LoopEnds == (OpenTees = {}) ~> (pc \in {"ended", "failed"})
=============================================================================
