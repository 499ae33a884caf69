------------------------- MODULE SharedMemoryProofs -------------------------
(***************************************************************************)
(* Theorems about the shared-memory transport: the ring queue, for every   *)
(* geometry and every set of message sizes, and the connection built on a  *)
(* pair of them, under any number of senders and receivers.                *)
(***************************************************************************)
EXTENDS RingSteps, RingConn, FiniteSetTheorems, WellFoundedInduction, TLAPS

(* A message of one byte or more needs a segment, one that fits a segment  *)
(* needs exactly one, and one that ends before the end of the buffer       *)
(* occupies segments of the array (push, numSegsNeeded; peek and pop).     *)
LEMMA SegsNeededBounds ==
  ASSUME NEW size \in Nat
  PROVE  /\ SegsNeeded(size) \in Nat
         /\ size > 0 => SegsNeeded(size) > 0
         /\ size > 0 /\ size <= SegSize => SegsNeeded(size) = 1
         /\ \A p \in Nat : p * SegSize + size <= NumSegs * SegSize
                             => p + SegsNeeded(size) <= NumSegs
<1>1. SegSize \in Nat \ {0} /\ NumSegs \in Nat
  BY RingAssumption
<1> DEFINE q == (size + SegSize - 1) \div SegSize
<1>2. q \in Int /\ q * SegSize <= size + SegSize - 1 /\ size + SegSize - 1 < (q + 1) * SegSize
  BY <1>1, SMTT(30)
<1> QED BY <1>1, <1>2 DEF SegsNeeded

(* A set of naturals has a least member.                                   *)
LEMMA LeastNatural ==
  ASSUME NEW T \in SUBSET Nat, T # {}
  PROVE  \E x \in T : \A y \in T : x <= y
<1> DEFINE R == OpToRel(<, Nat)
<1>1. IsWellFoundedOn(R, Nat)
  BY NatLessThanWellFounded
<1>2. PICK x \in T : \A y \in T : ~(<<y, x>> \in R)
  <2> HIDE DEF R
  <2> QED BY <1>1, WFMin
<1>3. \A y \in T : ~(y < x)
  BY <1>2 DEF OpToRel
<1> QED BY <1>3

(* The scan of peek over skip entries stops, at the first other entry or   *)
(* at the end of the array.                                                *)
LEMMA SkipEndExists ==
  ASSUME TypeOK
  PROVE  /\ SkipEnd \in readPos .. NumSegs
         /\ \A j \in readPos .. SkipEnd - 1 : mgmt[j] = MagicSkipSegment
         /\ SkipEnd < NumSegs => mgmt[SkipEnd] # MagicSkipSegment
<1> DEFINE Stop == {p \in Nat : /\ readPos <= p /\ p <= NumSegs
                                /\ p < NumSegs => mgmt[p] # MagicSkipSegment}
<1>1. readPos \in Nat /\ NumSegs \in Nat /\ readPos <= NumSegs
  BY RingAssumption DEF TypeOK, Seg
<1>2. NumSegs \in Stop /\ Stop \in SUBSET Nat
  BY <1>1
<1>3. PICK p \in Stop : \A y \in Stop : p <= y
  <2> HIDE DEF Stop
  <2> QED BY <1>2, LeastNatural
<1>4. \A j \in readPos .. p - 1 : mgmt[j] = MagicSkipSegment
  BY <1>1, <1>3
<1>5. p \in readPos .. NumSegs /\ (p < NumSegs => mgmt[p] # MagicSkipSegment)
  BY <1>1, <1>3
<1> HIDE DEF Stop
<1> QED BY <1>4, <1>5 DEF SkipEnd

-----------------------------------------------------------------------------
(* Every message size is a size of at least one byte and one segment.      *)
LEMMA SizesNeedSegments ==
  ASSUME NEW size \in Sizes
  PROVE  size \in 1 .. MaxWriteSize /\ SegsNeeded(size) \in Nat \ {0}
<1>1. size \in 1 .. MaxWriteSize /\ size \in Nat /\ size > 0
  BY RingAssumption
<1> QED BY <1>1, SegsNeededBounds

(* Where push writes: whole segments of the array.                         *)
LEMMA PushStaysInArray ==
  ASSUME TypeOK, NEW size \in Sizes,
         EnoughMemory(writePos, readPos, SegsNeeded(size))
  PROVE  /\ StartPos(SegsNeeded(size)) \in Seg
         /\ StartPos(SegsNeeded(size)) + SegsNeeded(size) <= NumSegs
         /\ WritePosAfterPush(size) \in Seg
<1>1. SegsNeeded(size) \in Nat \ {0}
  BY SizesNeedSegments
<1>2. SegsNeeded(size) < NumSegs
  BY DEF EnoughMemory
<1>3. writePos \in Seg /\ NumSegs \in Nat \ {0}
  BY RingAssumption DEF TypeOK
<1> HIDE DEF SegsNeeded
<1> QED BY <1>1, <1>2, <1>3 DEF StartPos, WritePosAfterPush, Normalise, Seg

(* The type invariant is preserved by every step of the ring.              *)
LEMMA TypeStep == TypeOK /\ [Next]_vars => TypeOK'
<1> SUFFICES ASSUME TypeOK, [Next]_vars PROVE TypeOK'
  OBVIOUS
<1>0. NumSegs \in Nat \ {0} /\ MaxWriteSize \in Nat /\ MaxSent \in Nat
  BY RingAssumption
<1>1. CASE SendMessage
  <2>1. PICK size \in Sizes : Push(size)
    BY <1>1 DEF SendMessage
  <2> DEFINE n == SegsNeeded(size)
             s == StartPos(n)
  <2>2. size \in MgmtEntry /\ n \in Nat \ {0}
    BY SizesNeedSegments DEF MgmtEntry
  <2>3. s \in Seg /\ s + n <= NumSegs /\ WritePosAfterPush(size) \in Seg
    BY <2>1, PushStaysInArray DEF Push
  <2>4. sent + 1 \in 0 .. MaxSent
    BY <1>0, <1>1 DEF SendMessage, TypeOK
  <2>5. mgmt' \in [Seg -> MgmtEntry]
    BY <2>1, <2>2 DEF Push, MgmtAfterPush, TypeOK, MgmtEntry, Magic
  <2>6. \A i \in Seg : s <= i /\ i < s + n => i - s + 1 \in 0 .. NumSegs
    <3> HIDE DEF n, s
    <3> QED BY <1>0, <2>2, <2>3 DEF Seg
  <2>7. data' \in [Seg -> Chunk]
    <3>1. data' = [i \in Seg |-> IF s <= i /\ i < s + n THEN <<sent + 1, i - s + 1>> ELSE data[i]]
      BY <2>1 DEF Push, DataAfterPush
    <3> HIDE DEF n, s
    <3> QED BY <3>1, <2>4, <2>6 DEF TypeOK, Chunk
  <2> QED BY <2>1, <2>3, <2>4, <2>5, <2>7 DEF Push, TypeOK
<1>2. MgmtAfterPeek \in [Seg -> MgmtEntry] /\ PeekPos \in Seg
  <2>1. SkipEnd \in readPos .. NumSegs
    BY SkipEndExists
  <2> QED BY <1>0, <2>1 DEF MgmtAfterPeek, PeekPos, Normalise, TypeOK, Seg, MgmtEntry, Magic
<1>3. CASE Peek
  BY <1>2, <1>3 DEF Peek, TypeOK
<1>5. CASE Recv
  <2> DEFINE p == PeekPos
  <2>1. MgmtAfterPop(p) \in [Seg -> MgmtEntry]
    BY <1>2 DEF MgmtAfterPop, MgmtEntry, Magic
  <2>2. mgmt[p] \in Nat /\ FitsBuffer(p)
    <3>1. MgmtAfterPeek[p] \notin Magic /\ FitsBuffer(p)
      BY <1>5 DEF Recv, PeekFails
    <3>2. MgmtAfterPeek[p] = mgmt[p]
      BY <1>2, <3>1 DEF MgmtAfterPeek, Magic
    <3>3. mgmt[p] \in MgmtEntry
      BY <1>2 DEF TypeOK
    <3> QED BY <1>0, <3>1, <3>2, <3>3 DEF MgmtEntry
  <2>3. SegsNeeded(mgmt[p]) \in Nat /\ p + SegsNeeded(mgmt[p]) <= NumSegs
    <3>1. p \in Nat
      BY <1>2 DEF Seg
    <3> HIDE DEF p
    <3> QED BY <3>1, <2>2, SegsNeededBounds DEF FitsBuffer
  <2>4. ReadPosAfterPop(p) \in Seg
    <3>1. p \in Nat
      BY <1>2 DEF Seg
    <3> HIDE DEF p
    <3> QED BY <1>0, <2>3, <3>1 DEF ReadPosAfterPop, PopEnd, Normalise, Seg
  <2> HIDE DEF p
  <2>5. mgmt' \in [Seg -> MgmtEntry] /\ readPos' \in Seg
    BY <1>5, <1>2, <2>1, <2>4 DEF Recv, p
  <2> QED BY <1>5, <2>5 DEF Recv, TypeOK
<1>6. CASE UNCHANGED vars
  BY <1>6 DEF vars, TypeOK, MgmtEntry, Chunk
<1> QED BY <1>1, <1>3, <1>5, <1>6 DEF Next

(* The empty ring has the right types.                                     *)
LEMMA RingInitTyped == Init => TypeOK
<1> SUFFICES ASSUME Init PROVE TypeOK
  OBVIOUS
<1>1. NumSegs \in Nat \ {0} /\ MaxSent \in Nat
  BY RingAssumption
<1>2. readPos \in Seg /\ writePos \in Seg /\ sent \in 0 .. MaxSent
  BY <1>1 DEF Init, Seg
<1>3. NoChunk \in Chunk
  BY <1>1 DEF NoChunk, Chunk
<1>4. data \in [Seg -> Chunk]
  BY <1>3 DEF Init
<1>5. mgmt \in [Seg -> MgmtEntry]
  BY DEF Init, MgmtEntry, Magic
<1> QED BY <1>2, <1>4, <1>5 DEF Init, TypeOK

(* For every geometry and every set of message sizes the positions stay in the    *)
(* array, and management entries stay sizes or magic values, whatever the  *)
(* interleaving of push, peek and pop and also after an overrun.           *)
THEOREM RingTypeCorrect == Spec => []TypeOK
<1>1. Init => TypeOK
  BY RingInitTyped
<1> QED BY <1>1, TypeStep, PTL DEF Spec

-----------------------------------------------------------------------------
(* A step keeps every size entry on the first segment of its message: push *)
(* marks the other segments it fills, and receiving only frees entries.    *)
LEMMA HeadStep == TypeOK /\ HeadIsMessageStart /\ [Next]_vars => HeadIsMessageStart'
<1> SUFFICES ASSUME TypeOK, HeadIsMessageStart, [Next]_vars,
                    NEW i \in Seg, mgmt'[i] \notin Magic
             PROVE  data'[i][2] = 1
  BY DEF HeadIsMessageStart
<1>1. CASE SendMessage
  <2>1. PICK size \in Sizes : Push(size)
    BY <1>1 DEF SendMessage
  <2> DEFINE n == SegsNeeded(size)
             s == StartPos(n)
  <2>2. n \in Nat \ {0}
    BY SizesNeedSegments
  <2>3. s \in Seg
    BY <2>1, PushStaysInArray DEF Push
  <2>4. mgmt'[i] = IF i = s THEN size
                   ELSE IF \/ s < i /\ i < s + n
                           \/ writePos + n > NumSegs /\ writePos <= i
                        THEN MagicSkipSegment ELSE mgmt[i]
    BY <2>1 DEF Push, MgmtAfterPush
  <2>5. data'[i] = IF s <= i /\ i < s + n THEN <<sent + 1, i - s + 1>> ELSE data[i]
    BY <2>1 DEF Push, DataAfterPush
  <2> HIDE DEF n, s
  <2>6. i \in Int /\ s \in Int
    BY <2>3 DEF Seg
  <2>7. CASE i = s
    BY <2>2, <2>5, <2>6, <2>7
  <2>8. CASE i # s
    <3>1. mgmt'[i] = mgmt[i] /\ ~(s < i /\ i < s + n)
      BY <2>4, <2>8 DEF Magic
    <3>2. data'[i] = data[i]
      BY <2>5, <2>6, <2>8, <3>1
    <3> QED BY <3>1, <3>2 DEF HeadIsMessageStart
  <2> QED BY <2>7, <2>8
<1>2. CASE Peek \/ Recv
  <2>1. data' = data
    BY <1>2 DEF Peek, Recv
  <2>2. mgmt'[i] \in {mgmt[i], MagicEmptySegment}
    BY <1>2 DEF Peek, Recv, MgmtAfterPeek, MgmtAfterPop
  <2> QED BY <2>1, <2>2 DEF HeadIsMessageStart, Magic
<1>3. CASE UNCHANGED vars
  BY <1>3 DEF vars, HeadIsMessageStart
<1> QED BY <1>1, <1>2, <1>3 DEF Next

(* In every geometry, and also in a ring that push overran, the receiver   *)
(* never takes the middle of a message for its start.                      *)
THEOREM HeadsAreMessageStarts == Spec => []HeadIsMessageStart
<1>1. Init => TypeOK /\ HeadIsMessageStart
  BY RingInitTyped DEF Init, HeadIsMessageStart, Magic
<1> QED BY <1>1, TypeStep, HeadStep, PTL DEF Spec

-----------------------------------------------------------------------------
(* When enoughMemory accepts a message and the write position is not both  *)
(* behind the read position and within the message's length of the end of  *)
(* the array, no segment that push touches is unread.  Outside that        *)
(* condition it accepts messages that do not fit (run RingOverrun).        *)
LEMMA RoomIsFree ==
  ASSUME TypeOK, NEW n \in Nat \ {0},
         EnoughMemory(writePos, readPos, n),
         writePos >= readPos \/ writePos + n < NumSegs,
         NEW i \in Seg, Unread(i)
  PROVE  /\ ~(StartPos(n) <= i /\ i < StartPos(n) + n)
         /\ ~(writePos + n > NumSegs /\ writePos <= i)
<1>1. readPos \in Seg /\ writePos \in Seg /\ NumSegs \in Nat \ {0}
  BY RingAssumption DEF TypeOK
<1> QED BY <1>1 DEF EnoughMemory, StartPos, Unread, Offset, Seg

(* Every message fits one segment: the frames of requests and verdicts     *)
(* without a body (REQUEST_START, REQUEST_END, ACCEPT ...).                *)
OneSegment == \A size \in Sizes : size <= SegSize

(* Such a message needs one segment.                                       *)
LEMMA OneSegmentNeeds ==
  ASSUME OneSegment, NEW size \in Sizes
  PROVE  SegsNeeded(size) = 1 /\ size \in 1 .. SegSize
<1>1. size \in Nat /\ size > 0 /\ size <= SegSize /\ SegSize \in Nat
  BY RingAssumption DEF OneSegment
<1> QED BY <1>1, SegsNeededBounds

(* While messages fit one segment, push never touches an unread segment,   *)
(* however far the receiver lags (ring.go, push and enoughMemory).         *)
THEOREM OneSegmentNeverOverruns ==
  ASSUME OneSegment
  PROVE  Spec => UnreadPreserved
<1>1. TypeOK /\ [Next]_vars => [PushSparesUnread]_vars
  <2> SUFFICES ASSUME TypeOK, NEW size \in Sizes, Push(size), NEW i \in Seg, Unread(i)
               PROVE  mgmt'[i] = mgmt[i] /\ data'[i] = data[i]
    BY DEF PushSparesUnread
  <2>1. SegsNeeded(size) = 1
    BY OneSegmentNeeds
  <2>2. EnoughMemory(writePos, readPos, 1)
    BY <2>1 DEF Push
  <2>3. writePos >= readPos \/ writePos + 1 < NumSegs
    BY RingAssumption DEF TypeOK, Seg
  <2>4. /\ ~(StartPos(1) <= i /\ i < StartPos(1) + 1)
        /\ ~(writePos + 1 > NumSegs /\ writePos <= i)
    BY <2>2, <2>3, RoomIsFree
  <2>5. StartPos(1) \in Int /\ i \in Int
    BY RingAssumption DEF TypeOK, StartPos, Seg
  <2> QED BY <2>1, <2>4, <2>5 DEF Push, MgmtAfterPush, DataAfterPush
<1> QED BY <1>1, RingTypeCorrect, PTL DEF Spec, UnreadPreserved

(* The inductive invariant: the unread segments hold sizes, the others are *)
(* free, and no operation has failed.                                      *)
OneSegmentInv ==
  /\ TypeOK
  /\ NeverCorrupt
  /\ FreeIsEmpty
  /\ \A i \in Seg : Unread(i) => mgmt[i] \in Sizes

(* Every step of the ring preserves it.                                    *)
LEMMA OneSegmentStep ==
  ASSUME OneSegment, OneSegmentInv, [Next]_vars
  PROVE  OneSegmentInv'
<1>1. TypeOK'
  BY TypeStep DEF OneSegmentInv
<1>2. /\ NumSegs \in Nat \ {0} /\ SegSize \in Nat \ {0}
      /\ MagicSkipSegment \in Nat /\ MagicEmptySegment \in Nat
      /\ readPos \in Seg /\ writePos \in Seg
      /\ mgmt \in [Seg -> MgmtEntry]
  BY RingAssumption DEF OneSegmentInv, TypeOK
<1> SUFFICES NeverCorrupt' /\ (\A i \in Seg : IF Unread(i)' THEN mgmt'[i] \in Sizes
                                                  ELSE mgmt'[i] = MagicEmptySegment)
  BY <1>1 DEF OneSegmentInv, FreeIsEmpty
<1>3. \A i \in Seg : IF Unread(i) THEN mgmt[i] \in Sizes
                                  ELSE mgmt[i] = MagicEmptySegment
  BY DEF OneSegmentInv, FreeIsEmpty
<1>4. CASE SendMessage
  <2>1. PICK size \in Sizes : Push(size)
    BY <1>4 DEF SendMessage
  <2>2. SegsNeeded(size) = 1 /\ size \in 1 .. SegSize
    BY OneSegmentNeeds
  <2>3. StartPos(1) = writePos
    BY <1>2 DEF StartPos, Seg
  <2>4. mgmt' = [i \in Seg |-> IF i = writePos THEN size ELSE mgmt[i]]
    BY <1>2, <2>1, <2>2, <2>3 DEF Push, MgmtAfterPush, Seg
  <2>5. writePos' = Normalise(writePos + 1) /\ readPos' = readPos /\ corrupt' = corrupt
    BY <2>1, <2>2, <2>3 DEF Push, WritePosAfterPush
  <2>6. writePos' # readPos
    BY <1>2, <2>1, <2>2, <2>5 DEF Push, EnoughMemory, Normalise, Seg
  <2>7. \A i \in Seg : Unread(i)' <=> Unread(i) \/ i = writePos
    BY <1>2, <2>5, <2>6 DEF Unread, Offset, Normalise, Seg
  <2> QED BY <1>3, <2>2, <2>4, <2>5, <2>7 DEF NeverCorrupt, OneSegmentInv
<1>5. ASSUME readPos # writePos
      PROVE  /\ PeekPos = readPos /\ MgmtAfterPeek = mgmt
             /\ mgmt[readPos] \in Sizes /\ ~PeekFails
  <2>1. mgmt[readPos] \in Sizes
    BY <1>2, <1>3, <1>5 DEF Unread, Offset, Seg
  <2>2. mgmt[readPos] \in 1 .. SegSize /\ mgmt[readPos] \notin Magic
    <3>1. mgmt[readPos] \in 1 .. SegSize
      BY <2>1, OneSegmentNeeds
    <3>2. mgmt[readPos] \notin Magic
      BY <2>1, RingAssumption DEF Magic
    <3> QED BY <3>1, <3>2
  <2>3. SkipEnd = readPos
    <3>1. /\ SkipEnd \in readPos .. NumSegs
          /\ \A j \in readPos .. SkipEnd - 1 : mgmt[j] = MagicSkipSegment
      BY SkipEndExists DEF OneSegmentInv
    <3> HIDE DEF SkipEnd
    <3> QED BY <1>2, <2>2, <3>1 DEF Magic, Seg
  <2>4. PeekPos = readPos /\ MgmtAfterPeek = mgmt
    BY <1>2, <2>3 DEF PeekPos, Normalise, MgmtAfterPeek, Seg
  <2>5. FitsBuffer(readPos)
    <3>1. readPos \in Nat /\ readPos + 1 <= NumSegs
      BY <1>2 DEF Seg
    <3>2. (readPos + 1) * SegSize <= NumSegs * SegSize
      BY <1>2, <3>1
    <3>3. (readPos + 1) * SegSize = readPos * SegSize + SegSize
      BY <1>2, <3>1
    <3>4. mgmt[readPos] \in Int /\ mgmt[readPos] <= SegSize /\ readPos * SegSize \in Int
      BY <1>2, <2>2, <3>1
    <3> QED BY <1>2, <3>2, <3>3, <3>4 DEF FitsBuffer
  <2> QED BY <2>1, <2>2, <2>4, <2>5 DEF PeekFails
<1>6. CASE Peek
  BY <1>3, <1>5, <1>6 DEF Peek, OneSegmentInv, NeverCorrupt, Unread, Offset
<1>8. CASE Recv
  <2>1. readPos # writePos
    BY <1>8 DEF Recv
  <2>2. SegsNeeded(mgmt[readPos]) = 1
    BY <1>5, <2>1, OneSegmentNeeds
  <2>3. readPos + 1 < NumSegs => mgmt[readPos + 1] # MagicSkipSegment
    <3> SUFFICES ASSUME readPos + 1 \in Seg PROVE mgmt[readPos + 1] # MagicSkipSegment
      BY <1>2 DEF Seg
    <3>1. mgmt[readPos + 1] \in Sizes \cup {MagicEmptySegment}
      BY <1>3
    <3> QED BY <3>1, RingAssumption
  <2>4. PopEnd(readPos) = readPos + 1 /\ ~TailSkipped(readPos)
    BY <2>2, <2>3 DEF PopEnd, TailSkipped
  <2>5. mgmt' = [i \in Seg |-> IF i = readPos THEN MagicEmptySegment ELSE mgmt[i]]
    <3>1. mgmt' = MgmtAfterPop(readPos)
      BY <1>5, <1>8, <2>1 DEF Recv
    <3> QED BY <1>2, <1>5, <2>1, <2>4, <3>1 DEF MgmtAfterPop, Seg
  <2>6. /\ readPos' = Normalise(readPos + 1)
        /\ writePos' = writePos /\ corrupt' = corrupt
    BY <1>5, <1>8, <2>1, <2>4 DEF Recv, ReadPosAfterPop
  <2>7. \A i \in Seg : Unread(i)' <=> Unread(i) /\ i # readPos
    BY <1>2, <2>1, <2>6 DEF Unread, Offset, Normalise, Seg
  <2> QED BY <1>3, <2>5, <2>6, <2>7 DEF NeverCorrupt, OneSegmentInv
<1>9. CASE UNCHANGED vars
  BY <1>3, <1>9 DEF vars, OneSegmentInv, NeverCorrupt, Unread, Offset
<1> QED BY <1>4, <1>6, <1>8, <1>9 DEF Next

(* While messages fit one segment, no peek ever finds the ring corrupt and *)
(* every segment outside the unread region is free, however the sender and *)
(* the receiver interleave (ring.go, peek and pop).                        *)
THEOREM OneSegmentNeverCorrupt ==
  ASSUME OneSegment
  PROVE  Spec => [](NeverCorrupt /\ FreeIsEmpty)
<1>1. Init => OneSegmentInv
  <2> SUFFICES ASSUME Init PROVE OneSegmentInv
    OBVIOUS
  <2>1. TypeOK
    BY RingInitTyped
  <2>2. \A i \in Seg : ~Unread(i) /\ mgmt[i] = MagicEmptySegment
    BY RingAssumption DEF Init, Unread, Offset, Seg
  <2> QED BY <2>1, <2>2 DEF Init, OneSegmentInv, NeverCorrupt, FreeIsEmpty
<1>2. OneSegmentInv /\ [Next]_vars => OneSegmentInv'
  BY OneSegmentStep
<1>3. OneSegmentInv => NeverCorrupt /\ FreeIsEmpty
  BY DEF OneSegmentInv
<1> QED BY <1>1, <1>2, <1>3, PTL DEF Spec

(* An empty ring takes any message of at most half the segments, wherever  *)
(* its positions stand: a sender that finds such a ring full can count on  *)
(* the receiver (ring.go, enoughMemory; the skipped tail of the array      *)
(* counts as used).                                                        *)
THEOREM EmptyRingTakesMessages ==
  ASSUME \A size \in Sizes : 2 * SegsNeeded(size) <= NumSegs
  PROVE  Spec => []EmptyRingAccepts
<1>1. TypeOK => EmptyRingAccepts
  <2> SUFFICES ASSUME TypeOK, readPos = writePos, NEW size \in Sizes
               PROVE  EnoughMemory(writePos, readPos, SegsNeeded(size))
    BY DEF EmptyRingAccepts
  <2>1. SegsNeeded(size) \in Nat \ {0} /\ 2 * SegsNeeded(size) <= NumSegs
    BY SizesNeedSegments
  <2>2. NumSegs \in Nat /\ writePos \in Nat /\ writePos < NumSegs
    BY RingAssumption DEF TypeOK, Seg
  <2> QED BY <2>1, <2>2 DEF EnoughMemory
<1> QED BY <1>1, RingTypeCorrect, PTL

-----------------------------------------------------------------------------
(***************************************************************************)
(* The connection: every echo is consumed once, and no ring is touched     *)
(* after Close has unmapped it.                                            *)
(***************************************************************************)
Places == {"idle", "wait", "signal", "echo", "pop", "queued", "done"}

ConnTypeOK ==
  /\ pc \in [Callers -> Places]
  /\ mu \in Receivers \cup {None}
  /\ closed \in BOOLEAN /\ mapped \in BOOLEAN
  /\ closer \in {"idle", "lock", "unmap", "done"}
  /\ writeQ \in Nat /\ readQ \in Nat /\ signals \in Nat
  /\ echoBytes \in Nat /\ echoBuf \in Nat /\ echoes \in Nat /\ eaten \in Nat

(* Whoever is between recvEcho and pop holds the mutex, and has consumed   *)
(* an echo when it reaches pop.                                            *)
LockInv ==
  /\ \A x \in Callers : pc[x] \in {"echo", "pop"} => mu = x
  /\ \A x \in Callers : pc[x] = "pop" => eaten > 0

(* Close waits for the mutex before it sets the flag, nobody locks after   *)
(* it, and the unmap comes last.                                           *)
CloseInv ==
  /\ mu # None => ~closed
  /\ closer \in {"unmap", "done"} => closed
  /\ ~mapped => closed

(* The bytes on the socket and in echoBuf are those of the echoes nobody   *)
(* has consumed.                                                           *)
StreamInv == echoes * Echo = eaten * Echo + echoBuf + echoBytes

ConnInv == ConnTypeOK /\ LockInv /\ CloseInv /\ StreamInv

(* One more echo is Echo more bytes.                                       *)
LEMMA OneMore == \A n \in Nat : n * Echo \in Nat /\ (n + 1) * Echo = n * Echo + Echo
BY RingConnAssumption

(* The steps of a sender, and of a receiver that waits, leave the mutex    *)
(* and the echoes alone.                                                   *)
LEMMA CallerStep ==
  ASSUME ConnInv, NEW x \in Callers, Send(x) \/ Wait(x) \/ Signal(x)
  PROVE  ConnInv'
<1>1. /\ UNCHANGED <<mu, closed, closer, mapped, readQ, echoBytes, echoes, echoBuf, eaten>>
      /\ \E p \in Places \ {"echo", "pop"} : pc' = [pc EXCEPT ![x] = p]
  BY DEF Send, Wait, Signal, Goto, Return, Places, commVars, ringVars
<1>2. writeQ' \in Nat /\ signals' \in Nat
  BY DEF ConnInv, ConnTypeOK, Send, Wait, Signal, commVars, ringVars
<1>3. ConnTypeOK'
  BY <1>1, <1>2 DEF ConnInv, ConnTypeOK, Places
<1>4. LockInv'
  BY <1>1 DEF ConnInv, ConnTypeOK, LockInv
<1> QED BY <1>1, <1>3, <1>4 DEF ConnInv, CloseInv, StreamInv

(* A receiver locks only an open connection.                               *)
LEMMA RecvLockStep ==
  ASSUME ConnInv, NEW r \in Receivers, RecvLock(r)
  PROVE  ConnInv'
<1>1. /\ mu = None /\ r \in Callers /\ r # None
      /\ UNCHANGED <<closed, closer, mapped, writeQ, readQ, signals, echoBytes, echoes,
                     echoBuf, eaten>>
  BY RingConnAssumption DEF RecvLock, commVars, ringVars, Callers
<1>2. \A x \in Callers : pc[x] \notin {"echo", "pop"}
  BY <1>1, RingConnAssumption DEF ConnInv, LockInv, Callers
<1>3. \/ closed /\ pc' = [pc EXCEPT ![r] = "done"] /\ mu' = None
      \/ ~closed /\ pc' = [pc EXCEPT ![r] = "echo"] /\ mu' = r
  BY <1>1 DEF RecvLock, Goto, Return
<1>4. ConnTypeOK'
  BY <1>1, <1>3 DEF ConnInv, ConnTypeOK, Places
<1>5. LockInv'
  BY <1>1, <1>2, <1>3 DEF ConnInv, ConnTypeOK, LockInv
<1>6. CloseInv'
  BY <1>1, <1>3 DEF ConnInv, CloseInv
<1> QED BY <1>1, <1>4, <1>5, <1>6 DEF ConnInv, StreamInv

(* Reading the stream only moves bytes into echoBuf.                       *)
LEMMA ReadCommStep ==
  ASSUME ConnInv, NEW r \in Receivers, ReadComm(r)
  PROVE  ConnInv'
<1>1. /\ UNCHANGED <<pc, mu, closed, closer, mapped, writeQ, readQ, signals, echoes, eaten>>
  BY DEF ReadComm, callVars, ringVars
<1>2. PICK n \in 1 .. echoBytes : echoBuf' = echoBuf + n /\ echoBytes' = echoBytes - n
  BY DEF ReadComm
<1>3. ConnTypeOK' /\ LockInv' /\ CloseInv'
  BY <1>1, <1>2 DEF ConnInv, ConnTypeOK, LockInv, CloseInv
<1>4. StreamInv'
  <2>1. echoBuf \in Nat /\ echoBytes \in Nat
    BY DEF ConnInv, ConnTypeOK
  <2>2. PICK k \in Nat : k = eaten * Echo
    BY OneMore DEF ConnInv, ConnTypeOK
  <2>3. k + echoBuf' + echoBytes' = k + echoBuf + echoBytes
    BY <1>2, <2>1
  <2> QED BY <1>1, <2>2, <2>3 DEF ConnInv, StreamInv
<1> QED BY <1>3, <1>4 DEF ConnInv

(* A whole echo is taken from echoBuf, and what is left stays.             *)
LEMMA EatEchoStep ==
  ASSUME ConnInv, NEW r \in Receivers, EatEcho(r)
  PROVE  ConnInv'
<1>1. /\ UNCHANGED <<mu, closed, closer, mapped, writeQ, readQ, signals, echoBytes, echoes>>
      /\ pc[r] = "echo" /\ echoBuf >= Echo /\ r \in Callers
      /\ echoBuf' = echoBuf - Echo /\ eaten' = eaten + 1
      /\ pc' = [pc EXCEPT ![r] = "pop"]
  BY DEF EatEcho, Goto, Leftover, Callers, ringVars, commVars
<1>2. ConnTypeOK'
  BY <1>1, RingConnAssumption DEF ConnInv, ConnTypeOK, Places
<1>3. LockInv'
  BY <1>1 DEF ConnInv, ConnTypeOK, LockInv
<1>4. StreamInv'
  <2>1. /\ eaten * Echo \in Nat /\ (eaten + 1) * Echo = eaten * Echo + Echo
        /\ echoBuf \in Nat /\ echoBytes \in Nat /\ Echo \in Nat
    BY OneMore, RingConnAssumption DEF ConnInv, ConnTypeOK
  <2>2. eaten' * Echo + echoBuf' + echoBytes' = eaten * Echo + echoBuf + echoBytes
    BY <1>1, <2>1
  <2> QED BY <1>1, <2>2 DEF ConnInv, StreamInv
<1> QED BY <1>1, <1>2, <1>3, <1>4 DEF ConnInv, CloseInv

(* The mutex is given back at a place that does not need it.               *)
LEMMA UnlockStep ==
  ASSUME ConnInv, NEW r \in Receivers, ReadCommFails(r) \/ Pop(r) \/ RecvQueued(r)
  PROVE  ConnInv'
<1>1. /\ UNCHANGED <<closed, closer, mapped, writeQ, signals, echoBytes, echoes, echoBuf,
                     eaten>>
      /\ \/ mu' = None /\ mu = r
            /\ \E p \in Places \ {"echo", "pop"} : pc' = [pc EXCEPT ![r] = p]
         \/ mu' = mu /\ (pc' = pc \/ pc' = [pc EXCEPT ![r] = "done"])
      /\ r \in Callers
  BY DEF ReadCommFails, Pop, RecvQueued, Goto, Return, Places, ConnInv, LockInv, Callers,
         callVars, commVars, ringVars
<1>2. readQ' \in Nat
  BY DEF ConnInv, ConnTypeOK, ReadCommFails, Pop, RecvQueued, ringVars
<1>3. ConnTypeOK'
  BY <1>1, <1>2 DEF ConnInv, ConnTypeOK, Places
<1>4. LockInv'
  BY <1>1 DEF ConnInv, ConnTypeOK, LockInv
<1>5. CloseInv'
  BY <1>1 DEF ConnInv, CloseInv
<1> QED BY <1>1, <1>3, <1>4, <1>5 DEF ConnInv, StreamInv

(* Close, the engine and the contexts.                                     *)
LEMMA OtherStep ==
  ASSUME ConnInv,
         CloseCall \/ CloseFlag \/ CloseUnmap \/ EngineServes \/ EngineDies
           \/ (\E x \in Callers : ContextEnds(x)) \/ UNCHANGED connVars
  PROVE  ConnInv'
<1>1. CASE CloseCall \/ CloseFlag \/ CloseUnmap
  <2>1. UNCHANGED <<pc, mu, writeQ, readQ, signals, echoBytes, echoes, echoBuf, eaten>>
    BY <1>1 DEF CloseCall, CloseFlag, CloseUnmap, callVars, ringVars, commVars
  <2>2. \/ closer' = "lock" /\ closer = "idle" /\ UNCHANGED <<closed, mapped>>
        \/ closer' = "unmap" /\ closed' /\ mu = None /\ UNCHANGED mapped
        \/ closer' = "done" /\ closed /\ mapped' = FALSE /\ UNCHANGED closed
    BY <1>1 DEF CloseCall, CloseFlag, CloseUnmap, ringVars, ConnInv, CloseInv
  <2>3. ConnTypeOK'
    BY <2>1, <2>2 DEF ConnInv, ConnTypeOK
  <2>4. CloseInv'
    BY <2>1, <2>2 DEF ConnInv, ConnTypeOK, CloseInv
  <2> QED BY <2>1, <2>3, <2>4 DEF ConnInv, LockInv, StreamInv
<1>2. CASE EngineServes
  <2>1. /\ UNCHANGED <<pc, mu, closed, closer, mapped, echoBuf, eaten>>
        /\ signals > 0 /\ signals' = signals - 1 /\ readQ' = readQ + writeQ /\ writeQ' = 0
        /\ echoBytes' = echoBytes + Echo /\ echoes' = echoes + 1
    BY <1>2 DEF EngineServes, callVars
  <2>2. ConnTypeOK'
    BY <2>1, RingConnAssumption DEF ConnInv, ConnTypeOK
  <2>3. StreamInv'
    <3>1. PICK k \in Nat, m \in Nat :
            k = eaten * Echo /\ m = echoes * Echo /\ echoes' * Echo = m + Echo
      BY <2>1, OneMore DEF ConnInv, ConnTypeOK
    <3>2. m = k + echoBuf + echoBytes /\ echoBuf \in Nat /\ echoBytes \in Nat /\ Echo \in Nat
      BY <3>1, RingConnAssumption DEF ConnInv, ConnTypeOK, StreamInv
    <3>3. m + Echo = k + echoBuf' + echoBytes'
      BY <2>1, <3>2
    <3> QED BY <2>1, <3>1, <3>3 DEF StreamInv
  <2> QED BY <2>1, <2>2, <2>3 DEF ConnInv, LockInv, CloseInv
<1>3. CASE EngineDies \/ (\E x \in Callers : ContextEnds(x)) \/ UNCHANGED connVars
  <2>1. UNCHANGED <<pc, mu, closed, closer, mapped, writeQ, readQ, signals, echoBytes, echoes,
                    echoBuf, eaten>>
    BY <1>3 DEF EngineDies, ContextEnds, connVars, callVars, ringVars, commVars
  <2> QED BY <2>1 DEF ConnInv, ConnTypeOK, LockInv, CloseInv, StreamInv
<1> QED BY <1>1, <1>2, <1>3

(* ConnInv is an invariant of the connection.                              *)
LEMMA ConnInvariant == ConnSpec => []ConnInv
<1>1. ConnInit => ConnInv
  <2> SUFFICES ASSUME ConnInit PROVE ConnInv
    OBVIOUS
  <2>1. closed \in BOOLEAN /\ mapped \in BOOLEAN /\ ~closed /\ mapped
    BY Zenon DEF ConnInit
  <2>2. ConnTypeOK
    BY <2>1 DEF ConnInit, ConnTypeOK, Places
  <2>3. LockInv /\ CloseInv
    BY <2>1 DEF ConnInit, LockInv, CloseInv
  <2>4. StreamInv
    BY RingConnAssumption DEF ConnInit, StreamInv
  <2> QED BY <2>2, <2>3, <2>4 DEF ConnInv
<1>2. ConnInv /\ [ConnNext]_connVars => ConnInv'
  <2>1. Senders \subseteq Callers /\ Receivers \subseteq Callers
    BY DEF Callers
  <2> QED BY <2>1, CallerStep, RecvLockStep, ReadCommStep, EatEchoStep, UnlockStep, OtherStep
          DEF ConnNext, SendStep, RecvStep, CloseStep
<1> QED BY <1>1, <1>2, PTL DEF ConnSpec

(* For any number of senders and receivers and any length of an echo,      *)
(* however the byte stream cuts the echoes up: each one is consumed        *)
(* exactly once and no Recv goes to the ring on less than a whole one      *)
(* (ring_linux.go, recvEcho and echoBuf).                                  *)
THEOREM EchoesAreConsumedOnce == ConnSpec => []EchoConsumedOnce
<1>1. ConnInv => EchoConsumedOnce
  <2> SUFFICES ASSUME ConnInv PROVE EchoConsumedOnce
    OBVIOUS
  <2> DEFINE P == {r \in Receivers : pc[r] = "pop"}
  <2>1. P \subseteq {mu} /\ (P # {} => eaten > 0) /\ eaten \in Nat
    BY DEF ConnInv, ConnTypeOK, LockInv, Callers
  <2>2. P = {} \/ P = {mu}
    BY <2>1
  <2>3. P = {} => Cardinality(P) = 0
    BY FS_EmptySet
  <2>4. P = {mu} => Cardinality(P) = 1
    BY FS_Singleton
  <2> HIDE DEF P
  <2>5. Cardinality(P) <= eaten
    BY <2>1, <2>2, <2>3, <2>4
  <2> QED BY <2>5 DEF P, ConnInv, StreamInv, EchoConsumedOnce
<1> QED BY <1>1, ConnInvariant, PTL

(* Although Close unmaps the rings outside the mutex, no Send, Recv or     *)
(* RecvQueued touches one after that: whoever holds the mutex keeps Close  *)
(* from setting the flag, and whoever locks later sees it                  *)
(* (ring_linux.go, Close).                                                 *)
THEOREM UnmappedRingsAreLeftAlone == ConnSpec => NoUseAfterUnmap
<1> DEFINE Safe == (writeQ' # writeQ \/ readQ' # readQ) => mapped \/ signals' < signals
<1>1. ConnInv /\ [ConnNext]_connVars => [Safe]_connVars
  <2> SUFFICES ASSUME ConnInv, ConnNext PROVE Safe
    OBVIOUS
  <2>1. ~closed => mapped
    BY DEF ConnInv, CloseInv
  <2>2. ASSUME NEW x \in Callers, Send(x) \/ Wait(x) \/ Signal(x) PROVE Safe
    BY <2>1, <2>2 DEF Send, Wait, Signal, ringVars
  <2>3. ASSUME NEW r \in Receivers,
               RecvLock(r) \/ ReadComm(r) \/ EatEcho(r) \/ ReadCommFails(r)
        PROVE  Safe
    BY <2>3 DEF RecvLock, ReadComm, EatEcho, ReadCommFails, ringVars
  <2>4. ASSUME NEW r \in Receivers, Pop(r) PROVE Safe
    <3>1. r # None /\ r \in Callers
      BY RingConnAssumption DEF Callers
    <3>2. ~closed
      BY <2>4, <3>1 DEF Pop, ConnInv, LockInv, CloseInv
    <3> QED BY <2>1, <3>2
  <2>5. ASSUME NEW r \in Receivers, RecvQueued(r) PROVE Safe
    BY <2>1, <2>5 DEF RecvQueued
  <2>6. CASE EngineServes
    BY <2>6 DEF EngineServes, ConnInv, ConnTypeOK
  <2>7. CASE CloseCall \/ CloseFlag \/ CloseUnmap \/ EngineDies \/ \E x \in Callers : ContextEnds(x)
    BY <2>7 DEF CloseCall, CloseFlag, CloseUnmap, EngineDies, ContextEnds, ringVars
  <2>8. Senders \subseteq Callers /\ Receivers \subseteq Callers
    BY DEF Callers
  <2> QED BY <2>2, <2>3, <2>4, <2>5, <2>6, <2>7, <2>8 DEF ConnNext, SendStep, RecvStep, CloseStep
<1> QED BY <1>1, ConnInvariant, PTL DEF ConnSpec, NoUseAfterUnmap
=============================================================================
