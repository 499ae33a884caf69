----------------------------- MODULE RingQueue ------------------------------
(***************************************************************************)
(* The shared-memory ring queue of internal/transport/linux/ring.go: a     *)
(* circular array of NumSegs data segments of SegSize bytes, a management  *)
(* entry per segment (the size of the message that starts there, or one of *)
(* two magic values), a read and a write position.  A message occupies     *)
(* consecutive segments; one that does not fit before the end of the array *)
(* starts at segment 0 and leaves the tail marked with MagicSkipSegment.   *)
(*                                                                         *)
(* An action is one call of push, of peek, or of the peek-copy-pop of      *)
(* ringConn.Recv and ringConn.RecvQueued.  Bytes are abstracted to chunks: *)
(* segment contents name the message and the part of it they hold.         *)
(***************************************************************************)
EXTENDS Integers, Sequences, FiniteSets

CONSTANTS NumSegs,             \* numSegs of the header
          SegSize,             \* segSize, bytes per data segment
          MaxWriteSize,        \* protocol.MaxWriteSize
          MagicEmptySegment,   \* protocol.MagicEmptySegment
          MagicSkipSegment,    \* protocol.MagicSkipSegment
          Sizes,               \* the message sizes that are sent
          Backlog,             \* unread messages at which the sender waits
          MaxSent,             \* bound: messages sent in one behaviour
          NoPayload

ASSUME RingAssumption ==
  /\ NumSegs \in Nat \ {0} /\ SegSize \in Nat \ {0}
  /\ MaxWriteSize \in Nat
  /\ MagicEmptySegment \in Nat /\ MagicSkipSegment \in Nat
  /\ MagicEmptySegment > MaxWriteSize /\ MagicSkipSegment > MaxWriteSize
  /\ MagicEmptySegment # MagicSkipSegment
  /\ Sizes \subseteq 1 .. MaxWriteSize   \* every frame has a header
  /\ Backlog \in Nat /\ MaxSent \in Nat

VARIABLES readPos, writePos,
          mgmt,      \* the management segment
          data,      \* the data segments
          sent,      \* how many messages push accepted
          got,       \* what the last Recv returned
          corrupt    \* whether an operation ever returned errRingCorrupt

vars == <<readPos, writePos, mgmt, data, sent, got, corrupt>>

Seg == 0 .. NumSegs - 1
Magic == {MagicEmptySegment, MagicSkipSegment}
MgmtEntry == 0 .. MaxWriteSize \cup Magic
Chunk == (0 .. MaxSent) \X (0 .. NumSegs)
NoChunk == <<0, 0>>

Normalise(pos) == IF pos >= NumSegs THEN 0 ELSE pos

(* numSegsNeeded of push, numReadSegs of pop: the division rounds up.      *)
SegsNeeded(size) == (size + SegSize - 1) \div SegSize

(* Message number id, as the bytes that push copies.                       *)
PayloadOf(id, size) ==
  [size |-> size, chunks |-> [k \in 1 .. SegsNeeded(size) |-> <<id, k>>]]

(* The bytes buf[off : off+size] of the message at segment pos.            *)
PayloadAt(pos) ==
  [size   |-> mgmt[pos],
   chunks |-> [k \in 1 .. SegsNeeded(mgmt[pos]) |-> data[pos + k - 1]]]

-----------------------------------------------------------------------------
(***************************************************************************)
(* Sender.                                                                 *)
(***************************************************************************)
EnoughMemory(wp, rp, needed) ==
  LET needed1 == IF wp + needed > NumSegs THEN needed + (NumSegs - wp) ELSE needed
      rp1     == IF wp + needed1 >= NumSegs THEN rp + NumSegs ELSE rp
  IN  needed < NumSegs /\ (wp + needed1 < rp1 \/ wp >= rp1)

(* The segments a message of the given number of segments is written to.   *)
StartPos(needed) == IF writePos + needed > NumSegs THEN 0 ELSE writePos

(* Mutants: the skip marks run on to the end of the array; every segment   *)
(* of a message gets its size.                                             *)
MgmtSkipsTooFar(size) ==
  LET start == StartPos(SegsNeeded(size))
  IN  [i \in Seg |-> IF i = start THEN size
                     ELSE IF start < i THEN MagicSkipSegment ELSE mgmt[i]]

MgmtSizeEverywhere(size) ==
  LET start == StartPos(SegsNeeded(size))
  IN  [i \in Seg |-> IF start <= i /\ i < start + SegsNeeded(size) THEN size ELSE mgmt[i]]

MgmtAfterPush(size) ==
  LET needed == SegsNeeded(size)
      start  == StartPos(needed)
  IN  [i \in Seg |->
         IF i = start THEN size
         ELSE IF \/ start < i /\ i < start + needed
                 \/ writePos + needed > NumSegs /\ writePos <= i
              THEN MagicSkipSegment
              ELSE mgmt[i]]

DataAfterPush(id, size) ==
  LET needed == SegsNeeded(size)
      start  == StartPos(needed)
  IN  [i \in Seg |-> IF start <= i /\ i < start + needed
                     THEN <<id, i - start + 1>> ELSE data[i]]

WritePosAfterPush(size) ==
  LET needed == SegsNeeded(size)
      start  == StartPos(needed)
  IN  Normalise(IF needed = 0 THEN start + 1 ELSE start + needed)

Push(size) ==
  /\ size <= MaxWriteSize
  /\ EnoughMemory(writePos, readPos, SegsNeeded(size))
  /\ mgmt' = MgmtAfterPush(size)
  /\ data' = DataAfterPush(sent + 1, size)
  /\ writePos' = WritePosAfterPush(size)
  /\ sent' = sent + 1
  /\ UNCHANGED <<readPos, got, corrupt>>

-----------------------------------------------------------------------------
(***************************************************************************)
(* Receiver.                                                               *)
(***************************************************************************)

(* Where the run of skip entries at the read position ends.                *)
SkipEnd ==
  CHOOSE p \in readPos .. NumSegs :
    /\ \A j \in readPos .. p - 1 : mgmt[j] = MagicSkipSegment
    /\ p < NumSegs => mgmt[p] # MagicSkipSegment

(* Where peek leaves the read position, and the management segment.        *)
PeekPos == Normalise(SkipEnd)

MgmtAfterPeek ==
  [i \in Seg |-> IF readPos <= i /\ i < SkipEnd THEN MagicEmptySegment ELSE mgmt[i]]

(* The message at pos ends before the end of the buffer.                   *)
FitsBuffer(pos) == pos * SegSize + mgmt[pos] <= NumSegs * SegSize

PeekFails == MgmtAfterPeek[PeekPos] \in Magic \/ ~FitsBuffer(PeekPos)

(* peek alone: ringConn.queued, and the error return of Recv.  A failing   *)
(* peek has already freed the skip run; the position stays.                *)
Peek ==
  /\ readPos # writePos
  /\ mgmt' = MgmtAfterPeek
  /\ readPos' = IF PeekFails THEN readPos ELSE PeekPos
  /\ corrupt' = IF PeekFails THEN TRUE ELSE corrupt
  /\ UNCHANGED <<writePos, data, sent, got>>

(* The segments pop frees for a message of size bytes at pos: the message, *)
(* and the rest of the array when a skip entry follows it.                 *)
PopEnd(pos) == pos + SegsNeeded(mgmt[pos])

TailSkipped(pos) == PopEnd(pos) < NumSegs /\ mgmt[PopEnd(pos)] = MagicSkipSegment

(* Mutant: the read position moves one segment too far.                    *)
ReadPosTooFar(pos) ==
  IF TailSkipped(pos) THEN 0 ELSE Normalise(PopEnd(pos) + 1)

MgmtAfterPop(pos) ==
  [i \in Seg |-> IF pos <= i /\ (i < PopEnd(pos) \/ TailSkipped(pos))
                 THEN MagicEmptySegment ELSE MgmtAfterPeek[i]]

ReadPosAfterPop(pos) ==
  IF TailSkipped(pos) THEN 0 ELSE Normalise(PopEnd(pos))

(* peek, copy, pop.  FitsBuffer keeps the message that is popped before    *)
(* the end of the array, so pop's own wrap to 0 never runs.  pop finds the *)
(* ring empty only when peek moved the read position onto the write        *)
(* position; then it frees nothing.                                        *)
Recv ==
  /\ readPos # writePos
  /\ ~PeekFails
  /\ got' = PayloadAt(PeekPos)
  /\ IF PeekPos = writePos
     THEN mgmt' = MgmtAfterPeek /\ readPos' = PeekPos
     ELSE mgmt' = MgmtAfterPop(PeekPos) /\ readPos' = ReadPosAfterPop(PeekPos)
  /\ UNCHANGED <<writePos, data, sent, corrupt>>

-----------------------------------------------------------------------------
(***************************************************************************)
(* What the queue holds: the messages between the two positions, in order. *)
(***************************************************************************)
Offset(i) == IF i >= readPos THEN i - readPos ELSE i + NumSegs - readPos

Unread(i) == Offset(i) < Offset(writePos)

Heads == {i \in Seg : Unread(i) /\ mgmt[i] \notin Magic}

Contents ==
  [k \in 1 .. Cardinality(Heads) |->
     PayloadAt(CHOOSE h \in Heads :
                 Cardinality({g \in Heads : Offset(g) < Offset(h)}) = k - 1)]

-----------------------------------------------------------------------------
Init ==
  /\ readPos = 0 /\ writePos = 0
  /\ mgmt = [i \in Seg |-> MagicEmptySegment]
  /\ data = [i \in Seg |-> NoChunk]
  /\ sent = 0
  /\ got = NoPayload
  /\ corrupt = FALSE

(* The sender: one transaction is at most Backlog messages, after which it *)
(* waits for the peer (conn.go, SendRequest queues a whole transaction and *)
(* await reads the verdict before the next one).                           *)
SendMessage == sent < MaxSent /\ Cardinality(Heads) < Backlog /\ \E size \in Sizes : Push(size)

Next == SendMessage \/ Peek \/ Recv

(* The reader polls the ring until it is empty (ring_linux.go, Recv).      *)
Spec == Init /\ [][Next]_vars

-----------------------------------------------------------------------------
(* Positions stay inside the array, and a management entry is a size that  *)
(* push accepts or a magic value (ring.go, push, peek and pop).            *)
TypeOK ==
  /\ readPos \in Seg /\ writePos \in Seg
  /\ mgmt \in [Seg -> MgmtEntry]
  /\ data \in [Seg -> Chunk]
  /\ sent \in 0 .. MaxSent
  /\ corrupt \in BOOLEAN

(* No operation on a ring that only push and pop touched ever reports      *)
(* errRingCorrupt (ring.go, peek): the entry at the read position is       *)
(* always the size of a message.                                           *)
NeverCorrupt == ~corrupt

(* push never changes the management entry or the bytes of a segment that  *)
(* holds an accepted message the receiver has not read (ring.go, push:     *)
(* errRingFull "when the queue lacks space (no partial writes happen)").   *)
PushSparesUnread ==
  \A size \in Sizes : Push(size) =>
    \A i \in Seg : Unread(i) => mgmt'[i] = mgmt[i] /\ data'[i] = data[i]

UnreadPreserved == [][PushSparesUnread]_vars

(* An empty ring takes any message, wherever its positions stand: a sender *)
(* that finds the ring full waits for the receiver, and nobody could help  *)
(* it if the ring were already empty (ring_linux.go, Send).                *)
EmptyRingAccepts ==
  readPos = writePos =>
    \A size \in Sizes : EnoughMemory(writePos, readPos, SegsNeeded(size))

(* Segments outside the unread region are marked free (ring.go, pop).      *)
FreeIsEmpty == \A i \in Seg : Unread(i) \/ mgmt[i] = MagicEmptySegment

(* A management entry that gives a size is on the first segment of a       *)
(* message, even in a ring that push overran: the receiver never takes the *)
(* middle of a message for its start (ring.go, push marks continuation     *)
(* segments with the skip magic).                                          *)
HeadIsMessageStart ==
  \A i \in Seg : mgmt[i] \notin Magic => data[i][2] = 1

(* The ring is a FIFO queue of whole messages (ringConn: "One Send becomes *)
(* exactly one Recv unit on the peer").                                    *)
Payload == {PayloadOf(id, size) : id \in 1 .. MaxSent, size \in Sizes}

Q == INSTANCE MessageQueue WITH queue <- Contents

RingIsQueue == Q!Spec
=============================================================================
