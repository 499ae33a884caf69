----------------------------- MODULE RingSteps ------------------------------
(***************************************************************************)
(* The ring queue of internal/transport/linux/ring.go as two processes see *)
(* it: the sender's push and the receiver's peek, copy and pop take no     *)
(* common lock, so that each single load and store of one may fall between *)
(* those of the other.  mem is the shared memory; the variables of         *)
(* RingQueue, in which a call is one step, are carried along: push takes   *)
(* its step there when it stores the write position, pop when it has       *)
(* looked behind its message.  Stores become visible in program order      *)
(* (x86).                                                                  *)
(***************************************************************************)
EXTENDS RingQueue

VARIABLES mem,       \* readPos, writePos, mgmt and data as they are in memory
          stores,    \* the stores the push in progress has still to make
          pushed,    \* the size of its message
          rd,        \* the receiver: where it stands and its local variables
          result,    \* what the last Recv returned
          overtaken  \* history: pop took the marks of an unfinished push for
                     \* the skipped tail behind the message it freed

stepVars == <<mem, stores, pushed, rd, result, overtaken>>
allVars == <<vars, stepVars>>

(* The atomic ring is followed until the two part.                         *)
Atomically(call) == IF overtaken THEN UNCHANGED vars ELSE call

Store(where, i, v) == [where |-> where, i |-> i, v |-> v]

(* Mutant: the write position is published before the bytes are copied.    *)
PublishedEarly(n) ==
  LET needed == SegsNeeded(n)
      start  == StartPos(needed)
      wrapped == writePos + needed > NumSegs
  IN  (IF wrapped THEN [k \in 1 .. NumSegs - writePos |->
                          Store("mgmt", writePos + k - 1, MagicSkipSegment)] ELSE << >>)
      \o <<Store("mgmt", start, n), Store("writePos", 0, WritePosAfterPush(n))>>
      \o [k \in 1 .. needed |-> Store("data", start + k - 1, <<sent + 1, k>>)]
      \o [k \in 1 .. needed - 1 |-> Store("mgmt", start + k, MagicSkipSegment)]

(* push after its checks: the skipped tail, the size, the bytes, the       *)
(* continuation marks, the write position.                                 *)
StoresOfPush(n) ==
  LET needed == SegsNeeded(n)
      start  == StartPos(needed)
      wrapped == writePos + needed > NumSegs
  IN  (IF wrapped THEN [k \in 1 .. NumSegs - writePos |->
                          Store("mgmt", writePos + k - 1, MagicSkipSegment)] ELSE << >>)
      \o <<Store("mgmt", start, n)>>
      \o [k \in 1 .. needed |-> Store("data", start + k - 1, <<sent + 1, k>>)]
      \o [k \in 1 .. needed - 1 |-> Store("mgmt", start + k, MagicSkipSegment)]
      \o <<Store("writePos", 0, WritePosAfterPush(n))>>

PushBegin ==
  /\ stores = << >> /\ ~overtaken
  /\ sent < MaxSent /\ Cardinality(Heads) < Backlog
  /\ \E n \in Sizes : /\ EnoughMemory(mem.writePos, mem.readPos, SegsNeeded(n))
                      /\ stores' = StoresOfPush(n) /\ pushed' = n
  /\ UNCHANGED <<vars, mem, rd, result, overtaken>>

PushStore ==
  /\ stores # << >>
  /\ LET s == Head(stores)
     IN  IF s.where = "writePos"
         THEN mem' = [mem EXCEPT !.writePos = s.v] /\ Atomically(Push(pushed))
         ELSE mem' = [mem EXCEPT ![s.where][s.i] = s.v] /\ UNCHANGED vars
  /\ stores' = Tail(stores)
  /\ UNCHANGED <<pushed, rd, result, overtaken>>

-----------------------------------------------------------------------------
At(place) == rd.at = place

Empty(i) == [mem EXCEPT !.mgmt[i] = MagicEmptySegment]

(* peek loads the two positions.                                           *)
PeekBegin ==
  /\ At("idle")
  /\ mem.readPos # mem.writePos
  /\ rd' = [rd EXCEPT !.at = "skip", !.pos = mem.readPos]
  /\ UNCHANGED <<vars, mem, stores, pushed, result, overtaken>>

AtSkipped == rd.pos < NumSegs /\ mem.mgmt[rd.pos] = MagicSkipSegment

PeekSkips ==
  /\ At("skip") /\ AtSkipped
  /\ mem' = Empty(rd.pos)
  /\ rd' = [rd EXCEPT !.pos = @ + 1]
  /\ UNCHANGED <<vars, stores, pushed, result, overtaken>>

(* The entry at the read position is the size of a message in the buffer. *)
AtMessage ==
  LET p == Normalise(rd.pos)
  IN  mem.mgmt[p] \notin Magic /\ p * SegSize + mem.mgmt[p] <= NumSegs * SegSize

PeekEnds ==
  /\ At("skip") /\ ~AtSkipped /\ AtMessage
  /\ LET p == Normalise(rd.pos)
     IN  /\ mem' = [mem EXCEPT !.readPos = p]
         /\ rd' = [rd EXCEPT !.at = "peeked", !.pos = p, !.size = mem.mgmt[p],
                             !.chunks = << >>]
  /\ Atomically(Peek)
  /\ UNCHANGED <<stores, pushed, result, overtaken>>

(* errRingCorrupt.                                                         *)
PeekErrs ==
  /\ At("skip") /\ ~AtSkipped /\ ~AtMessage
  /\ corrupt' = TRUE
  /\ rd' = [rd EXCEPT !.at = "idle"]
  /\ UNCHANGED <<readPos, writePos, mgmt, data, sent, got, mem, stores, pushed, result,
                 overtaken>>

(* ringConn.queued returns here.                                           *)
PeekOnly ==
  /\ At("peeked") /\ rd.chunks = << >>
  /\ rd' = [rd EXCEPT !.at = "idle"]
  /\ UNCHANGED <<vars, mem, stores, pushed, result, overtaken>>

(* Recv and RecvQueued copy the message.                                   *)
Copy ==
  /\ At("peeked") /\ Len(rd.chunks) < SegsNeeded(rd.size)
  /\ rd' = [rd EXCEPT !.chunks = Append(@, mem.data[rd.pos + Len(@)])]
  /\ UNCHANGED <<vars, mem, stores, pushed, result, overtaken>>

(* pop loads the positions and the size again; the message is in the       *)
(* buffer, as peek has checked.                                            *)
PopBegin ==
  /\ At("peeked") /\ Len(rd.chunks) = SegsNeeded(rd.size)
  /\ mem.readPos # mem.writePos
  /\ rd' = [rd EXCEPT !.at = "free", !.last = rd.pos + SegsNeeded(mem.mgmt[rd.pos])]
  /\ UNCHANGED <<vars, mem, stores, pushed, result, overtaken>>

PopFrees ==
  /\ At("free") /\ rd.pos < rd.last
  /\ mem' = Empty(rd.pos)
  /\ rd' = [rd EXCEPT !.pos = @ + 1]
  /\ UNCHANGED <<vars, stores, pushed, result, overtaken>>

(* The entry behind the message: a skipped tail is freed to the end of the *)
(* array.  An unfinished push may have written the mark a moment ago, in   *)
(* front of the write position the receiver has not seen move.  In the     *)
(* atomic ring, pop takes place here.                                      *)
PopLooksBehind ==
  /\ At("free") /\ rd.pos = rd.last
  /\ rd' = [rd EXCEPT !.at = "tail", !.last = IF AtSkipped THEN NumSegs ELSE @]
  /\ overtaken' = (overtaken \/ (AtSkipped /\ rd.pos = mem.writePos))
  /\ Atomically(Recv)
  /\ UNCHANGED <<mem, stores, pushed, result>>

PopFreesTail ==
  /\ At("tail") /\ rd.pos < rd.last
  /\ mem' = Empty(rd.pos)
  /\ rd' = [rd EXCEPT !.pos = @ + 1]
  /\ UNCHANGED <<vars, stores, pushed, result, overtaken>>

(* Mutant: pop does not move the read position.                            *)
PopForgets ==
  /\ At("tail") /\ rd.pos = rd.last
  /\ result' = [size |-> rd.size, chunks |-> rd.chunks]
  /\ rd' = [rd EXCEPT !.at = "idle"]
  /\ UNCHANGED <<vars, mem, stores, pushed, overtaken>>

PopEnds ==
  /\ At("tail") /\ rd.pos = rd.last
  /\ mem' = [mem EXCEPT !.readPos = Normalise(rd.pos)]
  /\ result' = [size |-> rd.size, chunks |-> rd.chunks]
  /\ rd' = [rd EXCEPT !.at = "idle"]
  /\ UNCHANGED <<vars, stores, pushed, overtaken>>

-----------------------------------------------------------------------------
StepInit ==
  /\ Init
  /\ mem = [readPos |-> readPos, writePos |-> writePos, mgmt |-> mgmt, data |-> data]
  /\ stores = << >> /\ pushed = 0
  /\ rd = [at |-> "idle", pos |-> 0, last |-> 0, size |-> 0, chunks |-> << >>]
  /\ result = NoPayload /\ overtaken = FALSE

Receive == \/ PeekBegin \/ PeekSkips \/ PeekEnds \/ PeekErrs \/ Copy
           \/ PopBegin \/ PopFrees \/ PopLooksBehind \/ PopFreesTail \/ PopEnds

StepNext == PushBegin \/ PushStore \/ Receive \/ PeekOnly

(* Both processes finish the calls they have begun, and the receiver,      *)
(* which now and then only peeks, keeps receiving.                         *)
StepSpec == /\ StepInit /\ [][StepNext]_allVars
            /\ WF_allVars(PushStore) /\ WF_allVars(Receive) /\ SF_allVars(Copy)

-----------------------------------------------------------------------------
(* Interleaved store by store, the calls of the two processes come to the  *)
(* same as whole calls one after the other: a Recv returns the message the *)
(* atomic Recv returns, complete and in order, the positions agree, a push *)
(* still has its room when it publishes, and the memory is the same        *)
(* whenever neither is at work.  The one exception is pop's look behind    *)
(* the last message (ring.go, pop) while a push that wraps has written its *)
(* skip marks and not yet its write position.                              *)
CallsLookAtomic ==
  ~overtaken =>
    /\ mem.writePos = writePos
    /\ ~At("tail") => result = got /\ mem.readPos = readPos
    /\ stores # << >> => EnoughMemory(writePos, readPos, SegsNeeded(pushed))
    /\ stores = << >> /\ At("idle") => mem.mgmt = mgmt /\ mem.data = data

(* Every message that push accepted is returned by Recv while the receiver *)
(* keeps polling (ring_linux.go, Recv), again up to that exception.        *)
EveryMessageReturned ==
  \A id \in 1 .. MaxSent :
    sent = id ~> (overtaken \/ \E n \in Sizes : result = PayloadOf(id, n))
=============================================================================
