--------------------------- MODULE ResponseWriter ---------------------------
(***************************************************************************)
(* The response side of the middleware: internal/handler/response.go over  *)
(* the buffering policy of internal/body/response.go.  The origin handler  *)
(* calls WriteHeader, Write and Flush as often and in whatever order it    *)
(* likes and returns; finalize then re-emits what was buffered.  Its       *)
(* headers are there when it starts: nothing but WriteHeader reads them.   *)
(*                                                                         *)
(* The writer underneath is net/http's (external): an informational status *)
(* goes out by itself and commits it to nothing; the first Write or Flush, *)
(* or the end of the request, sends an implicit 200; a second final header *)
(* is ignored, and writes fail once the client is gone.  The bytes of the  *)
(* body are numbered in the order in which the origin writes them.         *)
(***************************************************************************)
EXTENDS Integers, Sequences

CONSTANTS Cap,          \* ResponseBufferLimit; Validate rejects 0 and less
          Codes,        \* the status codes origins send, 1xx among them
          Lengths,      \* the Content-Lengths origins declare, if they do
          WriteSizes,   \* bytes per Write
          MaxBytes      \* bound: bytes the origin writes

ASSUME WriterAssumption ==
  /\ Cap \in Nat \ {0} /\ Codes \subseteq Nat \ {0}
  /\ Lengths \subseteq Nat /\ WriteSizes \subseteq Nat /\ MaxBytes \in Nat

VARIABLES
  pc,           \* of the origin: "serving", then "done" or "failed"
  sse, declared, encoded,   \* the response headers the origin sets
  gzip,         \* whether the client accepts gzip
  written,      \* how many bytes it has written
  status, wroteHeader, passThrough,   \* responseWriter
  buf, bufPass,                       \* body.ResponseBuffer
  sentStatus, sentLength, wire, compressed,   \* what the client receives
  gone,         \* the client is gone
  early,        \* history: Flush sent the header of a buffered response
  meant,        \* history: the last final status before the header was out
  abandoned     \* history: bytes that were buffered when WriteHeader
                \*   switched to streaming

origin == <<sse, declared, encoded, gzip>>
rw == <<status, wroteHeader, passThrough, buf, bufPass>>
client == <<sentStatus, sentLength, wire, compressed>>
history == <<early, meant, abandoned>>
vars == <<pc, origin, written, rw, client, gone, history>>

Informational(c) == c \in 100 .. 199 /\ c # 101

Bytes(from, to) == [i \in 1 .. to - from + 1 |-> from + i - 1]

(* Compression changes the length: an empty body becomes a gzip header.    *)
WireLength(bytes, zipped) == IF zipped THEN Len(bytes) + 1 ELSE Len(bytes)

-----------------------------------------------------------------------------
(* net/http: the header goes out once.                                     *)
SendHeader(st, len) ==
  IF sentStatus # 0 THEN UNCHANGED <<sentStatus, sentLength>>
                    ELSE sentStatus' = st /\ sentLength' = len

(* flushHeader: the recorded status, 200 by default, once.                 *)
FlushedStatusOK(st) == 200   \* mutant: the recorded status is lost
FlushedStatus(st) == IF st = 0 THEN 200 ELSE st

RecordFlush(st) ==
  /\ wroteHeader' = TRUE
  /\ status' = IF wroteHeader THEN st ELSE FlushedStatus(st)

(* Nothing follows yet: an informational status is all that goes out.      *)
FlushHeader(st, len) ==
  /\ RecordFlush(st)
  /\ IF wroteHeader \/ Informational(FlushedStatus(st)) THEN UNCHANGED <<sentStatus, sentLength>>
     ELSE SendHeader(FlushedStatus(st), len)

(* A body or the end of the request follows: net/http adds the 200 that is *)
(* missing.                                                                *)
FlushHeaderAndGoOn(st, len) ==
  /\ RecordFlush(st)
  /\ SendHeader(IF wroteHeader \/ Informational(FlushedStatus(st)) THEN 200
                                                                  ELSE FlushedStatus(st), len)

(* ResponseWriter.Write underneath; fails, possibly silently, when the     *)
(* client is gone.                                                         *)
Emit(bytes) == wire' = IF gone THEN wire ELSE wire \o bytes

-----------------------------------------------------------------------------
(* WriteHeader counts until flushHeader has run.  It may turn a response   *)
(* that has been buffered so far into a stream: the header goes out, what  *)
(* is in the buffer never does.                                            *)
RecordStatus(c) ==
  /\ ~wroteHeader
  /\ bufPass' = (bufPass \/ sse \/ declared > Cap)
  /\ passThrough' = (passThrough \/ bufPass')
  /\ IF bufPass' THEN FlushHeader(c, declared)
     ELSE status' = c /\ UNCHANGED <<wroteHeader, sentStatus, sentLength>>
  /\ abandoned' = IF bufPass' /\ ~bufPass THEN Len(buf) ELSE abandoned

IgnoreStatus ==
  /\ wroteHeader
  /\ UNCHANGED <<bufPass, passThrough, status, wroteHeader, sentStatus, sentLength, abandoned>>

WriteHeader(c) ==
  /\ pc = "serving"
  /\ RecordStatus(c) \/ IgnoreStatus
  /\ meant' = IF Informational(c) \/ sentStatus # 0 THEN meant ELSE c
  /\ UNCHANGED <<pc, origin, written, buf, wire, compressed, gone, early>>

(* Streaming: the header is out, or net/http sends the implicit one.       *)
WriteThrough(p) ==
  /\ bufPass
  /\ passThrough' = TRUE
  /\ SendHeader(200, declared) /\ Emit(p)
  /\ UNCHANGED <<status, wroteHeader, buf, bufPass>>

(* Mutant: the cap is ignored.                                             *)
WriteUncapped(p) ==
  /\ ~bufPass /\ buf' = buf \o p
  /\ UNCHANGED <<status, wroteHeader, passThrough, bufPass, sentStatus, sentLength, wire>>

WriteBuffered(p) ==
  /\ ~bufPass /\ Cap - Len(buf) >= Len(p)
  /\ buf' = buf \o p
  /\ UNCHANGED <<status, wroteHeader, passThrough, bufPass, sentStatus, sentLength, wire>>

(* Mutant: the buffered prefix is forgotten.                               *)
WriteOnlyRest(p) ==
  LET room == Cap - Len(buf)
  IN  /\ ~bufPass /\ room < Len(p)
      /\ buf' = buf \o SubSeq(p, 1, room)
      /\ bufPass' = TRUE /\ passThrough' = TRUE
      /\ FlushHeaderAndGoOn(status, declared)
      /\ Emit(SubSeq(p, room + 1, Len(p)))

(* The buffer overflows: header, prefix and the rest of p go out.          *)
WriteOverflows(p) ==
  LET room == Cap - Len(buf)
  IN  /\ ~bufPass /\ room < Len(p)
      /\ buf' = buf \o SubSeq(p, 1, room)
      /\ bufPass' = TRUE /\ passThrough' = TRUE
      /\ FlushHeaderAndGoOn(status, declared)
      /\ Emit(buf' \o SubSeq(p, room + 1, Len(p)))

(* The origin keeps to the length it declared: net/http refuses more.      *)
Write(n) ==
  /\ pc = "serving" /\ written + n <= (IF declared = -1 THEN MaxBytes ELSE declared)
  /\ LET p == Bytes(written + 1, written + n)
     IN  WriteThrough(p) \/ WriteBuffered(p) \/ WriteOverflows(p)
  /\ written' = written + n
  /\ UNCHANGED <<pc, origin, compressed, gone, history>>

(* Flush goes straight to the writer underneath.                           *)
Flush ==
  /\ pc = "serving"
  /\ SendHeader(200, declared)
  /\ early' = (early \/ ~passThrough)
  /\ UNCHANGED <<pc, origin, written, rw, wire, compressed, gone, meant, abandoned>>

(* The origin returns, finalize runs and net/http ends the response.       *)
FinalizeStream ==
  /\ pc = "serving" /\ passThrough
  /\ FlushHeaderAndGoOn(status, declared)
  /\ pc' = "done"
  /\ UNCHANGED <<origin, written, passThrough, buf, bufPass, wire, compressed, gone, history>>

(* Mutant: the length is taken before the body is compressed.              *)
FinalizeStaleLength ==
  /\ pc = "serving" /\ ~passThrough
  /\ compressed' = (gzip /\ ~encoded)
  /\ FlushHeaderAndGoOn(status, Len(buf))
  /\ Emit(buf)
  /\ pc' = "done"
  /\ UNCHANGED <<origin, written, passThrough, buf, bufPass, gone, history>>

FinalizeBuffered ==
  /\ pc = "serving" /\ ~passThrough
  /\ compressed' = (gzip /\ ~encoded)
  /\ FlushHeaderAndGoOn(status, WireLength(buf, compressed'))
  /\ Emit(buf)
  /\ pc' = "done"
  /\ UNCHANGED <<origin, written, passThrough, buf, bufPass, gone, history>>

(* The origin fails: forward returns its error and finalizes nothing.      *)
OriginFails ==
  /\ pc = "serving"
  /\ pc' = "failed"
  /\ UNCHANGED <<origin, written, rw, client, gone, history>>

ClientLeaves ==
  /\ ~gone /\ pc = "serving"
  /\ gone' = TRUE
  /\ UNCHANGED <<pc, origin, written, rw, client, history>>

-----------------------------------------------------------------------------
Init ==
  /\ pc = "serving" /\ written = 0
  /\ sse \in BOOLEAN /\ encoded \in BOOLEAN /\ gzip \in BOOLEAN
  /\ declared \in Lengths \cup {-1}
  /\ status = 0 /\ wroteHeader = FALSE /\ passThrough = FALSE
  /\ buf = << >> /\ bufPass = FALSE
  /\ sentStatus = 0 /\ sentLength = -1 /\ wire = << >> /\ compressed = FALSE
  /\ gone = FALSE /\ early = FALSE /\ meant = 0 /\ abandoned = 0

Next ==
  \/ \E c \in Codes : WriteHeader(c)
  \/ \E n \in WriteSizes : Write(n)
  \/ Flush \/ FinalizeStream \/ FinalizeBuffered \/ OriginFails \/ ClientLeaves

Spec == Init /\ [][Next]_vars

-----------------------------------------------------------------------------
(* Whatever the order of the calls and the mixture of buffering, overflow  *)
(* and streaming: what the client has, and then what is still buffered, is *)
(* what the origin wrote, in order and once (response.go, Write: "so no    *)
(* bytes are lost"), but for the bytes that a WriteHeader after them left  *)
(* in the buffer when it switched to streaming; those are lost.            *)
NoOtherByteLost ==
  ~gone => wire \o (IF passThrough \/ pc = "done" THEN << >> ELSE buf)
             = Bytes(abandoned + 1, written)

(* Never more than the cap is held in memory, however the origin splits    *)
(* its writes (body/response.go, Write).                                   *)
BufferBounded == Len(buf) <= Cap

(* The client sees the last final status of the origin that could still be *)
(* sent, 200 if there was none (response.go: "The header is deferred until *)
(* the body's fate is known").  Two cases differ.  An informational status *)
(* that was recorded last, or that a stream has flushed, displaces it:     *)
(* net/http then sends 200.  And an origin that flushed a response that    *)
(* was still buffered got net/http's implicit 200 before its own status.   *)
StatusPreserved ==
  ~early => sentStatus \in {0, IF Informational(status) \/ meant = 0 THEN 200 ELSE meant}

(* The Content-Length the client was told is what it gets, compressed or   *)
(* not, from an origin that wrote what it declared, neither flushed early  *)
(* nor lost bytes to a late WriteHeader (response.go, finalize).           *)
LengthMatches ==
  /\ pc = "done" /\ ~gone /\ ~early /\ abandoned = 0
  /\ sentLength # -1 /\ declared \in {-1, written}
  => sentLength = WireLength(wire, compressed)
=============================================================================
