------------------------ MODULE ResponseWriterProofs ------------------------
(***************************************************************************)
(* The response writer delivers what the origin wrote, for every buffer    *)
(* limit, every split of the body into writes, every order of the origin's *)
(* calls, every status code and every declared length; and what a call of  *)
(* WriteHeader after a buffered write costs.                               *)
(***************************************************************************)
EXTENDS ResponseWriter, SequenceTheorems, TLAPS

(* What the sequence of numbered bytes is.                                 *)
LEMMA BytesAre ==
  ASSUME NEW a \in Nat, NEW b \in Nat, a <= b + 1
  PROVE  /\ Bytes(a, b) \in Seq(Nat)
         /\ Len(Bytes(a, b)) = b - a + 1
         /\ \A i \in 1 .. b - a + 1 : Bytes(a, b)[i] = a + i - 1
<1> DEFINE s == [i \in 1 .. b - a + 1 |-> a + i - 1]
<1>1. b - a + 1 \in Nat
  OBVIOUS
<1>2. s \in [1 .. b - a + 1 -> Nat]
  OBVIOUS
<1>3. s \in Seq(Nat) /\ Len(s) = b - a + 1
  BY <1>1, <1>2
<1> QED BY <1>3 DEF Bytes

(* Consecutive bytes join.                                                 *)
LEMMA BytesJoin ==
  ASSUME NEW a \in Nat, NEW w \in Nat, NEW n \in Nat, a <= w
  PROVE  Bytes(a + 1, w) \o Bytes(w + 1, w + n) = Bytes(a + 1, w + n)
<1> DEFINE s == Bytes(a + 1, w)
           t == Bytes(w + 1, w + n)
           u == Bytes(a + 1, w + n)
<1>1. s \in Seq(Nat) /\ Len(s) = w - a /\ \A i \in 1 .. w - a : s[i] = a + i
  <2>1. a + 1 \in Nat /\ a + 1 <= w + 1 /\ w - (a + 1) + 1 = w - a
    OBVIOUS
  <2>2. s \in Seq(Nat) /\ Len(s) = w - a /\ \A i \in 1 .. w - a : s[i] = (a + 1) + i - 1
    BY <2>1, BytesAre
  <2> QED BY <2>2
<1>2. t \in Seq(Nat) /\ Len(t) = n /\ \A i \in 1 .. n : t[i] = w + i
  <2>1. w + 1 \in Nat /\ w + n \in Nat /\ w + 1 <= w + n + 1 /\ (w + n) - (w + 1) + 1 = n
    OBVIOUS
  <2>2. t \in Seq(Nat) /\ Len(t) = n /\ \A i \in 1 .. n : t[i] = (w + 1) + i - 1
    BY <2>1, BytesAre
  <2> QED BY <2>2
<1>3. u \in Seq(Nat) /\ Len(u) = w - a + n /\ \A i \in 1 .. w - a + n : u[i] = a + i
  <2>1. /\ a + 1 \in Nat /\ w + n \in Nat /\ a + 1 <= w + n + 1
        /\ (w + n) - (a + 1) + 1 = w - a + n
    OBVIOUS
  <2>2. u \in Seq(Nat) /\ Len(u) = w - a + n /\ \A i \in 1 .. w - a + n : u[i] = (a + 1) + i - 1
    BY <2>1, BytesAre
  <2> QED BY <2>2
<1> HIDE DEF s, t, u
<1>4. /\ s \o t \in Seq(Nat) /\ Len(s \o t) = w - a + n
      /\ \A i \in 1 .. w - a + n : (s \o t)[i] = IF i <= w - a THEN s[i] ELSE t[i - (w - a)]
  <2>1. PICK m \in Nat : m = w - a
    OBVIOUS
  <2>2. /\ s \o t \in Seq(Nat) /\ Len(s \o t) = m + n
        /\ \A i \in 1 .. m + n : (s \o t)[i] = IF i <= m THEN s[i] ELSE t[i - m]
    <3>1. s \in Seq(Nat) /\ t \in Seq(Nat) /\ Len(s) = m /\ Len(t) = n
      BY <1>1, <1>2, <2>1
    <3> QED BY <3>1, ConcatProperties
  <2> QED BY <2>1, <2>2
<1>5. \A i \in 1 .. w - a + n : (s \o t)[i] = u[i]
  <2> SUFFICES ASSUME NEW i \in 1 .. w - a + n PROVE (s \o t)[i] = u[i]
    OBVIOUS
  <2>1. CASE i <= w - a
    BY <1>1, <1>3, <1>4, <2>1
  <2>2. CASE ~(i <= w - a)
    <3>1. i - (w - a) \in 1 .. n /\ w + (i - (w - a)) = a + i
      BY <2>2
    <3> QED BY <1>2, <1>3, <1>4, <2>2, <3>1
  <2> QED BY <2>1, <2>2
<1>6. s \o t = u
  BY <1>3, <1>4, <1>5, SeqEqual
<1> QED BY <1>6 DEF s, t, u

(* The same from the first byte on.                                        *)
LEMMA FirstBytesJoin ==
  ASSUME NEW w \in Nat, NEW n \in Nat
  PROVE  Bytes(1, w) \o Bytes(w + 1, w + n) = Bytes(1, w + n)
<1>1. Bytes(0 + 1, w) \o Bytes(w + 1, w + n) = Bytes(0 + 1, w + n)
  BY BytesJoin, 0 \in Nat, 0 <= w
<1>2. 0 + 1 = 1
  OBVIOUS
<1> QED BY <1>1, <1>2

(* A write that is cut in two is still the whole write.                    *)
LEMMA CutJoins ==
  ASSUME NEW b \in Seq(Nat), NEW p \in Seq(Nat), NEW k \in Nat, k < Len(p)
  PROVE  /\ SubSeq(p, 1, k) \in Seq(Nat) /\ Len(SubSeq(p, 1, k)) = k
         /\ (b \o SubSeq(p, 1, k)) \o SubSeq(p, k + 1, Len(p)) = b \o p
<1>1. Len(p) \in Nat /\ \A i \in 1 .. Len(p) : p[i] \in Nat
  BY LenProperties, ElementOfSeq
<1>2. SubSeq(p, 1, k) \in Seq(Nat) /\ Len(SubSeq(p, 1, k)) = k
  <2>1. \A i \in 1 .. k : p[i] \in Nat
    BY <1>1
  <2> QED BY <2>1, SubSeqProperties
<1>3. SubSeq(p, k + 1, Len(p)) \in Seq(Nat)
  <2>1. \A i \in k + 1 .. Len(p) : p[i] \in Nat
    BY <1>1
  <2> QED BY <1>1, <2>1, SubSeqProperties
<1>4. SubSeq(p, 1, k) \o SubSeq(p, k + 1, Len(p)) = p
  <2>1. 1 \in 1 .. Len(p) + 1 /\ k \in 1 - 1 .. Len(p) /\ Len(p) \in k .. Len(p)
    BY <1>1
  <2> QED BY <2>1, ConcatAdjacentSubSeq, SubSeqFull
<1>5. PICK x \in Seq(Nat), y \in Seq(Nat) : x = SubSeq(p, 1, k) /\ y = SubSeq(p, k + 1, Len(p))
  BY <1>2, <1>3, Zenon
<1>6. (b \o x) \o y = b \o (x \o y)
  OBVIOUS
<1>7. (b \o SubSeq(p, 1, k)) \o SubSeq(p, k + 1, Len(p)) = b \o p
  BY <1>4, <1>5, <1>6, Zenon
<1> QED BY <1>2, <1>7, Zenon
-----------------------------------------------------------------------------
TypeOK ==
  /\ pc \in {"serving", "done", "failed"}
  /\ declared \in Nat \cup {-1} /\ written \in Nat /\ meant \in Nat /\ abandoned \in Nat
  /\ status \in Nat /\ sentStatus \in Nat /\ sentLength \in Int
  /\ buf \in Seq(Nat) /\ wire \in Seq(Nat)
  /\ compressed \in BOOLEAN

(* The buffer and the writer agree on the mode; streaming means that the   *)
(* writer's header is out, and the client's too if it was a final one.     *)
ModeInv ==
  /\ bufPass <=> passThrough
  /\ passThrough => wroteHeader
  /\ ~passThrough /\ pc # "done" => ~wroteHeader
  /\ wroteHeader /\ ~Informational(status) => sentStatus # 0
  /\ ~passThrough /\ pc # "done" /\ ~early => sentStatus = 0

(* What is recorded is what the origin means, or stands for the 200 that   *)
(* was sent because it said nothing.                                       *)
StatusInv ==
  /\ ~early /\ ~Informational(status) => status = meant \/ (meant = 0 /\ status = 200)
  /\ StatusPreserved

(* The length the client was told, by mode.                                *)
LengthInv ==
  /\ passThrough \/ pc # "done" => ~compressed
  /\ sentStatus = 0 => sentLength = -1
  /\ passThrough /\ ~early => sentLength \in {-1, declared}
  /\ ~passThrough /\ pc = "done" /\ ~early => sentLength = WireLength(buf, compressed)

(* Where the origin's bytes are, by mode.                                  *)
ByteInv ==
  /\ Len(buf) <= Cap
  /\ abandoned <= written
  /\ ~passThrough => abandoned = 0 /\ buf = Bytes(1, written)
  /\ ~passThrough /\ pc # "done" => wire = << >>
  /\ (passThrough \/ pc = "done") /\ ~gone => wire = Bytes(abandoned + 1, written)

WriterInv == TypeOK /\ ModeInv /\ StatusInv /\ LengthInv /\ ByteInv

(* There are no bytes after the last one written.                          *)
LEMMA NoBytes ==
  ASSUME NEW w \in Nat
  PROVE  Bytes(w + 1, w) = << >>
<1>1. w + 1 \in Nat /\ w + 1 <= w + 1 /\ w - (w + 1) + 1 = 0
  OBVIOUS
<1>2. Bytes(w + 1, w) \in Seq(Nat) /\ Len(Bytes(w + 1, w)) = 0
  BY <1>1, BytesAre
<1> QED BY <1>2, EmptySeq

(* A prefix of the body is as long as its last byte says.                  *)
LEMMA PrefixLength ==
  ASSUME NEW w \in Nat
  PROVE  Bytes(1, w) \in Seq(Nat) /\ Len(Bytes(1, w)) = w
<1>1. 1 \in Nat /\ 1 <= w + 1 /\ w - 1 + 1 = w
  OBVIOUS
<1> QED BY <1>1, BytesAre

(* What the writer does with a status it does not ignore: it stays in the  *)
(* buffer, or the response becomes a stream without what was buffered.     *)
LEMMA RecordStatusStep ==
  ASSUME WriterInv, NEW c \in Codes, WriteHeader(c), RecordStatus(c)
  PROVE  WriterInv'
<1>1. TypeOK /\ ModeInv /\ StatusInv /\ LengthInv /\ ByteInv /\ c \in Nat /\ c # 0
  BY WriterAssumption DEF WriterInv
<1>2. /\ pc = "serving" /\ ~wroteHeader /\ ~passThrough /\ ~bufPass /\ (passThrough' <=> bufPass')
      /\ meant' = (IF Informational(c) \/ sentStatus # 0 THEN meant ELSE c)
      /\ UNCHANGED <<pc, declared, written, buf, wire, compressed, gone, early>>
  BY <1>1 DEF WriteHeader, RecordStatus, ModeInv, origin
<1>3. wire = << >> /\ buf = Bytes(1, written) /\ ~compressed /\ abandoned = 0
  BY <1>1, <1>2 DEF ByteInv, LengthInv
<1>4. CASE bufPass'
  <2>1. /\ passThrough' /\ wroteHeader' /\ status' = c /\ abandoned' = Len(buf)
        /\ IF Informational(c) \/ sentStatus # 0
           THEN UNCHANGED <<sentStatus, sentLength>>
           ELSE sentStatus' = c /\ sentLength' = declared
    BY <1>1, <1>2, <1>4 DEF RecordStatus, FlushHeader, RecordFlush, FlushedStatus, SendHeader
  <2>2. abandoned' = written /\ wire' = Bytes(abandoned' + 1, written')
    <3>1. Len(buf) = written
      BY <1>1, <1>3, PrefixLength DEF TypeOK
    <3>2. Bytes(written + 1, written) = << >>
      BY <1>1, NoBytes DEF TypeOK
    <3> QED BY <1>2, <1>3, <2>1, <3>1, <3>2
  <2>3. TypeOK'
    BY <1>1, <1>2, <2>1, <2>2 DEF TypeOK
  <2>4. ModeInv'
    BY <1>1, <1>2, <1>4, <2>1 DEF ModeInv, TypeOK
  <2>5. StatusInv'
    BY <1>1, <1>2, <2>1 DEF ModeInv, StatusInv, StatusPreserved
  <2>6. LengthInv'
    BY <1>1, <1>2, <1>3, <2>1 DEF LengthInv, ModeInv
  <2>7. ByteInv'
    BY <1>1, <1>2, <2>1, <2>2 DEF ByteInv, TypeOK
  <2> QED BY <2>3, <2>4, <2>5, <2>6, <2>7 DEF WriterInv
<1>5. CASE ~bufPass'
  <2>1. /\ ~passThrough' /\ status' = c /\ abandoned' = abandoned
        /\ UNCHANGED <<wroteHeader, sentStatus, sentLength>>
    BY <1>2, <1>5 DEF RecordStatus
  <2>2. TypeOK'
    BY <1>1, <1>2, <2>1 DEF TypeOK
  <2>3. ModeInv'
    BY <1>1, <1>2, <1>5, <2>1 DEF ModeInv
  <2>4. StatusInv'
    BY <1>1, <1>2, <2>1 DEF ModeInv, StatusInv, StatusPreserved
  <2>5. LengthInv' /\ ByteInv'
    BY <1>1, <1>2, <2>1 DEF LengthInv, ByteInv
  <2> QED BY <2>2, <2>3, <2>4, <2>5 DEF WriterInv
<1> QED BY <1>4, <1>5

(* A status after flushHeader changes nothing but what the origin meant.   *)
LEMMA IgnoreStatusStep ==
  ASSUME WriterInv, NEW c \in Codes, WriteHeader(c), IgnoreStatus
  PROVE  WriterInv'
<1>1. TypeOK /\ ModeInv /\ StatusInv /\ LengthInv /\ ByteInv /\ c \in Nat /\ c # 0
  BY WriterAssumption DEF WriterInv
<1>2. /\ wroteHeader /\ meant' = (IF Informational(c) \/ sentStatus # 0 THEN meant ELSE c)
      /\ UNCHANGED <<pc, declared, written, abandoned, status, wroteHeader, passThrough, buf,
                     bufPass, sentStatus, sentLength, wire, compressed, gone, early>>
  BY DEF WriteHeader, IgnoreStatus, origin
<1>3. TypeOK'
  BY <1>1, <1>2 DEF TypeOK
<1>4. ModeInv' /\ LengthInv' /\ ByteInv'
  BY <1>1, <1>2 DEF ModeInv, LengthInv, ByteInv
<1>5. StatusInv'
  BY <1>1, <1>2 DEF ModeInv, StatusInv, StatusPreserved
<1> QED BY <1>3, <1>4, <1>5 DEF WriterInv

(* What a Write adds to a prefix of the body that ends at written.         *)
LEMMA WriteAdds ==
  ASSUME NEW w \in Nat, NEW n \in Nat, NEW b, b = Bytes(1, w), NEW p, p = Bytes(w + 1, w + n)
  PROVE  /\ b \in Seq(Nat) /\ p \in Seq(Nat) /\ Len(p) = n
         /\ b \o p = Bytes(1, w + n)
<1>1. b \in Seq(Nat)
  BY BytesAre, 1 \in Nat, 1 <= w + 1
<1>2. w + 1 \in Nat /\ w + n \in Nat /\ w + 1 <= w + n + 1 /\ (w + n) - (w + 1) + 1 = n
  OBVIOUS
<1>3. p \in Seq(Nat) /\ Len(p) = n
  BY <1>2, BytesAre
<1>4. b \o p = Bytes(1, w + n)
  BY FirstBytesJoin, Zenon
<1> QED BY <1>1, <1>3, <1>4

(* A streamed write follows what is on the wire.                           *)
LEMMA WriteThroughStep ==
  ASSUME WriterInv, NEW n \in WriteSizes, Write(n),
         WriteThrough(Bytes(written + 1, written + n))
  PROVE  WriterInv'
<1>1. /\ TypeOK /\ ModeInv /\ StatusInv /\ LengthInv /\ ByteInv /\ n \in Nat /\ written \in Nat
      /\ abandoned \in Nat /\ abandoned <= written
  BY WriterAssumption DEF WriterInv, TypeOK, ByteInv
<1>2. DEFINE p == Bytes(written + 1, written + n)
<1>3. /\ passThrough /\ passThrough' /\ wroteHeader /\ pc = "serving" /\ pc' = "serving"
      /\ written' = written + n /\ bufPass
      /\ wire' = IF gone THEN wire ELSE wire \o p
      /\ UNCHANGED <<declared, compressed, gone, early, meant, abandoned, status, wroteHeader, buf,
                     bufPass>>
      /\ IF sentStatus # 0 THEN UNCHANGED <<sentStatus, sentLength>>
                           ELSE sentStatus' = 200 /\ sentLength' = declared
  BY <1>1 DEF Write, WriteThrough, ModeInv, SendHeader, Emit, origin, history
<1>4. ~gone => wire' = Bytes(abandoned + 1, written + n)
  <2>1. ~gone => wire' = Bytes(abandoned + 1, written) \o p
    BY <1>1, <1>3 DEF ByteInv
  <2>2. Bytes(abandoned + 1, written) \o p = Bytes(abandoned + 1, written + n)
    BY <1>1, BytesJoin, Zenon
  <2> QED BY <2>1, <2>2, Zenon
<1>5. wire' \in Seq(Nat)
  <2>1. p \in Seq(Nat)
    BY <1>1, WriteAdds
  <2> HIDE DEF p
  <2> QED BY <1>1, <1>3, <2>1 DEF TypeOK
<1>6. TypeOK'
  BY <1>1, <1>3, <1>5 DEF TypeOK
<1>7. ModeInv' /\ LengthInv'
  BY <1>1, <1>3 DEF ModeInv, LengthInv
<1>8. StatusInv'
  BY <1>1, <1>3 DEF ModeInv, StatusInv, StatusPreserved
<1>9. ByteInv'
  BY <1>1, <1>3, <1>4 DEF ByteInv
<1> QED BY <1>6, <1>7, <1>8, <1>9 DEF WriterInv

(* A buffered write follows what is in the buffer.                         *)
LEMMA WriteBufferedStep ==
  ASSUME WriterInv, NEW n \in WriteSizes, Write(n),
         WriteBuffered(Bytes(written + 1, written + n))
  PROVE  WriterInv'
<1>1. /\ TypeOK /\ ModeInv /\ StatusInv /\ LengthInv /\ ByteInv /\ n \in Nat /\ written \in Nat
      /\ Cap \in Nat
  BY WriterAssumption DEF WriterInv, TypeOK
<1>2. DEFINE p == Bytes(written + 1, written + n)
<1>3. /\ ~passThrough /\ ~bufPass /\ pc = "serving" /\ pc' = "serving" /\ written' = written + n
      /\ buf' = buf \o p /\ Cap - Len(buf) >= Len(p)
      /\ UNCHANGED <<declared, compressed, gone, early, meant, abandoned, status, wroteHeader,
                     passThrough, bufPass, sentStatus, sentLength, wire>>
  BY <1>1 DEF Write, WriteBuffered, ModeInv, origin, history
<1>4. p \in Seq(Nat) /\ Len(p) = n
  BY <1>1, WriteAdds
<1>5. buf' = Bytes(1, written + n)
  <2>1. buf' = Bytes(1, written) \o p
    BY <1>1, <1>3 DEF ByteInv
  <2>2. Bytes(1, written) \o p = Bytes(1, written + n)
    BY <1>1, FirstBytesJoin, Zenon
  <2> QED BY <2>1, <2>2, Zenon
<1> HIDE DEF p
<1>6. buf' \in Seq(Nat) /\ Len(buf') = Len(buf) + Len(p) /\ Len(buf) \in Nat
  <2>1. buf \in Seq(Nat) /\ buf' = buf \o p
    BY <1>1, <1>3 DEF TypeOK
  <2>2. buf \o p \in Seq(Nat) /\ Len(buf \o p) = Len(buf) + Len(p) /\ Len(buf) \in Nat
    BY <1>4, <2>1, ConcatProperties, LenProperties
  <2> QED BY <2>1, <2>2, Zenon
<1>7. TypeOK'
  BY <1>1, <1>3, <1>6 DEF TypeOK
<1>8. ModeInv' /\ StatusInv' /\ LengthInv'
  BY <1>1, <1>3 DEF ModeInv, StatusInv, StatusPreserved, LengthInv
<1>9. Len(buf') <= Cap
  BY <1>1, <1>3, <1>4, <1>6
<1>10. ByteInv'
  BY <1>1, <1>3, <1>5, <1>9 DEF ByteInv
<1> QED BY <1>7, <1>8, <1>10 DEF WriterInv

(* The header of a buffered response, when a body or the end follows: the  *)
(* client has a final status, the one the origin meant unless it flushed.  *)
HeaderIsOut(len) ==
  /\ wroteHeader' /\ sentStatus' # 0 /\ sentStatus' \in Nat /\ status' \in Nat
  /\ sentLength' = IF sentStatus # 0 THEN sentLength ELSE len
  /\ ~early /\ ~Informational(status') => status' = meant \/ (meant = 0 /\ status' = 200)
  /\ ~early => sentStatus' \in {0, IF Informational(status') \/ meant = 0 THEN 200 ELSE meant}

LEMMA HeaderGoesOut ==
  ASSUME WriterInv, ~passThrough, pc = "serving", ~wroteHeader, NEW len \in Int,
         FlushHeaderAndGoOn(status, len)
  PROVE  HeaderIsOut(len)
<1>1. /\ TypeOK /\ StatusInv /\ (~early => sentStatus = 0)
  BY DEF WriterInv, ModeInv
<1>2. /\ wroteHeader' /\ status' = FlushedStatus(status) /\ FlushedStatus(status) # 0
      /\ sentStatus' = (IF sentStatus # 0 THEN sentStatus
                        ELSE IF Informational(FlushedStatus(status)) THEN 200
                                                                     ELSE FlushedStatus(status))
      /\ sentLength' = IF sentStatus # 0 THEN sentLength ELSE len
  BY <1>1 DEF FlushHeaderAndGoOn, RecordFlush, SendHeader, FlushedStatus, TypeOK
<1>3. FlushedStatus(status) \in Nat /\ (status # 0 => FlushedStatus(status) = status)
      /\ (status = 0 => FlushedStatus(status) = 200)
  BY <1>1 DEF FlushedStatus, TypeOK
<1>4. ~Informational(0) /\ ~Informational(200)
  BY DEF Informational
<1>5. ~early /\ ~Informational(status') => status' = meant \/ (meant = 0 /\ status' = 200)
  BY <1>1, <1>2, <1>3, <1>4 DEF StatusInv
<1>6. ~early => sentStatus' \in {0, IF Informational(status') \/ meant = 0 THEN 200 ELSE meant}
  BY <1>1, <1>2, <1>3, <1>4, <1>5 DEF StatusInv
<1>7. sentStatus' # 0 /\ sentStatus' \in Nat /\ status' \in Nat
  BY <1>1, <1>2, <1>3 DEF TypeOK
<1> QED BY <1>2, <1>5, <1>6, <1>7 DEF HeaderIsOut

(* A write that overflows the buffer sends header, prefix and rest.        *)
LEMMA WriteOverflowsStep ==
  ASSUME WriterInv, NEW n \in WriteSizes, Write(n),
         WriteOverflows(Bytes(written + 1, written + n))
  PROVE  WriterInv'
<1>1. /\ TypeOK /\ ModeInv /\ StatusInv /\ LengthInv /\ ByteInv /\ n \in Nat /\ written \in Nat
      /\ Cap \in Nat
  BY WriterAssumption DEF WriterInv, TypeOK
<1>2. DEFINE p == Bytes(written + 1, written + n)
             room == Cap - Len(buf)
             cut == SubSeq(p, 1, room)
             rest == SubSeq(p, room + 1, Len(p))
<1>3. /\ ~passThrough /\ ~bufPass /\ passThrough' /\ bufPass' /\ pc = "serving" /\ pc' = "serving"
      /\ written' = written + n
      /\ room < Len(p) /\ buf' = buf \o cut
      /\ wire' = IF gone THEN wire ELSE wire \o (buf' \o rest)
      /\ UNCHANGED <<declared, compressed, gone, early, meant, abandoned>>
      /\ ~wroteHeader /\ FlushHeaderAndGoOn(status, declared)
  BY <1>1 DEF Write, WriteOverflows, ModeInv, Emit, origin, history
<1>4. HeaderIsOut(declared)
  <2>1. declared \in Int
    BY <1>1 DEF TypeOK
  <2> QED BY <1>3, <2>1, HeaderGoesOut
<1>5. /\ p \in Seq(Nat) /\ Len(p) = n /\ buf = Bytes(1, written) /\ wire = << >>
      /\ buf \in Seq(Nat) /\ Len(buf) \in Nat
  <2>1. buf = Bytes(1, written) /\ wire = << >> /\ buf \in Seq(Nat) /\ Len(buf) \in Nat
    BY <1>1, <1>3 DEF ByteInv, TypeOK
  <2>2. p \in Seq(Nat) /\ Len(p) = n
    BY <1>1, WriteAdds
  <2> QED BY <2>1, <2>2, Zenon
<1>6. buf \o p = Bytes(1, written + n) /\ abandoned = 0
  <2>1. buf \o p = Bytes(1, written + n)
    BY <1>1, <1>5, FirstBytesJoin, Zenon
  <2>2. abandoned = 0
    BY <1>1, <1>3 DEF ByteInv
  <2> QED BY <2>1, <2>2
<1> HIDE DEF p
<1>7. room \in Nat
  BY <1>1, <1>5 DEF ByteInv
<1> HIDE DEF room
<1>8. cut \in Seq(Nat) /\ Len(cut) = room /\ (buf \o cut) \o rest = buf \o p
  BY <1>3, <1>5, <1>7, CutJoins
<1>9. rest \in Seq(Nat)
  <2>1. \A i \in room + 1 .. Len(p) : p[i] \in Nat
    BY <1>5, <1>7
  <2> QED BY <1>5, <1>7, <2>1, SubSeqProperties
<1> HIDE DEF cut, rest
<1>10. buf' \in Seq(Nat) /\ Len(buf') = Len(buf) + Len(cut)
  <2>1. buf \o cut \in Seq(Nat) /\ Len(buf \o cut) = Len(buf) + Len(cut)
    BY <1>5, <1>8, ConcatProperties
  <2> QED BY <1>3, <2>1, Zenon
<1>11. Len(buf') <= Cap
  BY <1>1, <1>5, <1>8, <1>10 DEF room
<1>12. wire' \in Seq(Nat) /\ (~gone => wire' = buf' \o rest)
  <2>1. buf' \o rest \in Seq(Nat)
    BY <1>9, <1>10
  <2> QED BY <1>1, <1>3, <1>5, <2>1, ConcatEmptySeq DEF TypeOK
<1>13. ~gone => wire' = Bytes(1, written + n)
  BY <1>3, <1>6, <1>8, <1>12, Zenon
<1>14. TypeOK'
  BY <1>1, <1>3, <1>4, <1>10, <1>12 DEF TypeOK, HeaderIsOut
<1>15. ModeInv' /\ StatusInv'
  BY <1>1, <1>3, <1>4 DEF ModeInv, StatusInv, StatusPreserved, HeaderIsOut
<1>16. LengthInv'
  BY <1>1, <1>3, <1>4 DEF LengthInv, ModeInv, HeaderIsOut
<1>17. ByteInv'
  <2>1. abandoned' = 0 /\ 0 <= written' /\ 0 + 1 = 1
    BY <1>1, <1>3, <1>6
  <2> QED BY <1>3, <1>11, <1>13, <2>1 DEF ByteInv
<1> QED BY <1>14, <1>15, <1>16, <1>17 DEF WriterInv

(* Flush, and the steps that only end the response or the client.          *)
LEMMA FlushStep ==
  ASSUME WriterInv, Flush
  PROVE  WriterInv'
<1>1. TypeOK /\ ModeInv /\ StatusInv /\ LengthInv /\ ByteInv
  BY DEF WriterInv
<1>2. /\ pc = "serving" /\ (early' <=> early \/ ~passThrough)
      /\ UNCHANGED <<pc, declared, written, meant, abandoned, status, wroteHeader, passThrough, buf,
                     bufPass, wire, compressed, gone>>
      /\ sentStatus' = IF sentStatus # 0 THEN sentStatus ELSE 200
      /\ sentLength' = IF sentStatus # 0 THEN sentLength ELSE declared
  BY DEF Flush, SendHeader, origin, rw
<1>3. TypeOK'
  BY <1>1, <1>2 DEF TypeOK
<1>4. ModeInv'
  BY <1>1, <1>2 DEF ModeInv, TypeOK
<1>5. StatusInv'
  BY <1>1, <1>2 DEF ModeInv, StatusInv, StatusPreserved
<1>6. LengthInv' /\ ByteInv'
  BY <1>1, <1>2 DEF LengthInv, ByteInv, ModeInv
<1> QED BY <1>3, <1>4, <1>5, <1>6 DEF WriterInv

LEMMA FinalizeStreamStep ==
  ASSUME WriterInv, FinalizeStream
  PROVE  WriterInv'
<1>1. TypeOK /\ ModeInv /\ StatusInv /\ LengthInv /\ ByteInv
  BY DEF WriterInv
<1>2. /\ passThrough /\ wroteHeader /\ wroteHeader' /\ pc = "serving" /\ pc' = "done"
      /\ UNCHANGED <<declared, written, meant, abandoned, status, passThrough, buf, bufPass, wire,
                     compressed, gone, early>>
      /\ IF sentStatus # 0 THEN UNCHANGED <<sentStatus, sentLength>>
                           ELSE sentStatus' = 200 /\ sentLength' = declared
  BY <1>1 DEF FinalizeStream, FlushHeaderAndGoOn, RecordFlush, SendHeader, ModeInv, origin, history
<1>3. TypeOK'
  BY <1>1, <1>2 DEF TypeOK
<1>4. ModeInv'
  BY <1>1, <1>2 DEF ModeInv
<1>5. StatusInv'
  BY <1>1, <1>2 DEF ModeInv, StatusInv, StatusPreserved
<1>6. LengthInv' /\ ByteInv'
  BY <1>1, <1>2 DEF LengthInv, ByteInv
<1> QED BY <1>3, <1>4, <1>5, <1>6 DEF WriterInv

(* A response that stayed in the buffer goes out as a whole.               *)
LEMMA FinalizeBufferedStep ==
  ASSUME WriterInv, FinalizeBuffered
  PROVE  WriterInv'
<1>1. TypeOK /\ ModeInv /\ StatusInv /\ LengthInv /\ ByteInv
  BY DEF WriterInv
<1>2. /\ ~passThrough /\ ~wroteHeader /\ pc = "serving" /\ pc' = "done"
      /\ UNCHANGED <<declared, written, meant, abandoned, passThrough, buf, bufPass, gone, early>>
      /\ wire' = IF gone THEN wire ELSE wire \o buf
      /\ wire = << >> /\ buf \in Seq(Nat) /\ compressed' \in BOOLEAN
  BY <1>1 DEF FinalizeBuffered, ModeInv, Emit, ByteInv, TypeOK, origin, history
<1>3. WireLength(buf, compressed') \in Int
  BY <1>2 DEF WireLength
<1>4. HeaderIsOut(WireLength(buf, compressed'))
  BY <1>2, <1>3, HeaderGoesOut DEF FinalizeBuffered
<1>5. wire' \in Seq(Nat) /\ (~gone => wire' = buf)
  BY <1>1, <1>2, ConcatEmptySeq DEF TypeOK
<1>6. TypeOK'
  BY <1>1, <1>2, <1>3, <1>4, <1>5 DEF TypeOK, HeaderIsOut
<1>7. ModeInv' /\ StatusInv'
  BY <1>1, <1>2, <1>4 DEF ModeInv, StatusInv, StatusPreserved, HeaderIsOut
<1>8. LengthInv'
  BY <1>1, <1>2, <1>4 DEF LengthInv, ModeInv, HeaderIsOut
<1>9. ByteInv'
  BY <1>1, <1>2, <1>5 DEF ByteInv
<1> QED BY <1>6, <1>7, <1>8, <1>9 DEF WriterInv

LEMMA EndStep ==
  ASSUME WriterInv, OriginFails \/ ClientLeaves \/ UNCHANGED vars
  PROVE  WriterInv'
<1>1. TypeOK /\ ModeInv /\ StatusInv /\ LengthInv /\ ByteInv
  BY DEF WriterInv
<1>2. /\ UNCHANGED <<declared, written, meant, abandoned, status, wroteHeader, passThrough, buf,
                     bufPass, sentStatus, sentLength, wire, compressed, early>>
      /\ pc' = pc \/ (pc = "serving" /\ pc' = "failed")
      /\ gone => gone'
  BY DEF OriginFails, ClientLeaves, vars, origin, rw, client, history
<1>3. TypeOK'
  BY <1>1, <1>2 DEF TypeOK
<1>4. ModeInv' /\ StatusInv'
  BY <1>1, <1>2 DEF ModeInv, StatusInv, StatusPreserved
<1>5. LengthInv' /\ ByteInv'
  BY <1>1, <1>2 DEF LengthInv, ByteInv
<1> QED BY <1>3, <1>4, <1>5 DEF WriterInv

(* WriterInv is an invariant of the response writer.                       *)
LEMMA WriterInvariant == Spec => []WriterInv
<1>1. Init => WriterInv
  <2> SUFFICES ASSUME Init PROVE WriterInv
    OBVIOUS
  <2>1. /\ pc = "serving" /\ written = 0 /\ status = 0 /\ sentStatus = 0 /\ sentLength = -1
        /\ declared \in Nat \cup {-1} /\ buf = << >> /\ wire = << >> /\ meant = 0 /\ abandoned = 0
    BY WriterAssumption DEF Init
  <2>2. ~wroteHeader /\ ~passThrough /\ ~bufPass /\ ~compressed /\ compressed \in BOOLEAN
    BY Zenon DEF Init
  <2>3. TypeOK
    BY <2>1, <2>2 DEF TypeOK
  <2>4. ModeInv /\ StatusInv /\ LengthInv
    BY <2>1, <2>2 DEF ModeInv, StatusInv, StatusPreserved, LengthInv
  <2>5. Bytes(0 + 1, 0) = << >> /\ 0 + 1 = 1
    BY NoBytes, 0 \in Nat
  <2>6. ByteInv
    BY <2>1, <2>2, <2>5, WriterAssumption DEF ByteInv
  <2> QED BY <2>3, <2>4, <2>6 DEF WriterInv
<1>2. WriterInv /\ [Next]_vars => WriterInv'
  <2> SUFFICES ASSUME WriterInv, [Next]_vars PROVE WriterInv'
    OBVIOUS
  <2>1. ASSUME NEW n \in WriteSizes, Write(n) PROVE WriterInv'
    BY <2>1, WriteThroughStep, WriteBufferedStep, WriteOverflowsStep DEF Write
  <2>2. ASSUME NEW c \in Codes, WriteHeader(c) PROVE WriterInv'
    BY <2>2, RecordStatusStep, IgnoreStatusStep DEF WriteHeader
  <2> QED BY <2>1, <2>2, FlushStep, FinalizeStreamStep, FinalizeBufferedStep, EndStep DEF Next
<1> QED BY <1>1, <1>2, PTL DEF Spec

(* For every buffer limit, every way an origin splits its body and every   *)
(* order in which it calls WriteHeader, Write and Flush: the client and    *)
(* the buffer together hold the bytes written, in order and once, except   *)
(* those a late WriteHeader left in the buffer (response.go, WriteHeader,  *)
(* Write and finalize).                                                    *)
THEOREM NoOtherByteIsLost == Spec => []NoOtherByteLost
<1>1. WriterInv => NoOtherByteLost
  <2> SUFFICES ASSUME WriterInv, ~gone
               PROVE  wire \o (IF passThrough \/ pc = "done" THEN << >> ELSE buf)
                        = Bytes(abandoned + 1, written)
    BY DEF NoOtherByteLost
  <2>1. wire \in Seq(Nat) /\ buf \in Seq(Nat) /\ ByteInv /\ 0 + 1 = 1
    BY DEF WriterInv, TypeOK
  <2>2. CASE passThrough \/ pc = "done"
    BY <2>1, <2>2, ConcatEmptySeq DEF ByteInv
  <2>3. CASE ~(passThrough \/ pc = "done")
    BY <2>1, <2>3, ConcatEmptySeq DEF ByteInv
  <2> QED BY <2>2, <2>3
<1> QED BY <1>1, WriterInvariant, PTL

(* No sequence of writes makes the buffer exceed its limit                 *)
(* (body/response.go, ResponseBuffer.Write).                               *)
THEOREM BufferStaysBounded == Spec => []BufferBounded
<1>1. WriterInv => BufferBounded
  BY DEF WriterInv, ByteInv, BufferBounded
<1> QED BY <1>1, WriterInvariant, PTL

(* For every status code, 1xx included, and every order of calls, repeated *)
(* and late ones too: unless the origin flushed a response that was still  *)
(* buffered, the client sees the last final status the origin gave while   *)
(* the header was not out, or 200 where an informational one stands in its *)
(* place (response.go, WriteHeader, flushHeader and finalize).             *)
THEOREM StatusIsPreserved == Spec => []StatusPreserved
<1>1. WriterInv => StatusPreserved
  BY DEF WriterInv, StatusInv
<1> QED BY <1>1, WriterInvariant, PTL

(* The Content-Length of a finished response is the length of what was     *)
(* sent: the declared one for a streamed response, that of the compressed  *)
(* or plain buffer for the other; in every order of calls that neither     *)
(* flushes early nor loses bytes to a late WriteHeader (response.go,       *)
(* finalize).                                                              *)
THEOREM LengthIsRight == Spec => []LengthMatches
<1>1. WriterInv => LengthMatches
  <2> SUFFICES ASSUME WriterInv, pc = "done", ~gone, ~early, abandoned = 0,
                      sentLength # -1, declared \in {-1, written}
               PROVE  sentLength = WireLength(wire, compressed)
    BY DEF LengthMatches
  <2>1. TypeOK /\ LengthInv /\ ByteInv /\ written \in Nat /\ wire = Bytes(1, written)
    <3>1. TypeOK /\ LengthInv /\ ByteInv /\ 0 + 1 = 1
      BY DEF WriterInv
    <3> QED BY <3>1 DEF TypeOK, ByteInv
  <2>2. CASE passThrough
    <3>1. Len(wire) = written
      BY <2>1, PrefixLength
    <3>2. ~compressed /\ sentLength = declared
      BY <2>1, <2>2 DEF LengthInv
    <3> QED BY <3>1, <3>2 DEF WireLength
  <2>3. CASE ~passThrough
    <3>1. abandoned + 1 = 1 /\ buf = Bytes(1, written)
      BY <2>1, <2>3 DEF ByteInv
    <3> QED BY <2>1, <2>3, <3>1 DEF LengthInv
  <2> QED BY <2>2, <2>3
<1> QED BY <1>1, WriterInvariant, PTL
=============================================================================
