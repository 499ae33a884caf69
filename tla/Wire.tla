-------------------------------- MODULE Wire --------------------------------
(***************************************************************************)
(* The wire format of internal/protocol: how a message becomes the bytes   *)
(* of a frame and how a frame is read back, by the fields' layouts.  A     *)
(* byte has Base values (256 in the code); a string is a sequence of       *)
(* bytes.  A number that does not fit its field is cut off, the length     *)
(* prefixes included.                                                      *)
(***************************************************************************)
EXTENDS Integers, Sequences, SequencesExt

CONSTANT Base

ASSUME BaseAssumption == Base \in Nat /\ Base > 10 /\ Base % 2 = 0

-----------------------------------------------------------------------------
(* Numbers: little-endian digits, two's complement when negative.          *)
Digits(v, n) ==
  LET rest[k \in 0 .. n] == IF k = 0 THEN v ELSE rest[k - 1] \div Base
  IN  [k \in 1 .. n |-> rest[k - 1] % Base]

Number(bs) ==
  LET upper[k \in 0 .. Len(bs)] ==
        IF k = 0 THEN 0 ELSE bs[Len(bs) - k + 1] + Base * upper[k - 1]
  IN  upper[Len(bs)]

Signed(bs) ==
  IF Number(bs) < Base ^ Len(bs) \div 2 THEN Number(bs) ELSE Number(bs) - Base ^ Len(bs)

Width == [u8 |-> 1, flag |-> 1, u16 |-> 2, port |-> 2, u32 |-> 4, i32 |-> 4,
          u64 |-> 8, i64 |-> 8, str8 |-> 1, str |-> 2]

(* What a field of one, two and four bytes holds.                          *)
Max8 == Base - 1
Max16 == Base * Base - 1
Max32 == Base * Base * Base * Base - 1

(* A field: its name, its type, and for "size" and "bytes" the field whose *)
(* length it is, or that holds its length.                                 *)
Field(name, type) == [name |-> name, type |-> type, of |-> name]
U8(name) == Field(name, "u8")
U16(name) == Field(name, "u16")
U32(name) == Field(name, "u32")
Str(name) == Field(name, "str")
SizeIn(type, name, of) == [name |-> name, type |-> type, of |-> of]
Bytes(name, size) == [name |-> name, type |-> "bytes", of |-> size]
Rest(name) == Field(name, "rest")

-----------------------------------------------------------------------------
(* The wire struct: what one field of message m appends to the buffer.     *)
Put(f, m) ==
  LET v == m[f.of]
      n == Width[f.type]
  IN  IF f.type \in {"bytes", "rest"} THEN m[f.name]
      ELSE CASE f.type \in {"str", "str8"} -> Digits(Len(v), n) \o v
             [] f.type = "flag" -> Digits(IF v THEN 1 ELSE 0, n)
             [] f.type = "port" -> Reverse(Digits(v, n))
             [] OTHER           -> Digits(IF f.of = f.name THEN v ELSE Len(v), n)

Encode(layout, m) == FlattenSeq([i \in DOMAIN layout |-> Put(layout[i], m)])

EncodeAll(layout, ms) == FlattenSeq([i \in DOMAIN ms |-> Encode(layout, ms[i])])

Assign(msg, name, v) ==
  [x \in DOMAIN msg \cup {name} |-> IF x = name THEN v ELSE msg[x]]

(* The reader struct: the offset, whether no read was truncated, and what  *)
(* has been read.                                                          *)
At(off, msg) == [ok |-> TRUE, off |-> off, msg |-> msg]
Stop(r) == [ok |-> FALSE, off |-> r.off, msg |-> r.msg]
Start == At(0, << >>)

Take(b, r, name, n) ==
  IF Len(b) - r.off < n
  THEN Stop(r)
  ELSE At(r.off + n, Assign(r.msg, name, SubSeq(b, r.off + 1, r.off + n)))

With(r, name, v) == IF r.ok THEN At(r.off, Assign(r.msg, name, v)) ELSE r

Get(f, b, r) ==
  LET n == IF f.type = "rest" THEN Len(b) - r.off
           ELSE IF f.type = "bytes" THEN r.msg[f.of] ELSE Width[f.type]
      t == Take(b, r, f.name, n)
      raw == t.msg[f.name]
  IN  IF ~r.ok THEN r
      ELSE IF ~t.ok THEN t
      ELSE CASE f.type \in {"bytes", "rest"} -> t
             [] f.type \in {"str", "str8"}   -> Take(b, t, f.name, Number(raw))
             [] f.type = "flag"              -> With(t, f.name, Number(raw) # 0)
             [] f.type = "port"              -> With(t, f.name, Number(Reverse(raw)))
             [] f.type \in {"i32", "i64"}    -> With(t, f.name, Signed(raw))
             [] OTHER                        -> With(t, f.name, Number(raw))

Read(layout, b, r) ==
  LET go[i \in 0 .. Len(layout)] == IF i = 0 THEN r ELSE Get(layout[i], b, go[i - 1])
  IN  go[Len(layout)]

(* n records of the layout, or as many as there are before the frame ends: *)
(* only headers are read to the end, and one takes at least four bytes.    *)
ToEnd == -1

NextRecord(layout, b, p, n) ==
  LET q == Read(layout, b, At(p.off, << >>))
  IN  IF ~p.ok \/ (n = ToEnd /\ p.off = Len(b)) THEN p
      ELSE IF ~q.ok THEN Stop(p) ELSE At(q.off, Append(p.msg, q.msg))

ReadMany(layout, b, r, name, n) ==
  LET most == IF n = ToEnd THEN Len(b) \div 4 + 1 ELSE n
      go[k \in 0 .. most] ==
        IF k = 0 THEN At(r.off, << >>) ELSE NextRecord(layout, b, go[k - 1], n)
      end == go[most]
  IN  IF ~r.ok THEN r
      ELSE IF ~end.ok THEN Stop(r) ELSE At(end.off, Assign(r.msg, name, end.msg))
=============================================================================
