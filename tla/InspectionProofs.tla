-------------------------- MODULE InspectionProofs --------------------------
(***************************************************************************)
(* Theorems about the middleware and the codec its verdicts pass through,  *)
(* for every configuration, request and verdict, and every size of a byte. *)
(*                                                                         *)
(* The codec first: a layout gives back what it wrote, wherever it stands  *)
(* in a frame, as long as numbers and lengths fit their fields (ReadBack,  *)
(* PlainBack); of a verdict that does not fit, its kind and its session    *)
(* still arrive (HeadSurvives); and of the frames of a request each is     *)
(* taken by its own parser only (OwnParser, SentIsHeard). Then the         *)
(* handler: what it knows at each place of ServeHTTP (PostureInv,          *)
(* BytesInv, ConfigInv, SeenInv).                                          *)
(***************************************************************************)
EXTENDS Inspection, WellFoundedInduction, SequenceTheorems, FiniteSetTheorems, TLAPS

-----------------------------------------------------------------------------
(* Numbers (Wire: Digits, Number).                                         *)

(* Induction over the naturals, for sets.                                  *)
LEMMA SetInduction ==
  ASSUME NEW T, 0 \in T, \A n \in Nat : n \in T => n + 1 \in T
  PROVE  Nat \subseteq T
<1> SUFFICES ASSUME Nat \ T # {} PROVE FALSE
  OBVIOUS
<1> DEFINE R == OpToRel(<, Nat)
<1>1. IsWellFoundedOn(R, Nat)
  BY NatLessThanWellFounded
<1>2. PICK x \in Nat \ T : \A y \in Nat \ T : ~(<<y, x>> \in R)
  <2> HIDE DEF R
  <2> QED BY <1>1, WFMin
<1>3. x - 1 \in Nat /\ x - 1 < x
  BY SMT
<1>4. x - 1 \notin T => <<x - 1, x>> \in R
  BY <1>3 DEF OpToRel
<1>5. x - 1 \in T
  BY <1>2, <1>3, <1>4
<1> QED BY <1>3, <1>5

(* Digits, unfolded: dividing again and again.                             *)
LEMMA DigitsUnfold ==
  ASSUME NEW v, NEW n \in Nat
  PROVE  \E rest : /\ rest[0] = v /\ \A k \in 1 .. n : rest[k] = rest[k - 1] \div Base
                   /\ Digits(v, n) = [k \in 1 .. n |-> rest[k - 1] % Base]
<1> DEFINE E(m, g) == g = [k \in 0 .. m |-> IF k = 0 THEN v ELSE g[k - 1] \div Base]
           T == {m \in Nat : \E g : E(m, g)}
<1>1. 0 \in T
  <2>1. E(0, [k \in 0 .. 0 |-> v])
    OBVIOUS
  <2> QED BY <2>1
<1>2. ASSUME NEW m \in Nat, m \in T PROVE m + 1 \in T
  <2>1. PICK g : E(m, g)
    BY <1>2
  <2> DEFINE h == [k \in 0 .. m + 1 |-> IF k = m + 1 THEN g[m] \div Base ELSE g[k]]
  <2>2. E(m + 1, h)
    BY <2>1
  <2> HIDE DEF E
  <2> QED BY <2>2
<1>3. n \in T
  <2> HIDE DEF T
  <2> QED BY <1>1, <1>2, SetInduction
<1>4. PICK g : E(n, g)
  BY <1>3
<1>5. Digits(v, n) = [k \in 1 .. n |-> (CHOOSE f : E(n, f))[k - 1] % Base]
  BY DEF Digits
<1> DEFINE rest == CHOOSE f : E(n, f)
<1>6. E(n, rest)
  BY <1>4
<1>7. rest[0] = v /\ \A k \in 1 .. n : rest[k] = rest[k - 1] \div Base
  <2> HIDE DEF rest
  <2> QED BY <1>6
<1> HIDE DEF rest
<1> QED BY <1>5, <1>7 DEF rest

(* Number, unfolded, from the last digit on.                               *)
LEMMA NumberUnfold ==
  ASSUME NEW bs, Len(bs) \in Nat
  PROVE  \E upper : /\ upper[0] = 0
                    /\ \A k \in 1 .. Len(bs) :
                         upper[k] = bs[Len(bs) - k + 1] + Base * upper[k - 1]
                    /\ Number(bs) = upper[Len(bs)]
<1> DEFINE n == Len(bs)
           E(m, g) == g = [k \in 0 .. m |->
                             IF k = 0 THEN 0 ELSE bs[n - k + 1] + Base * g[k - 1]]
           T == {m \in Nat : \E g : E(m, g)}
<1>1. 0 \in T
  <2>1. E(0, [k \in 0 .. 0 |-> 0])
    OBVIOUS
  <2> QED BY <2>1
<1>2. ASSUME NEW m \in Nat, m \in T PROVE m + 1 \in T
  <2>1. PICK g : E(m, g)
    BY <1>2
  <2> DEFINE h == [k \in 0 .. m + 1 |->
                     IF k = m + 1 THEN bs[n - k + 1] + Base * g[m] ELSE g[k]]
  <2>2. E(m + 1, h)
    BY <2>1
  <2> HIDE DEF E
  <2> QED BY <2>2
<1>3. n \in T
  <2> HIDE DEF T
  <2> QED BY <1>1, <1>2, SetInduction
<1>4. PICK g : E(n, g)
  BY <1>3
<1>5. Number(bs) = (CHOOSE f : E(n, f))[n]
  BY DEF Number
<1> DEFINE upper == CHOOSE f : E(n, f)
<1>6. E(n, upper)
  BY <1>4
<1>7. upper[0] = 0 /\ \A k \in 1 .. n : upper[k] = bs[n - k + 1] + Base * upper[k - 1]
  <2> HIDE DEF upper
  <2> QED BY <1>6
<1> HIDE DEF upper
<1> QED BY <1>5, <1>7 DEF upper

Byte == 0 .. Max8

(* Dividing by Base leaves a digit and a smaller number.                   *)
LEMMA DivBase ==
  ASSUME NEW v \in Int
  PROVE  v \div Base \in Int /\ v % Base \in Byte /\ v = (v % Base) + Base * (v \div Base)
BY BaseAssumption DEF Byte, Max8

(* What is cut into digits is put together again, if nothing is left over. *)
LEMMA NumberOfDigits ==
  ASSUME NEW v \in Int, NEW n \in Nat
  PROVE  /\ Digits(v, n) \in Seq(Byte) /\ Len(Digits(v, n)) = n
         /\ \A rest : (/\ rest[0] = v
                       /\ \A k \in 1 .. n : rest[k] = rest[k - 1] \div Base
                       /\ rest[n] = 0)
                      => Number(Digits(v, n)) = v
<1>1. PICK rest : /\ rest[0] = v /\ \A k \in 1 .. n : rest[k] = rest[k - 1] \div Base
                  /\ Digits(v, n) = [k \in 1 .. n |-> rest[k - 1] % Base]
  BY DigitsUnfold
<1>2. \A k \in 0 .. n : rest[k] \in Int
  <2> DEFINE T == {k \in Nat : k <= n => rest[k] \in Int}
  <2>1. 0 \in T
    BY <1>1
  <2>2. ASSUME NEW k \in Nat, k \in T PROVE k + 1 \in T
    <3> SUFFICES ASSUME k + 1 <= n PROVE rest[k + 1] \in Int
      OBVIOUS
    <3>1. rest[k] \in Int /\ rest[k + 1] = rest[k] \div Base
      BY <1>1, <2>2
    <3> QED BY <3>1, DivBase
  <2>3. Nat \subseteq T
    <3> HIDE DEF T
    <3> QED BY <2>1, <2>2, SetInduction
  <2> QED BY <2>3
<1>3. Digits(v, n) \in Seq(Byte) /\ Len(Digits(v, n)) = n
  <2>1. \A k \in 1 .. n : rest[k - 1] % Base \in Byte
    <3> SUFFICES ASSUME NEW k \in 1 .. n PROVE rest[k - 1] % Base \in Byte
      OBVIOUS
    <3>1. rest[k - 1] \in Int
      BY <1>2
    <3> QED BY <3>1, DivBase
  <2> HIDE DEF Byte
  <2> QED BY <1>1, <2>1
<1>4. ASSUME NEW other, other[n] = 0,
             other[0] = v, \A k \in 1 .. n : other[k] = other[k - 1] \div Base
      PROVE  Number(Digits(v, n)) = v
  <2> DEFINE ds == Digits(v, n)
  <2> HIDE DEF ds
  <2>1. PICK upper : /\ upper[0] = 0
                     /\ \A k \in 1 .. n : upper[k] = ds[n - k + 1] + Base * upper[k - 1]
                     /\ Number(ds) = upper[n]
    BY <1>3, NumberUnfold DEF ds
  <2>2. \A k \in 0 .. n : other[k] = rest[k]
    <3> DEFINE T == {k \in Nat : k <= n => other[k] = rest[k]}
    <3>1. 0 \in T
      BY <1>1, <1>4
    <3>2. ASSUME NEW k \in Nat, k \in T PROVE k + 1 \in T
      BY <1>1, <1>4, <3>2
    <3>3. Nat \subseteq T
      <4> HIDE DEF T
      <4> QED BY <3>1, <3>2, SetInduction
    <3> QED BY <3>3
  <2>3. \A k \in 0 .. n : upper[k] = rest[n - k]
    <3> DEFINE T == {k \in Nat : k <= n => upper[k] = rest[n - k]}
    <3>1. 0 \in T
      BY <1>4, <2>1, <2>2
    <3>2. ASSUME NEW k \in Nat, k \in T PROVE k + 1 \in T
      <4> SUFFICES ASSUME k + 1 <= n PROVE upper[k + 1] = rest[n - (k + 1)]
        OBVIOUS
      <4> DEFINE j == n - (k + 1)
      <4>1. j \in 0 .. n /\ j + 1 \in 1 .. n /\ n - (k + 1) + 1 = j + 1 /\ n - k = j + 1
        OBVIOUS
      <4>2. upper[k + 1] = ds[j + 1] + Base * upper[k]
        BY <2>1, <4>1
      <4>3. ds[j + 1] = rest[j] % Base /\ rest[j + 1] = rest[j] \div Base /\ rest[j] \in Int
        BY <1>1, <1>2, <4>1 DEF ds
      <4>4. upper[k] = rest[j + 1]
        BY <3>2, <4>1
      <4> QED BY <4>2, <4>3, <4>4, DivBase
    <3>3. Nat \subseteq T
      <4> HIDE DEF T
      <4> QED BY <3>1, <3>2, SetInduction
    <3> QED BY <3>3
  <2> QED BY <1>1, <2>1, <2>3 DEF ds
<1> QED BY <1>3, <1>4

(* Numbers that fit one, two and four bytes.                               *)
U(n) == 0 .. (CASE n = 1 -> Max8 [] n = 2 -> Max16 [] n = 4 -> Max32)

(* Dividing by Base takes one digit away.                                  *)
LEMMA DivShrinks ==
  ASSUME NEW m \in Nat, NEW v \in 0 .. Base * m - 1
  PROVE  v \div Base \in 0 .. m - 1
BY BaseAssumption

(* A number that fits its field is read back from its digits.              *)
LEMMA NumberBack ==
  ASSUME NEW n \in {1, 2, 4}, NEW v \in U(n)
  PROVE  Number(Digits(v, n)) = v
<1>0. v \in Int /\ Base \in Nat /\ Base > 0
  BY BaseAssumption DEF U, Max8, Max16, Max32
<1> DEFINE r1 == v \div Base
           r2 == r1 \div Base
           r3 == r2 \div Base
           r4 == r3 \div Base
           rest == [k \in 0 .. 4 |-> IF k = 0 THEN v ELSE IF k = 1 THEN r1
                                     ELSE IF k = 2 THEN r2 ELSE IF k = 3 THEN r3 ELSE r4]
<1>1. rest[0] = v /\ \A k \in 1 .. n : rest[k] = rest[k - 1] \div Base
  <2> HIDE DEF r1, r2, r3, r4
  <2>1. \A k \in 1 .. 4 : rest[k] = rest[k - 1] \div Base
    BY DEF r1, r2, r3, r4
  <2> QED BY <2>1
<1>2. rest[n] = 0
  <2>1. CASE n = 1
    <3>1. v \in 0 .. Base * 1 - 1
      BY <1>0, <2>1 DEF U, Max8, Max16, Max32
    <3> QED BY <2>1, <3>1, DivShrinks
  <2>2. CASE n = 2
    <3>1. v \in 0 .. Base * Base - 1
      BY <2>2 DEF U, Max16
    <3>2. r1 \in 0 .. Base * 1 - 1
      BY <1>0, <3>1, DivShrinks
    <3>3. r2 = 0
      <4> HIDE DEF r1
      <4> QED BY <3>2, DivShrinks
    <3> QED BY <2>2, <3>3
  <2>3. CASE n = 4
    <3>1. v \in 0 .. Base * (Base * Base * Base) - 1 /\ Base * Base * Base \in Nat
      BY <1>0, <2>3 DEF U, Max32
    <3>2. r1 \in 0 .. Base * (Base * Base) - 1 /\ Base * Base \in Nat
      BY <1>0, <3>1, DivShrinks
    <3>3. r2 \in 0 .. Base * Base - 1
      <4> HIDE DEF r1
      <4> QED BY <3>2, DivShrinks
    <3>4. r3 \in 0 .. Base * 1 - 1
      <4> HIDE DEF r2
      <4> QED BY <1>0, <3>3, DivShrinks
    <3>5. r4 = 0
      <4> HIDE DEF r3
      <4> QED BY <3>4, DivShrinks
    <3> QED BY <2>3, <3>5
  <2> QED BY <2>1, <2>2, <2>3
<1>3. n \in Nat
  OBVIOUS
<1> HIDE DEF rest
<1> QED BY <1>0, <1>1, <1>2, <1>3, NumberOfDigits

-----------------------------------------------------------------------------
(* Where a sequence of bytes stands in a frame.                            *)

(* s stands at offset o of b.                                              *)
Stands(b, o, s) == o + Len(s) <= Len(b) /\ \A i \in 1 .. Len(s) : b[o + i] = s[i]

(* Where a concatenation stands, its parts stand one behind the other.     *)
LEMMA StandsParts ==
  ASSUME NEW b \in Seq(Byte), NEW o \in Nat, NEW s \in Seq(Byte), NEW t \in Seq(Byte)
  PROVE  Stands(b, o, s \o t) <=> Stands(b, o, s) /\ Stands(b, o + Len(s), t)
<1> DEFINE n == Len(s)
           k == Len(t)
<1>1. /\ s \o t \in Seq(Byte) /\ Len(s \o t) = n + k /\ n \in Nat /\ k \in Nat /\ Len(b) \in Nat
      /\ \A i \in 1 .. n : (s \o t)[i] = s[i]
      /\ \A i \in 1 .. k : (s \o t)[n + i] = t[i]
  BY ConcatProperties
<1>2. ASSUME Stands(b, o, s \o t) PROVE Stands(b, o, s) /\ Stands(b, o + n, t)
  <2>1. o + (n + k) <= Len(b) /\ \A i \in 1 .. n + k : b[o + i] = (s \o t)[i]
    BY <1>1, <1>2 DEF Stands
  <2>2. \A i \in 1 .. k : b[(o + n) + i] = t[i]
    <3> SUFFICES ASSUME NEW i \in 1 .. k PROVE b[(o + n) + i] = t[i]
      OBVIOUS
    <3>1. n + i \in 1 .. n + k /\ o + (n + i) = (o + n) + i
      BY <1>1
    <3> QED BY <1>1, <2>1, <3>1
  <2>3. \A i \in 1 .. n : b[o + i] = s[i]
    <3> SUFFICES ASSUME NEW i \in 1 .. n PROVE b[o + i] = s[i]
      OBVIOUS
    <3>1. i \in 1 .. n + k
      BY <1>1
    <3> HIDE DEF n, k
    <3> QED BY <1>1, <2>1, <3>1
  <2> QED BY <1>1, <2>1, <2>2, <2>3 DEF Stands
<1>3. ASSUME Stands(b, o, s), Stands(b, o + n, t) PROVE Stands(b, o, s \o t)
  <2>1. o + (n + k) <= Len(b)
    BY <1>1, <1>3 DEF Stands
  <2>2. ASSUME NEW i \in 1 .. n + k PROVE b[o + i] = (s \o t)[i]
    <3>1. CASE i <= n
      BY <1>1, <1>3, <3>1 DEF Stands
    <3>2. CASE i > n
      <4>1. i - n \in 1 .. k /\ o + i = (o + n) + (i - n) /\ i = n + (i - n)
        BY <1>1, <3>2
      <4>2. b[(o + n) + (i - n)] = t[i - n]
        BY <1>3, <4>1 DEF Stands
      <4>3. (s \o t)[n + (i - n)] = t[i - n]
        BY <1>1, <4>1
      <4> QED BY <4>1, <4>2, <4>3
    <3> QED BY <1>1, <3>1, <3>2
  <2> QED BY <1>1, <2>1, <2>2 DEF Stands
<1> QED BY <1>2, <1>3

(* FlattenSeq, unfolded.                                                   *)
LEMMA FlattenUnfold ==
  ASSUME NEW S, NEW ss \in Seq(Seq(S)), ss # << >>
  PROVE  \E f : /\ f[1] = ss[1] /\ \A i \in 2 .. Len(ss) : f[i] = f[i - 1] \o ss[i]
                /\ \A i \in 1 .. Len(ss) : f[i] \in Seq(S)
                /\ FlattenSeq(ss) = f[Len(ss)]
<1> DEFINE n == Len(ss)
           Join(s, i) == s \o ss[i]
           E(m, g) == g = [i \in 1 .. m |-> IF i = 1 THEN ss[i] ELSE Join(g[i - 1], i)]
           T == {m \in Nat : \E g : E(m, g)}
<1>1. 0 \in T
  <2>1. E(0, [i \in 1 .. 0 |-> ss[i]])
    OBVIOUS
  <2> QED BY <2>1
<1>2. ASSUME NEW m \in Nat, m \in T PROVE m + 1 \in T
  <2>1. PICK g : E(m, g)
    BY <1>2
  <2> DEFINE h == [i \in 1 .. m + 1 |->
                     IF i = m + 1 THEN IF i = 1 THEN ss[i] ELSE Join(g[m], i) ELSE g[i]]
  <2>2. E(m + 1, h)
    <3> HIDE DEF Join
    <3> QED BY <2>1
  <2> HIDE DEF E
  <2> QED BY <2>2
<1>3. n \in T
  <2>1. n \in Nat
    OBVIOUS
  <2> HIDE DEF T, n
  <2>2. Nat \subseteq T
    BY <1>1, <1>2, SetInduction
  <2> QED BY <2>1, <2>2
<1> DEFINE f == CHOOSE g : E(n, g)
<1>4. E(n, f)
  BY <1>3
<1>5. n \in Nat \ {0} /\ FlattenSeq(ss) = f[n]
  BY DEF FlattenSeq
<1> HIDE DEF f
<1>6. f[1] = ss[1] /\ \A i \in 2 .. n : f[i] = f[i - 1] \o ss[i]
  <2>1. f[1] = ss[1] /\ \A i \in 2 .. n : f[i] = Join(f[i - 1], i)
    <3> HIDE DEF Join, n
    <3> QED BY <1>4, <1>5
  <2> QED BY <2>1
<1>7. \A i \in 1 .. n : f[i] \in Seq(S)
  <2> DEFINE V == {i \in Nat : i + 1 <= n => f[i + 1] \in Seq(S)}
  <2>0. \A i \in 1 .. n : ss[i] \in Seq(S)
    BY ElementOfSeq
  <2>1. 0 \in V
    BY <1>5, <1>6, <2>0
  <2>2. ASSUME NEW i \in Nat, i \in V PROVE i + 1 \in V
    <3> SUFFICES ASSUME i + 2 <= n PROVE f[i + 2] \in Seq(S)
      OBVIOUS
    <3>0. i + 2 \in 2 .. n /\ (i + 2) - 1 = i + 1 /\ i + 1 <= n /\ i + 2 \in 1 .. n
      BY <1>5
    <3>1. f[i + 2] = f[i + 1] \o ss[i + 2]
      BY <1>6, <3>0
    <3>2. f[i + 1] \in Seq(S) /\ ss[i + 2] \in Seq(S)
      BY <2>0, <2>2, <3>0
    <3> QED BY <3>1, <3>2, (i + 1) + 1 = i + 2
  <2>3. Nat \subseteq V
    <3> HIDE DEF V
    <3> QED BY <2>1, <2>2, SetInduction
  <2>4. ASSUME NEW i \in 1 .. n PROVE f[i] \in Seq(S)
    <3>1. i - 1 \in Nat /\ (i - 1) + 1 = i /\ i <= n
      BY <1>5
    <3>2. i - 1 \in V
      BY <2>3, <3>1
    <3> HIDE DEF n
    <3> QED BY <3>1, <3>2
  <2> QED BY <2>4
<1> QED BY <1>5, <1>6, <1>7

(* It is a sequence, and its parts stand one behind the other.             *)
LEMMA FlattenStands ==
  ASSUME NEW ss \in Seq(Seq(Byte))
  PROVE  /\ FlattenSeq(ss) \in Seq(Byte)
         /\ ss = << >> => FlattenSeq(ss) = << >>
         /\ \A b \in Seq(Byte), o \in Nat :
              Stands(b, o, FlattenSeq(ss)) =>
                \E at \in [0 .. Len(ss) -> Nat] :
                  /\ at[0] = o /\ at[Len(ss)] = o + Len(FlattenSeq(ss))
                  /\ \A i \in 1 .. Len(ss) : /\ at[i] = at[i - 1] + Len(ss[i])
                                             /\ Stands(b, at[i - 1], ss[i])
<1>1. CASE ss = << >>
  <2>1. FlattenSeq(ss) = << >> /\ Len(ss) = 0
    BY <1>1 DEF FlattenSeq
  <2>2. ASSUME NEW o \in Nat
        PROVE  \E at \in [0 .. Len(ss) -> Nat] :
                  /\ at[0] = o /\ at[Len(ss)] = o + Len(FlattenSeq(ss))
                  /\ \A i \in 1 .. Len(ss) : FALSE
    <3> WITNESS [i \in 0 .. Len(ss) |-> o] \in [0 .. Len(ss) -> Nat]
    <3> QED BY <2>1
  <2> QED BY <2>1, <2>2
<1>2. CASE ss # << >>
  <2>1. PICK f : /\ f[1] = ss[1] /\ \A i \in 2 .. Len(ss) : f[i] = f[i - 1] \o ss[i]
                 /\ \A i \in 1 .. Len(ss) : f[i] \in Seq(Byte)
                 /\ FlattenSeq(ss) = f[Len(ss)]
    BY <1>2, FlattenUnfold
  <2> DEFINE n == Len(ss)
  <2>2. n \in Nat \ {0} /\ \A i \in 1 .. n : ss[i] \in Seq(Byte)
    BY <1>2, EmptySeq, ElementOfSeq
  <2> HIDE DEF n
  <2>3. FlattenSeq(ss) \in Seq(Byte)
    BY <2>1, <2>2 DEF n
  <2>5. ASSUME NEW i \in 2 .. n
        PROVE  /\ i - 1 \in 1 .. n /\ i \in 1 .. n
               /\ f[i] = f[i - 1] \o ss[i] /\ f[i - 1] \in Seq(Byte) /\ ss[i] \in Seq(Byte)
               /\ Len(f[i]) = Len(f[i - 1]) + Len(ss[i])
    <3>1. i - 1 \in 1 .. n /\ i \in 1 .. n
      BY <2>2
    <3>2. f[i] = f[i - 1] \o ss[i]
      BY <2>1 DEF n
    <3>3. f[i - 1] \in Seq(Byte) /\ ss[i] \in Seq(Byte)
      BY <2>1, <2>2, <3>1 DEF n
    <3> QED BY <3>1, <3>2, <3>3
  <2>6. \A i \in 1 .. n : Len(f[i]) \in Nat /\ Len(ss[i]) \in Nat
    BY <2>1, <2>2 DEF n
  <2>4. ASSUME NEW b \in Seq(Byte), NEW o \in Nat, Stands(b, o, FlattenSeq(ss))
        PROVE  \E at \in [0 .. n -> Nat] :
                  /\ at[0] = o /\ at[n] = o + Len(FlattenSeq(ss))
                  /\ \A i \in 1 .. n : /\ at[i] = at[i - 1] + Len(ss[i])
                                       /\ Stands(b, at[i - 1], ss[i])
    <3> DEFINE at == [i \in 0 .. n |-> IF i = 0 THEN o ELSE o + Len(f[i])]
    <3>1. at \in [0 .. n -> Nat] /\ at[0] = o /\ at[n] = o + Len(FlattenSeq(ss))
      BY <2>1, <2>2 DEF n
    <3>5. \A i \in 1 .. n : at[i] = o + Len(f[i])
      BY <2>2
    <3> HIDE DEF at
    <3>2. \A i \in 1 .. n : at[i] = at[i - 1] + Len(ss[i])
      <4> SUFFICES ASSUME NEW i \in 1 .. n PROVE at[i] = at[i - 1] + Len(ss[i])
        OBVIOUS
      <4>1. CASE i = 1
        <5>1. 1 \in 1 .. n /\ f[1] = ss[1]
          BY <2>1, <2>2
        <5>2. at[1] = o + Len(ss[1]) /\ at[0] = o
          BY <3>1, <3>5, <5>1
        <5>3. at[1] = at[0] + Len(ss[1])
          BY <5>2
        <5>4. i - 1 = 0
          BY <4>1
        <5> QED BY <4>1, <5>3, <5>4, Zenon
      <4>2. CASE i # 1
        <5>1. i \in 2 .. n
          BY <4>2
        <5>2. Len(f[i]) = Len(f[i - 1]) + Len(ss[i]) /\ i - 1 \in 1 .. n
          BY <2>5, <5>1
        <5>3. at[i] = o + Len(f[i]) /\ at[i - 1] = o + Len(f[i - 1])
          BY <3>5, <5>2
        <5>4. Len(f[i - 1]) \in Nat /\ Len(ss[i]) \in Nat
          BY <2>6, <5>2
        <5>5. \A x, y, z \in Nat : o + (y + z) = (o + y) + z
          OBVIOUS
        <5> QED BY <5>2, <5>3, <5>4, <5>5
      <4> QED BY <4>1, <4>2
    (* The first i parts stand at o, from the last i down.                 *)
    <3>3. \A i \in 1 .. n : Stands(b, o, f[i])
      <4> DEFINE V == {j \in Nat : j < n => Stands(b, o, f[n - j])}
      <4>1. 0 \in V
        BY <2>1, <2>2, <2>4 DEF n
      <4>2. ASSUME NEW j \in Nat, j \in V PROVE j + 1 \in V
        <5> SUFFICES ASSUME j + 1 < n PROVE Stands(b, o, f[n - (j + 1)])
          OBVIOUS
        <5> DEFINE i == n - j
        <5>1. i \in 2 .. n /\ n - (j + 1) = i - 1
          BY <2>2
        <5>2. f[i] = f[i - 1] \o ss[i] /\ f[i - 1] \in Seq(Byte) /\ ss[i] \in Seq(Byte)
          <6> HIDE DEF i
          <6> QED BY <2>5, <5>1
        <5>3. Stands(b, o, f[i])
          BY <2>2, <4>2
        <5> HIDE DEF i
        <5> QED BY <5>1, <5>2, <5>3, StandsParts
      <4>3. Nat \subseteq V
        <5> HIDE DEF V
        <5> QED BY <4>1, <4>2, SetInduction
      <4>4. ASSUME NEW i \in 1 .. n PROVE Stands(b, o, f[i])
        <5>1. n - i \in Nat /\ n - i < n /\ n - (n - i) = i
          BY <2>2
        <5>2. n - i \in V
          BY <4>3, <5>1
        <5> QED BY <5>1, <5>2
      <4> QED BY <4>4
    <3>4. \A i \in 1 .. n : Stands(b, at[i - 1], ss[i])
      <4> SUFFICES ASSUME NEW i \in 1 .. n PROVE Stands(b, at[i - 1], ss[i])
        OBVIOUS
      <4>1. CASE i = 1
        BY <2>1, <3>1, <3>3, <4>1
      <4>2. CASE i # 1
        <5>1. i \in 2 .. n
          BY <4>2
        <5>2. /\ f[i] = f[i - 1] \o ss[i] /\ f[i - 1] \in Seq(Byte) /\ ss[i] \in Seq(Byte)
              /\ i - 1 \in 1 .. n
          BY <2>5, <5>1
        <5>3. Stands(b, o + Len(f[i - 1]), ss[i])
          BY <3>3, <5>2, StandsParts, ZenonT(60)
        <5>4. at[i - 1] = o + Len(f[i - 1])
          BY <3>5, <5>2
        <5> QED BY <5>3, <5>4
      <4> QED BY <4>1, <4>2
    <3> HIDE DEF at
    <3> QED BY <3>1, <3>2, <3>4
  <2> QED BY <1>2, <2>3, <2>4 DEF n
<1> QED BY <1>1, <1>2

-----------------------------------------------------------------------------
(* Fields: what they hold, and what they keep of what was read before.     *)

(* cursor.take: what stands at the offset is read, and skipped.            *)
LEMMA Taken ==
  ASSUME NEW b \in Seq(Byte), NEW o \in Nat, NEW msg,
         NEW s \in Seq(Byte), Stands(b, o, s), NEW name
  PROVE  Take(b, At(o, msg), name, Len(s)) = At(o + Len(s), Assign(msg, name, s))
<1> DEFINE n == Len(s)
<1>1. n \in Nat /\ Len(b) \in Nat /\ o + n <= Len(b)
  BY DEF Stands
<1>2. SubSeq(b, o + 1, o + n) = s
  <2>1. \A i \in 1 .. n : b[o + i] = s[i]
    BY DEF Stands
  <2>2. SubSeq(b, o + 1, o + n) = [i \in 1 .. n |-> b[i + (o + 1) - 1]]
    BY <1>1
  <2>3. \A i \in 1 .. n : b[i + (o + 1) - 1] = s[i]
    BY <1>1, <2>1
  <2>4. s = [i \in 1 .. n |-> s[i]]
    OBVIOUS
  <2> QED BY <2>2, <2>3, <2>4
<1>3. ~(Len(b) - o < n)
  BY <1>1
<1> QED BY <1>2, <1>3 DEF Take, At

(* The types a field of a layout can have.                                 *)
FieldTypes == {"u8", "flag", "u16", "port", "u32", "i32", "u64", "i64", "str8", "str",
               "bytes", "rest"}

(* What a field of message m stands for; a size field is the length of the *)
(* text it belongs to.                                                     *)
Value(f, m) ==
  IF f.type \in {"bytes", "rest", "str", "str8"} \/ f.of = f.name THEN m[f.name] ELSE Len(m[f.of])

(* It has the type of the field.                                           *)
Holds(f, m) ==
  /\ f.type \in FieldTypes
  /\ f.type \in {"str", "str8", "flag", "port", "i32", "u64", "i64"} => f.of = f.name
  /\ CASE f.type \in {"bytes", "rest", "str", "str8"} -> Value(f, m) \in Seq(Byte)
       [] f.type = "flag" -> Value(f, m) \in BOOLEAN
       [] OTHER -> Value(f, m) \in Int

(* And it fits: numbers and lengths are not cut off.                       *)
FieldFits(f, m) ==
  /\ Holds(f, m)
  /\ f.type \in {"u8", "u16", "u32", "port"} => Value(f, m) \in U(Width[f.type])
  /\ f.type \in {"str", "str8"} => Len(Value(f, m)) \in U(Width[f.type])

(* What a field appends is a sequence of bytes.                            *)
LEMMA PutTyped ==
  ASSUME NEW f, NEW m, Holds(f, m)
  PROVE  Put(f, m) \in Seq(Byte)
<1>1. Width[f.type] \in Nat \/ f.type \in {"bytes", "rest"}
  BY DEF Holds, FieldTypes, Width
<1>2. CASE f.type \in {"bytes", "rest"}
  BY <1>2 DEF Put, Holds, Value
<1>3. CASE f.type \in {"str", "str8"}
  <2>1. m[f.of] \in Seq(Byte) /\ Len(m[f.of]) \in Int
    BY <1>3 DEF Holds, Value
  <2>2. Digits(Len(m[f.of]), Width[f.type]) \in Seq(Byte)
    BY <1>1, <1>3, <2>1, NumberOfDigits
  <2>3. Put(f, m) = Digits(Len(m[f.of]), Width[f.type]) \o m[f.of]
    BY <1>3 DEF Put
  <2> QED BY <2>1, <2>2, <2>3
<1>4. CASE f.type = "flag"
  <2>1. Put(f, m) = Digits(IF m[f.of] THEN 1 ELSE 0, Width[f.type])
    BY <1>4 DEF Put
  <2>2. (IF m[f.of] THEN 1 ELSE 0) \in Int
    OBVIOUS
  <2> QED BY <1>1, <1>4, <2>1, <2>2, NumberOfDigits
<1>5. CASE f.type = "port"
  <2>1. Put(f, m) = Reverse(Digits(m[f.of], Width[f.type])) /\ m[f.of] \in Int
    BY <1>5 DEF Put, Holds, Value
  <2>2. Digits(m[f.of], Width[f.type]) \in Seq(Byte)
    BY <1>1, <1>5, <2>1, NumberOfDigits
  <2> QED BY <2>1, <2>2 DEF Reverse
<1>6. CASE f.type \in {"u8", "u16", "u32", "i32", "u64", "i64"}
  <2> DEFINE v == IF f.of = f.name THEN m[f.of] ELSE Len(m[f.of])
  <2>1. Put(f, m) = Digits(v, Width[f.type])
    BY <1>6 DEF Put
  <2>2. v \in Int
    BY <1>6 DEF Holds, Value
  <2> QED BY <1>1, <1>6, <2>1, <2>2, NumberOfDigits
<1> QED BY <1>2, <1>3, <1>4, <1>5, <1>6 DEF Holds, FieldTypes

(* A reader goes on at some offset, or has stopped.                        *)
IsReader(r) == r = At(r.off, r.msg) \/ r = Stop(r)

(* m2 has what m1 has, except for the field name.                          *)
Keeps(m1, m2, name) == \A x \in DOMAIN m1 : x # name => x \in DOMAIN m2 /\ m2[x] = m1[x]

(* What a reader that goes on, and one that stops, consists of.            *)
LEMMA Readers ==
  /\ \A off, msg : /\ IsReader(At(off, msg)) /\ At(off, msg).ok
                   /\ At(off, msg).off = off /\ At(off, msg).msg = msg
  /\ \A r : IsReader(Stop(r)) /\ ~Stop(r).ok /\ Stop(r).off = r.off /\ Stop(r).msg = r.msg
BY DEF IsReader, At, Stop

(* Assigning a field keeps the others.                                     *)
LEMMA KeepsAssign ==
  ASSUME NEW msg, NEW name, NEW v
  PROVE  /\ Keeps(msg, msg, name) /\ Keeps(msg, Assign(msg, name, v), name)
         /\ \A m : Keeps(m, msg, name) => Keeps(m, Assign(msg, name, v), name)
BY DEF Keeps, Assign

(* Whatever the bytes, a read keeps the other fields.                      *)
LEMMA TakeKeeps ==
  ASSUME NEW b, NEW r, IsReader(r), NEW name, NEW n
  PROVE  /\ IsReader(Take(b, r, name, n))
         /\ \A m : Keeps(m, r.msg, name) => Keeps(m, Take(b, r, name, n).msg, name)
<1>1. CASE Len(b) - r.off < n
  <2>1. Take(b, r, name, n) = Stop(r)
    BY <1>1 DEF Take
  <2> QED BY <2>1, Readers
<1>2. CASE ~(Len(b) - r.off < n)
  <2> DEFINE v == SubSeq(b, r.off + 1, r.off + n)
             o == r.off + n
  <2>1. Take(b, r, name, n) = At(o, Assign(r.msg, name, v))
    BY <1>2 DEF Take
  <2> HIDE DEF v, o
  <2> QED BY <2>1, Readers, KeepsAssign
<1> QED BY <1>1, <1>2

(* So does converting what was read.                                       *)
LEMMA WithKeeps ==
  ASSUME NEW r, IsReader(r), NEW name, NEW v
  PROVE  /\ IsReader(With(r, name, v))
         /\ \A m : Keeps(m, r.msg, name) => Keeps(m, With(r, name, v).msg, name)
<1>1. CASE r.ok
  <2>1. With(r, name, v) = At(r.off, Assign(r.msg, name, v))
    BY <1>1 DEF With
  <2> QED BY <2>1, Readers, KeepsAssign
<1>2. CASE ~r.ok
  BY <1>2 DEF With
<1> QED BY <1>1, <1>2

(* So does reading a field of whatever type.                               *)
LEMMA GetKeeps ==
  ASSUME NEW f, NEW b, NEW r, IsReader(r)
  PROVE  IsReader(Get(f, b, r)) /\ Keeps(r.msg, Get(f, b, r).msg, f.name)
<1> DEFINE n == IF f.type = "rest" THEN Len(b) - r.off
                ELSE IF f.type = "bytes" THEN r.msg[f.of] ELSE Width[f.type]
           t == Take(b, r, f.name, n)
           raw == t.msg[f.name]
<1>1. IsReader(t) /\ Keeps(r.msg, t.msg, f.name)
  <2> HIDE DEF n
  <2> QED BY TakeKeeps, KeepsAssign
<1>2. \/ Get(f, b, r) = r \/ Get(f, b, r) = t
      \/ Get(f, b, r) = Take(b, t, f.name, Number(raw))
      \/ Get(f, b, r) = With(t, f.name, Number(raw) # 0)
      \/ Get(f, b, r) = With(t, f.name, Number(Reverse(raw)))
      \/ Get(f, b, r) = With(t, f.name, Signed(raw))
      \/ Get(f, b, r) = With(t, f.name, Number(raw))
  <2>1. Get(f, b, r) = IF ~r.ok THEN r
      ELSE IF ~t.ok THEN t
      ELSE CASE f.type \in {"bytes", "rest"} -> t
             [] f.type \in {"str", "str8"}   -> Take(b, t, f.name, Number(raw))
             [] f.type = "flag"              -> With(t, f.name, Number(raw) # 0)
             [] f.type = "port"              -> With(t, f.name, Number(Reverse(raw)))
             [] f.type \in {"i32", "i64"}    -> With(t, f.name, Signed(raw))
             [] OTHER                        -> With(t, f.name, Number(raw))
    BY DEF Get
  <2> HIDE DEF t, raw
  <2> QED BY <2>1
<1> HIDE DEF t, raw
<1> QED BY <1>1, <1>2, TakeKeeps, WithKeeps, KeepsAssign

(* Read, unfolded: one field after the other.                              *)
Unfolds(layout, b, r, go) ==
  /\ go[0] = r
  /\ \A i \in 1 .. Len(layout) : go[i] = Get(layout[i], b, go[i - 1])
  /\ Read(layout, b, r) = go[Len(layout)]

(* There are such readers: Read is a fold over the fields.                 *)
LEMMA ReadUnfold ==
  ASSUME NEW layout, Len(layout) \in Nat, NEW b, NEW r
  PROVE  \E go : Unfolds(layout, b, r, go)
<1> DEFINE n == Len(layout)
           Step(i, q) == Get(layout[i], b, q)
           E(m, g) == g = [i \in 0 .. m |-> IF i = 0 THEN r ELSE Step(i, g[i - 1])]
           T == {m \in Nat : \E g : E(m, g)}
<1>1. 0 \in T
  <2>1. E(0, [i \in 0 .. 0 |-> r])
    OBVIOUS
  <2> QED BY <2>1
<1>2. ASSUME NEW m \in Nat, m \in T PROVE m + 1 \in T
  <2>1. PICK g : E(m, g)
    BY <1>2
  <2> DEFINE h == [i \in 0 .. m + 1 |-> IF i = m + 1 THEN Step(i, g[m]) ELSE g[i]]
  <2>2. E(m + 1, h)
    <3> HIDE DEF Step
    <3> QED BY <2>1
  <2> HIDE DEF E
  <2> QED BY <2>2
<1>3. n \in T
  <2> HIDE DEF T
  <2> QED BY <1>1, <1>2, SetInduction
<1> DEFINE go == CHOOSE g : E(n, g)
<1>4. E(n, go)
  BY <1>3
<1>5. Read(layout, b, r) = go[n]
  BY DEF Read
<1> HIDE DEF go
<1>6. go[0] = r /\ \A i \in 1 .. n : go[i] = Step(i, go[i - 1])
  <2> HIDE DEF Step, n
  <2> QED BY <1>3, <1>4
<1>7. Unfolds(layout, b, r, go)
  BY <1>5, <1>6 DEF Unfolds
<1> QED BY <1>7

(* Whatever the bytes, reading a layout keeps the fields it does not name. *)
LEMMA ReadKeeps ==
  ASSUME NEW layout, Len(layout) \in Nat, NEW b, NEW r, IsReader(r)
  PROVE  /\ IsReader(Read(layout, b, r))
         /\ \A x \in DOMAIN r.msg : (\A i \in 1 .. Len(layout) : layout[i].name # x) =>
              x \in DOMAIN Read(layout, b, r).msg /\ Read(layout, b, r).msg[x] = r.msg[x]
         /\ ~r.ok => Read(layout, b, r) = r
<1> DEFINE n == Len(layout)
<1>1. PICK go : /\ go[0] = r /\ \A i \in 1 .. n : go[i] = Get(layout[i], b, go[i - 1])
                /\ Read(layout, b, r) = go[n]
  BY ReadUnfold DEF Unfolds
<1> DEFINE P(i) ==
      /\ IsReader(go[i])
      /\ \A x \in DOMAIN r.msg : (\A j \in 1 .. n : layout[j].name # x) =>
           x \in DOMAIN go[i].msg /\ go[i].msg[x] = r.msg[x]
      /\ ~r.ok => go[i] = r
    T == {i \in Nat : i <= n => P(i)}
<1>2. 0 \in T
  BY <1>1
<1>3. ASSUME NEW i \in Nat, i \in T PROVE i + 1 \in T
  <2> SUFFICES ASSUME i + 1 <= n PROVE P(i + 1)
    OBVIOUS
  <2>1. P(i) /\ i + 1 \in 1 .. n
    BY <1>3
  <2>2. go[i + 1] = Get(layout[i + 1], b, go[i])
    BY <1>1, <2>1
  <2>3. IsReader(go[i + 1]) /\ Keeps(go[i].msg, go[i + 1].msg, layout[i + 1].name)
    BY <2>1, <2>2, GetKeeps, SMTT(30)
  <2>4. ~r.ok => go[i + 1] = r
    BY <2>1, <2>2, Zenon DEF Get
  <2> QED BY <2>1, <2>3, <2>4 DEF Keeps
<1>4. n \in T
  <2> HIDE DEF T
  <2> QED BY <1>2, <1>3, SetInduction
<1> QED BY <1>1, <1>4

(* The second of two values assigned to a field is the one it has.         *)
LEMMA AssignTwice ==
  ASSUME NEW msg, NEW name, NEW u, NEW v
  PROVE  Assign(Assign(msg, name, u), name, v) = Assign(msg, name, v)
BY DEF Assign

(* Reversing twice: a port is written and read most significant byte       *)
(* first.                                                                  *)
LEMMA ReverseTwice ==
  ASSUME NEW S, NEW s \in Seq(S)
  PROVE  /\ Reverse(s) \in Seq(S) /\ Len(Reverse(s)) = Len(s)
         /\ Reverse(Reverse(s)) = s
<1> DEFINE n == Len(s)
           t == [i \in 1 .. n |-> s[n - i + 1]]
<1>0. n \in Nat
  OBVIOUS
<1>1. Reverse(s) = t
  BY DEF Reverse
<1>2. \A i \in 1 .. n : n - i + 1 \in 1 .. n /\ n - (n - i + 1) + 1 = i
  BY <1>0
<1>3. t \in Seq(S) /\ Len(t) = n
  <2>1. \A i \in 1 .. n : s[n - i + 1] \in S
    <3> SUFFICES ASSUME NEW i \in 1 .. n PROVE s[n - i + 1] \in S
      OBVIOUS
    <3>1. n - i + 1 \in 1 .. n
      BY <1>2
    <3> HIDE DEF n
    <3> QED BY <3>1, ElementOfSeq DEF n
  <2> HIDE DEF n
  <2> QED BY <1>0, <2>1
<1>4. Reverse(t) = [i \in 1 .. n |-> t[n - i + 1]]
  <2> HIDE DEF t
  <2> QED BY <1>3 DEF Reverse
<1>5. \A i \in 1 .. n : t[n - i + 1] = s[i]
  BY <1>2
<1>6. s = [i \in 1 .. n |-> s[i]]
  OBVIOUS
<1> HIDE DEF t
<1>7. Reverse(t) = s
  BY <1>4, <1>5, <1>6
<1> QED BY <1>1, <1>3, <1>7

(* A conversion replaces what was read, by a reader that goes on.          *)
LEMMA WithReader ==
  ASSUME NEW o, NEW msg, NEW name, NEW v
  PROVE  With(At(o, msg), name, v) = At(o, Assign(msg, name, v))
BY DEF With, At

(* What a field was taken from the frame as, and what it is converted to.  *)
LEMMA TakenWith ==
  ASSUME NEW b \in Seq(Byte), NEW o \in Nat, NEW msg, NEW name,
         NEW s \in Seq(Byte), Stands(b, o, s)
  PROVE  LET t == Take(b, At(o, msg), name, Len(s))
         IN  /\ t = At(o + Len(s), Assign(msg, name, s))
             /\ t.ok /\ t.msg[name] = s
             /\ \A x : With(t, name, x) = At(o + Len(s), Assign(msg, name, x))
<1> DEFINE t == Take(b, At(o, msg), name, Len(s))
           o2 == o + Len(s)
           msg2 == Assign(msg, name, s)
<1>1. t = At(o2, msg2)
  BY Taken
<1>2. msg2[name] = s
  BY DEF Assign
<1>3. \A x : Assign(msg2, name, x) = Assign(msg, name, x)
  BY AssignTwice
<1> HIDE DEF t, o2, msg2
<1>4. t.ok /\ t.msg = msg2
  BY <1>1, Readers
<1>5. \A x : With(t, name, x) = At(o2, Assign(msg, name, x))
  BY <1>1, <1>3, WithReader
<1> QED BY <1>1, <1>2, <1>4, <1>5 DEF t, o2, msg2

(* The cases of Get, at a reader that stands.                              *)
LEMMA GetCases ==
  ASSUME NEW f, NEW b, NEW o, NEW msg
  PROVE  /\ f.type = "bytes" =>
              Get(f, b, At(o, msg)) = Take(b, At(o, msg), f.name, msg[f.of])
         /\ f.type \notin {"bytes", "rest"} =>
              \A t : (/\ t = Take(b, At(o, msg), f.name, Width[f.type])
                      /\ t.ok)
                => Get(f, b, At(o, msg)) =
                   IF f.type \in {"str", "str8"} THEN Take(b, t, f.name, Number(t.msg[f.name]))
                   ELSE IF f.type = "flag" THEN With(t, f.name, Number(t.msg[f.name]) # 0)
                   ELSE IF f.type = "port"
                        THEN With(t, f.name, Number(Reverse(t.msg[f.name])))
                   ELSE IF f.type \in {"i32", "i64"}
                        THEN With(t, f.name, Signed(t.msg[f.name]))
                   ELSE With(t, f.name, Number(t.msg[f.name]))
<1> DEFINE r == At(o, msg)
<1>1. r.ok /\ r.off = o /\ r.msg = msg
  BY DEF At
<1> HIDE DEF r
<1>2. ASSUME f.type = "bytes" PROVE Get(f, b, r) = Take(b, r, f.name, msg[f.of])
  BY <1>1, <1>2 DEF Get
<1>3. ASSUME f.type \notin {"bytes", "rest"}, NEW t,
             t = Take(b, r, f.name, Width[f.type]), t.ok
      PROVE  Get(f, b, r) =
                   IF f.type \in {"str", "str8"} THEN Take(b, t, f.name, Number(t.msg[f.name]))
                   ELSE IF f.type = "flag" THEN With(t, f.name, Number(t.msg[f.name]) # 0)
                   ELSE IF f.type = "port"
                        THEN With(t, f.name, Number(Reverse(t.msg[f.name])))
                   ELSE IF f.type \in {"i32", "i64"}
                        THEN With(t, f.name, Signed(t.msg[f.name]))
                   ELSE With(t, f.name, Number(t.msg[f.name]))
  BY <1>1, <1>3 DEF Get
<1> QED BY <1>2, <1>3 DEF r

-----------------------------------------------------------------------------
(* Reading back what was written: a field, then a layout.                  *)

(* The types whose values are not told apart once they are read.           *)
Wide == {"i32", "i64", "u64"}

(* Reading field f of message m at offset o gives its value, if it fits.   *)
ReadsBack(f, m, b, o, msg) ==
  \E v : /\ Get(f, b, At(o, msg)) = At(o + Len(Put(f, m)), Assign(msg, f.name, v))
         /\ FieldFits(f, m) /\ f.type \notin Wide => v = Value(f, m)

(* Bytes whose length is known are read back (cursor.take).                *)
LEMMA BytesBack ==
  ASSUME NEW b \in Seq(Byte), NEW o \in Nat, NEW msg, NEW f, NEW m,
         Holds(f, m), Stands(b, o, Put(f, m)), f.type = "bytes", msg[f.of] = Len(m[f.name])
  PROVE  ReadsBack(f, m, b, o, msg)
<1> DEFINE s == m[f.name]
<1>1. Put(f, m) = s /\ Value(f, m) = s /\ s \in Seq(Byte)
  BY DEF Put, Value, Holds
<1> HIDE DEF s
<1>2. Take(b, At(o, msg), f.name, Len(s)) = At(o + Len(s), Assign(msg, f.name, s))
  BY <1>1, Taken
<1>3. Get(f, b, At(o, msg)) = At(o + Len(s), Assign(msg, f.name, s))
  BY <1>2, GetCases DEF s
<1> QED BY <1>1, <1>3 DEF ReadsBack

(* A text that fits its length prefix is read back.                        *)
LEMMA TextBack ==
  ASSUME NEW b \in Seq(Byte), NEW o \in Nat, NEW msg, NEW f, NEW m,
         FieldFits(f, m), Stands(b, o, Put(f, m)), f.type \in {"str", "str8"}
  PROVE  ReadsBack(f, m, b, o, msg)
<1> DEFINE s == m[f.name]
           w == Width[f.type]
           ds == Digits(Len(s), w)
           name == f.name
           t == Take(b, At(o, msg), name, w)
<1>1. /\ s \in Seq(Byte) /\ Value(f, m) = s /\ Len(s) \in U(w) /\ f.of = name
      /\ Len(s) \in Nat
  BY DEF FieldFits, Holds, Value
<1>2. w \in {1, 2, 4} /\ w \in Nat
  BY DEF Width
<1>3. Put(f, m) = ds \o s
  BY <1>1 DEF Put
<1> HIDE DEF s, w
<1>4. ds \in Seq(Byte) /\ Len(ds) = w /\ Number(ds) = Len(s)
  <2>1. Len(s) \in Int
    BY <1>1
  <2>2. ds \in Seq(Byte) /\ Len(ds) = w
    BY <1>2, <2>1, NumberOfDigits
  <2>3. Number(ds) = Len(s)
    BY <1>1, <1>2, NumberBack
  <2> QED BY <2>2, <2>3
<1> HIDE DEF ds, t, name
<1>5. Stands(b, o, ds) /\ Stands(b, o + w, s)
  BY <1>1, <1>3, <1>4, StandsParts
<1>6. t = At(o + w, Assign(msg, name, ds)) /\ t.ok /\ t.msg[name] = ds
  BY <1>4, <1>5, TakenWith DEF t
<1>7. o + w \in Nat
  BY <1>2
<1>8. Take(b, t, name, Len(s)) = At((o + w) + Len(s), Assign(Assign(msg, name, ds), name, s))
  BY <1>1, <1>5, <1>6, <1>7, Taken
<1>9. Get(f, b, At(o, msg)) = Take(b, t, name, Number(t.msg[name]))
  <2>1. f.type \notin {"bytes", "rest"}
    OBVIOUS
  <2>2. t = Take(b, At(o, msg), f.name, Width[f.type]) /\ t.ok
    BY <1>6, SMTT(30) DEF t, w, name
  <2> QED BY <2>1, <2>2, GetCases, SMTT(30) DEF name
<1>10. (o + w) + Len(s) = o + Len(Put(f, m))
  <2>1. Len(ds \o s) = w + Len(s)
    BY <1>1, <1>4, SMTT(30)
  <2> QED BY <1>1, <1>2, <1>3, <2>1
<1>11. Get(f, b, At(o, msg)) = At(o + Len(Put(f, m)), Assign(msg, f.name, s))
  BY <1>4, <1>6, <1>8, <1>9, <1>10, AssignTwice DEF name
<1> QED BY <1>1, <1>11 DEF ReadsBack

(* A number or a flag is read back if it fits; else it takes as many       *)
(* bytes.                                                                  *)
LEMMA NumberReadsBack ==
  ASSUME NEW b \in Seq(Byte), NEW o \in Nat, NEW msg, NEW f, NEW m,
         Holds(f, m), Stands(b, o, Put(f, m)),
         f.type \notin {"bytes", "rest", "str", "str8"}
  PROVE  ReadsBack(f, m, b, o, msg)
<1> DEFINE s == Put(f, m)
           w == Width[f.type]
           name == f.name
           t == Take(b, At(o, msg), name, w)
<1>0. w \in {1, 2, 4, 8} /\ w \in Nat
  BY DEF Holds, FieldTypes, Width
<1>1. s \in Seq(Byte) /\ s = s
  BY PutTyped
<1>2. Len(s) = w =>
        /\ t.ok /\ t.msg[name] = s
        /\ \A x : With(t, name, x) = At(o + Len(s), Assign(msg, name, x))
  <2> SUFFICES ASSUME Len(s) = w
               PROVE  /\ t.ok /\ t.msg[name] = s
                      /\ \A x : With(t, name, x) = At(o + Len(s), Assign(msg, name, x))
    OBVIOUS
  <2> HIDE DEF s, name
  <2>1. Stands(b, o, s)
    BY DEF s
  <2> HIDE DEF w
  <2> QED BY <1>1, <2>1, TakenWith
<1>3. ASSUME NEW x, Len(s) = w, Get(f, b, At(o, msg)) = With(t, name, x),
             FieldFits(f, m) /\ f.type \notin Wide => x = Value(f, m)
      PROVE  ReadsBack(f, m, b, o, msg)
  <2>1. Get(f, b, At(o, msg)) = At(o + Len(s), Assign(msg, name, x))
    <3> HIDE DEF t, s, name
    <3> QED BY <1>2, <1>3
  <2> QED BY <1>3, <2>1 DEF ReadsBack
<1>4. Len(s) = w =>
      Get(f, b, At(o, msg)) =
        IF f.type = "flag" THEN With(t, name, Number(s) # 0)
        ELSE IF f.type = "port" THEN With(t, name, Number(Reverse(s)))
        ELSE IF f.type \in {"i32", "i64"} THEN With(t, name, Signed(s))
        ELSE With(t, name, Number(s))
  <2> SUFFICES ASSUME Len(s) = w
               PROVE  Get(f, b, At(o, msg)) =
        IF f.type = "flag" THEN With(t, name, Number(s) # 0)
        ELSE IF f.type = "port" THEN With(t, name, Number(Reverse(s)))
        ELSE IF f.type \in {"i32", "i64"} THEN With(t, name, Signed(s))
        ELSE With(t, name, Number(s))
    OBVIOUS
  <2>1. t.ok /\ t.msg[name] = s /\ t = Take(b, At(o, msg), f.name, Width[f.type])
    BY <1>2
  <2> HIDE DEF t, s
  <2> QED BY <2>1, GetCases
<1>5. CASE f.type = "flag"
  <2> DEFINE v == IF m[name] THEN 1 ELSE 0
             x == Number(s) # 0
  <2>1. f.of = name /\ m[name] \in BOOLEAN /\ Value(f, m) = m[name]
    BY <1>5 DEF Holds, Value
  <2>2. w = 1 /\ s = Digits(v, w)
    BY <1>5, <2>1 DEF Put, Width
  <2>3. v \in U(1) /\ v \in Int
    BY BaseAssumption DEF U, Max8
  <2> HIDE DEF v, s
  <2>4. Len(s) = w /\ Number(s) = v
    BY <2>2, <2>3, NumberOfDigits, NumberBack
  <2>5. x = m[name]
    <3>1. CASE m[name] = TRUE
      <4>1. Number(s) = 1
        BY <2>4, <3>1 DEF v
      <4>2. x = TRUE
        BY <4>1
      <4> HIDE DEF x
      <4> QED BY <3>1, <4>2, Zenon
    <3>2. CASE m[name] = FALSE
      <4>1. Number(s) = 0
        BY <2>4, <3>2 DEF v
      <4>2. x = FALSE
        BY <4>1
      <4> HIDE DEF x
      <4> QED BY <3>2, <4>2, Zenon
    <3>3. m[name] = TRUE \/ m[name] = FALSE
      BY <2>1, Zenon
    <3> QED BY <3>1, <3>2, <3>3, Zenon
  <2>6. Get(f, b, At(o, msg)) = With(t, name, x)
    <3> HIDE DEF t, name
    <3> QED BY <1>4, <1>5, <2>4
  <2> HIDE DEF x, t
  <2> QED BY <1>3, <2>1, <2>4, <2>5, <2>6
<1>6. CASE f.type = "port"
  <2> DEFINE ds == Digits(m[name], w)
  <2>1. f.of = name /\ m[name] \in Int /\ Value(f, m) = m[name] /\ w = 2
    BY <1>6 DEF Holds, Value, Width
  <2>2. s = Reverse(ds)
    BY <1>6, <2>1 DEF Put
  <2>3. ds \in Seq(Byte) /\ Len(ds) = w
    BY <2>1, NumberOfDigits
  <2>4. FieldFits(f, m) => Number(ds) = Value(f, m)
    BY <1>6, <2>1, NumberBack DEF FieldFits
  <2> HIDE DEF ds, t, s
  <2>5. Len(s) = w /\ Reverse(s) = ds
    BY <2>2, <2>3, ReverseTwice
  <2>6. Get(f, b, At(o, msg)) = With(t, name, Number(ds))
    <3> HIDE DEF name
    <3> QED BY <1>4, <1>6, <2>5
  <2> QED BY <1>3, <2>4, <2>5, <2>6
<1>7. CASE f.type \in {"u8", "u16", "u32", "i32", "i64", "u64"}
  <2> DEFINE v == IF f.of = name THEN m[f.of] ELSE Len(m[f.of])
             x == IF f.type \in {"i32", "i64"} THEN Signed(s) ELSE Number(s)
  <2>1. v \in Int /\ Value(f, m) = v
    BY <1>7 DEF Holds, Value
  <2>2. s = Digits(v, w)
    BY <1>7 DEF Put
  <2> HIDE DEF v
  <2>3. Len(s) = w
    BY <1>0, <2>1, <2>2, NumberOfDigits
  <2>4. ASSUME FieldFits(f, m), f.type \notin Wide PROVE x = Value(f, m)
    <3>1. f.type \in {"u8", "u16", "u32"}
      BY <1>7, <2>4 DEF Wide
    <3>2. w \in {1, 2, 4} /\ v \in U(w)
      BY <2>1, <2>4, <3>1 DEF FieldFits, Width
    <3>3. Number(s) = v
      <4> HIDE DEF s, w
      <4> QED BY <2>2, <3>2, NumberBack
    <3> QED BY <2>1, <3>1, <3>3
  <2>6. Get(f, b, At(o, msg)) = With(t, name, x)
    <3> HIDE DEF t, name, s
    <3> QED BY <1>4, <1>7, <2>3
  <2> HIDE DEF x, t, s
  <2> QED BY <1>3, <2>3, <2>4, <2>6
<1> QED BY <1>5, <1>6, <1>7 DEF Holds, FieldTypes

(* So are the bytes up to the end of the frame.                            *)
LEMMA RestBack ==
  ASSUME NEW b \in Seq(Byte), NEW o \in Nat, NEW msg, NEW f, NEW m,
         Holds(f, m), Stands(b, o, Put(f, m)), f.type = "rest",
         Len(b) = o + Len(Put(f, m))
  PROVE  ReadsBack(f, m, b, o, msg)
<1> DEFINE s == m[f.name]
           r == At(o, msg)
           t == Take(b, r, f.name, Len(s))
<1>1. Put(f, m) = s /\ Value(f, m) = s /\ s \in Seq(Byte) /\ Len(s) \in Nat
  BY DEF Put, Value, Holds
<1>2. t = At(o + Len(s), Assign(msg, f.name, s))
  <2> HIDE DEF s
  <2> QED BY <1>1, Taken DEF t, r
<1>3. t.ok /\ r.ok /\ Len(b) - r.off = Len(s)
  <2> HIDE DEF s
  <2>1. r.ok /\ r.off = o
    BY DEF At
  <2>2. t.ok
    BY <1>2 DEF At
  <2> QED BY <1>1, <2>1, <2>2
<1>4. Get(f, b, r) = t
  <2> HIDE DEF s, r
  <2> QED BY <1>3 DEF Get, t
<1> HIDE DEF s, t
<1> QED BY <1>1, <1>2, <1>4 DEF ReadsBack, r

(* Reading a field that was written, by type.                              *)
LEMMA GetBack ==
  ASSUME NEW b \in Seq(Byte), NEW o \in Nat, NEW msg, NEW f, NEW m,
         Holds(f, m), f.type = "rest" => Len(b) = o + Len(Put(f, m)),
         f.type \in {"str", "str8"} => FieldFits(f, m),
         f.type = "bytes" => msg[f.of] = Len(m[f.name]),
         Stands(b, o, Put(f, m))
  PROVE  ReadsBack(f, m, b, o, msg)
BY BytesBack, RestBack, TextBack, NumberReadsBack

(* The reader that meets field i has read, or was given, the length it     *)
(* needs; only the last field may take the rest of the frame.              *)
SizeKnown(layout, i, m, msg) ==
  /\ layout[i].type = "rest" => i = Len(layout)
  /\ layout[i].type = "bytes" =>
       \/ \E j \in 1 .. i - 1 :
            /\ layout[j].name = layout[i].of /\ layout[j].of = layout[i].name
            /\ layout[j].type \in {"u8", "u16"} /\ FieldFits(layout[j], m)
       \/ /\ layout[i].of \in DOMAIN msg /\ msg[layout[i].of] = Len(m[layout[i].name])
          /\ \A j \in 1 .. Len(layout) : layout[j].name # layout[i].of

(* The message m can be written by the layout.                             *)
Writable(layout, m) ==
  \A i \in 1 .. Len(layout) :
    /\ Holds(layout[i], m)
    /\ layout[i].type \in {"str", "str8"} => FieldFits(layout[i], m)

(* A layout names each of its fields once.                                 *)
IsLayout(layout) ==
  /\ Len(layout) \in Nat /\ DOMAIN layout = 1 .. Len(layout)
  /\ \A i, j \in 1 .. Len(layout) : layout[i].name = layout[j].name => i = j

(* A message becomes a sequence of bytes, its fields one behind the other. *)
LEMMA EncodeTyped ==
  ASSUME NEW layout, IsLayout(layout), NEW m, \A i \in 1 .. Len(layout) : Holds(layout[i], m)
  PROVE  /\ Encode(layout, m) \in Seq(Byte)
         /\ \A b \in Seq(Byte), o \in Nat :
              Stands(b, o, Encode(layout, m)) =>
                \E at \in [0 .. Len(layout) -> Nat] :
                  /\ at[0] = o /\ at[Len(layout)] = o + Len(Encode(layout, m))
                  /\ \A i \in 1 .. Len(layout) :
                       /\ at[i] = at[i - 1] + Len(Put(layout[i], m))
                       /\ Stands(b, at[i - 1], Put(layout[i], m))
<1> DEFINE n == Len(layout)
           puts == [i \in 1 .. n |-> Put(layout[i], m)]
<1>1. n \in Nat /\ DOMAIN layout = 1 .. n
  BY DEF IsLayout
<1>2. Encode(layout, m) = FlattenSeq(puts)
  BY <1>1 DEF Encode
<1>3. puts \in Seq(Seq(Byte)) /\ Len(puts) = n
  <2>1. \A i \in 1 .. n : Put(layout[i], m) \in Seq(Byte)
    BY PutTyped
  <2> HIDE DEF n
  <2> QED BY <1>1, <2>1
<1>4. \A i \in 1 .. n : puts[i] = Put(layout[i], m)
  OBVIOUS
<1> HIDE DEF puts, n
<1>5. ASSUME NEW b \in Seq(Byte), NEW o \in Nat, Stands(b, o, Encode(layout, m))
      PROVE  \E at \in [0 .. n -> Nat] :
               /\ at[0] = o /\ at[n] = o + Len(Encode(layout, m))
               /\ \A i \in 1 .. n : /\ at[i] = at[i - 1] + Len(Put(layout[i], m))
                                    /\ Stands(b, at[i - 1], Put(layout[i], m))
  <2>1. Stands(b, o, FlattenSeq(puts))
    BY <1>2, <1>5
  <2>2. PICK at \in [0 .. Len(puts) -> Nat] :
          /\ at[0] = o /\ at[Len(puts)] = o + Len(FlattenSeq(puts))
          /\ \A i \in 1 .. Len(puts) : /\ at[i] = at[i - 1] + Len(puts[i])
                                       /\ Stands(b, at[i - 1], puts[i])
    BY <1>3, <2>1, FlattenStands
  <2>3. at \in [0 .. n -> Nat] /\ at[0] = o /\ at[n] = o + Len(Encode(layout, m))
    BY <1>2, <1>3, <2>2
  <2>4. \A i \in 1 .. n : /\ at[i] = at[i - 1] + Len(Put(layout[i], m))
                          /\ Stands(b, at[i - 1], Put(layout[i], m))
    BY <1>3, <1>4, <2>2
  <2> QED BY <2>3, <2>4
<1>6. Encode(layout, m) \in Seq(Byte)
  BY <1>2, <1>3, FlattenStands
<1> QED BY <1>5, <1>6 DEF n

(* What reading a layout gives, where it was written from message m.       *)
Sized(layout) == \A i \in 1 .. Len(layout) : layout[i].type # "rest"
IsMap(msg) == msg = [x \in DOMAIN msg |-> msg[x]]
Gives(layout, m, b, o, msg, out) ==
  /\ Read(layout, b, At(o, msg)) = At(o + Len(Encode(layout, m)), out)
  /\ \A i \in 1 .. Len(layout) :
       FieldFits(layout[i], m) /\ layout[i].type \notin Wide =>
         layout[i].name \in DOMAIN out /\ out[layout[i].name] = Value(layout[i], m)
  /\ \A x \in DOMAIN msg : (\A i \in 1 .. Len(layout) : layout[i].name # x) =>
       x \in DOMAIN out /\ out[x] = msg[x]
  /\ IsMap(msg) => IsMap(out)
  /\ DOMAIN out \subseteq DOMAIN msg \cup {layout[i].name : i \in 1 .. Len(layout)}

(* Reading a layout gives back the message that was written by it.         *)
LEMMA ReadBack ==
  ASSUME NEW b \in Seq(Byte), NEW o \in Nat, NEW msg, NEW layout, NEW m,
         IsLayout(layout), Writable(layout, m),
         \A i \in 1 .. Len(layout) : SizeKnown(layout, i, m, msg),
         Stands(b, o, Encode(layout, m)),
         Sized(layout) \/ Len(b) = o + Len(Encode(layout, m))
  PROVE  \E out : Gives(layout, m, b, o, msg, out)
<1> DEFINE n == Len(layout)
<1>1. n \in Nat
  BY DEF IsLayout
<1>2. PICK at \in [0 .. n -> Nat] :
         /\ at[0] = o /\ at[n] = o + Len(Encode(layout, m))
         /\ \A i \in 1 .. n : /\ at[i] = at[i - 1] + Len(Put(layout[i], m))
                              /\ Stands(b, at[i - 1], Put(layout[i], m))
  BY EncodeTyped, ZenonT(60) DEF Writable
<1>3. PICK go : /\ go[0] = At(o, msg)
                /\ \A i \in 1 .. n : go[i] = Get(layout[i], b, go[i - 1])
                /\ Read(layout, b, At(o, msg)) = go[n]
  BY <1>1, ReadUnfold DEF Unfolds
<1> DEFINE Goes(i, out) ==
      /\ go[i] = At(at[i], out)
      /\ \A j \in 1 .. i : FieldFits(layout[j], m) /\ layout[j].type \notin Wide =>
           layout[j].name \in DOMAIN out /\ out[layout[j].name] = Value(layout[j], m)
      /\ \A x \in DOMAIN msg : (\A j \in 1 .. n : layout[j].name # x) =>
           x \in DOMAIN out /\ out[x] = msg[x]
      /\ IsMap(msg) => IsMap(out)
      /\ DOMAIN out \subseteq DOMAIN msg \cup {layout[j].name : j \in 1 .. n}
    T == {i \in Nat : i <= n => \E out : Goes(i, out)}
<1>4. 0 \in T
  <2>1. Goes(0, msg)
    BY <1>2, <1>3
  <2> HIDE DEF Goes
  <2> QED BY <2>1
<1>5. ASSUME NEW i \in Nat, i \in T PROVE i + 1 \in T
  <2> SUFFICES ASSUME i + 1 <= n PROVE \E out : Goes(i + 1, out)
    OBVIOUS
  <2> DEFINE k == i + 1
             f == layout[k]
  <2>0. k \in 1 .. n /\ k - 1 = i /\ i \in 0 .. n /\ k \in Nat
    BY <1>1
  <2>1. PICK out : Goes(i, out)
    <3> HIDE DEF Goes
    <3> QED BY <1>1, <1>5
  <2>2. at[i] \in Nat
    BY <1>2, <2>0
  <2> HIDE DEF n, k
  <2>3. go[k] = Get(f, b, At(at[i], out))
    BY <1>3, <2>0, <2>1
  <2>4. Stands(b, at[i], Put(f, m)) /\ at[k] = at[i] + Len(Put(f, m))
    BY <1>2, <2>0
  <2>5. Holds(f, m) /\ (f.type \in {"str", "str8"} => FieldFits(f, m))
    BY <2>0 DEF Writable, n
  <2>6. f.type = "bytes" => out[f.of] = Len(m[f.name])
    <3> SUFFICES ASSUME f.type = "bytes" PROVE out[f.of] = Len(m[f.name])
      OBVIOUS
    <3>1. SizeKnown(layout, k, m, msg)
      BY <2>0 DEF n
    <3>2. CASE \E j \in 1 .. k - 1 :
                 /\ layout[j].name = f.of /\ layout[j].of = f.name
                 /\ layout[j].type \in {"u8", "u16"} /\ FieldFits(layout[j], m)
      <4>1. PICK j \in 1 .. i : /\ layout[j].name = f.of /\ layout[j].of = f.name
                                /\ layout[j].type \in {"u8", "u16"} /\ FieldFits(layout[j], m)
        BY <2>0, <3>2
      <4>2. j \in 1 .. n /\ j # k
        BY <2>0, <1>1
      <4>3. layout[j].name # f.name
        BY <2>0, <4>2 DEF IsLayout, n
      <4>4. Value(layout[j], m) = Len(m[f.name])
        BY <4>1, <4>3 DEF Value
      <4>5. layout[j].type \notin Wide
        BY <4>1 DEF Wide
      <4>6. out[layout[j].name] = Value(layout[j], m)
        BY <2>1, <4>1, <4>5
      <4> QED BY <4>1, <4>4, <4>6
    <3>3. CASE /\ f.of \in DOMAIN msg /\ msg[f.of] = Len(m[f.name])
               /\ \A j \in 1 .. n : layout[j].name # f.of
      BY <2>1, <3>3
    <3> QED BY <3>1, <3>2, <3>3 DEF SizeKnown, n
  <2>7. f.type = "rest" => Len(b) = at[i] + Len(Put(f, m))
    <3> SUFFICES ASSUME f.type = "rest" PROVE Len(b) = at[k]
      BY <2>4
    <3>1. SizeKnown(layout, k, m, msg)
      BY <2>0 DEF n
    <3>2. k = n
      BY <3>1 DEF SizeKnown, n
    <3> QED BY <1>2, <2>0, <3>2 DEF n, Sized
  <2>71. ReadsBack(f, m, b, at[i], out)
    BY <2>2, <2>4, <2>5, <2>6, <2>7, GetBack
  <2>8. PICK v : /\ Get(f, b, At(at[i], out)) = At(at[i] + Len(Put(f, m)), Assign(out, f.name, v))
                 /\ FieldFits(f, m) /\ f.type \notin Wide => v = Value(f, m)
    BY <2>71 DEF ReadsBack
  <2> DEFINE new == Assign(out, f.name, v)
  <2>9. go[k] = At(at[k], new)
    BY <2>3, <2>4, <2>8
  <2>10. /\ f.name \in DOMAIN new /\ new[f.name] = v
         /\ \A x \in DOMAIN out : x # f.name => x \in DOMAIN new /\ new[x] = out[x]
         /\ DOMAIN new = DOMAIN out \cup {f.name}
         /\ IsMap(new)
    BY DEF Assign, IsMap
  <2> HIDE DEF new
  <2>11. ASSUME NEW j \in 1 .. k, FieldFits(layout[j], m), layout[j].type \notin Wide
         PROVE  layout[j].name \in DOMAIN new /\ new[layout[j].name] = Value(layout[j], m)
    <3>1. CASE j = k
      BY <2>8, <2>10, <2>11, <3>1
    <3>2. CASE j # k
      <4>1. j \in 1 .. i /\ j \in 1 .. n
        BY <2>0, <1>1, <3>2
      <4>2. layout[j].name \in DOMAIN out /\ out[layout[j].name] = Value(layout[j], m)
        BY <2>1, <2>11, <4>1
      <4>3. layout[j].name # f.name
        BY <2>0, <3>2, <4>1 DEF IsLayout, n
      <4> QED BY <2>10, <4>2, <4>3
    <3> QED BY <3>1, <3>2
  <2>12. ASSUME NEW x \in DOMAIN msg, \A j \in 1 .. n : layout[j].name # x
         PROVE  x \in DOMAIN new /\ new[x] = msg[x]
    <3>1. x \in DOMAIN out /\ out[x] = msg[x] /\ x # f.name
      BY <2>0, <2>1, <2>12
    <3> QED BY <2>10, <3>1
  <2>121. DOMAIN new \subseteq DOMAIN msg \cup {layout[j].name : j \in 1 .. n}
    BY <2>0, <2>1, <2>10
  <2>13. Goes(k, new)
    BY <2>9, <2>10, <2>11, <2>12, <2>121
  <2> HIDE DEF Goes
  <2> QED BY <2>13 DEF k
<1>6. n \in T
  <2> HIDE DEF T
  <2> QED BY <1>1, <1>4, <1>5, SetInduction
<1>7. PICK out : Goes(n, out)
  <2> HIDE DEF Goes
  <2> QED BY <1>6, <1>1
<1>8. Gives(layout, m, b, o, msg, out)
  BY <1>2, <1>3, <1>7 DEF Gives
<1> QED BY <1>8

-----------------------------------------------------------------------------
(* The frames of a verdict (Frames).                                       *)

(* The iota constants of the verdict kinds (const.go).                     *)
LEMMA KindNumbers ==
  /\ Kind("Inspect") = 0 /\ Kind("Accept") = 1 /\ Kind("Drop") = 2 /\ Kind("Inject") = 3
  /\ Kind("CustomResponse") = 8
BY DEF Kind, Iota, VerdictKinds

(* The iota constants of the web responses (const.go).                     *)
LEMMA WebNumbers ==
  /\ WebResponse("Custom") = 0 /\ WebResponse("BlockPage") = 1 /\ WebResponse("CodeOnly") = 2
  /\ WebResponse("Redirect") = 3 /\ WebResponse("WithHeaders") = 4
BY DEF WebResponse, Iota, WebResponseTypes

(* The head of a verdict.                                                  *)
LEMMA HeadLayout ==
  /\ IsLayout(VerdictHead) /\ Len(VerdictHead) = 3
  /\ VerdictHead[1].name = "kind" /\ VerdictHead[2].name = "sid"
  /\ VerdictHead[3].name = "count"
  /\ VerdictHead[1].type = "u16" /\ VerdictHead[2].type = "u32" /\ VerdictHead[3].type = "u8"
  /\ \A i \in 1 .. 3 : VerdictHead[i].of = VerdictHead[i].name
BY DEF IsLayout, VerdictHead, U8, U16, U32, Field

(* The head of a verdict is read back from a frame that begins with it;    *)
(* its count if it fits.                                                   *)
LEMMA HeadBack ==
  ASSUME NEW v, v.kind \in 0 .. Max16, v.sid \in 0 .. Max32, NEW n \in Nat
  PROVE  /\ EncodeHead(v, n) \in Seq(Byte)
         /\ \A b \in Seq(Byte) : Stands(b, 0, EncodeHead(v, n)) =>
              \E out : /\ Parse(VerdictHead, b) = At(Len(EncodeHead(v, n)), out)
                       /\ "kind" \in DOMAIN out /\ "sid" \in DOMAIN out
                       /\ out.kind = v.kind /\ out.sid = v.sid
                       /\ n \in 0 .. Max8 => out.count = n
<1> DEFINE m == [kind |-> v.kind, sid |-> v.sid, count |-> n]
           L == VerdictHead
<1>1. m.kind = v.kind /\ m.sid = v.sid /\ m.count = n
  OBVIOUS
<1>2. /\ Value(L[1], m) = v.kind /\ Value(L[2], m) = v.sid /\ Value(L[3], m) = n
  BY HeadLayout, <1>1 DEF Value
<1>3. v.kind \in Int /\ v.sid \in Int /\ n \in Int
  BY BaseAssumption DEF Max16, Max32
<1>4. \A i \in 1 .. 3 : Holds(L[i], m) /\ L[i].type \in {"u8", "u16", "u32"}
  BY HeadLayout, <1>2, <1>3 DEF Holds, FieldTypes
<1>5. FieldFits(L[1], m) /\ FieldFits(L[2], m) /\ (n \in 0 .. Max8 => FieldFits(L[3], m))
  BY HeadLayout, <1>2, <1>4 DEF FieldFits, U, Width
<1> HIDE DEF m, L
<1>6. Writable(L, m)
  BY HeadLayout, <1>4 DEF Writable, L
<1>7. \A i \in 1 .. Len(L) : SizeKnown(L, i, m, << >>)
  BY HeadLayout, <1>4 DEF SizeKnown, L
<1>8. EncodeHead(v, n) = Encode(L, m)
  BY DEF EncodeHead, L, m
<1>9. EncodeHead(v, n) \in Seq(Byte)
  BY HeadLayout, <1>4, <1>8, EncodeTyped DEF L
<1>10. ASSUME NEW b \in Seq(Byte), Stands(b, 0, EncodeHead(v, n))
       PROVE  \E out : /\ Parse(VerdictHead, b) = At(Len(EncodeHead(v, n)), out)
                       /\ "kind" \in DOMAIN out /\ "sid" \in DOMAIN out
                       /\ out.kind = v.kind /\ out.sid = v.sid
                       /\ n \in 0 .. Max8 => out.count = n
  <2>1. PICK out :
           /\ Read(L, b, At(0, << >>)) = At(0 + Len(Encode(L, m)), out)
           /\ \A i \in 1 .. Len(L) : FieldFits(L[i], m) /\ L[i].type \notin Wide =>
                L[i].name \in DOMAIN out /\ out[L[i].name] = Value(L[i], m)
    <3>1. IsLayout(L) /\ Stands(b, 0, Encode(L, m)) /\ 0 \in Nat
      BY HeadLayout, <1>8, <1>10 DEF L
    <3>2. \E out : Gives(L, m, b, 0, << >>, out)
      <4>1. Sized(L)
        BY HeadLayout, <1>4 DEF Sized, L
      <4> QED BY <1>6, <1>7, <3>1, <4>1, ReadBack
    <3> QED BY <3>2 DEF Gives
  <2>2. Parse(VerdictHead, b) = At(Len(EncodeHead(v, n)), out)
    <3>1. 0 + Len(Encode(L, m)) = Len(Encode(L, m))
      BY <1>8, <1>9
    <3> QED BY <1>8, <2>1, <3>1 DEF Parse, Start, L
  <2>3. \A i \in 1 .. 3 : L[i].type \notin Wide
    BY <1>4 DEF Wide
  <2>4. \A i \in 1 .. 3 : FieldFits(L[i], m) =>
                L[i].name \in DOMAIN out /\ out[L[i].name] = Value(L[i], m)
    BY HeadLayout, <2>1, <2>3 DEF L
  <2>5. /\ "kind" \in DOMAIN out /\ "sid" \in DOMAIN out
        /\ out["kind"] = v.kind /\ out["sid"] = v.sid
        /\ n \in 0 .. Max8 => out["count"] = n
    <3>1. L[1].name = "kind" /\ L[2].name = "sid" /\ L[3].name = "count"
      BY HeadLayout DEF L
    <3> QED BY <1>2, <1>5, <2>4, <3>1
  <2> QED BY <2>2, <2>5
<1> QED BY <1>9, <1>10

(* The layout WebHead, field by field.                                     *)
LEMMA WebHeadLayout ==
  /\ IsLayout(WebHead) /\ Len(WebHead) = 2
  /\ WebHead[1] = [name |-> "web", type |-> "u8", of |-> "web"]
  /\ WebHead[2] = [name |-> "uuidSize", type |-> "u8", of |-> "uuid"]
BY DEF IsLayout, WebHead, U8, Field, SizeIn

(* The layout Page.                                                        *)
LEMMA PageLayout ==
  /\ IsLayout(Page) /\ Len(Page) = 6
  /\ Page[1] = [name |-> "status", type |-> "u16", of |-> "status"]
  /\ Page[2] = [name |-> "titleSize", type |-> "u8", of |-> "title"]
  /\ Page[3] = [name |-> "bodySize", type |-> "u8", of |-> "body"]
  /\ Page[4] = [name |-> "title", type |-> "bytes", of |-> "titleSize"]
  /\ Page[5] = [name |-> "body", type |-> "bytes", of |-> "bodySize"]
  /\ Page[6] = [name |-> "uuid", type |-> "bytes", of |-> "uuidSize"]
BY DEF IsLayout, Page, U16, Field, SizeIn, Bytes

(* The layout Redirect.                                                    *)
LEMMA RedirectLayout ==
  /\ IsLayout(Redirect) /\ Len(Redirect) = 5
  /\ Redirect[1] = [name |-> "dummy", type |-> "u8", of |-> "dummy"]
  /\ Redirect[2] = [name |-> "event", type |-> "u8", of |-> "event"]
  /\ Redirect[3] = [name |-> "locationSize", type |-> "u16", of |-> "location"]
  /\ Redirect[4] = [name |-> "location", type |-> "bytes", of |-> "locationSize"]
  /\ Redirect[5] = [name |-> "uuid", type |-> "bytes", of |-> "uuidSize"]
BY DEF IsLayout, Redirect, U8, Field, SizeIn, Bytes

(* The layouts of a custom response, without its headers.                  *)
LEMMA CustomLayouts ==
  /\ IsLayout(CustomHead) /\ Len(CustomHead) = 3
  /\ CustomHead[1] = [name |-> "status", type |-> "u16", of |-> "status"]
  /\ CustomHead[2] = [name |-> "bodySize", type |-> "u16", of |-> "body"]
  /\ CustomHead[3] = [name |-> "headerCount", type |-> "u8", of |-> "headers"]
  /\ IsLayout(CustomBody) /\ Len(CustomBody) = 1
  /\ CustomBody[1] = [name |-> "body", type |-> "bytes", of |-> "bodySize"]
BY DEF IsLayout, CustomHead, CustomBody, U16, Field, SizeIn, Bytes

(* The layout of one of its headers.                                       *)
LEMMA SizedHeaderLayout ==
  /\ IsLayout(SizedHeader) /\ Len(SizedHeader) = 4
  /\ SizedHeader[1] = [name |-> "keySize", type |-> "u16", of |-> "key"]
  /\ SizedHeader[2] = [name |-> "valueSize", type |-> "u16", of |-> "value"]
  /\ SizedHeader[3] = [name |-> "key", type |-> "bytes", of |-> "keySize"]
  /\ SizedHeader[4] = [name |-> "value", type |-> "bytes", of |-> "valueSize"]
BY DEF IsLayout, SizedHeader, Field, SizeIn, Bytes

(* The layout of an injection.                                             *)
LEMMA InjectLayout ==
  /\ IsLayout(InjectData) /\ Len(InjectData) = 6
  /\ InjectData[1] = [name |-> "pos", type |-> "i64", of |-> "pos"]
  /\ InjectData[2] = [name |-> "mod", type |-> "u32", of |-> "mod"]
  /\ InjectData[3] = [name |-> "size", type |-> "u16", of |-> "data"]
  /\ InjectData[4] = [name |-> "header", type |-> "flag", of |-> "header"]
  /\ InjectData[5] = [name |-> "index", type |-> "u8", of |-> "index"]
  /\ InjectData[6] = [name |-> "data", type |-> "bytes", of |-> "size"]
BY DEF IsLayout, InjectData, U32, U8, Field, SizeIn, Bytes

(* The fields of a verdict have the types of their layouts.                *)
Whole == {"u8", "u16", "u32", "i32", "i64", "u64"}

(* A field whose value has the right Go type can be written.               *)
LEMMA HoldsCases ==
  ASSUME NEW m, NEW name, NEW type, NEW of
  PROVE  /\ type \in Whole /\ of = name /\ m[name] \in Int =>
              Holds([name |-> name, type |-> type, of |-> of], m)
         /\ type \in {"u8", "u16", "u32"} /\ of # name /\ Len(m[of]) \in Int =>
              Holds([name |-> name, type |-> type, of |-> of], m)
         /\ type = "bytes" /\ m[name] \in Seq(Byte) =>
              Holds([name |-> name, type |-> type, of |-> of], m)
         /\ type = "flag" /\ of = name /\ m[name] \in BOOLEAN =>
              Holds([name |-> name, type |-> type, of |-> of], m)
BY DEF Holds, Value, FieldTypes, Whole

(* The messages ms, written by the layout, stand at the offsets at of b.   *)
Offsets(layout, ms, b, o, at) ==
  /\ at \in [0 .. Len(ms) -> Nat] /\ at[0] = o
  /\ at[Len(ms)] = o + Len(EncodeAll(layout, ms))
  /\ \A k \in 1 .. Len(ms) : /\ at[k] = at[k - 1] + Len(Encode(layout, ms[k]))
                             /\ Stands(b, at[k - 1], Encode(layout, ms[k]))

(* Messages one behind the other: a sequence of bytes, and where each of   *)
(* them stands.                                                            *)
LEMMA EncodeAllTyped ==
  ASSUME NEW layout, IsLayout(layout), NEW ms, Len(ms) \in Nat, DOMAIN ms = 1 .. Len(ms),
         \A k \in 1 .. Len(ms) : \A i \in 1 .. Len(layout) : Holds(layout[i], ms[k])
  PROVE  /\ EncodeAll(layout, ms) \in Seq(Byte)
         /\ \A b \in Seq(Byte), o \in Nat :
              Stands(b, o, EncodeAll(layout, ms)) => \E at : Offsets(layout, ms, b, o, at)
<1> DEFINE n == Len(ms)
           parts == [k \in 1 .. n |-> Encode(layout, ms[k])]
<1>1. EncodeAll(layout, ms) = FlattenSeq(parts)
  BY DEF EncodeAll
<1>2. parts \in Seq(Seq(Byte)) /\ Len(parts) = n
  <2>1. \A k \in 1 .. n : Encode(layout, ms[k]) \in Seq(Byte)
    BY EncodeTyped
  <2>2. n \in Nat
    OBVIOUS
  <2> HIDE DEF n
  <2> QED BY <2>1, <2>2
<1>3. \A k \in 1 .. n : parts[k] = Encode(layout, ms[k])
  OBVIOUS
<1> HIDE DEF parts, n
<1>4. EncodeAll(layout, ms) \in Seq(Byte)
  BY <1>1, <1>2, FlattenStands
<1>5. ASSUME NEW b \in Seq(Byte), NEW o \in Nat, Stands(b, o, EncodeAll(layout, ms))
      PROVE  \E at : Offsets(layout, ms, b, o, at)
  <2>1. PICK at \in [0 .. Len(parts) -> Nat] :
          /\ at[0] = o /\ at[Len(parts)] = o + Len(FlattenSeq(parts))
          /\ \A i \in 1 .. Len(parts) : /\ at[i] = at[i - 1] + Len(parts[i])
                                        /\ Stands(b, at[i - 1], parts[i])
    <3>1. Stands(b, o, FlattenSeq(parts))
      BY <1>1, <1>5
    <3> QED BY <1>2, <3>1, FlattenStands
  <2>2. /\ at \in [0 .. n -> Nat] /\ at[0] = o
        /\ at[n] = o + Len(EncodeAll(layout, ms))
    BY <1>1, <1>2, <2>1
  <2>3. \A k \in 1 .. n : /\ at[k] = at[k - 1] + Len(Encode(layout, ms[k]))
                          /\ Stands(b, at[k - 1], Encode(layout, ms[k]))
    BY <1>2, <1>3, <2>1
  <2> QED BY <2>2, <2>3 DEF Offsets, n
<1> QED BY <1>4, <1>5

(* Texts are sequences of bytes, and the ranges of the fields are          *)
(* integers.                                                               *)
LEMMA Lengths ==
  /\ \A s : s \in Text => s \in Seq(Byte) /\ Len(s) \in Nat /\ Len(s) \in Int
  /\ 0 .. Max8 = Byte /\ 0 .. Max8 \subseteq Int /\ 0 .. Max16 \subseteq Int
BY BaseAssumption DEF Text, Byte, Max8, Max16

(* The fields of a verdict have the types of their layouts.                *)
LEMMA DropHolds ==
  ASSUME NEW v, IsVerdict(v), v.kind = Kind("Drop")
  PROVE  /\ \A i \in 1 .. Len(WebHead) : Holds(WebHead[i], v)
         /\ \A i \in 1 .. Len(Page) : Holds(Page[i], v)
         /\ \A i \in 1 .. Len(Redirect) : Holds(Redirect[i], v)
<1>1. /\ v.web \in Int /\ v.status \in Int /\ v.dummy \in Int /\ v.event \in Int
      /\ v.title \in Seq(Byte) /\ v.body \in Seq(Byte) /\ v.uuid \in Seq(Byte)
      /\ v.location \in Seq(Byte)
      /\ Len(v.title) \in Int /\ Len(v.body) \in Int /\ Len(v.uuid) \in Int
      /\ Len(v.location) \in Int
  BY Lengths DEF IsVerdict
<1>2. Holds(WebHead[1], v) /\ Holds(WebHead[2], v)
  BY <1>1, WebHeadLayout, HoldsCases DEF Whole
<1>3. /\ Holds(Page[1], v) /\ Holds(Page[2], v) /\ Holds(Page[3], v)
      /\ Holds(Page[4], v) /\ Holds(Page[5], v) /\ Holds(Page[6], v)
  BY <1>1, PageLayout, HoldsCases DEF Whole
<1>4. /\ Holds(Redirect[1], v) /\ Holds(Redirect[2], v) /\ Holds(Redirect[3], v)
      /\ Holds(Redirect[4], v) /\ Holds(Redirect[5], v)
  BY <1>1, RedirectLayout, HoldsCases DEF Whole
<1>5. Len(WebHead) = 2 /\ Len(Page) = 6 /\ Len(Redirect) = 5
  BY WebHeadLayout, PageLayout, RedirectLayout
<1> QED BY <1>2, <1>3, <1>4, <1>5

(* What a CUSTOM_RESPONSE holds can be written.                            *)
LEMMA CustomHolds ==
  ASSUME NEW v, IsVerdict(v), v.kind = Kind("CustomResponse")
  PROVE  /\ \A i \in 1 .. Len(CustomHead) : Holds(CustomHead[i], v)
         /\ \A i \in 1 .. Len(CustomBody) : Holds(CustomBody[i], v)
         /\ Len(v.headers) \in Nat /\ DOMAIN v.headers = 1 .. Len(v.headers)
         /\ \A k \in 1 .. Len(v.headers) : \A i \in 1 .. Len(SizedHeader) :
              Holds(SizedHeader[i], v.headers[k])
<1>1. /\ v.status \in Int /\ v.body \in Seq(Byte) /\ Len(v.body) \in Int
      /\ v.headers \in Seq([key : Text, value : Text])
  BY Lengths DEF IsVerdict
<1>2. Len(v.headers) \in Nat /\ DOMAIN v.headers = 1 .. Len(v.headers)
  BY <1>1
<1>3. Holds(CustomHead[1], v) /\ Holds(CustomHead[2], v) /\ Holds(CustomHead[3], v)
  <2>1. Len(v.headers) \in Int
    BY <1>2
  <2> QED BY <1>1, <2>1, CustomLayouts, HoldsCases DEF Whole
<1>4. Holds(CustomBody[1], v)
  BY <1>1, CustomLayouts, HoldsCases
<1>5. ASSUME NEW k \in 1 .. Len(v.headers)
      PROVE  /\ Holds(SizedHeader[1], v.headers[k]) /\ Holds(SizedHeader[2], v.headers[k])
             /\ Holds(SizedHeader[3], v.headers[k]) /\ Holds(SizedHeader[4], v.headers[k])
  <2> DEFINE h == v.headers[k]
  <2>1. h \in [key : Text, value : Text]
    BY <1>1, ElementOfSeq
  <2> HIDE DEF h
  <2>2. /\ h.key \in Seq(Byte) /\ Len(h.key) \in Int
        /\ h.value \in Seq(Byte) /\ Len(h.value) \in Int
    BY <2>1, Lengths
  <2>3. /\ Holds(SizedHeader[1], h) /\ Holds(SizedHeader[2], h)
        /\ Holds(SizedHeader[3], h) /\ Holds(SizedHeader[4], h)
    BY <2>2, SizedHeaderLayout, HoldsCases
  <2> QED BY <2>3 DEF h
<1>6. Len(CustomHead) = 3 /\ Len(CustomBody) = 1 /\ Len(SizedHeader) = 4
  BY CustomLayouts, SizedHeaderLayout
<1> QED BY <1>2, <1>3, <1>4, <1>5, <1>6

(* What an INJECT holds can be written.                                    *)
LEMMA InjectHolds ==
  ASSUME NEW is, is \in Injections
  PROVE  /\ Len(is) \in Nat /\ DOMAIN is = 1 .. Len(is)
         /\ \A k \in 1 .. Len(is) : /\ is[k].header \in BOOLEAN /\ is[k].data \in Seq(Byte)
                                    /\ Len(is[k].data) \in Nat
                                    /\ \A i \in 1 .. Len(InjectData) : Holds(InjectData[i], is[k])
<1> DEFINE R == [pos : Int, mod : 0 .. Max8, header : BOOLEAN, index : 0 .. Max8, data : Text]
<1>1. is \in Seq(R)
  BY DEF Injections
<1>2. Len(is) \in Nat /\ DOMAIN is = 1 .. Len(is)
  BY <1>1
<1>3. ASSUME NEW k \in 1 .. Len(is)
      PROVE  /\ is[k].header \in BOOLEAN /\ is[k].data \in Seq(Byte) /\ Len(is[k].data) \in Nat
             /\ \A i \in 1 .. 6 : Holds(InjectData[i], is[k])
  <2> DEFINE j == is[k]
  <2>1. j \in R
    <3> HIDE DEF R
    <3> QED BY <1>1, ElementOfSeq
  <2> HIDE DEF j
  <2>2. /\ j.pos \in Int /\ j.mod \in Int /\ j.header \in BOOLEAN /\ j.index \in Int
        /\ j.data \in Seq(Byte) /\ Len(j.data) \in Int /\ Len(j.data) \in Nat
    BY <2>1, Lengths
  <2>3. /\ Holds(InjectData[1], j) /\ Holds(InjectData[2], j) /\ Holds(InjectData[3], j)
        /\ Holds(InjectData[4], j) /\ Holds(InjectData[5], j) /\ Holds(InjectData[6], j)
    BY <2>2, InjectLayout, HoldsCases, SMTT(30) DEF Whole
  <2> QED BY <2>2, <2>3 DEF j
<1> QED BY <1>2, <1>3, InjectLayout

(* The whole of b stands at 0 of b.                                        *)
LEMMA StandsWhole ==
  ASSUME NEW b \in Seq(Byte)
  PROVE  Stands(b, 0, b)
BY DEF Stands

(* What follows the head of a verdict.                                     *)
Payload(v) ==
  IF v.kind = Kind("Inject") THEN EncodeAll(InjectData, v.injections)
  ELSE IF v.kind = Kind("Drop") THEN EncodeWebResponse(v)
  ELSE EncodeCustomResponse(v)

(* How many records follow the head of a verdict.                          *)
Count(v) == IF v.kind = Kind("Inject") THEN Len(v.injections)
            ELSE IF v.kind \in {Kind("Drop"), Kind("CustomResponse")} THEN 1 ELSE 0

(* The payload of a verdict is a sequence of bytes.                        *)
LEMMA PayloadTyped ==
  ASSUME NEW v, IsVerdict(v), v.kind \in {Kind("Inject"), Kind("Drop"), Kind("CustomResponse")}
  PROVE  Payload(v) \in Seq(Byte)
<1>1. CASE v.kind = Kind("Inject")
  <2>1. v.injections \in Injections
    BY <1>1 DEF IsVerdict
  <2>2. EncodeAll(InjectData, v.injections) \in Seq(Byte)
    BY <2>1, InjectHolds, InjectLayout, EncodeAllTyped
  <2> QED BY <1>1, <2>2 DEF Payload
<1>2. CASE v.kind = Kind("Drop")
  <2>1. /\ Encode(WebHead, v) \in Seq(Byte) /\ Encode(Page, v) \in Seq(Byte)
        /\ Encode(Redirect, v) \in Seq(Byte)
    BY <1>2, DropHolds, WebHeadLayout, PageLayout, RedirectLayout, EncodeTyped
  <2>2. EncodeWebResponse(v) \in Seq(Byte)
    BY <2>1 DEF EncodeWebResponse
  <2> QED BY <1>2, <2>2, KindNumbers DEF Payload
<1>3. CASE v.kind = Kind("CustomResponse")
  <2>1. Encode(CustomHead, v) \in Seq(Byte) /\ Encode(CustomBody, v) \in Seq(Byte)
    BY <1>3, CustomHolds, CustomLayouts, EncodeTyped
  <2>2. EncodeAll(SizedHeader, v.headers) \in Seq(Byte)
    <3> DEFINE ms == v.headers
    <3>1. /\ Len(ms) \in Nat /\ DOMAIN ms = 1 .. Len(ms)
          /\ \A k \in 1 .. Len(ms) : \A i \in 1 .. Len(SizedHeader) :
               Holds(SizedHeader[i], ms[k])
      BY <1>3, CustomHolds
    <3>2. IsLayout(SizedHeader)
      BY SizedHeaderLayout
    <3> HIDE DEF ms
    <3>3. EncodeAll(SizedHeader, ms) \in Seq(Byte)
      BY <3>1, <3>2, EncodeAllTyped
    <3> QED BY <3>3 DEF ms
  <2>3. EncodeCustomResponse(v) \in Seq(Byte)
    BY <2>1, <2>2 DEF EncodeCustomResponse
  <2> QED BY <1>3, <2>3, KindNumbers DEF Payload
<1> QED BY <1>1, <1>2, <1>3

(* A verdict is its head and its payload, and the head is read back.       *)
LEMMA VerdictParts ==
  ASSUME NEW v, IsVerdict(v)
  PROVE  /\ EncodeVerdict(v) \in Seq(Byte)
         /\ v.kind \in {Kind("Inject"), Kind("Drop"), Kind("CustomResponse")} =>
              Stands(EncodeVerdict(v), Len(EncodeHead(v, Count(v))), Payload(v))
         /\ Len(EncodeHead(v, Count(v))) \in Nat
         /\ \E out : /\ Parse(VerdictHead, EncodeVerdict(v)) =
                          At(Len(EncodeHead(v, Count(v))), out)
                     /\ "kind" \in DOMAIN out /\ "sid" \in DOMAIN out
                     /\ out.kind = v.kind /\ out.sid = v.sid
                     /\ Count(v) \in 0 .. Max8 => out.count = Count(v)
<1> DEFINE n == Count(v)
           head == EncodeHead(v, n)
           b == EncodeVerdict(v)
           carries == v.kind \in {Kind("Inject"), Kind("Drop"), Kind("CustomResponse")}
<1>1. n \in Nat
  <2>1. v.kind = Kind("Inject") => Len(v.injections) \in Nat
    BY InjectHolds DEF IsVerdict
  <2> QED BY <2>1 DEF Count
<1>2. v.kind \in 0 .. Max16 /\ v.sid \in 0 .. Max32
  BY DEF IsVerdict
<1> HIDE DEF n
<1>3. head \in Seq(Byte) /\ Len(head) \in Nat
  BY <1>1, <1>2, HeadBack
<1>4. carries => b = head \o Payload(v)
  <2>1. CASE v.kind = Kind("Inject")
    <3>1. b = EncodeHead(v, Len(v.injections)) \o EncodeAll(InjectData, v.injections)
      BY <2>1, KindNumbers DEF EncodeVerdict
    <3> QED BY <2>1, <3>1 DEF Payload, Count, n
  <2>2. CASE v.kind = Kind("Drop")
    <3>1. b = EncodeHead(v, 1) \o EncodeWebResponse(v)
      BY <2>2, KindNumbers DEF EncodeVerdict
    <3>2. v.kind # Kind("Inject") /\ n = 1 /\ Payload(v) = EncodeWebResponse(v)
      BY <2>2, KindNumbers DEF Payload, Count, n
    <3> QED BY <3>1, <3>2
  <2>3. CASE v.kind = Kind("CustomResponse")
    <3>1. b = EncodeHead(v, 1) \o EncodeCustomResponse(v)
      BY <2>3, KindNumbers DEF EncodeVerdict
    <3>2. n = 1 /\ Payload(v) = EncodeCustomResponse(v)
      BY <2>3, KindNumbers DEF Payload, Count, n
    <3> QED BY <3>1, <3>2
  <2> QED BY <2>1, <2>2, <2>3
<1>5. ~carries => b = head
  BY KindNumbers DEF EncodeVerdict, Count, n
<1>6. carries => Payload(v) \in Seq(Byte)
  BY PayloadTyped
<1> HIDE DEF head, b, carries
<1>7. b \in Seq(Byte)
  <2>1. carries => head \o Payload(v) \in Seq(Byte)
    BY <1>3, <1>6
  <2> QED BY <1>3, <1>4, <1>5, <2>1
<1>8. Stands(b, 0, head) /\ (carries => Stands(b, Len(head), Payload(v)))
  <2>1. Stands(b, 0, b)
    BY <1>7, StandsWhole
  <2>2. CASE carries
    <3>1. Stands(b, 0, head) /\ Stands(b, 0 + Len(head), Payload(v))
      BY <1>3, <1>4, <1>6, <1>7, <2>1, <2>2, StandsParts, ZenonT(60)
    <3> QED BY <1>3, <3>1
  <2>3. CASE ~carries
    BY <1>5, <2>1, <2>3
  <2> QED BY <2>2, <2>3
<1>9. \E out : /\ Parse(VerdictHead, b) = At(Len(head), out)
               /\ "kind" \in DOMAIN out /\ "sid" \in DOMAIN out
               /\ out.kind = v.kind /\ out.sid = v.sid
               /\ n \in 0 .. Max8 => out.count = n
  BY <1>1, <1>2, <1>7, <1>8, HeadBack DEF head
<1> QED BY <1>3, <1>7, <1>8, <1>9 DEF head, b, carries, n

(* ReadMany adds one field.                                                *)
LEMMA ManyKeeps ==
  ASSUME NEW layout, NEW b, NEW r, IsReader(r), NEW name, NEW n
  PROVE  /\ IsReader(ReadMany(layout, b, r, name, n))
         /\ Keeps(r.msg, ReadMany(layout, b, r, name, n).msg, name)
<1> DEFINE q == ReadMany(layout, b, r, name, n)
<1>1. q = r \/ q = Stop(r) \/ \E off, msg : q = At(off, Assign(r.msg, name, msg))
  BY DEF ReadMany
<1> HIDE DEF q
<1>2. ASSUME NEW off, NEW msg, q = At(off, Assign(r.msg, name, msg))
      PROVE  IsReader(q) /\ Keeps(r.msg, q.msg, name)
  BY <1>2, Readers, KeepsAssign
<1>3. q = r \/ q = Stop(r) => IsReader(q) /\ q.msg = r.msg
  BY Readers
<1> QED BY <1>1, <1>2, <1>3, KeepsAssign DEF q

-----------------------------------------------------------------------------
(* What survives the wire: of every verdict its kind and session, of a     *)
(* page and of injections everything the handler uses, if the sizes fit.   *)

(* r has read field x, with value w.                                       *)
Has(r, x, w) == IsReader(r) /\ x \in DOMAIN r.msg /\ r.msg[x] = w

(* The names of the fields of a layout.                                    *)
Names(layout) == {layout[i].name : i \in 1 .. Len(layout)}

(* A field that was read survives the reading of a layout that does not    *)
(* name it,                                                                *)
LEMMA ReadHas ==
  ASSUME NEW layout, Len(layout) \in Nat, NEW b, NEW r, NEW x, NEW w, Has(r, x, w),
         x \notin Names(layout)
  PROVE  Has(Read(layout, b, r), x, w)
<1>1. \A i \in 1 .. Len(layout) : layout[i].name # x
  BY DEF Names
<1>2. IsReader(r) /\ x \in DOMAIN r.msg /\ r.msg[x] = w
  BY DEF Has
<1>3. /\ IsReader(Read(layout, b, r))
      /\ x \in DOMAIN Read(layout, b, r).msg /\ Read(layout, b, r).msg[x] = r.msg[x]
  BY <1>1, <1>2, ReadKeeps
<1> QED BY <1>2, <1>3 DEF Has

(* the reading of records,                                                 *)
LEMMA ManyHas ==
  ASSUME NEW layout, NEW b, NEW r, NEW name, NEW n, NEW x, NEW w, Has(r, x, w), x # name
  PROVE  Has(ReadMany(layout, b, r, name, n), x, w)
<1>1. IsReader(r) /\ x \in DOMAIN r.msg /\ r.msg[x] = w
  BY DEF Has
<1>2. /\ IsReader(ReadMany(layout, b, r, name, n))
      /\ Keeps(r.msg, ReadMany(layout, b, r, name, n).msg, name)
  BY <1>1, ManyKeeps
<1> QED BY <1>1, <1>2 DEF Has, Keeps

(* the setting of another field,                                           *)
LEMMA WithHas ==
  ASSUME NEW r, NEW name, NEW n, NEW x, NEW w, Has(r, x, w), x # name
  PROVE  Has(With(r, name, n), x, w)
<1>1. IsReader(r) /\ x \in DOMAIN r.msg /\ r.msg[x] = w
  BY DEF Has
<1>2. IsReader(With(r, name, n)) /\ Keeps(r.msg, With(r, name, n).msg, name)
  BY <1>1, WithKeeps, KeepsAssign
<1> QED BY <1>1, <1>2 DEF Has, Keeps

(* and a frame that ends too early.                                        *)
LEMMA StopHas ==
  ASSUME NEW r, NEW x, NEW w, Has(r, x, w)
  PROVE  Has(Stop(r), x, w)
BY Readers DEF Has

(* The fields the layouts of the payloads name.                            *)
LEMMA LayoutNames ==
  /\ Names(WebHead) = {"web", "uuidSize"} /\ Len(WebHead) \in Nat
  /\ Names(Page) = {"status", "titleSize", "bodySize", "title", "body", "uuid"}
  /\ Len(Page) \in Nat
  /\ Names(Redirect) = {"dummy", "event", "locationSize", "location", "uuid"}
  /\ Len(Redirect) \in Nat
  /\ Names(CustomHead) = {"status", "bodySize", "headerCount"} /\ Len(CustomHead) \in Nat
  /\ Names(CustomBody) = {"body"} /\ Len(CustomBody) \in Nat
<1>1. 1 .. 2 = {1, 2} /\ 1 .. 6 = {1, 2, 3, 4, 5, 6} /\ 1 .. 5 = {1, 2, 3, 4, 5}
      /\ 1 .. 3 = {1, 2, 3} /\ 1 .. 1 = {1}
  OBVIOUS
<1>2. Names(WebHead) = {"web", "uuidSize"} /\ Len(WebHead) \in Nat
  BY <1>1, WebHeadLayout DEF Names
<1>3. /\ Names(Page) = {"status", "titleSize", "bodySize", "title", "body", "uuid"}
      /\ Len(Page) \in Nat
  BY <1>1, PageLayout DEF Names
<1>4. /\ Names(Redirect) = {"dummy", "event", "locationSize", "location", "uuid"}
      /\ Len(Redirect) \in Nat
  BY <1>1, RedirectLayout DEF Names
<1>5. /\ Names(CustomHead) = {"status", "bodySize", "headerCount"} /\ Len(CustomHead) \in Nat
      /\ Names(CustomBody) = {"body"} /\ Len(CustomBody) \in Nat
  BY <1>1, CustomLayouts DEF Names
<1> QED BY <1>2, <1>3, <1>4, <1>5

(* Parsing the payload changes none of the fields of the head.             *)
LEMMA PayloadKeeps ==
  ASSUME NEW b, NEW r, NEW x, NEW w, Has(r, x, w), x \in {"kind", "sid"}, NEW n
  PROVE  /\ Has(ReadMany(InjectData, b, r, "injections", n), x, w)
         /\ Has(ParseWebResponse(b, r), x, w)
         /\ Has(ParseCustomResponse(b, r), x, w)
<1>1. Has(ReadMany(InjectData, b, r, "injections", n), x, w)
  BY ManyHas
<1>2. Has(ParseWebResponse(b, r), x, w)
  <2> DEFINE h == Read(WebHead, b, r)
  <2>1. Has(h, x, w)
    BY LayoutNames, ReadHas
  <2> HIDE DEF h
  <2>2. Has(Read(Page, b, h), x, w)
    BY <2>1, LayoutNames, ReadHas
  <2>3. Has(Read(Redirect, b, h), x, w)
    BY <2>1, LayoutNames, ReadHas
  <2>4. Has(Stop(h), x, w)
    BY <2>1, StopHas
  <2>5. ParseWebResponse(b, r) \in {h, Read(Page, b, h), Read(Redirect, b, h), Stop(h)}
    BY DEF ParseWebResponse, h
  <2> QED BY <2>1, <2>2, <2>3, <2>4, <2>5
<1>3. Has(ParseCustomResponse(b, r), x, w)
  <2> DEFINE g == With(r, "web", WebResponse("WithHeaders"))
             h == Read(CustomHead, b, g)
             k == ReadMany(SizedHeader, b, h, "headers", h.msg.headerCount)
  <2>1. Has(g, x, w)
    BY WithHas
  <2> HIDE DEF g
  <2>2. Has(h, x, w)
    BY <2>1, LayoutNames, ReadHas
  <2> HIDE DEF h
  <2>3. Has(k, x, w)
    BY <2>2, ManyHas
  <2> HIDE DEF k
  <2>4. Has(Read(CustomBody, b, k), x, w)
    BY <2>3, LayoutNames, ReadHas
  <2>5. ParseCustomResponse(b, r) \in {h, Read(CustomBody, b, k)}
    BY DEF ParseCustomResponse, g, h, k
  <2> QED BY <2>2, <2>4, <2>5
<1> QED BY <1>1, <1>2, <1>3

(* The verdict that arrives is of the kind, and for the session, of the    *)
(* one the engine sent, whatever else of it is cut off.                    *)
LEMMA HeadSurvives ==
  ASSUME NEW v, IsVerdict(v)
  PROVE  /\ ParseVerdict(EncodeVerdict(v)).msg.kind = v.kind
         /\ ParseVerdict(EncodeVerdict(v)).msg.sid = v.sid
<1> DEFINE b == EncodeVerdict(v)
           o == Len(EncodeHead(v, Count(v)))
           h == Parse(VerdictHead, b)
<1>1. PICK out : /\ h = At(o, out)
                 /\ "kind" \in DOMAIN out /\ "sid" \in DOMAIN out
                 /\ out.kind = v.kind /\ out.sid = v.sid
  BY VerdictParts
<1> HIDE DEF b, o, h
<1>2. h.ok /\ Has(h, "kind", v.kind) /\ Has(h, "sid", v.sid)
  BY <1>1, Readers DEF Has
<1>3. ParseVerdict(b) \in {h, ReadMany(InjectData, b, h, "injections", h.msg.count),
                           ParseWebResponse(b, h), ParseCustomResponse(b, h)}
  BY <1>2 DEF ParseVerdict, h
<1>4. Has(ParseVerdict(b), "kind", v.kind) /\ Has(ParseVerdict(b), "sid", v.sid)
  BY <1>2, <1>3, PayloadKeeps
<1> QED BY <1>4 DEF Has, b

(* A text whose length fits a byte.                                        *)
FitsByte(s) == s \in Seq(Byte) /\ Len(s) <= Max8

(* Numbers, sizes and bytes that fit their fields.                         *)
LEMMA FitsCases ==
  ASSUME NEW m, NEW name, NEW type, NEW of
  PROVE  LET f == [name |-> name, type |-> type, of |-> of]
         IN  /\ type = "u8" /\ of = name /\ m[name] \in 0 .. Max8 => FieldFits(f, m)
             /\ type = "u16" /\ of = name /\ m[name] \in 0 .. Max16 => FieldFits(f, m)
             /\ type = "u8" /\ of # name /\ Len(m[of]) \in 0 .. Max8 => FieldFits(f, m)
             /\ type = "u16" /\ of # name /\ Len(m[of]) \in 0 .. Max16 => FieldFits(f, m)
             /\ type = "bytes" /\ m[name] \in Seq(Byte) => FieldFits(f, m)
             /\ type = "flag" /\ of = name /\ m[name] \in BOOLEAN => FieldFits(f, m)
<1> DEFINE f == [name |-> name, type |-> type, of |-> of]
<1>1. f.name = name /\ f.type = type /\ f.of = of
  OBVIOUS
<1>2. 0 .. Max8 \subseteq Int /\ 0 .. Max16 \subseteq Int
  BY Lengths
<1>3. /\ type \in {"u8", "u16"} /\ of = name => Value(f, m) = m[name]
      /\ type \in {"u8", "u16"} /\ of # name => Value(f, m) = Len(m[of])
  BY DEF Value
<1>4. U(1) = 0 .. Max8 /\ U(2) = 0 .. Max16 /\ Width["u8"] = 1 /\ Width["u16"] = 2
  BY DEF U, Width
<1>5. ASSUME type = "u8", Value(f, m) \in 0 .. Max8 PROVE FieldFits(f, m)
  <2> HIDE DEF f
  <2>1. Holds(f, m)
    BY <1>1, <1>2, <1>5 DEF Holds, FieldTypes
  <2> QED BY <1>1, <1>4, <1>5, <2>1 DEF FieldFits
<1>6. ASSUME type = "u16", Value(f, m) \in 0 .. Max16 PROVE FieldFits(f, m)
  <2> HIDE DEF f
  <2>1. Holds(f, m)
    BY <1>1, <1>2, <1>6 DEF Holds, FieldTypes
  <2> QED BY <1>1, <1>4, <1>6, <2>1 DEF FieldFits
<1>7. ASSUME type = "bytes", m[name] \in Seq(Byte) PROVE FieldFits(f, m)
  BY <1>7, HoldsCases DEF FieldFits
<1>8. ASSUME type = "flag", of = name, m[name] \in BOOLEAN PROVE FieldFits(f, m)
  BY <1>8, HoldsCases DEF FieldFits
<1> HIDE DEF f
<1>9. /\ type = "u8" /\ of = name /\ m[name] \in 0 .. Max8 => FieldFits(f, m)
      /\ type = "u16" /\ of = name /\ m[name] \in 0 .. Max16 => FieldFits(f, m)
      /\ type = "u8" /\ of # name /\ Len(m[of]) \in 0 .. Max8 => FieldFits(f, m)
      /\ type = "u16" /\ of # name /\ Len(m[of]) \in 0 .. Max16 => FieldFits(f, m)
  BY <1>3, <1>5, <1>6
<1> QED BY <1>7, <1>8, <1>9 DEF f

(* A page whose texts fit arrives as it was sent.                          *)
LEMMA PageSurvives ==
  ASSUME NEW v, IsVerdict(v), v.kind = Kind("Drop"), v.web \in Pages,
         FitsByte(v.title), FitsByte(v.body), FitsByte(v.uuid)
  PROVE  LET p == ParseVerdict(EncodeVerdict(v))
         IN  /\ p.msg.web = v.web /\ p.msg.status = v.status
             /\ p.msg.title = v.title /\ p.msg.body = v.body
<1> DEFINE b == EncodeVerdict(v)
           o == Len(EncodeHead(v, Count(v)))
           r == Parse(VerdictHead, b)
<1>1. PICK out : r = At(o, out) /\ out.kind = v.kind
  BY VerdictParts
<1>2. b \in Seq(Byte) /\ o \in Nat /\ Stands(b, o, EncodeWebResponse(v))
  BY VerdictParts, KindNumbers DEF Payload
<1> HIDE DEF b, o, r
<1>3. ParseVerdict(b) = ParseWebResponse(b, r)
  <2>1. r.ok /\ r.msg.kind = v.kind
    BY <1>1, Readers
  <2> QED BY <2>1, KindNumbers DEF ParseVerdict, r
<1>4. /\ \A i \in 1 .. Len(WebHead) : Holds(WebHead[i], v)
      /\ \A i \in 1 .. Len(Page) : Holds(Page[i], v)
  BY DropHolds
<1>5. Encode(WebHead, v) \in Seq(Byte) /\ Encode(Page, v) \in Seq(Byte)
  BY <1>4, WebHeadLayout, PageLayout, EncodeTyped
<1>6. EncodeWebResponse(v) = Encode(WebHead, v) \o Encode(Page, v)
  BY DEF EncodeWebResponse
<1> DEFINE o1 == o + Len(Encode(WebHead, v))
<1>7. o1 \in Nat /\ Stands(b, o, Encode(WebHead, v)) /\ Stands(b, o1, Encode(Page, v))
  <2> DEFINE e1 == Encode(WebHead, v)
             e2 == Encode(Page, v)
  <2>1. Stands(b, o, e1 \o e2)
    BY <1>2, <1>6
  <2>2. e1 \in Seq(Byte) /\ e2 \in Seq(Byte) /\ Len(e1) \in Nat
    BY <1>5
  <2> HIDE DEF e1, e2
  <2>3. Stands(b, o, e1) /\ Stands(b, o + Len(e1), e2)
    BY <1>2, <2>1, <2>2, StandsParts
  <2> QED BY <1>2, <2>2, <2>3 DEF e1, e2
<1> HIDE DEF o1
<1>8. /\ v.web \in 0 .. Max8 /\ v.status \in 0 .. Max16
      /\ Len(v.title) \in 0 .. Max8 /\ Len(v.body) \in 0 .. Max8 /\ Len(v.uuid) \in 0 .. Max8
      /\ v.title \in Seq(Byte) /\ v.body \in Seq(Byte) /\ v.uuid \in Seq(Byte)
  BY DEF IsVerdict, FitsByte
<1>9. PICK out1 : /\ Read(WebHead, b, r) = At(o1, out1)
                  /\ "web" \in DOMAIN out1 /\ out1["web"] = v.web
                  /\ "uuidSize" \in DOMAIN out1 /\ out1["uuidSize"] = Len(v.uuid)
  <2>1. Writable(WebHead, v)
    <3>1. WebHead[1].type = "u8" /\ WebHead[2].type = "u8" /\ Len(WebHead) = 2
      BY WebHeadLayout
    <3> QED BY <1>4, <3>1 DEF Writable
  <2>2. \A i \in 1 .. Len(WebHead) : SizeKnown(WebHead, i, v, out)
    BY WebHeadLayout DEF SizeKnown
  <2>3. FieldFits(WebHead[1], v) /\ FieldFits(WebHead[2], v)
    BY <1>8, WebHeadLayout, FitsCases
  <2>4. PICK out1 : Gives(WebHead, v, b, o, out, out1)
    <3>1. IsLayout(WebHead)
      BY WebHeadLayout
    <3>2. Sized(WebHead)
      BY WebHeadLayout DEF Sized
    <3> QED BY <1>2, <1>7, <2>1, <2>2, <3>1, <3>2, ReadBack
  <2>5. /\ WebHead[1].name = "web" /\ WebHead[2].name = "uuidSize" /\ Len(WebHead) = 2
        /\ WebHead[1].type \notin Wide /\ WebHead[2].type \notin Wide
        /\ Value(WebHead[1], v) = v.web /\ Value(WebHead[2], v) = Len(v.uuid)
    BY WebHeadLayout DEF Wide, Value
  <2>6. 1 \in 1 .. 2 /\ 2 \in 1 .. 2
    OBVIOUS
  <2>7. /\ "web" \in DOMAIN out1 /\ out1["web"] = v.web
        /\ "uuidSize" \in DOMAIN out1 /\ out1["uuidSize"] = Len(v.uuid)
    BY <2>3, <2>4, <2>5, <2>6 DEF Gives
  <2>8. Read(WebHead, b, r) = At(o1, out1)
    BY <1>1, <2>4 DEF Gives, o1
  <2> QED BY <2>7, <2>8
<1>10. PICK out2 : /\ Read(Page, b, At(o1, out1)) = At(o1 + Len(Encode(Page, v)), out2)
                   /\ out2["web"] = v.web /\ out2["status"] = v.status
                   /\ out2["title"] = v.title /\ out2["body"] = v.body
  <2>1. Writable(Page, v)
    <3>1. /\ Page[1].type = "u16" /\ Page[2].type = "u8" /\ Page[3].type = "u8"
          /\ Page[4].type = "bytes" /\ Page[5].type = "bytes" /\ Page[6].type = "bytes"
          /\ Len(Page) = 6
      BY PageLayout
    <3>2. \A i \in 1 .. 6 : Page[i].type \in {"u16", "u8", "bytes"}
      BY <3>1
    <3> QED BY <1>4, <3>1, <3>2 DEF Writable
  <2>2. /\ FieldFits(Page[1], v) /\ FieldFits(Page[2], v) /\ FieldFits(Page[3], v)
        /\ FieldFits(Page[4], v) /\ FieldFits(Page[5], v)
    BY <1>8, PageLayout, FitsCases
  <2>3. \A i \in 1 .. Len(Page) : SizeKnown(Page, i, v, out1)
    <3>1. SizeKnown(Page, 4, v, out1)
      <4>1. 2 \in 1 .. 4 - 1
        OBVIOUS
      <4> QED BY <2>2, <4>1, PageLayout DEF SizeKnown
    <3>2. SizeKnown(Page, 5, v, out1)
      <4>1. 3 \in 1 .. 5 - 1
        OBVIOUS
      <4> QED BY <2>2, <4>1, PageLayout DEF SizeKnown
    <3>3. SizeKnown(Page, 6, v, out1)
      <4>1. \A j \in 1 .. 6 : Page[j].name # "uuidSize"
        BY PageLayout
      <4>2. Page[6].of = "uuidSize" /\ Page[6].name = "uuid" /\ Len(Page) = 6
        BY PageLayout
      <4> QED BY <1>9, <4>1, <4>2 DEF SizeKnown
    <3>4. SizeKnown(Page, 1, v, out1) /\ SizeKnown(Page, 2, v, out1) /\ SizeKnown(Page, 3, v, out1)
      BY PageLayout DEF SizeKnown
    <3> QED BY <3>1, <3>2, <3>3, <3>4, PageLayout
  <2>4. PICK out2 : Gives(Page, v, b, o1, out1, out2)
    <3>1. IsLayout(Page)
      BY PageLayout
    <3>2. Sized(Page)
      BY PageLayout DEF Sized
    <3> QED BY <1>2, <1>7, <2>1, <2>3, <3>1, <3>2, ReadBack
  <2>5. /\ Page[1].name = "status" /\ Page[4].name = "title" /\ Page[5].name = "body"
        /\ Page[1].type \notin Wide /\ Page[4].type \notin Wide /\ Page[5].type \notin Wide
        /\ Value(Page[1], v) = v.status /\ Value(Page[4], v) = v.title
        /\ Value(Page[5], v) = v.body
    BY PageLayout DEF Wide, Value
  <2>6. 1 \in 1 .. Len(Page) /\ 4 \in 1 .. Len(Page) /\ 5 \in 1 .. Len(Page)
    BY PageLayout
  <2>7. out2["status"] = v.status /\ out2["title"] = v.title /\ out2["body"] = v.body
    BY <2>2, <2>4, <2>5, <2>6 DEF Gives
  <2>8. out2["web"] = v.web
    <3>1. \A i \in 1 .. Len(Page) : Page[i].name # "web"
      BY PageLayout
    <3> QED BY <1>9, <2>4, <3>1 DEF Gives
  <2> QED BY <2>4, <2>7, <2>8 DEF Gives
<1>11. ParseWebResponse(b, r) = Read(Page, b, At(o1, out1))
  <2>1. At(o1, out1).ok /\ At(o1, out1).msg = out1
    BY Readers
  <2>2. Read(WebHead, b, r).ok /\ Read(WebHead, b, r).msg.web \in Pages
    BY <1>9, <2>1
  <2>3. \A web \in Pages : web # WebResponse("Redirect")
    BY WebNumbers DEF Pages
  <2>4. ParseWebResponse(b, r) = Read(Page, b, Read(WebHead, b, r))
    BY <2>2, <2>3 DEF ParseWebResponse
  <2> QED BY <1>9, <2>4
<1>12. ParseVerdict(b).msg = out2
  BY <1>3, <1>10, <1>11, Readers
<1> QED BY <1>10, <1>12 DEF b

(* ReadMany, unfolded: one record after the other.                         *)
Rounds(b, n) == IF n = ToEnd THEN Len(b) \div 4 + 1 ELSE n
Records(layout, b, o, msg, name, n, go) ==
  /\ go[0] = At(o, << >>)
  /\ \A k \in 1 .. Rounds(b, n) : go[k] = NextRecord(layout, b, go[k - 1], n)
  /\ go[Rounds(b, n)].ok =>
       ReadMany(layout, b, At(o, msg), name, n) =
         At(go[Rounds(b, n)].off, Assign(msg, name, go[Rounds(b, n)].msg))

(* As many records as are asked for, read by NextRecord.                   *)
LEMMA ManyUnfold ==
  ASSUME NEW layout, NEW b, Len(b) \in Nat, NEW o, NEW msg, NEW name, NEW n \in Nat \cup {ToEnd}
  PROVE  \E go : Records(layout, b, o, msg, name, n, go)
<1> DEFINE Step(q) == NextRecord(layout, b, q, n)
           start == At(o, << >>)
           most == Rounds(b, n)
           E(m, g) == g = [k \in 0 .. m |-> IF k = 0 THEN start ELSE Step(g[k - 1])]
           T == {m \in Nat : \E g : E(m, g)}
<1>1. 0 \in T
  <2>1. E(0, [k \in 0 .. 0 |-> start])
    OBVIOUS
  <2> QED BY <2>1
<1>2. ASSUME NEW m \in Nat, m \in T PROVE m + 1 \in T
  <2>1. PICK g : E(m, g)
    BY <1>2
  <2> DEFINE h == [k \in 0 .. m + 1 |-> IF k = m + 1 THEN Step(g[m]) ELSE g[k]]
  <2>2. E(m + 1, h)
    <3> HIDE DEF Step, start
    <3> QED BY <2>1
  <2> HIDE DEF E
  <2> QED BY <2>2
<1>0. most \in Nat
  BY DEF Rounds, ToEnd
<1> HIDE DEF most
<1>3. most \in T
  <2> HIDE DEF T
  <2> QED BY <1>0, <1>1, <1>2, SetInduction
<1> DEFINE go == CHOOSE g : E(most, g)
<1>4. E(most, go)
  BY <1>3
<1> DEFINE r == At(o, msg)
<1>5. r.ok /\ r.off = o /\ r.msg = msg
  BY Readers
<1>7. ReadMany(layout, b, r, name, n) =
        IF ~go[most].ok THEN Stop(r) ELSE At(go[most].off, Assign(msg, name, go[most].msg))
  <2> HIDE DEF r
  <2>1. ReadMany(layout, b, r, name, n) =
          IF ~go[most].ok THEN Stop(r) ELSE At(go[most].off, Assign(r.msg, name, go[most].msg))
    BY <1>5 DEF ReadMany, Rounds, most
  <2> QED BY <1>5, <2>1
<1> HIDE DEF go
<1>8. go[0] = start /\ \A k \in 1 .. most : go[k] = Step(go[k - 1])
  <2> HIDE DEF Step, start
  <2> QED BY <1>0, <1>4
<1> QED BY <1>7, <1>8 DEF Records, most

(* One injection.                                                          *)
InjectionAt(b, o, j, out) ==
  /\ Read(InjectData, b, At(o, << >>)) = At(o + Len(Encode(InjectData, j)), out)
  /\ out["header"] = j.header /\ out["data"] = j.data

(* An injection that fits is read back.                                    *)
LEMMA InjectionBack ==
  ASSUME NEW b \in Seq(Byte), NEW o \in Nat, NEW j,
         \A i \in 1 .. Len(InjectData) : Holds(InjectData[i], j),
         j.header \in BOOLEAN, j.data \in Seq(Byte), Len(j.data) \in 0 .. Max16,
         Stands(b, o, Encode(InjectData, j))
  PROVE  \E out : InjectionAt(b, o, j, out)
<1> DEFINE L == InjectData
<1>1. Writable(L, j)
  <2>1. /\ L[1].type = "i64" /\ L[2].type = "u32" /\ L[3].type = "u16" /\ L[4].type = "flag"
        /\ L[5].type = "u8" /\ L[6].type = "bytes" /\ Len(L) = 6
    BY InjectLayout
  <2>2. \A i \in 1 .. 6 : L[i].type \in {"i64", "u32", "u16", "flag", "u8", "bytes"}
    BY <2>1
  <2> QED BY <2>1, <2>2 DEF Writable
<1>2. FieldFits(L[3], j) /\ FieldFits(L[4], j) /\ FieldFits(L[6], j)
  BY InjectLayout, FitsCases
<1>3. \A i \in 1 .. Len(L) : SizeKnown(L, i, j, << >>)
  <2>1. SizeKnown(L, 6, j, << >>)
    <3>1. 3 \in 1 .. 6 - 1
      OBVIOUS
    <3> QED BY <1>2, <3>1, InjectLayout DEF SizeKnown
  <2>2. /\ SizeKnown(L, 1, j, << >>) /\ SizeKnown(L, 2, j, << >>) /\ SizeKnown(L, 3, j, << >>)
        /\ SizeKnown(L, 4, j, << >>) /\ SizeKnown(L, 5, j, << >>)
    BY InjectLayout DEF SizeKnown
  <2> QED BY <2>1, <2>2, InjectLayout
<1>4. PICK out : Gives(L, j, b, o, << >>, out)
  <2>1. IsLayout(L)
    BY InjectLayout
  <2>11. Sized(L)
    BY InjectLayout DEF Sized
  <2> HIDE DEF L
  <2>2. Stands(b, o, Encode(L, j))
    BY DEF L
  <2> QED BY <1>1, <1>3, <2>1, <2>11, <2>2, ReadBack
<1>5. /\ L[4].name = "header" /\ L[6].name = "data"
      /\ L[4].type \notin Wide /\ L[6].type \notin Wide
      /\ Value(L[4], j) = j.header /\ Value(L[6], j) = j.data
  BY InjectLayout DEF Wide, Value
<1>6. 4 \in 1 .. Len(L) /\ 6 \in 1 .. Len(L)
  BY InjectLayout
<1>7. out["header"] = j.header /\ out["data"] = j.data
  BY <1>2, <1>4, <1>5, <1>6 DEF Gives
<1> QED BY <1>4, <1>7 DEF Gives, InjectionAt

(* Injections whose number and texts fit arrive as they were sent.         *)
LEMMA InjectionsSurvive ==
  ASSUME NEW v, IsVerdict(v), v.kind = Kind("Inject"), Len(v.injections) <= Max8,
         \A k \in DOMAIN v.injections : Len(v.injections[k].data) <= Max16
  PROVE  LET is == ParseVerdict(EncodeVerdict(v)).msg.injections
         IN  /\ DOMAIN is = DOMAIN v.injections
             /\ \A k \in DOMAIN is : /\ is[k].header = v.injections[k].header
                                     /\ is[k].data = v.injections[k].data
<1> DEFINE b == EncodeVerdict(v)
           o == Len(EncodeHead(v, Count(v)))
           r == Parse(VerdictHead, b)
           is == v.injections
           n == Len(is)
<1>0. Count(v) = n
  BY DEF Count
<1>1. /\ n \in 0 .. Max8 /\ n \in Nat /\ DOMAIN is = 1 .. n
      /\ \A k \in 1 .. n : /\ is[k].header \in BOOLEAN /\ is[k].data \in Seq(Byte)
                           /\ Len(is[k].data) \in 0 .. Max16
                           /\ \A i \in 1 .. Len(InjectData) : Holds(InjectData[i], is[k])
  BY InjectHolds DEF IsVerdict
<1>2. PICK out : r = At(o, out) /\ out.kind = v.kind /\ out.count = n
  BY <1>0, <1>1, VerdictParts
<1>3. b \in Seq(Byte) /\ o \in Nat /\ Stands(b, o, EncodeAll(InjectData, is))
  BY VerdictParts DEF Payload
<1> HIDE DEF b, o, r, is, n
<1>4. ParseVerdict(b) = ReadMany(InjectData, b, At(o, out), "injections", n)
  <2>1. r.ok /\ r.msg.kind = v.kind /\ r.msg.count = n
    BY <1>2, Readers
  <2>2. ParseVerdict(b) = ReadMany(InjectData, b, r, "injections", r.msg.count)
    BY <2>1, KindNumbers DEF ParseVerdict, r
  <2> QED BY <1>2, <2>1, <2>2
<1>5. PICK at : /\ at \in [0 .. n -> Nat] /\ at[0] = o
                /\ \A k \in 1 .. n :
                     /\ at[k] = at[k - 1] + Len(Encode(InjectData, is[k]))
                     /\ Stands(b, at[k - 1], Encode(InjectData, is[k]))
  <2>1. IsLayout(InjectData)
    BY InjectLayout
  <2>2. \E at : Offsets(InjectData, is, b, o, at)
    BY <1>1, <1>3, <2>1, EncodeAllTyped DEF n
  <2> QED BY <2>2 DEF Offsets, n
<1>6. PICK go : /\ go[0] = At(o, << >>)
                /\ \A k \in 1 .. n : go[k] = NextRecord(InjectData, b, go[k - 1], n)
                /\ go[n].ok => ReadMany(InjectData, b, At(o, out), "injections", n) =
                                 At(go[n].off, Assign(out, "injections", go[n].msg))
  <2>1. \E go : Records(InjectData, b, o, out, "injections", n, go)
    <3>1. n \in Nat \cup {ToEnd} /\ Len(b) \in Nat
      BY <1>1, <1>3
    <3> QED BY <1>3, <3>1, ManyUnfold
  <2>2. Rounds(b, n) = n
    BY <1>1 DEF Rounds, ToEnd
  <2> QED BY <2>1, <2>2 DEF Records
<1> DEFINE q(k) == Read(InjectData, b, At(at[k - 1], << >>))
           R == {q(k).msg : k \in 1 .. n}
<1>7. ASSUME NEW k \in 1 .. n
      PROVE  q(k) = At(at[k], q(k).msg) /\ q(k).msg.header = is[k].header
             /\ q(k).msg.data = is[k].data
  <2>1. at[k - 1] \in Nat
    BY <1>1, <1>5
  <2>2. PICK m : /\ q(k) = At(at[k - 1] + Len(Encode(InjectData, is[k])), m)
                 /\ m["header"] = is[k].header /\ m["data"] = is[k].data
    <3> DEFINE j == is[k]
    <3>1. /\ j.header \in BOOLEAN /\ j.data \in Seq(Byte) /\ Len(j.data) \in 0 .. Max16
          /\ \A i \in 1 .. Len(InjectData) : Holds(InjectData[i], j)
          /\ Stands(b, at[k - 1], Encode(InjectData, j))
      BY <1>1, <1>5
    <3> HIDE DEF j
    <3>2. \E m : InjectionAt(b, at[k - 1], j, m)
      BY <1>3, <2>1, <3>1, InjectionBack
    <3> QED BY <3>2 DEF InjectionAt, j
  <2> HIDE DEF q
  <2>3. q(k).msg = m
    BY <2>2, Readers
  <2> QED BY <1>5, <2>2, <2>3
<1> DEFINE got(k) == [j \in 1 .. k |-> q(j).msg]
<1>8. go[n] = At(at[n], got(n))
  <2> DEFINE T == {k \in Nat : k <= n => go[k] = At(at[k], got(k))}
  <2>1. 0 \in T
    <3>1. got(0) = << >>
      OBVIOUS
    <3> QED BY <1>5, <1>6, <3>1
  <2>2. ASSUME NEW k \in Nat, k \in T PROVE k + 1 \in T
    <3> SUFFICES ASSUME k + 1 <= n PROVE go[k + 1] = At(at[k + 1], got(k + 1))
      OBVIOUS
    <3> DEFINE l == k + 1
    <3>1. l \in 1 .. n /\ l - 1 = k
      BY <1>1
    <3>2. go[k] = At(at[k], got(k))
      BY <1>1, <2>2
    <3>3. q(l) = Read(InjectData, b, At(at[k], << >>))
      BY <3>1
    <3>4. q(l) = At(at[l], q(l).msg)
      BY <1>7, <3>1
    <3>5. Append(got(k), q(l).msg) = got(l)
      <4>1. got(k) \in Seq(R) /\ Len(got(k)) = k /\ q(l).msg \in R
        <5>1. \A j \in 1 .. k : q(j).msg \in R
          BY <3>1, <1>1
        <5>2. q(l).msg \in R
          BY <3>1
        <5> HIDE DEF q, R, l
        <5> QED BY <5>1, <5>2
      <4> HIDE DEF R, q
      <4>2. Append(got(k), q(l).msg) = [j \in 1 .. k + 1 |-> IF j = k + 1 THEN q(l).msg
                                                            ELSE got(k)[j]]
        BY <4>1
      <4>3. \A j \in 1 .. k + 1 :
              (IF j = k + 1 THEN q(l).msg ELSE got(k)[j]) = q(j).msg
        OBVIOUS
      <4> QED BY <4>2, <4>3
    <3> HIDE DEF q, got
    <3>6. go[k].ok /\ go[k].off = at[k] /\ go[k].msg = got(k)
      BY <3>2, Readers
    <3>7. q(l).ok /\ q(l).off = at[l]
      BY <3>4, Readers
    <3>8. go[l] = NextRecord(InjectData, b, go[k], n)
      BY <1>6, <3>1
    <3>9. n # ToEnd
      BY <1>1 DEF ToEnd
    <3>10. go[l] = At(q(l).off, Append(go[k].msg, q(l).msg))
      BY <3>3, <3>6, <3>7, <3>8, <3>9 DEF NextRecord
    <3> QED BY <3>5, <3>6, <3>7, <3>10
  <2>3. n \in T
    <3> HIDE DEF T
    <3> QED BY <1>1, <2>1, <2>2, SetInduction
  <2> QED BY <1>1, <2>3
<1> HIDE DEF q
<1>9. ParseVerdict(b).msg["injections"] = got(n)
  <2> HIDE DEF got
  <2>1. go[n].ok /\ go[n].off = at[n] /\ go[n].msg = got(n)
    BY <1>8, Readers
  <2>2. ParseVerdict(b) = At(at[n], Assign(out, "injections", got(n)))
    BY <1>4, <1>6, <2>1
  <2>3. ParseVerdict(b).msg = Assign(out, "injections", got(n))
    BY <2>2, Readers
  <2> QED BY <2>3 DEF Assign
<1> QED BY <1>1, <1>7, <1>9 DEF b, is

-----------------------------------------------------------------------------
(* The posture of the handler.                                             *)

(* The verdict the engine gave, as it arrives.                             *)
Told == ParseVerdict(EncodeVerdict(said)).msg

(* The engine gave a blocking verdict.                                     *)
Condemned == Judged /\ said.kind \in Blocking

(* The request may pass: it was not condemned, or not judged but let.      *)
Passed ==
  /\ Judged => said.kind \notin Blocking \/ config["mode"] = "learn"
  /\ ~Judged => failOpenEnabled(config) \/ ~failClosed(config) \/ broken

(* The places before the session is opened, and those before the answer.   *)
BeforeSession == {"load", "loaded", "provisioned", "rejected", "boot", "read", "acquire"}
Running == BeforeSession \cup {"await", "enforce", "block", "unavailable", "forward"}

(* How it ends: blocked, unavailable, or with the origin's answer.         *)
Answered ==
  \/ client = PageOf(verdict) /\ Condemned /\ verdict = Told /\ ~Reached
  \/ client = [by |-> "badGateway"] /\ ~Judged /\ ~Reached
  \/ client \in {[by |-> "origin"], [by |-> "error"]} /\ Passed

(* What the handler knows at each place: before it awaits a verdict the    *)
(* engine has said nothing, while it awaits one it is not judged, it       *)
(* enforces what has arrived or a verdict of its own, and it forwards only *)
(* what may pass.                                                          *)
PostureInv ==
  /\ said = NoVerdict \/ IsVerdict(said)
  /\ pc \in Running \cup {"origin", "done"}
  /\ pc \in Running => ~Reached
  /\ pc # "done" => client = NoAnswer
  /\ pc \in BeforeSession => said = NoVerdict
  /\ pc \in {"await", "unavailable"} => ~Judged
  /\ pc = "enforce" => \/ Judged /\ verdict = Told
                       \/ ~Judged /\ verdict = failOpenVerdict /\ failOpenEnabled(config)
  /\ pc = "block" => Condemned /\ verdict = Told
  /\ pc \in {"forward", "origin"} => Passed
  /\ pc = "done" => Answered

(* Without a verdict the request is not judged.                            *)
LEMMA NotJudgedYet ==
  ASSUME said = NoVerdict
  PROVE  ~Judged
BY DEF NoVerdict, Judged

(* It holds before the configuration is loaded.                            *)
LEMMA PostureInit == Init => PostureInv
BY DEF Init, PostureInv, Reached, BeforeSession, Running

(* Every step keeps it.                                                    *)
LEMMA PostureStep == PostureInv /\ [Next]_vars => PostureInv'
<1> SUFFICES ASSUME PostureInv, [Next]_vars PROVE PostureInv'
  OBVIOUS
<1> USE DEF BeforeSession, Running
<1>0. /\ said' = said => (Told' = Told /\ (Judged' <=> Judged) /\ (Condemned' <=> Condemned))
      /\ origin' = origin => (Reached' <=> Reached)
  BY DEF Told, Judged, Condemned, Reached
<1>1. /\ (said' = said /\ config' = config /\ broken' = broken) => (Passed' <=> Passed)
  BY <1>0 DEF Passed, failOpenEnabled, failClosed
<1>2. CASE Load
  BY <1>0, <1>2 DEF Load, PostureInv, exchange
<1>3. CASE Provision
  BY <1>0, <1>3 DEF Provision, PostureInv, exchange
<1>4. CASE Validate
  BY <1>0, <1>4 DEF Validate, PostureInv, exchange
<1>5. CASE Arrive
  <2>1. /\ pc \in BeforeSession /\ said = NoVerdict /\ said' = said /\ origin' = origin
        /\ client' = client /\ config' = config
        /\ pc' \in {"read", "unavailable", "forward"}
        /\ pc' = "forward" => ~failClosed(config)
    BY <1>5 DEF Arrive, PostureInv, exchange, loading
  <2>2. ~Judged /\ ~Judged'
    BY <1>0, <2>1, NotJudgedYet
  <2>3. pc' = "forward" => Passed'
    BY <2>1, <2>2 DEF Passed, failClosed
  <2> QED BY <1>0, <2>1, <2>2, <2>3 DEF PostureInv
<1>6. CASE ReadBody
  <2>1. /\ pc = "read" /\ said = NoVerdict /\ said' = said /\ origin' = origin
        /\ client' = client /\ broken' = broken /\ pc' \in {"forward", "acquire"}
        /\ pc' = "forward" => broken
    BY <1>6 DEF ReadBody, PostureInv, exchange, loading
  <2>2. ~Judged'
    BY <1>0, <2>1, NotJudgedYet
  <2>3. pc' = "forward" => Passed'
    BY <2>1, <2>2 DEF Passed
  <2> QED BY <1>0, <2>1, <2>2, <2>3 DEF PostureInv
<1>7. CASE OpenSession
  <2>1. /\ pc = "acquire" /\ said = NoVerdict /\ said' = said /\ origin' = origin
        /\ client' = client /\ pc' = "await"
    BY <1>7 DEF OpenSession, PostureInv
  <2>2. ~Judged'
    BY <1>0, <2>1, NotJudgedYet
  <2> QED BY <1>0, <2>1, <2>2 DEF PostureInv
<1>8. CASE EngineFails
  <2>1. /\ pc \in {"acquire", "await"} /\ said' = said /\ origin' = origin
        /\ client' = client /\ config' = config
        /\ pc' \in {"enforce", "unavailable", "forward"}
        /\ pc' = "enforce" => failOpenEnabled(config) /\ verdict' = failOpenVerdict
        /\ pc' = "forward" => ~failClosed(config)
    BY <1>8 DEF EngineFails, loading
  <2>2. ~Judged'
    BY <1>0, <2>1, NotJudgedYet DEF PostureInv
  <2>3. pc' = "forward" => Passed'
    BY <2>1, <2>2 DEF Passed, failClosed
  <2>4. pc' = "enforce" => failOpenEnabled(config)'
    BY <2>1 DEF failOpenEnabled
  <2> QED BY <1>0, <2>1, <2>2, <2>3, <2>4 DEF PostureInv, failOpenVerdict
<1>9. CASE EngineAnswers
  <2>1. PICK v \in Verdicts :
          LET p == ParseVerdict(EncodeVerdict(v))
          IN  /\ said' = v
              /\ IF p.ok /\ p.msg.sid = Sid /\ p.msg.kind # Kind("Inspect")
                 THEN verdict' = p.msg /\ pc' = "enforce"
                 ELSE UNCHANGED <<verdict, pc>>
    BY <1>9 DEF EngineAnswers
  <2>2. IsVerdict(v)
    BY InspectionAssumption
  <2>3. /\ ParseVerdict(EncodeVerdict(v)).msg.kind = v.kind
        /\ ParseVerdict(EncodeVerdict(v)).msg.sid = v.sid
    BY <2>2, HeadSurvives
  <2>4. pc = "await" /\ origin' = origin /\ client' = client
    BY <1>9 DEF EngineAnswers
  <2>5. v.kind # -1
    BY <2>2, BaseAssumption DEF IsVerdict, Max16
  <2>6. Judged' <=> pc' = "enforce"
    <3>1. Judged' <=> /\ said'.kind \notin {-1, Kind("Inspect")} /\ said'.sid = Sid
                      /\ ParseVerdict(EncodeVerdict(said')).ok
      BY DEF Judged, NoVerdict
    <3> QED BY <2>1, <2>3, <2>4, <2>5, <3>1
  <2>7. pc' \in {"await", "enforce"} /\ (pc' = "enforce" => verdict' = Told')
    BY <2>1, <2>4 DEF Told
  <2> QED BY <1>0, <2>1, <2>2, <2>4, <2>6, <2>7 DEF PostureInv
<1>10. CASE Enforce
  <2>1. /\ pc = "enforce" /\ said' = said /\ origin' = origin /\ client' = client
        /\ config' = config /\ verdict' = verdict /\ broken' = broken
        /\ pc' = IF verdict.kind \in Blocking /\ config["mode"] # "learn"
                 THEN "block" ELSE "forward"
    BY <1>10 DEF Enforce, exchange, loading
  <2>2. CASE Judged
    <3>1. verdict = Told /\ IsVerdict(said)
      BY <2>1, <2>2, NotJudgedYet DEF PostureInv
    <3>2. verdict.kind = said.kind
      BY <3>1, HeadSurvives DEF Told
    <3>3. pc' = "block" => Condemned /\ verdict' = Told'
      BY <1>0, <2>1, <2>2, <3>1, <3>2 DEF Condemned
    <3>4. pc' = "forward" => Passed
      BY <2>1, <2>2, <3>2 DEF Passed
    <3>5. pc' \in {"block", "forward"}
      BY <2>1
    <3> QED BY <1>0, <1>1, <2>1, <3>3, <3>4, <3>5 DEF PostureInv
  <2>3. CASE ~Judged
    <3>1. verdict = failOpenVerdict /\ failOpenEnabled(config)
      BY <2>1, <2>3 DEF PostureInv
    <3>2. verdict.kind \notin Blocking
      BY <3>1, KindNumbers DEF failOpenVerdict, Blocking
    <3>3. pc' = "forward" /\ Passed
      BY <2>1, <2>3, <3>1, <3>2 DEF Passed
    <3> QED BY <1>0, <1>1, <2>1, <3>3 DEF PostureInv
  <2> QED BY <2>2, <2>3
<1>11. CASE writeBlock
  <2>1. /\ pc = "block" /\ said' = said /\ origin' = origin /\ verdict' = verdict
        /\ config' = config /\ client' = PageOf(verdict) /\ pc' = "done"
    BY <1>11 DEF writeBlock, exchange, loading
  <2>2. PageOf(verdict)' = PageOf(verdict)
    BY <2>1 DEF PageOf
  <2>3. Answered'
    BY <1>0, <2>1, <2>2 DEF Answered, PostureInv
  <2> QED BY <2>1, <2>3 DEF PostureInv
<1>12. CASE writeUnavailable
  <2>1. /\ pc = "unavailable" /\ said' = said /\ origin' = origin
        /\ client' = [by |-> "badGateway"] /\ pc' = "done"
    BY <1>12 DEF writeUnavailable, exchange
  <2>2. Answered'
    BY <1>0, <2>1 DEF Answered, PostureInv
  <2> QED BY <2>1, <2>2 DEF PostureInv
<1>13. CASE Forward
  <2>1. /\ pc = "forward" /\ said' = said /\ config' = config /\ broken' = broken
        /\ client' = client /\ pc' = "origin"
    BY <1>13 DEF Forward, exchange, loading
  <2> QED BY <1>0, <1>1, <2>1 DEF PostureInv
<1>14. CASE OriginReturns
  <2>1. /\ pc = "origin" /\ said' = said /\ config' = config /\ broken' = broken
        /\ client' \in {[by |-> "origin"], [by |-> "error"]} /\ pc' = "done"
    BY <1>14 DEF OriginReturns, exchange, loading
  <2>2. Answered'
    BY <1>1, <2>1 DEF Answered, PostureInv
  <2> QED BY <2>1, <2>2 DEF PostureInv
<1>15. CASE EngineGoesDown \/ EngineComesUp \/ UNCHANGED vars
  <2>1. UNCHANGED <<loading, pc, broken, exchange, origin, client>>
    BY <1>15 DEF EngineGoesDown, EngineComesUp, vars
  <2>2. PageOf(verdict)' = PageOf(verdict) /\ UNCHANGED <<said, verdict, config>>
    BY <2>1 DEF PageOf, loading, exchange
  <2>3. Answered' <=> Answered
    BY <1>0, <1>1, <2>1, <2>2 DEF Answered
  <2>4. failOpenEnabled(config)' <=> failOpenEnabled(config)
    BY <2>2 DEF failOpenEnabled
  <2> QED BY <1>0, <1>1, <2>1, <2>2, <2>3, <2>4 DEF PostureInv
<1> QED BY <1>2, <1>3, <1>4, <1>5, <1>6, <1>7, <1>8, <1>9, <1>10, <1>11, <1>12, <1>13,
           <1>14, <1>15 DEF Next, ServeHTTP

(* So it always holds.                                                     *)
LEMMA Posture == Spec => []PostureInv
BY PostureInit, PostureStep, PTL DEF Spec

(* For every configuration, request and verdict, and however often the     *)
(* engine goes down: a request reaches the origin without a verdict only   *)
(* if one of the two fail-open switches lets it, or if its body could not  *)
(* be read (handler.go, ServeHTTP; policy.go, AcquireVerdict).             *)
THEOREM OnlyOpenHandlersForward == Spec => []UninspectedOnlyIfOpen
<1>1. PostureInv => UninspectedOnlyIfOpen
  BY DEF PostureInv, UninspectedOnlyIfOpen, Passed, Answered
<1> QED BY <1>1, Posture, PTL

(* In prevent mode a request that the engine condemned never reaches the   *)
(* origin, whatever the codec cuts off; and the client gets the page of a  *)
(* DROP whose texts fit their one-byte sizes (handler.go, ServeHTTP and    *)
(* writeBlock; verdict.go; verdict_parse.go).                              *)
THEOREM CondemnedNeverPass == Spec => []CondemnedIsBlocked
<1>1. ASSUME PostureInv PROVE CondemnedIsBlocked
  <2> SUFFICES ASSUME config["mode"] = "prevent", Judged,
                      said.kind \in {Kind("Drop"), Kind("CustomResponse")}
               PROVE  /\ ~Reached /\ client.by \in {"nobody", "block"}
                      /\ client.by = "block" /\ said.kind = Kind("Drop") /\ VerdictFits(said)
                         /\ said.web \in Pages => client = PageOf(said)
    BY DEF CondemnedIsBlocked
  <2>1. ~Passed
    BY DEF Passed, Blocking
  <2>2. ~Reached /\ (pc # "done" => client = NoAnswer)
    BY <1>1, <2>1 DEF PostureInv, Answered, BeforeSession, Running
  <2>3. CASE pc # "done"
    BY <2>2, <2>3 DEF NoAnswer
  <2>4. CASE pc = "done"
    <3>1. client = PageOf(Told)
      BY <1>1, <2>1, <2>4 DEF PostureInv, Answered
    <3>2. client.by = "block"
      BY <3>1 DEF PageOf
    <3>3. IsVerdict(said)
      BY <1>1, NotJudgedYet DEF PostureInv
    <3>4. ASSUME said.kind = Kind("Drop"), VerdictFits(said), said.web \in Pages
          PROVE  client = PageOf(said)
      <4>1. FitsByte(said.title) /\ FitsByte(said.body) /\ FitsByte(said.uuid)
        <5>1. said.kind # Kind("Inject")
          BY <3>4, KindNumbers
        <5>2. \A s \in {said.title, said.body, said.uuid} : Len(s) < Base
          BY <3>4, <5>1 DEF VerdictFits
        <5>3. said.title \in Text /\ said.body \in Text /\ said.uuid \in Text
          BY <3>3, <3>4 DEF IsVerdict
        <5> QED BY <5>2, <5>3, BaseAssumption DEF FitsByte, Text, Byte, Max8
      <4>2. /\ Told.web = said.web /\ Told.status = said.status
            /\ Told.title = said.title /\ Told.body = said.body
        BY <3>3, <3>4, <4>1, PageSurvives DEF Told
      <4> QED BY <3>1, <4>2 DEF PageOf
    <3> QED BY <2>2, <3>2, <3>4
  <2> QED BY <2>3, <2>4
<1> QED BY <1>1, Posture, PTL


(* Flattening sequences of S gives a sequence of S.                        *)
LEMMA FlattenTyped ==
  ASSUME NEW S, NEW ss \in Seq(Seq(S))
  PROVE  FlattenSeq(ss) \in Seq(S)
<1>1. CASE ss = << >>
  BY <1>1 DEF FlattenSeq
<1>2. CASE ss # << >>
  <2>1. Len(ss) \in 1 .. Len(ss)
    BY <1>2
  <2> QED BY <1>2, <2>1, FlattenUnfold
<1> QED BY <1>1, <1>2

(* The headers an INJECT adds are a sequence: appended to none they are    *)
(* what they are.                                                          *)
LEMMA HeadersTyped ==
  ASSUME NEW is, NEW n \in Nat, DOMAIN is = 1 .. n
  PROVE  << >> \o InjectedHeaders(is) = InjectedHeaders(is)
<1> DEFINE S == {Cut(is[i].data) : i \in 1 .. n}
           part(i) == IF is[i].header /\ Colon \in Range(is[i].data)
                      THEN <<Cut(is[i].data)>> ELSE << >>
           ss == [i \in DOMAIN is |-> part(i)]
<1>1. \A i \in 1 .. n : part(i) \in Seq(S)
  <2> TAKE i \in 1 .. n
  <2>1. Cut(is[i].data) \in S
    OBVIOUS
  <2> HIDE DEF S
  <2> QED BY <2>1
<1>2. ss \in Seq(Seq(S))
  <2> HIDE DEF part, S
  <2> QED BY <1>1
<1>3. InjectedHeaders(is) = FlattenSeq(ss)
  BY DEF InjectedHeaders
<1> HIDE DEF S, ss
<1> QED BY <1>2, <1>3, FlattenTyped

(* What is forwarded, against what the engine has said.                    *)
Faithful(b, h) ==
  ~broken /\ VerdictFits(said) =>
    IF Judged /\ said.kind = Kind("Inject")
    THEN b = request.body \o Injected(said.injections) /\ h = InjectedHeaders(said.injections)
    ELSE b = request.body /\ h = << >>

(* What is forwarded, is forwarded faithfully; until then the body is the  *)
(* client's and nothing is added.                                          *)
BytesInv ==
  /\ pc \in BeforeSession \cup {"await", "enforce"} => headers = << >>
  /\ pc \in {"read", "acquire", "await", "enforce"} => body = request.body
  /\ pc = "forward" => Faithful(body, headers)
  /\ pc \in {"origin", "done"} /\ Reached => Faithful(origin.body, origin.headers)

(* What the handler injects is what the engine asked it to.                *)
LEMMA InjectionsKept ==
  ASSUME IsVerdict(said), said.kind = Kind("Inject"), VerdictFits(said)
  PROVE  /\ Injected(Told.injections) = Injected(said.injections)
         /\ InjectedHeaders(Told.injections) = InjectedHeaders(said.injections)
         /\ << >> \o InjectedHeaders(said.injections) = InjectedHeaders(said.injections)
<1> DEFINE is == said.injections
           js == Told.injections
<1>1. is \in Injections
  BY DEF IsVerdict
<1>2. Len(is) \in Nat /\ DOMAIN is = 1 .. Len(is)
  BY <1>1 DEF Injections
<1>3. Len(is) <= Max8 /\ \A k \in DOMAIN is : Len(is[k].data) <= Max16
  BY <1>2, BaseAssumption DEF VerdictFits, Max8
<1>4. DOMAIN js = DOMAIN is /\ \A k \in DOMAIN js : /\ js[k].header = is[k].header
                                                    /\ js[k].data = is[k].data
  BY <1>3, InjectionsSurvive DEF Told
<1> HIDE DEF is, js
<1>5. Injected(js) = Injected(is)
  <2> DEFINE part(i, h, d) == IF h THEN << >> ELSE d
  <2>1. [i \in DOMAIN js |-> IF js[i].header THEN << >> ELSE js[i].data] =
        [i \in DOMAIN is |-> IF is[i].header THEN << >> ELSE is[i].data]
    BY <1>4
  <2> QED BY <2>1 DEF Injected
<1>6. InjectedHeaders(js) = InjectedHeaders(is)
  <2>1. [i \in DOMAIN js |-> IF js[i].header /\ Colon \in Range(js[i].data)
                             THEN <<Cut(js[i].data)>> ELSE << >>] =
        [i \in DOMAIN is |-> IF is[i].header /\ Colon \in Range(is[i].data)
                             THEN <<Cut(is[i].data)>> ELSE << >>]
    BY <1>4
  <2> QED BY <2>1 DEF InjectedHeaders
<1>7. << >> \o InjectedHeaders(is) = InjectedHeaders(is)
  BY <1>2, HeadersTyped
<1> QED BY <1>5, <1>6, <1>7 DEF is, js

(* Every step keeps it.                                                    *)
LEMMA BytesStep == PostureInv /\ BytesInv /\ [Next]_vars => BytesInv'
<1> SUFFICES ASSUME PostureInv, BytesInv, [Next]_vars PROVE BytesInv'
  OBVIOUS
<1> USE DEF BeforeSession
<1>0. origin' = origin => (Reached' <=> Reached)
  BY DEF Reached
<1>2. CASE Load \/ Provision \/ Validate
  <2>1. /\ pc \in {"load", "loaded", "provisioned"}
        /\ pc' \in {"loaded", "rejected", "provisioned", "boot"}
        /\ UNCHANGED <<request, body, headers, origin>>
    BY <1>2 DEF Load, Provision, Validate
  <2> QED BY <1>0, <2>1 DEF BytesInv
<1>5. CASE Arrive
  <2>1. /\ pc \in {"loaded", "boot"} /\ body' = request'.body /\ UNCHANGED <<said, headers, origin>>
        /\ pc' \in {"read", "unavailable", "forward"}
    BY <1>5 DEF Arrive, exchange
  <2>2. ~Judged'
    BY <2>1, NotJudgedYet DEF PostureInv, Judged
  <2>3. pc' = "forward" => Faithful(body, headers)'
    BY <2>1, <2>2 DEF Faithful, BytesInv
  <2> QED BY <2>1, <2>3 DEF BytesInv
<1>6. CASE ReadBody
  <2>1. /\ pc = "read" /\ UNCHANGED <<request, broken, headers, origin>>
        /\ pc' \in {"forward", "acquire"} /\ (pc' = "forward" => broken)
        /\ pc' = "acquire" => body' = request.body
    BY <1>6 DEF ReadBody
  <2>2. pc' = "forward" => Faithful(body, headers)'
    BY <2>1 DEF Faithful
  <2> QED BY <2>1, <2>2 DEF BytesInv
<1>7. CASE OpenSession \/ EngineAnswers
  <2>1. /\ pc \in {"acquire", "await"} /\ UNCHANGED <<request, body, headers, origin>>
        /\ pc' \in {"await", "enforce"}
    BY <1>7 DEF OpenSession, EngineAnswers
  <2> QED BY <2>1 DEF BytesInv
<1>8. CASE EngineFails
  <2>1. /\ pc \in {"acquire", "await"} /\ UNCHANGED <<said, broken, request, body, headers, origin>>
        /\ pc' \in {"enforce", "unavailable", "forward"}
    BY <1>8 DEF EngineFails
  <2>2. ~Judged
    BY <2>1, NotJudgedYet DEF PostureInv
  <2>3. pc' = "forward" => Faithful(body, headers)'
    BY <2>1, <2>2 DEF Faithful, BytesInv, Judged
  <2> QED BY <2>1, <2>3 DEF BytesInv
<1>10. CASE Enforce
  <2>1. /\ pc = "enforce" /\ UNCHANGED <<said, request, broken, origin>>
        /\ IF verdict.kind = Kind("Inject") THEN applyInjections ELSE UNCHANGED <<body, headers>>
        /\ pc' \in {"block", "forward"}
    BY <1>10 DEF Enforce, exchange
  <2>2. body = request.body /\ headers = << >>
    BY <2>1 DEF BytesInv
  <2>3. Faithful(body', headers')
    <3>0. CASE ~VerdictFits(said)
      BY <3>0 DEF Faithful
    <3>1. CASE VerdictFits(said) /\ Judged
      <4>1. IsVerdict(said) /\ verdict = Told
        BY <2>1, <3>1, NotJudgedYet DEF PostureInv
      <4>2. verdict.kind = said.kind
        BY <4>1, HeadSurvives DEF Told
      <4>3. CASE said.kind = Kind("Inject")
        <5>1. /\ body' = request.body \o Injected(Told.injections)
              /\ headers' = << >> \o InjectedHeaders(Told.injections)
          BY <2>1, <2>2, <4>1, <4>2, <4>3 DEF applyInjections
        <5> QED BY <3>1, <4>1, <4>3, <5>1, InjectionsKept DEF Faithful
      <4>4. CASE said.kind # Kind("Inject")
        BY <2>1, <2>2, <4>1, <4>2, <4>4 DEF Faithful
      <4> QED BY <4>3, <4>4
    <3>2. CASE ~Judged
      <4>1. verdict = failOpenVerdict
        BY <2>1, <3>2 DEF PostureInv
      <4>2. verdict.kind # Kind("Inject")
        BY <4>1, KindNumbers DEF failOpenVerdict
      <4> QED BY <2>1, <2>2, <3>2, <4>2 DEF Faithful
    <3> QED BY <3>0, <3>1, <3>2
  <2>4. Faithful(body, headers)'
    BY <2>1, <2>3 DEF Faithful, Judged
  <2> QED BY <2>1, <2>4 DEF BytesInv
<1>11. CASE writeBlock \/ writeUnavailable
  <2>1. pc \in {"block", "unavailable"} /\ UNCHANGED origin /\ pc' = "done"
    BY <1>11 DEF writeBlock, writeUnavailable
  <2>2. ~Reached'
    BY <1>0, <2>1 DEF PostureInv, Running
  <2> QED BY <2>1, <2>2 DEF BytesInv
<1>13. CASE Forward
  <2>1. /\ pc = "forward" /\ UNCHANGED <<said, request, broken>> /\ pc' = "origin"
        /\ origin'.body = body /\ origin'.headers = headers
    BY <1>13 DEF Forward, exchange
  <2>2. Faithful(body, headers)
    BY <2>1 DEF BytesInv
  <2>3. Faithful(origin.body, origin.headers)'
    BY <2>1, <2>2 DEF Faithful, Judged
  <2> QED BY <2>1, <2>3 DEF BytesInv
<1>14. CASE OriginReturns \/ EngineGoesDown \/ EngineComesUp \/ UNCHANGED vars
  <2>1. /\ UNCHANGED <<said, request, broken, body, headers, origin>>
        /\ UNCHANGED pc \/ (pc = "origin" /\ pc' = "done")
    BY <1>14 DEF OriginReturns, EngineGoesDown, EngineComesUp, exchange, vars
  <2>2. /\ Faithful(body, headers)' <=> Faithful(body, headers)
        /\ Faithful(origin.body, origin.headers)' <=> Faithful(origin.body, origin.headers)
    BY <2>1 DEF Faithful, Judged
  <2> QED BY <1>0, <2>1, <2>2 DEF BytesInv
<1> QED BY <1>2, <1>5, <1>6, <1>7, <1>8, <1>10, <1>11, <1>13, <1>14 DEF Next, ServeHTTP

(* For every verdict whose sizes fit their fields, the origin reads the    *)
(* body of the client and then the injected bytes, in their order, and     *)
(* gets the injected headers (handler.go, forward; body.go,                *)
(* applyInjections; verdict.go; verdict_parse.go).                         *)
THEOREM OriginGetsOriginalBytes == Spec => []OriginalBytes
<1>1. Init => BytesInv
  BY DEF Init, BytesInv, BeforeSession
<1>2. PostureInv /\ BytesInv => OriginalBytes
  BY DEF PostureInv, BytesInv, OriginalBytes, Faithful, Running, BeforeSession
<1> QED BY <1>1, <1>2, BytesStep, Posture, PTL DEF Spec

-----------------------------------------------------------------------------
(* The configuration, and the names of a registration.                     *)

(* What Caddy unmarshals from source s.                                    *)
Loaded(s) == IF s.json THEN Parsed(s) ELSE SetDefaults(Parsed(s))

(* Once loaded the configuration is what the source says, once provisioned *)
(* with the defaults; and a provisioned handler that serves is valid.      *)
ConfigInv ==
  /\ source \in Sources
  /\ pc = "load" => ~wired
  /\ pc = "loaded" => ~wired /\ ~ParseFails(source) /\ config = Loaded(source)
  /\ wired => /\ ~ParseFails(source) /\ config = SetDefaults(Loaded(source))
              /\ pc \notin {"provisioned", "rejected"} => Valid(config)

(* Every step keeps it: only Load and Provision touch the configuration.   *)
LEMMA ConfigStep == ConfigInv /\ [Next]_vars => ConfigInv'
<1> SUFFICES ASSUME ConfigInv, [Next]_vars PROVE ConfigInv'
  OBVIOUS
<1>1. CASE Load
  <2>1. /\ pc = "load" /\ UNCHANGED <<source, wired>> /\ pc' \in {"rejected", "loaded"}
        /\ pc' = "loaded" => ~ParseFails(source) /\ config' = Loaded(source)
    BY <1>1 DEF Load, Loaded
  <2>2. Loaded(source)' = Loaded(source) /\ (ParseFails(source)' <=> ParseFails(source))
    BY <2>1 DEF Loaded, Parsed, Lines, ParseFails
  <2> QED BY <2>1, <2>2 DEF ConfigInv
<1>2. CASE Provision
  <2>1. /\ pc = "loaded" /\ UNCHANGED source /\ config' = SetDefaults(config)
        /\ pc' \in {"rejected", "provisioned"}
    BY <1>2 DEF Provision
  <2>2. Loaded(source)' = Loaded(source) /\ (ParseFails(source)' <=> ParseFails(source))
    BY <2>1 DEF Loaded, Parsed, Lines, ParseFails
  <2>3. config' = SetDefaults(Loaded(source)')
    BY <2>1, <2>2 DEF ConfigInv
  <2>4. SetDefaults(Loaded(source))' = SetDefaults(Loaded(source)')
    BY DEF SetDefaults
  <2> QED BY <2>1, <2>2, <2>3, <2>4 DEF ConfigInv
<1>3. CASE UNCHANGED loading /\ \/ UNCHANGED pc
                                   \/ Validate
                                   \/ /\ pc \notin {"provisioned", "rejected"}
                                      /\ pc' \notin {"load", "loaded"}
  <2>1. UNCHANGED <<source, config, wired>>
    BY <1>3 DEF loading
  <2>2. /\ Loaded(source)' = Loaded(source) /\ (ParseFails(source)' <=> ParseFails(source))
        /\ SetDefaults(Loaded(source))' = SetDefaults(Loaded(source))
    BY <2>1 DEF Loaded, Parsed, Lines, ParseFails, SetDefaults
  <2>3. Valid(config)' <=> Valid(config)
    BY <2>1 DEF Valid
  <2>4. CASE Validate
    BY <2>1, <2>2, <2>3, <2>4 DEF ConfigInv, Validate
  <2> QED BY <1>3, <2>1, <2>2, <2>3, <2>4 DEF ConfigInv
<1>4. CASE EngineGoesDown \/ EngineComesUp \/ UNCHANGED vars
  BY <1>3, <1>4 DEF EngineGoesDown, EngineComesUp, vars
<1>5. CASE Validate
  BY <1>3, <1>5 DEF Validate
<1>6. CASE Arrive \/ ReadBody
  BY <1>3, <1>6 DEF Arrive, ReadBody
<1>7. CASE OpenSession
  BY <1>3, <1>7 DEF OpenSession
<1>8. CASE EngineFails
  BY <1>3, <1>8 DEF EngineFails
<1>9. CASE EngineAnswers
  <2>1. pc = "await" /\ UNCHANGED loading
    BY <1>9 DEF EngineAnswers
  <2>2. pc' \in {"await", "enforce"}
    BY <1>9 DEF EngineAnswers
  <2> QED BY <1>3, <2>1, <2>2
<1>10. CASE Enforce
  BY <1>3, <1>10 DEF Enforce
<1>11. CASE writeBlock \/ writeUnavailable \/ Forward
  BY <1>3, <1>11 DEF writeBlock, writeUnavailable, Forward
<1>12. CASE OriginReturns
  BY <1>3, <1>12 DEF OriginReturns
<1> QED BY <1>1, <1>2, <1>4, <1>5, <1>6, <1>7, <1>8, <1>9, <1>10, <1>11, <1>12
        DEF Next, ServeHTTP

(* The last line of an option is the one that counts.                      *)
LEMMA LastLine ==
  ASSUME NEW s, IsSource(s), NEW o \in Options, NEW i \in Lines(s, o),
         \A j \in Lines(s, o) : j <= i
  PROVE  Parsed(s)[o] = ValueOf(s, s.lines[i])
<1>1. Lines(s, o) \subseteq Nat
  BY DEF IsSource, Lines
<1>2. Max(Lines(s, o)) = i
  <2>1. \A x \in Lines(s, o) : (\A y \in Lines(s, o) : x >= y) => x = i
    BY <1>1
  <2>2. \A y \in Lines(s, o) : i >= y
    BY <1>1
  <2> QED BY <2>1, <2>2 DEF Max
<1> QED BY <1>2 DEF Parsed

(* SetDefaults, once or twice, keeps what is set.                          *)
LEMMA KeepsWhatIsSet ==
  ASSUME NEW s, NEW o \in Options, Parsed(s)[o] # Zero[o]
  PROVE  SetDefaults(Loaded(s))[o] = Parsed(s)[o]
BY DEF SetDefaults, Loaded

(* The names a worker registers under have the types of their Go fields.   *)
LEMMA NameTypes ==
  ASSUME NEW s, IsSource(s), ~ParseFails(s)
  PROVE  /\ SetDefaults(Loaded(s))["worker_id"] \in Int
         /\ SetDefaults(Loaded(s))["workers"] \in Int
         /\ SetDefaults(Loaded(s))["family_name"] \in Text
<1>1. /\ "worker_id" \in Options /\ "workers" \in Options /\ "family_name" \in Options
      /\ "worker_id" \in Ints /\ "workers" \in Ints /\ "family_name" \notin Ints
  BY DEF Options, Ints, CaddyfileOptions, EngineInts, EngineTexts, SizeOptions, JSONInts
<1>2. /\ Zero["worker_id"] = 0 /\ Zero["workers"] = 0 /\ Zero["family_name"] = << >>
  BY <1>1 DEF Zero, BoolOptions, JSONSwitches, ByteTexts
<1>3. /\ Default["worker_id"] = 0 /\ Default["workers"] = 1 /\ Default["family_name"] = << >>
  <2>1. Given["workers"] = 1
    BY SMT DEF Given
  <2>2. "workers" \in DOMAIN Given
    BY SMT DEF Given
  <2>3. "worker_id" \notin DOMAIN Given
    BY SMT DEF Given
  <2>4. "family_name" \notin DOMAIN Given
    BY SMT DEF Given
  <2> QED BY <1>1, <1>2, <2>1, <2>2, <2>3, <2>4 DEF Default
<1>4. ASSUME NEW o \in {"worker_id", "workers", "family_name"}
      PROVE  Parsed(s)[o] = Zero[o] \/ \E i \in DOMAIN s.lines : /\ s.lines[i].option = o
                                         /\ Parsed(s)[o] = ValueOf(s, s.lines[i])
  <2>1. CASE Lines(s, o) = {}
    BY <1>1, <2>1 DEF Parsed
  <2>2. CASE Lines(s, o) # {}
    <3>1. Lines(s, o) \subseteq 1 .. Len(s.lines) /\ Len(s.lines) \in Nat
      BY DEF Lines, IsSource
    <3>2. \E i \in Lines(s, o) : \A j \in Lines(s, o) : j <= i
      <4> DEFINE n == Len(s.lines)
                 T == {k \in Nat : \A S \in SUBSET (1 .. k) :
                         S # {} => \E i \in S : \A j \in S : j <= i}
      <4>1. 0 \in T
        <5>1. \A S \in SUBSET (1 .. 0) : S = {}
          OBVIOUS
        <5> QED BY <5>1
      <4>2. ASSUME NEW k \in Nat, k \in T PROVE k + 1 \in T
        <5> SUFFICES ASSUME NEW S \in SUBSET (1 .. k + 1), S # {}
                     PROVE  \E i \in S : \A j \in S : j <= i
          OBVIOUS
        <5>1. CASE k + 1 \in S
          BY <5>1
        <5>2. CASE k + 1 \notin S
          <6>1. S \in SUBSET (1 .. k)
            BY <5>2
          <6> QED BY <4>2, <6>1
        <5> QED BY <5>1, <5>2
      <4>3. n \in T
        <5> HIDE DEF T
        <5> QED BY <3>1, <4>1, <4>2, SetInduction
      <4> QED BY <2>2, <3>1, <4>3
    <3>3. PICK i \in Lines(s, o) : \A j \in Lines(s, o) : j <= i
      BY <3>2
    <3>4. Parsed(s)[o] = ValueOf(s, s.lines[i])
      BY <1>1, <3>3, LastLine
    <3> QED BY <3>3, <3>4 DEF Lines
  <2> QED BY <2>1, <2>2
<1>5. /\ Parsed(s)["worker_id"] \in Int /\ Parsed(s)["workers"] \in Int
      /\ Parsed(s)["family_name"] \in Text
  <2>1. << >> \in Text
    BY DEF Text
  <2> QED BY <1>1, <1>2, <1>4, <2>1 DEF IsSource, ParseFails
<1>6. << >> \in Text
  BY DEF Text
<1> QED BY <1>1, <1>2, <1>3, <1>5, <1>6 DEF SetDefaults, Loaded

(* The layout Registration, field by field.                                *)
LEMMA RegistrationLayout ==
  LET L == Registration IN
  /\ IsLayout(L) /\ Len(L) = 4
  /\ L[1].name = "attachmentType" /\ L[2].name = "worker" /\ L[3].name = "workers"
  /\ L[4].name = "family"
  /\ L[1].type = "u8" /\ L[2].type = "u8" /\ L[3].type = "u8" /\ L[4].type = "str8"
  /\ \A i \in 1 .. 4 : L[i].of = L[i].name
BY DEF IsLayout, Registration, U8, Name8, Field

(* The layout CommData.                                                    *)
LEMMA CommLayout ==
  LET L == CommData IN
  /\ IsLayout(L) /\ Len(L) = 4
  /\ L[1].name = "uid" /\ L[2].name = "user" /\ L[3].name = "group" /\ L[4].name = "core"
  /\ L[1].type = "str8" /\ L[2].type = "u32" /\ L[3].type = "u32" /\ L[4].type = "i32"
  /\ \A i \in 1 .. 4 : L[i].of = L[i].name
BY DEF IsLayout, CommData, U32, Name8, Field

(* What a layout without sizes gives for the whole of a frame.             *)
LEMMA FrameBack ==
  ASSUME NEW layout, NEW m, IsLayout(layout), Writable(layout, m),
         \A i \in 1 .. Len(layout) : layout[i].type # "bytes",
         \A i \in 1 .. Len(layout) : layout[i].type = "rest" => i = Len(layout)
  PROVE  \E out : Gives(layout, m, Encode(layout, m), 0, << >>, out)
<1> DEFINE b == Encode(layout, m)
<1>1. b \in Seq(Byte)
  BY EncodeTyped DEF Writable
<1>2. Stands(b, 0, b)
  BY <1>1, StandsWhole
<1>3. \A i \in 1 .. Len(layout) : SizeKnown(layout, i, m, << >>)
  BY DEF SizeKnown
<1>31. Len(b) = 0 + Len(Encode(layout, m))
  BY <1>1
<1> HIDE DEF b
<1>4. Stands(b, 0, Encode(layout, m))
  BY <1>2 DEF b
<1>5. 0 \in Nat
  OBVIOUS
<1>6. \E out : Gives(layout, m, b, 0, << >>, out)
  BY <1>1, <1>3, <1>31, <1>4, <1>5, ReadBack
<1> QED BY <1>6 DEF b

(* The engine reads the family and the worker a registration was made of,  *)
(* and the unique id it is then asked for.                                 *)
LEMMA EngineRecognises ==
  ASSUME NEW c, c["worker_id"] \in Nat, c["workers"] \in Int, c["family_name"] \in Text,
         Len(UniqueID(c["family_name"], c["worker_id"])) < Base,
         c["worker_id"] + 1 < Base
  PROVE  Registers(c)
<1> DEFINE family == c["family_name"]
           worker == c["worker_id"]
           uid == UniqueID(family, worker)
           R == [attachmentType |-> 0, worker |-> worker + 1, workers |-> c["workers"],
                 family |-> family]
           C == [uid |-> uid, user |-> 0, group |-> 0, core |-> -1]
<1>0. Base \in Nat /\ Base > 11 /\ Max8 = Base - 1 /\ U(1) = 0 .. Max8
  BY BaseAssumption DEF Max8, U
<1>1. Decimal(worker + 1) \in Seq(Byte) /\ Len(Decimal(worker + 1)) \in Nat
  <2>1. /\ worker + 1 \in Nat /\ (worker + 1) % 10 \in 0 .. 9
        /\ (worker + 1) \div 10 \in 0 .. worker + 1
    <3>1. ASSUME NEW n \in Nat PROVE n % 10 \in 0 .. 9 /\ n \div 10 \in 0 .. n
      OBVIOUS
    <3>2. worker + 1 \in Nat
      OBVIOUS
    <3> HIDE DEF worker
    <3> QED BY <3>1, <3>2
  <2>2. worker + 1 \in Byte /\ (worker + 1) % 10 \in Byte /\ (worker + 1) \div 10 \in Byte
    BY <1>0, <2>1, SMTT(30) DEF Byte
  <2> HIDE DEF worker
  <2>3. \A x, y \in Byte : <<x>> \in Seq(Byte) /\ <<x, y>> \in Seq(Byte)
    OBVIOUS
  <2>4. Decimal(worker + 1) \in Seq(Byte)
    BY <2>2, <2>3 DEF Decimal
  <2> QED BY <2>4
<1>2. family \in Seq(Byte) /\ Len(family) \in Nat
  BY <1>0 DEF Text, Byte
<1>3. uid \in Seq(Byte) /\ Len(uid) \in 0 .. Max8 /\ Len(family) \in 0 .. Max8
  <2> HIDE DEF family, worker
  <2>1. Prefix(family) \in Seq(Byte) /\ Len(Prefix(family)) >= Len(family)
    <3>1. <<Underscore>> \in Seq(Byte) /\ Len(<<Underscore>>) = 1
      BY <1>0 DEF Byte, Underscore
    <3>2. /\ family \o <<Underscore>> \in Seq(Byte)
          /\ Len(family \o <<Underscore>>) = Len(family) + 1
      BY <1>2, <3>1, ConcatProperties
    <3> QED BY <1>2, <3>2 DEF Prefix
  <2>2. /\ uid \in Seq(Byte)
        /\ Len(uid) = Len(Prefix(family)) + Len(Decimal(worker + 1))
    BY <1>1, <2>1, ConcatProperties DEF UniqueID
  <2>3. Len(family) \in Nat /\ Len(uid) < Base
    BY <1>2 DEF family, worker
  <2> QED BY <1>0, <1>1, <2>1, <2>2, <2>3
<1> HIDE DEF uid, family, worker
<1>4. /\ R.attachmentType = 0 /\ R.worker = worker + 1 /\ R.workers = c["workers"]
      /\ R.family = family
      /\ C.uid = uid /\ C.user = 0 /\ C.group = 0 /\ C.core = -1
  OBVIOUS
<1>5. worker \in Nat /\ worker + 1 \in U(1)
  BY <1>0 DEF worker
<1>6. \E out : Gives(Registration, R, Encode(Registration, R), 0, << >>, out)
  <2> DEFINE L == Registration
  <2>1. /\ Value(L[1], R) = 0 /\ Value(L[2], R) = worker + 1 /\ Value(L[3], R) = c["workers"]
        /\ Value(L[4], R) = family
    BY <1>4, RegistrationLayout DEF Value
  <2>2. Holds(L[1], R) /\ Holds(L[2], R) /\ Holds(L[3], R) /\ Holds(L[4], R)
    BY <1>2, <1>5, <2>1, RegistrationLayout DEF Holds, FieldTypes
  <2>3. FieldFits(L[4], R)
    BY <1>0, <1>3, <2>1, <2>2, RegistrationLayout DEF FieldFits, Width
  <2>4. Writable(L, R)
    <3>1. L[1].type # "rest" /\ L[2].type # "rest" /\ L[3].type # "rest" /\ L[4].type # "rest"
      BY RegistrationLayout
    <3>2. \A i \in 1 .. 4 : i \in {1, 2, 3, 4}
      OBVIOUS
    <3> QED BY <2>2, <2>3, <3>1, <3>2, RegistrationLayout DEF Writable
  <2>5. \A i \in 1 .. Len(L) : L[i].type \notin {"bytes", "rest"}
    <3>1. \A i \in 1 .. 4 : i \in {1, 2, 3, 4}
      OBVIOUS
    <3> QED BY <3>1, RegistrationLayout
  <2>6. IsLayout(L)
    BY RegistrationLayout
  <2> HIDE DEF L, R
  <2> QED BY <2>4, <2>5, <2>6, FrameBack DEF L
<1>7. \E out : Gives(CommData, C, Encode(CommData, C), 0, << >>, out)
  <2> DEFINE L == CommData
  <2>1. Value(L[1], C) = uid /\ Value(L[2], C) = 0 /\ Value(L[3], C) = 0 /\ Value(L[4], C) = -1
    BY <1>4, CommLayout DEF Value
  <2>2. Holds(L[1], C) /\ Holds(L[2], C) /\ Holds(L[3], C) /\ Holds(L[4], C)
    BY <1>3, <2>1, CommLayout DEF Holds, FieldTypes
  <2>3. FieldFits(L[1], C)
    BY <1>0, <1>3, <2>1, <2>2, CommLayout DEF FieldFits, Width
  <2>4. Writable(L, C)
    <3>1. L[1].type # "rest" /\ L[2].type # "rest" /\ L[3].type # "rest" /\ L[4].type # "rest"
      BY CommLayout
    <3>2. \A i \in 1 .. 4 : i \in {1, 2, 3, 4}
      OBVIOUS
    <3> QED BY <2>2, <2>3, <3>1, <3>2, CommLayout DEF Writable
  <2>5. \A i \in 1 .. Len(L) : L[i].type \notin {"bytes", "rest"}
    <3>1. \A i \in 1 .. 4 : i \in {1, 2, 3, 4}
      OBVIOUS
    <3> QED BY <3>1, CommLayout
  <2>6. IsLayout(L)
    BY CommLayout
  <2> HIDE DEF L, C
  <2> QED BY <2>4, <2>5, <2>6, FrameBack DEF L
<1>8. PICK reg : Gives(Registration, R, Encode(Registration, R), 0, << >>, reg)
  BY <1>6
<1>9. PICK com : Gives(CommData, C, Encode(CommData, C), 0, << >>, com)
  BY <1>7
<1>10. reg["worker"] = worker + 1 /\ reg["family"] = family
  <2> DEFINE L == Registration
  <2>1. /\ Value(L[2], R) = worker + 1 /\ Value(L[4], R) = family
    BY <1>4, RegistrationLayout DEF Value
  <2>2. FieldFits(L[2], R) /\ FieldFits(L[4], R)
    BY <1>0, <1>2, <1>3, <1>5, <2>1, RegistrationLayout, SMTT(30)
       DEF FieldFits, Holds, FieldTypes, Width
  <2>3. L[2].type \notin Wide /\ L[4].type \notin Wide /\ 2 \in 1 .. Len(L) /\ 4 \in 1 .. Len(L)
    BY RegistrationLayout DEF Wide
  <2> HIDE DEF R
  <2> QED BY <1>8, <2>1, <2>2, <2>3, RegistrationLayout DEF Gives
<1>11. com["uid"] = uid
  <2> DEFINE L == CommData
  <2>1. Value(L[1], C) = uid
    BY <1>4, CommLayout DEF Value
  <2>2. FieldFits(L[1], C)
    BY <1>0, <1>3, <2>1, CommLayout DEF FieldFits, Holds, FieldTypes, Width
  <2>3. L[1].type \notin Wide /\ 1 \in 1 .. Len(L)
    BY CommLayout DEF Wide
  <2> HIDE DEF C
  <2> QED BY <1>9, <2>1, <2>2, <2>3, CommLayout DEF Gives
<1>12. /\ Parse(Registration, Encode(Registration, R)).ok
       /\ Parse(Registration, Encode(Registration, R)).msg = reg
       /\ Parse(CommData, Encode(CommData, C)).ok
       /\ Parse(CommData, Encode(CommData, C)).msg = com
  <2> HIDE DEF R, C
  <2> QED BY <1>8, <1>9, Readers DEF Gives, Parse, Start
<1>13. registrationFrame(c) = Encode(Registration, R) /\ commFrame(c) = Encode(CommData, C)
  BY DEF registrationFrame, commFrame, family, worker, uid
<1> HIDE DEF R, C
<1>14. /\ Parse(Registration, registrationFrame(c)).ok /\ Parse(CommData, commFrame(c)).ok
       /\ Parse(Registration, registrationFrame(c)).msg = reg
       /\ Parse(CommData, commFrame(c)).msg = com
  BY <1>12, <1>13
<1>15. uid = Prefix(family) \o Decimal(worker + 1)
  BY DEF uid, UniqueID
<1> QED BY <1>10, <1>11, <1>14, <1>15 DEF Registers

(* A handler that was provisioned answers only under a configuration that  *)
(* passes Validate, in which every option has the value of its last line   *)
(* and whose names the engine recognises when they fit their fields        *)
(* (caddyfile.go; handler.go, SetDefaults and Validate; handshake.go).     *)
THEOREM ServedAsConfigured == Spec => []ServesWhatIsConfigured
<1>1. Init => ConfigInv
  BY DEF Init, ConfigInv
<1>2. ASSUME ConfigInv PROVE ServesWhatIsConfigured
  <2> SUFFICES ASSUME wired, pc \notin {"provisioned", "rejected"}
               PROVE  ServesWhatIsConfigured
    BY DEF ServesWhatIsConfigured
  <2>1. /\ IsSource(source) /\ ~ParseFails(source) /\ Valid(config)
        /\ config = SetDefaults(Loaded(source))
    BY <1>2, InspectionAssumption DEF ConfigInv
  <2>2. ASSUME NEW o \in Options, NEW i \in Lines(source, o),
               \A j \in Lines(source, o) : j <= i,
               ValueOf(source, source.lines[i]) # Zero[o]
        PROVE  config[o] = ValueOf(source, source.lines[i])
    BY <2>1, <2>2, LastLine, KeepsWhatIsSet
  <2>3. ASSUME Len(UniqueID(config["family_name"], config["worker_id"])) < Base,
               config["worker_id"] + 1 < Base
        PROVE  Registers(config)
    <3>1. /\ config["worker_id"] \in Int /\ config["workers"] \in Int
          /\ config["family_name"] \in Text
      BY <2>1, NameTypes
    <3>2. config["worker_id"] >= 0
      BY <2>1 DEF Valid
    <3> QED BY <2>3, <3>1, <3>2, EngineRecognises
  <2> QED BY <2>1, <2>2, <2>3 DEF ServesWhatIsConfigured
<1> QED BY <1>1, <1>2, ConfigStep, PTL DEF Spec

-----------------------------------------------------------------------------
(* The frames of a request: their layouts, and who takes which.            *)

(* The iota constants of the data types (const.go).                        *)
LEMMA DataTypeNumbers ==
  /\ DataType("RequestStart") = 0 /\ DataType("RequestHeader") = 1
  /\ DataType("RequestBody") = 2 /\ DataType("RequestEnd") = 3
  /\ DataType("ResponseCode") = 4 /\ DataType("ResponseHeader") = 5
  /\ DataType("ResponseBody") = 6 /\ DataType("ResponseEnd") = 7
  /\ DataType("ContentLength") = 8
BY DEF DataType, Iota, DataTypes

(* A layout that begins with the data type.                                *)
Led(layout) == IsLayout(layout) /\ Len(layout) >= 1 /\ layout[1] = U16("type")

(* The layout Session, field by field.                                     *)
LEMMA SessionLayout ==
  LET L == Session IN
  /\ Len(L) = 2 /\ L[1] = U16("type") /\ L[2] = U32("sid")
BY DEF Session, U16, U32, Field

(* The layout Part.                                                        *)
LEMMA PartLayout ==
  LET L == Part IN
  /\ Len(L) = 4 /\ L[1] = U16("type") /\ L[2] = U32("sid") /\ L[3] = Field("last", "flag")
  /\ L[4] = U8("part")
BY DEF Session, Part

(* The layout BodyChunk.                                                   *)
LEMMA ChunkLayout ==
  LET L == BodyChunk IN
  /\ Len(L) = 5 /\ L[1] = U16("type") /\ L[2] = U32("sid") /\ L[3] = Field("last", "flag")
  /\ L[4] = U8("part") /\ L[5] = Rest("data")
BY DEF Session, Part, BodyChunk

(* The layout RequestStart.                                                *)
LEMMA StartLayout ==
  LET L == RequestStart IN
  /\ Len(L) = 13 /\ L[1] = U16("type") /\ L[2] = U32("sid") /\ L[3] = Str("proto")
  /\ L[4] = Str("method") /\ L[5] = Str("host") /\ L[6] = Str("listeningIP")
  /\ L[7] = Field("listeningPort", "port") /\ L[8] = Str("uri") /\ L[9] = Str("clientIP")
  /\ L[10] = Field("clientPort", "port") /\ L[11] = Str("parsedHost")
  /\ L[12] = Str("parsedURI") /\ L[13] = Str("wafTag")
BY DEF Session, RequestStart

(* The layout Header.                                                      *)
LEMMA HeaderLayout ==
  LET L == Header IN
  Len(L) = 2 /\ L[1] = Str("key") /\ L[2] = Str("value")
BY DEF Header

(* They are layouts, and all but that of a header begin with the data      *)
(* type.                                                                   *)
LEMMA FrameLayouts ==
  /\ Led(Session) /\ Led(Part) /\ Led(BodyChunk) /\ Led(RequestStart) /\ IsLayout(Header)
<1>1. IsLayout(Session)
  BY SessionLayout DEF IsLayout, U16, U32, Field, Session
<1>2. IsLayout(Part)
  <2>1. DOMAIN Part = 1 .. Len(Part)
    BY DEF Part, Session
  <2> QED BY <2>1, PartLayout DEF IsLayout, U8, U16, U32, Field
<1>3. IsLayout(BodyChunk)
  <2>1. DOMAIN BodyChunk = 1 .. Len(BodyChunk)
    BY DEF BodyChunk, Part, Session
  <2> QED BY <2>1, ChunkLayout DEF IsLayout, U8, U16, U32, Field, Rest
<1>4. IsLayout(RequestStart)
  <2>1. DOMAIN RequestStart = 1 .. Len(RequestStart)
    BY DEF RequestStart, Session
  <2> QED BY <2>1, StartLayout DEF IsLayout, U16, U32, Str, Field
<1>5. IsLayout(Header)
  BY DEF IsLayout, Header, Str, Field
<1> QED BY <1>1, <1>2, <1>3, <1>4, <1>5, SessionLayout, PartLayout, ChunkLayout, StartLayout
        DEF Led

(* A parser gets the data type a frame begins with, whatever its layout.   *)
LEMMA TypeRead ==
  ASSUME NEW layout, Led(layout), NEW b \in Seq(Byte), NEW t \in 0 .. Max16,
         Stands(b, 0, Digits(t, 2))
  PROVE  Has(Parse(layout, b), "type", t)
<1> DEFINE n == Len(layout)
           f == layout[1]
           m == [type |-> t]
<1>1. n \in Nat /\ n >= 1
  BY DEF Led, IsLayout
<1>2. PICK go : /\ go[0] = Start /\ \A i \in 1 .. n : go[i] = Get(layout[i], b, go[i - 1])
                /\ Read(layout, b, Start) = go[n]
  <2>1. Len(layout) \in Nat
    BY <1>1
  <2>2. PICK go : Unfolds(layout, b, Start, go)
    BY <2>1, ReadUnfold
  <2> QED BY <2>2 DEF Unfolds
<1>3. f.type = "u16" /\ f.name = "type" /\ f.of = "type"
  BY DEF Led, U16, Field
<1>4. Value(f, m) = t /\ t \in Int
  BY <1>3, BaseAssumption DEF Value, Max16
<1>5. Holds(f, m) /\ FieldFits(f, m)
  BY <1>3, <1>4 DEF Holds, FieldTypes, FieldFits, U, Width
<1>6. Put(f, m) = Digits(t, 2)
  BY <1>3 DEF Put, Width
<1> HIDE DEF m, f
<1>7. ReadsBack(f, m, b, 0, << >>)
  <2>1. 0 \in Nat /\ f.type \notin {"bytes", "rest", "str", "str8"}
    BY <1>3
  <2>2. Stands(b, 0, Put(f, m))
    BY <1>6
  <2> QED BY <1>5, <2>1, <2>2, NumberReadsBack
<1>8. PICK off : go[1] = At(off, Assign(<< >>, "type", t))
  <2>1. f.type \notin Wide
    BY <1>3 DEF Wide
  <2>2. go[1] = Get(f, b, At(0, << >>))
    <3>1. 1 \in 1 .. n /\ 1 - 1 = 0
      BY <1>1
    <3> QED BY <1>2, <3>1 DEF Start, f
  <2>3. PICK v : /\ Get(f, b, At(0, << >>)) = At(0 + Len(Put(f, m)), Assign(<< >>, f.name, v))
                 /\ v = Value(f, m)
    BY <1>5, <1>7, <2>1 DEF ReadsBack
  <2> QED BY <1>3, <1>4, <2>2, <2>3
<1>9. Has(go[1], "type", t)
  <2>1. IsReader(go[1]) /\ go[1].msg = Assign(<< >>, "type", t)
    BY <1>8, Readers
  <2> QED BY <2>1 DEF Has, Assign
<1> DEFINE T == {i \in Nat : i + 1 <= n => Has(go[i + 1], "type", t)}
<1>10. 0 \in T
  BY <1>9
<1>11. ASSUME NEW i \in Nat, i \in T PROVE i + 1 \in T
  <2> SUFFICES ASSUME i + 2 <= n PROVE Has(go[i + 2], "type", t)
    OBVIOUS
  <2>1. i + 2 \in 1 .. n /\ (i + 2) - 1 = i + 1 /\ i + 1 <= n /\ 1 \in 1 .. n /\ i + 2 # 1
    BY <1>1
  <2>2. Has(go[i + 1], "type", t)
    BY <1>11, <2>1
  <2>3. go[i + 2] = Get(layout[i + 2], b, go[i + 1])
    BY <1>2, <2>1
  <2>4. layout[i + 2].name # "type"
    BY <1>3, <2>1 DEF Led, IsLayout, f
  <2>5. IsReader(go[i + 2]) /\ Keeps(go[i + 1].msg, go[i + 2].msg, layout[i + 2].name)
    BY <2>2, <2>3, GetKeeps DEF Has
  <2> QED BY <2>2, <2>4, <2>5 DEF Has, Keeps
<1>12. n - 1 \in T
  <2> HIDE DEF T
  <2> QED BY <1>1, <1>10, <1>11, SetInduction
<1>13. Has(go[n], "type", t)
  <2>1. n - 1 \in Nat /\ (n - 1) + 1 = n
    BY <1>1
  <2> HIDE DEF n
  <2> QED BY <1>12, <2>1
<1> QED BY <1>2, <1>13 DEF Parse

(* The field widths hold the numbers the frames need.                      *)
LEMMA SmallTypes ==
  /\ Base > 10 /\ Base \in Nat /\ Max8 = Base - 1 /\ Max8 >= 10 /\ Max16 \in Nat
  /\ Max16 >= 10 /\ Max32 \in Nat /\ Max32 >= 10
  /\ MaxWriteSize \in Nat /\ MaxWriteSize <= Max16
<1>1. Base > 10 /\ Base \in Nat /\ Max8 = Base - 1 /\ Max8 >= 10
  BY BaseAssumption DEF Max8
<1>2. \A x \in Nat : x > 10 => x * Base \in Nat /\ x * Base > 10
  BY <1>1
<1>3. Base * Base \in Nat /\ Base * Base > 10
  BY <1>1, <1>2
<1>4. Base * Base * Base \in Nat /\ Base * Base * Base > 10
  BY <1>2, <1>3
<1>5. Base * Base * Base * Base \in Nat /\ Base * Base * Base * Base > 10
  BY <1>2, <1>4
<1> QED BY <1>1, <1>3, <1>5 DEF Max16, Max32, MaxWriteSize

(* A parser rejects a frame of a data type that is not its own.            *)
LEMMA OtherType ==
  ASSUME NEW r, NEW t, NEW types, Has(r, "type", t), t \notin {DataType(x) : x \in types}
  PROVE  ~Typed(r, types).ok
<1>1. CASE r.ok
  <2>1. Typed(r, types) = Stop(r)
    BY <1>1 DEF Typed, Has
  <2> QED BY <2>1, Readers
<1>2. CASE ~r.ok
  BY <1>2 DEF Typed
<1> QED BY <1>1, <1>2

(* The two bytes of a data type of a request.                              *)
LEMMA TypeDigits ==
  ASSUME NEW t \in 0 .. 3
  PROVE  /\ Digits(t, 2) \in Seq(Byte) /\ Len(Digits(t, 2)) = 2 /\ Digits(t, 2)[2] = 0
         /\ Number(Digits(t, 2)) = t
<1>1. t \in Int /\ t \in U(2) /\ 2 \in Nat
  BY SmallTypes DEF U
<1>2. Digits(t, 2) \in Seq(Byte) /\ Len(Digits(t, 2)) = 2
  BY <1>1, NumberOfDigits
<1>3. PICK rest : /\ rest[0] = t /\ \A k \in 1 .. 2 : rest[k] = rest[k - 1] \div Base
                  /\ Digits(t, 2) = [k \in 1 .. 2 |-> rest[k - 1] % Base]
  <2>1. ASSUME NEW n \in Nat, n = 2
        PROVE  \E rest : /\ rest[0] = t /\ \A k \in 1 .. n : rest[k] = rest[k - 1] \div Base
                         /\ Digits(t, n) = [k \in 1 .. n |-> rest[k - 1] % Base]
    BY DigitsUnfold
  <2> QED BY <2>1
<1>4. ASSUME NEW v \in 0 .. 3 PROVE v \div Base = 0
  <2>1. v \in 0 .. Base * 1 - 1
    BY SmallTypes
  <2> QED BY <2>1, DivShrinks
<1>5. 0 % Base = 0
  <2>1. 0 \div Base = 0
    BY <1>4
  <2>2. 0 % Base \in Nat /\ 0 = (0 % Base) + Base * (0 \div Base)
    BY DivBase, SmallTypes DEF Byte
  <2> QED BY <2>1, <2>2, SmallTypes
<1>6. rest[1] = 0
  BY <1>3, <1>4
<1>7. Digits(t, 2)[2] = 0
  BY <1>3, <1>5, <1>6
<1> QED BY <1>1, <1>2, <1>7, NumberBack

(* Of the parsers of a request, each takes only the frames of its data     *)
(* type; and a frame one of them takes is classified as part of a request  *)
(* (mock frame.go, classify).                                              *)
LEMMA OwnParser ==
  ASSUME NEW b \in Seq(Byte), NEW t \in 0 .. 3, Stands(b, 0, Digits(t, 2))
  PROVE  /\ t # 0 => ~ParseRequestStart(b).ok
         /\ t # 3 => ~ParseRequestEnd(b).ok
         /\ t # 1 => ~ParseHeaderBulk(b).ok
         /\ t # 2 => ~ParseBodyChunk(b).ok
         /\ \/ ParseRequestStart(b).ok \/ ParseRequestEnd(b).ok
            \/ ParseHeaderBulk(b).ok \/ ParseBodyChunk(b).ok
            => classify(b, 2) = "request"
<1>1. t \in 0 .. Max16
  BY SmallTypes
<1>2. /\ Has(Parse(RequestStart, b), "type", t) /\ Has(Parse(Session, b), "type", t)
      /\ Has(Parse(Part, b), "type", t) /\ Has(Parse(BodyChunk, b), "type", t)
  BY <1>1, TypeRead, FrameLayouts
<1>3. t # 0 => ~ParseRequestStart(b).ok
  <2>1. t # 0 => t \notin {DataType(x) : x \in {"RequestStart"}}
    BY DataTypeNumbers
  <2> QED BY <1>2, <2>1, OtherType DEF ParseRequestStart
<1>4. t # 3 => ~ParseRequestEnd(b).ok
  <2>1. t # 3 => t \notin {DataType(x) : x \in {"RequestEnd", "ResponseEnd"}}
    BY DataTypeNumbers
  <2> QED BY <1>2, <2>1, OtherType DEF ParseRequestEnd
<1>5. t # 2 => ~ParseBodyChunk(b).ok
  <2>1. t # 2 => t \notin {DataType(x) : x \in {"RequestBody", "ResponseBody"}}
    BY DataTypeNumbers
  <2> QED BY <1>2, <2>1, OtherType DEF ParseBodyChunk
<1>6. t # 1 => ~ParseHeaderBulk(b).ok
  <2>1. t # 1 => t \notin {DataType(x) : x \in {"RequestHeader", "ResponseHeader"}}
    BY DataTypeNumbers
  <2>2. t # 1 => ~Typed(Parse(Part, b), {"RequestHeader", "ResponseHeader"}).ok
    BY <1>2, <2>1, OtherType
  <2> DEFINE r == Typed(Parse(Part, b), {"RequestHeader", "ResponseHeader"})
  <2> HIDE DEF r
  <2>3. ~r.ok => ReadMany(Header, b, r, "headers", ToEnd) = r
    BY DEF ReadMany
  <2> QED BY <2>2, <2>3 DEF ParseHeaderBulk, r
<1>7. Len(b) >= 2 /\ SubSeq(b, 1, 2) = Digits(t, 2) /\ b[2] = 0
  <2> DEFINE d == Digits(t, 2)
  <2>1. d \in Seq(Byte) /\ Len(d) = 2 /\ d[2] = 0
    BY TypeDigits
  <2> HIDE DEF d
  <2>2. Stands(b, 0, d)
    BY DEF d
  <2>3. Len(b) \in Nat /\ Len(b) >= 2 /\ b[1] = d[1] /\ b[2] = d[2]
    BY <2>1, <2>2 DEF Stands
  <2>4. SubSeq(b, 1, 2) = d
    BY <2>1, <2>3
  <2> QED BY <2>1, <2>3, <2>4 DEF d
<1>8. ~isResponseFrame(b)
  <2>1. Number(SubSeq(b, 1, 2)) = t
    BY <1>7, TypeDigits
  <2> QED BY <2>1, DataTypeNumbers DEF isResponseFrame
<1>9. \/ ParseRequestStart(b).ok \/ ParseRequestEnd(b).ok
      \/ ParseHeaderBulk(b).ok \/ ParseBodyChunk(b).ok
      => classify(b, 2) = "request"
  BY <1>7, <1>8, Zenon DEF classify, parseRequest
<1> QED BY <1>3, <1>4, <1>5, <1>6, <1>9, Zenon

(* A layout of texts, numbers and flags, each a field of the message.      *)
Plain(layout) ==
  /\ IsLayout(layout)
  /\ \A i \in 1 .. Len(layout) :
       /\ layout[i].of = layout[i].name
       /\ layout[i].type \in {"u8", "u16", "u32", "flag", "port", "str", "rest"}
       /\ layout[i].type = "rest" => i = Len(layout)

(* The layouts of a request are plain; all but the body chunk have a known *)
(* size.                                                                   *)
LEMMA PlainLayouts ==
  /\ Plain(Session) /\ Plain(Part) /\ Plain(BodyChunk) /\ Plain(RequestStart) /\ Plain(Header)
  /\ Sized(Session) /\ Sized(Part) /\ Sized(RequestStart) /\ Sized(Header)
<1>1. Plain(Session) /\ Sized(Session)
  BY SessionLayout, FrameLayouts DEF Plain, Sized, Led, U16, U32, Field
<1>2. Plain(Part) /\ Sized(Part)
  BY PartLayout, FrameLayouts DEF Plain, Sized, Led, U8, U16, U32, Field
<1>3. Plain(BodyChunk)
  BY ChunkLayout, FrameLayouts DEF Plain, Led, U8, U16, U32, Rest, Field
<1>4. Plain(RequestStart) /\ Sized(RequestStart)
  BY StartLayout, FrameLayouts, SMTT(30) DEF Plain, Sized, Led, U16, U32, Str, Field
<1>5. Plain(Header) /\ Sized(Header)
  BY HeaderLayout, FrameLayouts DEF Plain, Sized, Str, Field
<1> QED BY <1>1, <1>2, <1>3, <1>4, <1>5

(* Reading a layout from o on gives every field of message m, and no       *)
(* other.                                                                  *)
Back(layout, m, b, o, out) ==
  /\ Read(layout, b, At(o, << >>)) = At(o + Len(Encode(layout, m)), out)
  /\ IsMap(out) /\ DOMAIN out = Names(layout)
  /\ \A i \in 1 .. Len(layout) : out[layout[i].name] = m[layout[i].name]

(* A message that fits a plain layout is read back whole.                  *)
LEMMA PlainBack ==
  ASSUME NEW layout, Plain(layout), NEW m, \A i \in 1 .. Len(layout) : FieldFits(layout[i], m),
         NEW b \in Seq(Byte), NEW o \in Nat, Stands(b, o, Encode(layout, m)),
         Sized(layout) \/ Len(b) = o + Len(Encode(layout, m))
  PROVE  \E out : Back(layout, m, b, o, out)
<1>1. IsLayout(layout) /\ Writable(layout, m)
  BY DEF Plain, Writable, FieldFits
<1>2. \A i \in 1 .. Len(layout) : SizeKnown(layout, i, m, << >>)
  BY DEF SizeKnown, Plain
<1>3. PICK out : Gives(layout, m, b, o, << >>, out)
  BY <1>1, <1>2, ReadBack
<1>4. Read(layout, b, At(o, << >>)) = At(o + Len(Encode(layout, m)), out)
  BY <1>3 DEF Gives
<1>5. ASSUME NEW i \in 1 .. Len(layout)
      PROVE  /\ layout[i].name \in DOMAIN out
             /\ out[layout[i].name] = m[layout[i].name]
  <2>1. layout[i].type \notin Wide /\ Value(layout[i], m) = m[layout[i].name]
    BY DEF Plain, Wide, Value
  <2> QED BY <1>3, <2>1 DEF Gives
<1>6. IsMap(out)
  <2>1. IsMap(<< >>)
    BY DEF IsMap
  <2> QED BY <1>3, <2>1 DEF Gives
<1>7. DOMAIN out = Names(layout)
  <2>1. DOMAIN << >> = {}
    OBVIOUS
  <2>2. DOMAIN out \subseteq Names(layout)
    BY <1>3, <2>1 DEF Gives, Names
  <2>3. Names(layout) \subseteq DOMAIN out
    BY <1>5 DEF Names
  <2> QED BY <2>2, <2>3
<1> QED BY <1>4, <1>5, <1>6, <1>7 DEF Back

(* A frame begins with the data type of its message.                       *)
LEMMA FrameLed ==
  ASSUME NEW layout, Led(layout), NEW m, \A i \in 1 .. Len(layout) : Holds(layout[i], m),
         NEW b \in Seq(Byte), Stands(b, 0, Encode(layout, m))
  PROVE  Stands(b, 0, Digits(m.type, 2))
<1>1. PICK at \in [0 .. Len(layout) -> Nat] :
        /\ at[0] = 0
        /\ \A i \in 1 .. Len(layout) : Stands(b, at[i - 1], Put(layout[i], m))
  <2>1. 0 \in Nat
    OBVIOUS
  <2> QED BY <2>1, EncodeTyped DEF Led
<1>2. 1 \in 1 .. Len(layout) /\ 1 - 1 = 0
  BY DEF Led, IsLayout
<1>3. Put(layout[1], m) = Digits(m.type, 2)
  <2>1. layout[1].type = "u16" /\ layout[1].name = "type" /\ layout[1].of = "type"
    BY DEF Led, U16, Field
  <2> QED BY <2>1 DEF Put, Width
<1> QED BY <1>1, <1>2, <1>3

(* No text is longer than the frame it is in.                              *)
LEMMA TextInside ==
  ASSUME NEW layout, IsLayout(layout), NEW m, \A i \in 1 .. Len(layout) : Holds(layout[i], m),
         NEW b \in Seq(Byte), NEW o \in Nat, Stands(b, o, Encode(layout, m)),
         NEW i \in 1 .. Len(layout), layout[i].type = "str"
  PROVE  Len(m[layout[i].name]) <= Len(b)
<1>1. PICK at \in [0 .. Len(layout) -> Nat] :
        \A j \in 1 .. Len(layout) : Stands(b, at[j - 1], Put(layout[j], m))
  BY EncodeTyped
<1> DEFINE f == layout[i]
           v == m[f.name]
<1>2. f.of = f.name /\ v \in Seq(Byte)
  BY DEF Holds, Value
<1>3. Put(f, m) = Digits(Len(v), 2) \o v
  <2>1. Width["str"] = 2
    BY DEF Width
  <2>2. f.type = "str"
    OBVIOUS
  <2> HIDE DEF f
  <2> QED BY <1>2, <2>1, <2>2 DEF Put
<1>4. Digits(Len(v), 2) \in Seq(Byte) /\ Len(Digits(Len(v), 2)) = 2
  <2>1. Len(v) \in Int /\ 2 \in Nat
    BY <1>2
  <2> HIDE DEF v
  <2> QED BY <2>1, NumberOfDigits
<1> DEFINE d == Digits(Len(v), 2)
           p == at[i - 1]
<1>5. p \in Nat
  BY <1>1 DEF IsLayout
<1>6. Stands(b, p, Put(f, m))
  BY <1>1
<1> HIDE DEF d, p, v, f
<1>7. Stands(b, p, d \o v)
  BY <1>3, <1>6 DEF d
<1>8. d \in Seq(Byte) /\ Len(d) = 2
  BY <1>4 DEF d
<1>9. Stands(b, p + 2, v)
  BY <1>2, <1>5, <1>7, <1>8, StandsParts
<1>10. Len(v) <= Len(b)
  BY <1>2, <1>5, <1>9 DEF Stands
<1> QED BY <1>10 DEF v, f

(* When a text, a number or a flag can be written, and when it fits.       *)
LEMMA FieldCases ==
  ASSUME NEW m, NEW name
  PROVE  /\ m[name] \in Seq(Byte) => Holds(Str(name), m)
         /\ m[name] \in Seq(Byte) /\ Len(m[name]) <= Max16 => FieldFits(Str(name), m)
         /\ m[name] \in Seq(Byte) => FieldFits(Rest(name), m)
         /\ m[name] \in 0 .. Max16 => FieldFits(Field(name, "port"), m)
         /\ m[name] \in 0 .. Max16 => FieldFits(U16(name), m)
         /\ m[name] \in 0 .. 10 => FieldFits(U32(name), m) /\ FieldFits(U8(name), m)
         /\ m[name] \in BOOLEAN => FieldFits(Field(name, "flag"), m)
<1> DEFINE F(type) == [name |-> name, type |-> type, of |-> name]
<1>1. /\ Str(name) = F("str") /\ Rest(name) = F("rest") /\ Field(name, "port") = F("port")
      /\ U16(name) = F("u16") /\ U32(name) = F("u32") /\ U8(name) = F("u8")
      /\ Field(name, "flag") = F("flag")
  BY DEF Str, Rest, U16, U32, U8, Field
<1>2. ASSUME NEW type
      PROVE  /\ F(type).type = type /\ F(type).name = name /\ F(type).of = name
             /\ Value(F(type), m) = m[name]
  BY DEF Value
<1>3. /\ Width["str"] = 2 /\ Width["port"] = 2 /\ Width["u16"] = 2 /\ Width["u32"] = 4
      /\ Width["u8"] = 1 /\ U(1) = 0 .. Max8 /\ U(2) = 0 .. Max16 /\ U(4) = 0 .. Max32
  BY DEF Width, U
<1> HIDE DEF F
<1>4. m[name] \in Seq(Byte) => Holds(F("str"), m) /\ Holds(F("rest"), m)
  BY <1>2 DEF Holds, FieldTypes
<1>5. m[name] \in Int => /\ Holds(F("port"), m) /\ Holds(F("u16"), m) /\ Holds(F("u32"), m)
                         /\ Holds(F("u8"), m)
  BY <1>2 DEF Holds, FieldTypes
<1>7. m[name] \in Seq(Byte) /\ Len(m[name]) <= Max16 => FieldFits(F("str"), m)
  <2>1. m[name] \in Seq(Byte) /\ Len(m[name]) <= Max16 => Len(m[name]) \in 0 .. Max16
    OBVIOUS
  <2> QED BY <1>2, <1>3, <1>4, <2>1 DEF FieldFits
<1>8. m[name] \in Seq(Byte) => FieldFits(F("rest"), m)
  BY <1>2, <1>4 DEF FieldFits
<1>9. m[name] \in 0 .. Max16 => FieldFits(F("port"), m) /\ FieldFits(F("u16"), m)
  <2>1. m[name] \in 0 .. Max16 => m[name] \in Int
    BY SmallTypes
  <2> QED BY <1>2, <1>3, <1>5, <2>1 DEF FieldFits
<1>10. m[name] \in 0 .. 10 => FieldFits(F("u32"), m) /\ FieldFits(F("u8"), m)
  <2>1. m[name] \in 0 .. 10 => /\ m[name] \in Int /\ m[name] \in 0 .. Max32
                               /\ m[name] \in 0 .. Max8
    BY SmallTypes
  <2>2. m[name] \in 0 .. 10 => FieldFits(F("u32"), m)
    <3> SUFFICES ASSUME m[name] \in 0 .. 10 PROVE FieldFits(F("u32"), m)
      OBVIOUS
    <3>1. F("u32").type = "u32" /\ Value(F("u32"), m) = m[name]
      BY <1>2
    <3>2. Value(F("u32"), m) \in U(Width[F("u32").type]) /\ Holds(F("u32"), m)
      BY <1>3, <1>5, <2>1, <3>1
    <3> QED BY <3>1, <3>2 DEF FieldFits
  <2>3. m[name] \in 0 .. 10 => FieldFits(F("u8"), m)
    BY <1>2, <1>3, <1>5, <2>1 DEF FieldFits
  <2> QED BY <2>2, <2>3
<1>11. m[name] \in BOOLEAN => FieldFits(F("flag"), m)
  BY FitsCases DEF F
<1> QED BY <1>1, <1>4, <1>7, <1>8, <1>9, <1>10, <1>11

(* The texts of a RequestStart.                                            *)
StartTexts == {"proto", "method", "host", "listeningIP", "uri", "clientIP", "parsedHost",
               "parsedURI", "wafTag"}

(* What the addresses of a request are split into (handler.go,             *)
(* splitHostPort).                                                         *)
LEMMA AddressTyped ==
  ASSUME NEW r, IsRequest(r)
  PROVE  /\ splitHostPort(r.host).host \in Text
         /\ Len(splitHostPort(r.host).host) <= Len(r.host.text)
         /\ splitHostPort(r.host).port \in 0 .. Max16
         /\ remoteIP(r) \in Text /\ remoteIP(r) # << >> /\ remotePort(r) \in 0 .. Max16
         /\ localIP(r) \in Text /\ localIP(r) # << >>
<1>1. IsAddress(r.host) /\ IsAddress(r.local) /\ IsAddress(r.remote)
  BY DEF IsRequest
<1>2. ASSUME NEW a, IsAddress(a)
      PROVE  /\ splitHostPort(a).host \in Text /\ splitHostPort(a).port \in 0 .. Max16
             /\ Len(splitHostPort(a).host) <= Len(a.text)
             /\ splitHostPort(a).host = (IF a.form = "noport" THEN a.text ELSE a.host)
  <2>1. splitHostPort(a).host = IF a.form = "noport" THEN a.text ELSE a.host
    BY DEF splitHostPort
  <2>2. splitHostPort(a).port = IF a.form = "hostport" THEN a.port ELSE 0
    BY DEF splitHostPort
  <2>3. Len(a.text) \in Nat
    BY <1>2 DEF IsAddress, Text
  <2> QED BY <1>2, <2>1, <2>2, <2>3, SmallTypes DEF IsAddress
<1>3. /\ Loopback \in Text /\ Loopback # << >> /\ AnyAddress \in Text /\ AnyAddress # << >>
  <2>1. 1 \in 0 .. Max8 /\ 2 \in 0 .. Max8 /\ 7 \in 0 .. Max8 /\ 0 \in 0 .. Max8
    BY SmallTypes
  <2> QED BY <2>1 DEF Loopback, AnyAddress, Text
<1>4. remoteIP(r) \in Text /\ remoteIP(r) # << >>
  <2>1. r.remote.form # "noport" => r.remote.host # << >>
    BY DEF IsRequest
  <2> QED BY <1>1, <1>2, <1>3, <2>1 DEF remoteIP
<1>5. localIP(r) \in Text /\ localIP(r) # << >>
  <2>1. r.local.form # "noport" => r.local.host # << >> /\ r.local.host \in Text
    BY <1>1 DEF IsRequest, IsAddress
  <2> QED BY <1>3, <1>4, <2>1 DEF localIP
<1> QED BY <1>1, <1>2, <1>4, <1>5 DEF remotePort

(* The fields of the start of a request, and that they fit if the request  *)
(* does.                                                                   *)
LEMMA StartTyped ==
  ASSUME NEW r, IsRequest(r)
  PROVE  LET m == requestStart(r)
         IN  /\ \A x \in StartTexts : m[x] \in Seq(Byte)
             /\ m["type"] = 0 /\ m["sid"] = Sid
             /\ m["listeningPort"] \in 0 .. Max16 /\ m["clientPort"] \in 0 .. Max16
             /\ RequestFits(r) => \A x \in StartTexts : Len(m[x]) <= Max16
             /\ IsMap(m)
             /\ DOMAIN m = StartTexts \cup {"type", "sid", "listeningPort", "clientPort"}
<1> DEFINE m == requestStart(r)
<1>1. /\ m["type"] = 0 /\ m["sid"] = Sid /\ m["proto"] = r.proto /\ m["method"] = r.method
      /\ m["host"] = splitHostPort(r.host).host /\ m["listeningIP"] = localIP(r)
      /\ m["listeningPort"] = splitHostPort(r.host).port /\ m["uri"] = r.uri
      /\ m["clientIP"] = remoteIP(r) /\ m["clientPort"] = remotePort(r)
      /\ m["parsedHost"] = splitHostPort(r.host).host /\ m["parsedURI"] = r.parsedURI
      /\ m["wafTag"] = << >>
  BY DataTypeNumbers DEF requestStart
<1>2. IsMap(m) /\ DOMAIN m = StartTexts \cup {"type", "sid", "listeningPort", "clientPort"}
  BY DEF IsMap, requestStart, StartTexts
<1> HIDE DEF m
<1>3. Text = Seq(Byte)
  BY DEF Text, Byte
<1>4. r.proto \in Text /\ r.method \in Text /\ r.uri \in Text /\ r.parsedURI \in Text
  BY DEF IsRequest
<1>5. << >> \in Text /\ Len(<< >>) = 0
  BY DEF Text
<1>6. \A x \in StartTexts : m[x] \in Seq(Byte)
  BY <1>1, <1>3, <1>4, <1>5, AddressTyped DEF StartTexts
<1>7. ASSUME RequestFits(r) PROVE \A x \in StartTexts : Len(m[x]) <= Max16
  <2>1. /\ Len(r.proto) <= Max16 /\ Len(r.method) <= Max16 /\ Len(r.uri) <= Max16
        /\ Len(r.parsedURI) <= Max16 /\ Len(r.host.text) <= Max16
        /\ Len(localIP(r)) <= Max16 /\ Len(remoteIP(r)) <= Max16
    BY <1>7 DEF RequestFits
  <2>2. Len(splitHostPort(r.host).host) <= Max16
    <3>1. /\ Len(splitHostPort(r.host).host) <= Len(r.host.text)
          /\ splitHostPort(r.host).host \in Text /\ r.host.text \in Text
      BY AddressTyped DEF IsRequest, IsAddress
    <3>2. Len(splitHostPort(r.host).host) \in Nat /\ Len(r.host.text) \in Nat
      BY <3>1 DEF Text
    <3> QED BY <2>1, <3>1, <3>2, SmallTypes
  <2> QED BY <1>1, <1>5, <2>1, <2>2, SmallTypes DEF StartTexts
<1> QED BY <1>1, <1>2, <1>6, <1>7, AddressTyped DEF m

(* The start of a request can be written.                                  *)
LEMMA StartHolds ==
  ASSUME NEW r, IsRequest(r)
  PROVE  \A i \in 1 .. Len(RequestStart) : Holds(RequestStart[i], requestStart(r))
<1> DEFINE m == requestStart(r)
           L == RequestStart
<1>1. \A i \in 1 .. 13 : Holds(L[i], m)
  <2>1. \A x \in StartTexts : Holds(Str(x), m)
    BY StartTyped, FieldCases
  <2>2. Holds(Field("listeningPort", "port"), m) /\ Holds(Field("clientPort", "port"), m)
    BY StartTyped, FieldCases DEF FieldFits
  <2>3. Holds(U16("type"), m) /\ Holds(U32("sid"), m)
    <3>1. m["type"] \in 0 .. Max16 /\ m["sid"] \in 0 .. 10
      BY StartTyped, SmallTypes DEF Sid
    <3> HIDE DEF m
    <3> QED BY <3>1, FieldCases DEF FieldFits
  <2> HIDE DEF m, L
  <2> QED BY <2>1, <2>2, <2>3, StartLayout DEF StartTexts, L
<1>2. Len(L) = 13
  BY StartLayout
<1> QED BY <1>1, <1>2

(* It fits if the request does, or if the frame fits the ring.             *)
LEMMA StartFits ==
  ASSUME NEW r, IsRequest(r),
         RequestFits(r) \/ Len(Encode(RequestStart, requestStart(r))) <= Max16
  PROVE  \A i \in 1 .. Len(RequestStart) : FieldFits(RequestStart[i], requestStart(r))
<1> DEFINE m == requestStart(r)
           L == RequestStart
<1>1. \A i \in 1 .. 13 : Holds(L[i], m)
  BY StartHolds, StartLayout
<1>2. Len(L) = 13 /\ IsLayout(L)
  BY StartLayout, FrameLayouts DEF Led
<1>3. \A x \in StartTexts : Len(m[x]) <= Max16
  <2>1. CASE RequestFits(r)
    BY <2>1, StartTyped
  <2>2. CASE Len(Encode(L, m)) <= Max16
    <3> DEFINE b == Encode(L, m)
    <3>1. b \in Seq(Byte)
      BY <1>1, <1>2, EncodeTyped
    <3>2. Stands(b, 0, b)
      BY <3>1, StandsWhole
    <3>3. ASSUME NEW i \in 1 .. 13, L[i].type = "str" PROVE Len(m[L[i].name]) <= Len(b)
      <4>1. 0 \in Nat /\ i \in 1 .. Len(L) /\ \A j \in 1 .. Len(L) : Holds(L[j], m)
        BY <1>1, <1>2
      <4> HIDE DEF L, m
      <4> QED BY <1>2, <3>1, <3>2, <3>3, <4>1, TextInside
    <3>4. \A x \in StartTexts : \E i \in 1 .. 13 : L[i] = Str(x)
      BY StartLayout DEF StartTexts
    <3>5. \A x \in StartTexts : Len(m[x]) <= Len(b) /\ Len(m[x]) \in Nat
      <4>1. \A x : Str(x).name = x /\ Str(x).type = "str"
        BY DEF Str, Field
      <4>2. \A x \in StartTexts : m[x] \in Seq(Byte)
        BY StartTyped
      <4> HIDE DEF m, L, b
      <4> TAKE x \in StartTexts
      <4>3. PICK i \in 1 .. 13 : L[i] = Str(x)
        BY <3>4
      <4>4. L[i].type = "str" /\ L[i].name = x
        BY <4>1, <4>3
      <4>5. Len(m[x]) <= Len(b)
        BY <3>3, <4>4
      <4> QED BY <4>2, <4>5
    <3>6. Len(b) \in Nat /\ Len(b) <= Max16
      BY <2>2, <3>1
    <3> HIDE DEF b, m
    <3> QED BY <3>5, <3>6, SmallTypes
  <2> QED BY <2>1, <2>2
<1>4. \A x \in StartTexts : FieldFits(Str(x), m)
  BY <1>3, StartTyped, FieldCases
<1>5. FieldFits(Field("listeningPort", "port"), m) /\ FieldFits(Field("clientPort", "port"), m)
  BY StartTyped, FieldCases
<1>6. FieldFits(U16("type"), m) /\ FieldFits(U32("sid"), m)
  <2>1. m["type"] \in 0 .. Max16 /\ m["sid"] \in 0 .. 10
    BY StartTyped, SmallTypes DEF Sid
  <2> HIDE DEF m
  <2> QED BY <2>1, FieldCases
<1> HIDE DEF m, L
<1>7. \A i \in 1 .. 13 : FieldFits(L[i], m)
  BY <1>4, <1>5, <1>6, StartLayout DEF StartTexts, L
<1> QED BY <1>2, <1>7 DEF m, L

(* A frame that begins with data type t.                                   *)
IsFrame(b, t) == b \in Seq(Byte) /\ Stands(b, 0, Digits(t, 2))

(* Two functions with the same domain and values are the same.             *)
LEMMA SameMaps ==
  ASSUME NEW f, NEW g, IsMap(f), IsMap(g), DOMAIN f = DOMAIN g, \A x \in DOMAIN f : f[x] = g[x]
  PROVE  f = g
BY DEF IsMap

(* A message that fits makes a frame of its data type, and is read back    *)
(* from it.                                                                *)
LEMMA WholeFrame ==
  ASSUME NEW layout, Led(layout), Plain(layout), NEW m,
         \A i \in 1 .. Len(layout) : FieldFits(layout[i], m)
  PROVE  /\ IsFrame(Encode(layout, m), m.type)
         /\ \E out : Back(layout, m, Encode(layout, m), 0, out)
<1> DEFINE b == Encode(layout, m)
<1>1. \A i \in 1 .. Len(layout) : Holds(layout[i], m)
  BY DEF FieldFits
<1>2. b \in Seq(Byte)
  BY <1>1, EncodeTyped DEF Plain
<1>3. Stands(b, 0, b) /\ Len(b) = 0 + Len(b) /\ 0 \in Nat
  BY <1>2, StandsWhole
<1>4. Stands(b, 0, Digits(m.type, 2))
  BY <1>1, <1>2, <1>3, FrameLed
<1>5. \E out : Back(layout, m, b, 0, out)
  BY <1>2, <1>3, PlainBack
<1> QED BY <1>2, <1>4, <1>5 DEF IsFrame

(* ParseRequestStart gives back what SendRequest told it.                  *)
LEMMA StartHeard ==
  ASSUME NEW r, IsRequest(r),
         RequestFits(r) \/ Len(Encode(RequestStart, requestStart(r))) <= Max16
  PROVE  LET b == Encode(RequestStart, requestStart(r))
         IN  /\ IsFrame(b, 0) /\ ParseRequestStart(b).ok
             /\ ParseRequestStart(b).msg = requestStart(r)
<1> DEFINE m == requestStart(r)
           L == RequestStart
           b == Encode(L, m)
<1>1. m.type = 0
  BY StartTyped
<1>2. IsFrame(b, 0) /\ \E out : Back(L, m, b, 0, out)
  <2>1. \A i \in 1 .. Len(L) : FieldFits(L[i], m)
    BY StartFits
  <2>2. Led(L) /\ Plain(L)
    BY FrameLayouts, PlainLayouts
  <2> HIDE DEF m, L
  <2>3. IsFrame(b, m.type) /\ \E out : Back(L, m, b, 0, out)
    BY <2>1, <2>2, WholeFrame
  <2> QED BY <1>1, <2>3
<1>3. PICK out : Back(L, m, b, 0, out)
  BY <1>2
<1>4. Names(L) = StartTexts \cup {"type", "sid", "listeningPort", "clientPort"}
  <2>1. Names(L) = {L[i].name : i \in 1 .. 13}
    BY StartLayout DEF Names
  <2>2. \A name : Str(name).name = name /\ U16(name).name = name /\ U32(name).name = name
                  /\ Field(name, "port").name = name
    BY DEF Str, U16, U32, Field
  <2> DEFINE N == StartTexts \cup {"type", "sid", "listeningPort", "clientPort"}
  <2>3. \A i \in 1 .. 13 : L[i].name \in N
    BY <2>2, StartLayout DEF StartTexts
  <2>4. \A x \in N : \E i \in 1 .. 13 : x = L[i].name
    BY <2>2, StartLayout DEF StartTexts
  <2> HIDE DEF L, N
  <2>5. Names(L) = N
    BY <2>1, <2>3, <2>4
  <2> QED BY <2>5 DEF N
<1>5. out = m
  <2>1. IsMap(out) /\ IsMap(m) /\ DOMAIN out = DOMAIN m
    BY <1>3, <1>4, StartTyped DEF Back
  <2>2. \A x \in DOMAIN out : out[x] = m[x]
    <3>1. \A x \in Names(L) : \E i \in 1 .. Len(L) : x = L[i].name
      BY DEF Names
    <3> HIDE DEF L, m, b
    <3> QED BY <1>3, <3>1 DEF Back
  <2> HIDE DEF m
  <2> QED BY <2>1, <2>2, SameMaps
<1>6. Parse(L, b).ok /\ Parse(L, b).msg = m
  <2>1. Parse(L, b) = At(0 + Len(b), m)
    BY <1>3, <1>5 DEF Back, Parse, Start
  <2> QED BY <2>1, Readers
<1>7. ParseRequestStart(b) = Parse(L, b)
  <2>1. m.type \in {DataType(t) : t \in {"RequestStart"}}
    BY <1>1, DataTypeNumbers
  <2> QED BY <1>6, <2>1 DEF ParseRequestStart, Typed
<1> QED BY <1>2, <1>6, <1>7

(* ParseRequestEnd takes the end of a request.                             *)
LEMMA EndHeard ==
  LET m == [type |-> DataType("RequestEnd"), sid |-> Sid]
      b == Encode(Session, m)
  IN  IsFrame(b, 3) /\ ParseRequestEnd(b).ok
<1> DEFINE m == [type |-> DataType("RequestEnd"), sid |-> Sid]
           L == Session
           b == Encode(L, m)
<1>1. m["type"] = 3 /\ m["sid"] = 3
  BY DataTypeNumbers DEF Sid
<1>2. Led(L) /\ Plain(L) /\ Len(L) = 2 /\ L[1] = U16("type") /\ L[2] = U32("sid")
  BY FrameLayouts, PlainLayouts, SessionLayout
<1> HIDE DEF m, L
<1>3. FieldFits(U16("type"), m) /\ FieldFits(U32("sid"), m)
  BY <1>1, FieldCases, SmallTypes
<1>4. \A i \in 1 .. Len(L) : FieldFits(L[i], m)
  BY <1>2, <1>3
<1>5. IsFrame(b, 3) /\ \E out : Back(L, m, b, 0, out)
  BY <1>1, <1>2, <1>4, WholeFrame
<1>6. PICK out : Back(L, m, b, 0, out)
  BY <1>5
<1>7. out["type"] = 3
  <2>1. 1 \in 1 .. Len(L) /\ L[1].name = "type"
    BY <1>2 DEF U16, Field
  <2> QED BY <1>1, <1>6, <2>1 DEF Back
<1>8. Parse(L, b).ok /\ Parse(L, b).msg = out
  BY <1>6, Readers DEF Back, Parse, Start
<1>9. ParseRequestEnd(b) = Parse(L, b)
  <2>1. out.type \in {DataType(t) : t \in {"RequestEnd", "ResponseEnd"}}
    BY <1>7, DataTypeNumbers
  <2> QED BY <1>8, <2>1 DEF ParseRequestEnd, Typed, L
<1> QED BY <1>5, <1>8, <1>9 DEF m, L

(* ParseBodyChunk gives back the body.                                     *)
LEMMA BodyHeard ==
  ASSUME NEW data \in Seq(Byte)
  PROVE  LET b == Encode(BodyChunk, bodyChunk(data))
         IN  IsFrame(b, 2) /\ ParseBodyChunk(b).ok /\ ParseBodyChunk(b).msg.data = data
<1> DEFINE m == bodyChunk(data)
           L == BodyChunk
           b == Encode(L, m)
<1>1. m["type"] = 2 /\ m["sid"] = 3 /\ m["last"] = TRUE /\ m["part"] = 0 /\ m["data"] = data
  BY DataTypeNumbers DEF Sid, bodyChunk
<1>2. /\ Led(L) /\ Plain(L) /\ Len(L) = 5 /\ L[1] = U16("type") /\ L[2] = U32("sid")
      /\ L[3] = Field("last", "flag") /\ L[4] = U8("part") /\ L[5] = Rest("data")
  BY FrameLayouts, PlainLayouts, ChunkLayout
<1> HIDE DEF m, L
<1>3. /\ FieldFits(U16("type"), m) /\ FieldFits(U32("sid"), m) /\ FieldFits(U8("part"), m)
      /\ FieldFits(Field("last", "flag"), m) /\ FieldFits(Rest("data"), m)
  <2>1. m["last"] \in BOOLEAN
    BY <1>1
  <2>2. FieldFits(Field("last", "flag"), m)
    BY <2>1, FieldCases, Zenon
  <2> QED BY <1>1, <2>2, FieldCases, SmallTypes
<1>4. \A i \in 1 .. Len(L) : FieldFits(L[i], m)
  BY <1>2, <1>3
<1>5. IsFrame(b, 2) /\ \E out : Back(L, m, b, 0, out)
  BY <1>1, <1>2, <1>4, WholeFrame
<1>6. PICK out : Back(L, m, b, 0, out)
  BY <1>5
<1>7. out["type"] = 2 /\ out["data"] = data
  <2>1. /\ 1 \in 1 .. Len(L) /\ L[1].name = "type"
        /\ 5 \in 1 .. Len(L) /\ L[5].name = "data"
    BY <1>2 DEF U16, Rest, Field
  <2> QED BY <1>1, <1>6, <2>1 DEF Back
<1>8. Parse(L, b).ok /\ Parse(L, b).msg = out
  BY <1>6, Readers DEF Back, Parse, Start
<1>9. ParseBodyChunk(b) = Parse(L, b)
  <2>1. out.type \in {DataType(t) : t \in {"RequestBody", "ResponseBody"}}
    BY <1>7, DataTypeNumbers
  <2> QED BY <1>8, <2>1 DEF ParseBodyChunk, Typed, L
<1> QED BY <1>5, <1>7, <1>8, <1>9 DEF m, L

-----------------------------------------------------------------------------
(* The headers of a request go out in one bulk.                            *)

(* Headers as they are sent: a key and a value.                            *)
HeaderRecords == [key : Text, value : Text]

(* A text takes at least the two bytes of its length.                      *)
LEMMA TextWidth ==
  ASSUME NEW f, NEW m, Holds(f, m), f.type = "str"
  PROVE  Len(Put(f, m)) \in Nat /\ Len(Put(f, m)) >= 2
<1> DEFINE v == m[f.name]
           d == Digits(Len(v), 2)
<1>1. f.of = f.name /\ v \in Seq(Byte)
  BY DEF Holds, Value
<1>2. Put(f, m) = d \o v
  <2>1. Width["str"] = 2
    BY DEF Width
  <2> QED BY <1>1, <2>1 DEF Put
<1>3. d \in Seq(Byte) /\ Len(d) = 2
  <2>1. Len(v) \in Int /\ 2 \in Nat
    BY <1>1
  <2> HIDE DEF v
  <2> QED BY <2>1, NumberOfDigits
<1> HIDE DEF d, v
<1>4. Len(d \o v) = Len(d) + Len(v) /\ Len(v) \in Nat
  <2>1. d \in Seq(Byte) /\ v \in Seq(Byte)
    BY <1>1, <1>3
  <2>2. Len(v) \in Nat
    BY <2>1
  <2>3. Len(d \o v) = Len(d) + Len(v)
    BY <2>1, ConcatProperties
  <2> QED BY <2>2, <2>3
<1> QED BY <1>2, <1>3, <1>4

(* A header can be written.                                                *)
LEMMA HeaderTyped ==
  ASSUME NEW h \in HeaderRecords
  PROVE  /\ h["key"] \in Seq(Byte) /\ h["value"] \in Seq(Byte)
         /\ \A i \in 1 .. Len(Header) : Holds(Header[i], h)
         /\ IsMap(h) /\ DOMAIN h = {"key", "value"}
<1>1. h["key"] \in Seq(Byte) /\ h["value"] \in Seq(Byte)
  BY DEF HeaderRecords, Text, Byte
<1>2. IsMap(h) /\ DOMAIN h = {"key", "value"}
  BY DEF HeaderRecords, IsMap
<1>3. Holds(Str("key"), h) /\ Holds(Str("value"), h)
  BY <1>1, FieldCases
<1> QED BY <1>1, <1>2, <1>3, HeaderLayout

(* A header takes at least four bytes: as many rounds as ReadMany is given *)
(* are enough.                                                             *)
LEMMA HeaderWidth ==
  ASSUME NEW h \in HeaderRecords
  PROVE  Encode(Header, h) \in Seq(Byte) /\ Len(Encode(Header, h)) >= 4
<1> DEFINE b == Encode(Header, h)
           L == Header
<1>1. IsLayout(L) /\ Len(L) = 2 /\ L[1].type = "str" /\ L[2].type = "str"
  BY FrameLayouts, HeaderLayout DEF Str, Field
<1>2. \A i \in 1 .. Len(L) : Holds(L[i], h)
  BY HeaderTyped
<1>3. b \in Seq(Byte)
  BY <1>1, <1>2, EncodeTyped
<1>4. Stands(b, 0, b) /\ 0 \in Nat
  BY <1>3, StandsWhole
<1>5. PICK at \in [0 .. Len(L) -> Nat] :
        /\ at[0] = 0 /\ at[Len(L)] = 0 + Len(b)
        /\ \A i \in 1 .. Len(L) : at[i] = at[i - 1] + Len(Put(L[i], h))
  <2>1. ASSUME NEW layout, layout = L, NEW o \in Nat, o = 0
        PROVE  \E at \in [0 .. Len(layout) -> Nat] :
                 /\ at[0] = o /\ at[Len(layout)] = o + Len(Encode(layout, h))
                 /\ \A i \in 1 .. Len(layout) :
                      /\ at[i] = at[i - 1] + Len(Put(layout[i], h))
                      /\ Stands(b, at[i - 1], Put(layout[i], h))
    <3>1. Stands(b, o, Encode(layout, h)) /\ IsLayout(layout)
          /\ \A i \in 1 .. Len(layout) : Holds(layout[i], h)
      BY <1>1, <1>2, <1>4, <2>1
    <3> HIDE DEF b, L
    <3> QED BY <1>3, <3>1, EncodeTyped, SMTT(30)
  <2> HIDE DEF L
  <2>2. \E at \in [0 .. Len(L) -> Nat] :
          /\ at[0] = 0 /\ at[Len(L)] = 0 + Len(Encode(L, h))
          /\ \A i \in 1 .. Len(L) :
                  /\ at[i] = at[i - 1] + Len(Put(L[i], h))
                  /\ Stands(b, at[i - 1], Put(L[i], h))
    BY <1>4, <2>1
  <2> QED BY <2>2 DEF L
<1>6. /\ Len(Put(L[1], h)) \in Nat /\ Len(Put(L[1], h)) >= 2
      /\ Len(Put(L[2], h)) \in Nat /\ Len(Put(L[2], h)) >= 2
  <2>1. Holds(L[1], h) /\ Holds(L[2], h)
    BY <1>1, <1>2
  <2> HIDE DEF L
  <2> QED BY <1>1, <2>1, TextWidth
<1> HIDE DEF b, L
<1>7. Len(b) \in Nat
  BY <1>3
<1>8. at[1] = 0 + Len(Put(L[1], h)) /\ at[2] = at[1] + Len(Put(L[2], h)) /\ at[2] = Len(b)
  <2>1. 1 \in 1 .. Len(L) /\ 2 \in 1 .. Len(L) /\ 1 - 1 = 0 /\ 2 - 1 = 1
    BY <1>1
  <2>2. at[1] = at[0] + Len(Put(L[1], h)) /\ at[2] = at[1] + Len(Put(L[2], h))
    BY <1>5, <2>1
  <2> QED BY <1>1, <1>5, <1>7, <2>2
<1>9. Len(b) >= 4
  BY <1>6, <1>8
<1> QED BY <1>3, <1>9 DEF b, L

(* A header whose texts fit is read back.                                  *)
LEMMA HeaderBack ==
  ASSUME NEW h \in HeaderRecords, Len(h.key) <= Max16, Len(h.value) <= Max16,
         NEW b \in Seq(Byte), NEW o \in Nat, Stands(b, o, Encode(Header, h))
  PROVE  Read(Header, b, At(o, << >>)) = At(o + Len(Encode(Header, h)), h)
<1> DEFINE L == Header
<1>1. Len(L) = 2 /\ L[1] = Str("key") /\ L[2] = Str("value") /\ Plain(L) /\ Sized(L)
  BY HeaderLayout, PlainLayouts
<1> HIDE DEF L
<1>2. FieldFits(Str("key"), h) /\ FieldFits(Str("value"), h)
  BY HeaderTyped, FieldCases
<1>3. \A i \in 1 .. Len(L) : FieldFits(L[i], h)
  BY <1>1, <1>2
<1>4. Stands(b, o, Encode(L, h))
  BY DEF L
<1>5. PICK out : Back(L, h, b, o, out)
  BY <1>1, <1>3, <1>4, PlainBack
<1>6. L[1].name = "key" /\ L[2].name = "value"
  BY <1>1 DEF Str, Field
<1>7. DOMAIN out = {"key", "value"} /\ out["key"] = h["key"] /\ out["value"] = h["value"]
  <2>1. Names(L) = {"key", "value"}
    BY <1>1, <1>6 DEF Names
  <2> QED BY <1>1, <1>5, <1>6, <2>1 DEF Back
<1>8. out = h
  BY <1>5, <1>7, HeaderTyped, SameMaps DEF Back
<1> QED BY <1>5, <1>8 DEF Back, L

(* The texts of a header fit their two-byte lengths.                       *)
HeaderFits(h) == Len(h.key) <= Max16 /\ Len(h.value) <= Max16

(* A header bulk is a frame of its type: the part, then the headers.       *)
LEMMA BulkFrame ==
  ASSUME NEW hs \in Seq(HeaderRecords)
  PROVE  LET b == EncodeHeaderBulk(headerBulk(hs))
             o == Len(Encode(Part, headerBulk(hs)))
         IN  /\ IsFrame(b, 1) /\ o \in Nat /\ Stands(b, o, EncodeAll(Header, hs))
             /\ Len(b) = o + Len(EncodeAll(Header, hs)) /\ EncodeAll(Header, hs) \in Seq(Byte)
             /\ \E out : Parse(Part, b) = At(o, out) /\ out["type"] = 1
<1> DEFINE m == headerBulk(hs)
           L == Part
           s == Encode(L, m)
           t == EncodeAll(Header, hs)
           b == EncodeHeaderBulk(m)
           o == Len(s)
<1>1. m["type"] = 1 /\ m["sid"] = 3 /\ m["last"] = TRUE /\ m["part"] = 0 /\ m.headers = hs
  BY DataTypeNumbers DEF Sid, headerBulk
<1>2. /\ Led(L) /\ Plain(L) /\ Sized(L) /\ Len(L) = 4 /\ L[1] = U16("type") /\ L[2] = U32("sid")
      /\ L[3] = Field("last", "flag") /\ L[4] = U8("part")
  BY FrameLayouts, PlainLayouts, PartLayout
<1>3. t \in Seq(Byte)
  <2>1. Len(hs) \in Nat /\ DOMAIN hs = 1 .. Len(hs)
    OBVIOUS
  <2>2. \A k \in 1 .. Len(hs) : hs[k] \in HeaderRecords
    OBVIOUS
  <2>3. \A k \in 1 .. Len(hs) : \A i \in 1 .. Len(Header) : Holds(Header[i], hs[k])
    BY <2>2, HeaderTyped
  <2>4. IsLayout(Header)
    BY FrameLayouts
  <2> QED BY <2>1, <2>3, <2>4, EncodeAllTyped
<1> HIDE DEF L
<1>4. \A i \in 1 .. Len(L) : FieldFits(L[i], m)
  <2> HIDE DEF m
  <2>1. m["last"] \in BOOLEAN
    BY <1>1
  <2>2. FieldFits(Field("last", "flag"), m)
    BY <2>1, FieldCases, Zenon
  <2>3. FieldFits(U16("type"), m) /\ FieldFits(U32("sid"), m) /\ FieldFits(U8("part"), m)
    BY <1>1, FieldCases, SmallTypes, SMTT(30)
  <2> QED BY <1>2, <2>2, <2>3
<1>5. \A i \in 1 .. Len(L) : Holds(L[i], m)
  BY <1>4 DEF FieldFits
<1>6. s \in Seq(Byte)
  <2> HIDE DEF m
  <2> QED BY <1>2, <1>5, EncodeTyped DEF Led
<1>7. b = s \o t
  BY <1>1 DEF EncodeHeaderBulk, L
<1> HIDE DEF b, s, t, m
<1>8. b \in Seq(Byte) /\ Len(b) = Len(s) + Len(t)
  BY <1>3, <1>6, <1>7, ConcatProperties
<1>9. o \in Nat
  BY <1>6
<1>10. Stands(b, 0, s) /\ Stands(b, o, t)
  <2>1. Stands(b, 0, b)
    BY <1>8, StandsWhole
  <2>2. 0 \in Nat /\ 0 + Len(s) = o
    BY <1>9
  <2>3. Stands(b, 0, s \o t)
    BY <1>7, <2>1
  <2> QED BY <1>3, <1>6, <1>8, <2>2, <2>3, StandsParts
<1>11. Stands(b, 0, Encode(L, m))
  BY <1>10 DEF s
<1>12. Stands(b, 0, Digits(1, 2))
  BY <1>1, <1>2, <1>5, <1>8, <1>11, FrameLed
<1>13. PICK out : Back(L, m, b, 0, out)
  <2>1. 0 \in Nat
    OBVIOUS
  <2> QED BY <1>2, <1>4, <1>8, <1>11, <2>1, PlainBack
<1>14. out["type"] = 1
  <2>1. 1 \in 1 .. Len(L) /\ L[1].name = "type"
    BY <1>2 DEF U16, Field
  <2> QED BY <1>1, <1>13, <2>1 DEF Back
<1>15. Parse(L, b) = At(o, out)
  <2>1. Read(L, b, At(0, << >>)) = At(0 + Len(Encode(L, m)), out)
    BY <1>13 DEF Back
  <2>2. 0 + Len(Encode(L, m)) = o
    BY <1>9 DEF s
  <2> QED BY <2>1, <2>2 DEF Parse, Start
<1> QED BY <1>3, <1>8, <1>9, <1>10, <1>12, <1>14, <1>15 DEF IsFrame, b, s, t, m, L

(* Where the records of a bulk stand in its frame.                         *)
Placed(hs, b, at) ==
  /\ at \in [0 .. Len(hs) -> Nat] /\ at[Len(hs)] = Len(b)
  /\ \A k \in 1 .. Len(hs) :
       /\ at[k] = at[k - 1] + Len(Encode(Header, hs[k]))
       /\ Stands(b, at[k - 1], Encode(Header, hs[k]))
       /\ at[k - 1] < Len(b)
       /\ at[k] \in 4 * k .. Len(b)

(* Its headers stand one behind the other up to its end.                   *)
LEMMA BulkPlaced ==
  ASSUME NEW hs \in Seq(HeaderRecords), NEW b \in Seq(Byte), NEW o \in Nat,
         Stands(b, o, EncodeAll(Header, hs)), Len(b) = o + Len(EncodeAll(Header, hs))
  PROVE  \E at : Placed(hs, b, at) /\ at[0] = o
<1> DEFINE n == Len(hs)
<1>1. n \in Nat /\ DOMAIN hs = 1 .. n /\ Len(b) \in Nat
  OBVIOUS
<1>2. \A k \in 1 .. n : hs[k] \in HeaderRecords
  OBVIOUS
<1>3. \A k \in 1 .. n : \A i \in 1 .. Len(Header) : Holds(Header[i], hs[k])
  BY <1>2, HeaderTyped
<1> HIDE DEF n
<1>4. PICK at : Offsets(Header, hs, b, o, at)
  <2>1. IsLayout(Header)
    BY FrameLayouts
  <2> QED BY <1>1, <1>3, <2>1, EncodeAllTyped DEF n
<1>5. /\ at \in [0 .. n -> Nat] /\ at[0] = o /\ at[n] = Len(b)
      /\ \A k \in 1 .. n : /\ at[k] = at[k - 1] + Len(Encode(Header, hs[k]))
                           /\ Stands(b, at[k - 1], Encode(Header, hs[k]))
  BY <1>4 DEF Offsets, n
<1>6. ASSUME NEW k \in 1 .. n
      PROVE  /\ at[k - 1] \in Nat /\ at[k] >= at[k - 1] + 4 /\ at[k] <= Len(b)
  <2> DEFINE w == Len(Encode(Header, hs[k]))
  <2>1. w \in Nat /\ w >= 4
    <3>1. Encode(Header, hs[k]) \in Seq(Byte) /\ w >= 4
      BY <1>2, HeaderWidth
    <3> QED BY <3>1
  <2>2. at[k - 1] + w <= Len(b)
    BY <1>5 DEF Stands
  <2>3. at[k] = at[k - 1] + w
    BY <1>5
  <2>4. at[k - 1] \in Nat
    BY <1>1, <1>5
  <2> HIDE DEF w
  <2> QED BY <2>1, <2>2, <2>3, <2>4
<1> DEFINE T == {k \in Nat : k <= n => at[k] \in Nat /\ at[k] >= 4 * k}
<1>7. 0 \in T
  BY <1>5
<1>8. ASSUME NEW k \in Nat, k \in T PROVE k + 1 \in T
  <2> SUFFICES ASSUME k + 1 <= n PROVE at[k + 1] \in Nat /\ at[k + 1] >= 4 * (k + 1)
    OBVIOUS
  <2>1. k + 1 \in 1 .. n /\ (k + 1) - 1 = k /\ k <= n
    BY <1>1
  <2>2. at[k + 1] >= at[k] + 4 /\ at[k + 1] \in Nat
    BY <1>5, <1>6, <2>1
  <2>3. at[k] \in Nat /\ at[k] >= 4 * k
    BY <1>8, <2>1
  <2> QED BY <2>2, <2>3
<1>9. \A k \in 1 .. n : at[k] >= 4 * k /\ at[k] \in Nat
  <2>1. Nat \subseteq T
    <3> HIDE DEF T
    <3> QED BY <1>7, <1>8, SetInduction
  <2> QED BY <1>1, <2>1
<1>10. \A k \in 1 .. n : at[k - 1] < Len(b) /\ at[k] \in 4 * k .. Len(b)
  BY <1>1, <1>6, <1>9
<1> QED BY <1>5, <1>10 DEF Placed, n

(* Reading to the end of the frame gives back as many headers as were      *)
(* written.                                                                *)
LEMMA BulkRead ==
  ASSUME NEW hs \in Seq(HeaderRecords), NEW b \in Seq(Byte), NEW at, Placed(hs, b, at),
         \A k \in 1 .. Len(hs) : HeaderFits(hs[k]), NEW msg
  PROVE  ReadMany(Header, b, At(at[0], msg), "headers", ToEnd) =
           At(Len(b), Assign(msg, "headers", hs))
<1> DEFINE n == Len(hs)
           most == Rounds(b, ToEnd)
           got(k) == SubSeq(hs, 1, k)
<1>1. n \in Nat /\ DOMAIN hs = 1 .. n /\ Len(b) \in Nat
  OBVIOUS
<1>2. /\ at \in [0 .. n -> Nat] /\ at[n] = Len(b)
      /\ \A k \in 1 .. n : /\ at[k] = at[k - 1] + Len(Encode(Header, hs[k]))
                           /\ Stands(b, at[k - 1], Encode(Header, hs[k]))
                           /\ at[k - 1] < Len(b) /\ at[k] >= 4 * k
  BY DEF Placed
<1>3. \A k \in 1 .. n : hs[k] \in HeaderRecords /\ HeaderFits(hs[k])
  BY <1>1
<1>4. most \in Nat /\ n <= most
  <2>1. Len(b) \div 4 \in Nat /\ Len(b) \div 4 >= n
    <3>1. Len(b) >= 4 * n
      <4>1. n = 0 \/ n \in 1 .. n
        BY <1>1
      <4>2. CASE n = 0
        BY <1>1, <4>2
      <4>3. CASE n \in 1 .. n
        BY <1>2, <4>3
      <4> QED BY <4>1, <4>2, <4>3
    <3>2. \A x, y \in Nat : x >= 4 * y => x \div 4 \in Nat /\ x \div 4 >= y
      OBVIOUS
    <3> HIDE DEF n
    <3> QED BY <1>1, <3>1, <3>2
  <2> QED BY <1>1, <2>1 DEF Rounds
<1>5. PICK go : Records(Header, b, at[0], msg, "headers", ToEnd, go)
  <2>1. ToEnd \in Nat \cup {ToEnd}
    OBVIOUS
  <2> QED BY <1>1, <2>1, ManyUnfold
<1> HIDE DEF n, most
<1>6. /\ go[0] = At(at[0], << >>)
      /\ \A k \in 1 .. most : go[k] = NextRecord(Header, b, go[k - 1], ToEnd)
      /\ go[most].ok => ReadMany(Header, b, At(at[0], msg), "headers", ToEnd) =
                          At(go[most].off, Assign(msg, "headers", go[most].msg))
  BY <1>5 DEF Records, most
<1>7. ASSUME NEW k \in 1 .. n
      PROVE  Read(Header, b, At(at[k - 1], << >>)) = At(at[k], hs[k])
  <2> DEFINE h == hs[k]
             p == at[k - 1]
  <2>1. p \in Nat
    BY <1>1, <1>2
  <2>2. /\ h \in HeaderRecords /\ Len(h.key) <= Max16 /\ Len(h.value) <= Max16
        /\ Stands(b, p, Encode(Header, h)) /\ at[k] = p + Len(Encode(Header, h))
    BY <1>2, <1>3 DEF HeaderFits
  <2> HIDE DEF h, p
  <2>3. Read(Header, b, At(p, << >>)) = At(p + Len(Encode(Header, h)), h)
    BY <2>1, <2>2, HeaderBack
  <2>4. Read(Header, b, At(p, << >>)) = At(at[k], h)
    BY <2>2, <2>3
  <2> QED BY <2>4 DEF h, p
<1>8. ASSUME NEW k \in 1 .. n
      PROVE  NextRecord(Header, b, At(at[k - 1], got(k - 1)), ToEnd) = At(at[k], got(k))
  <2> DEFINE p == At(at[k - 1], got(k - 1))
             q == Read(Header, b, At(p.off, << >>))
  <2>1. p.ok /\ p.off = at[k - 1] /\ p.msg = got(k - 1)
    BY Readers
  <2>2. q = At(at[k], hs[k])
    BY <1>7, <2>1
  <2>3. q.ok /\ q.off = at[k] /\ q.msg = hs[k]
    <3> HIDE DEF q
    <3> QED BY <2>2, Readers
  <2>4. p.off # Len(b)
    <3>1. at[k - 1] \in Nat /\ at[k - 1] < Len(b)
      <4>1. k - 1 \in 0 .. n
        BY <1>1
      <4> QED BY <1>2, <4>1
    <3> HIDE DEF p
    <3> QED BY <1>1, <2>1, <3>1
  <2>5. Append(got(k - 1), hs[k]) = got(k)
    BY <1>1 DEF n
  <2>6. NextRecord(Header, b, p, ToEnd) =
          IF ~p.ok \/ (ToEnd = ToEnd /\ p.off = Len(b)) THEN p
          ELSE IF ~q.ok THEN Stop(p) ELSE At(q.off, Append(p.msg, q.msg))
    BY DEF NextRecord
  <2> HIDE DEF p, q, got
  <2>7. NextRecord(Header, b, p, ToEnd) = At(at[k], got(k))
    BY <2>1, <2>3, <2>4, <2>5, <2>6
  <2> QED BY <2>7 DEF p
<1>9. NextRecord(Header, b, At(Len(b), hs), ToEnd) = At(Len(b), hs)
  <2>1. At(Len(b), hs).off = Len(b)
    BY Readers
  <2> QED BY <2>1 DEF NextRecord
<1>10. got(0) = << >> /\ got(n) = hs
  <2>1. got(0) = << >>
    OBVIOUS
  <2>2. got(n) = hs
    BY <1>1 DEF n
  <2> QED BY <2>1, <2>2
<1> DEFINE T == {k \in Nat : k <= n => go[k] = At(at[k], got(k))}
           E == {j \in Nat : n + j <= most => go[n + j] = At(Len(b), hs)}
<1> HIDE DEF got
<1>11. 0 \in T
  BY <1>6, <1>10
<1>12. ASSUME NEW k \in Nat, k \in T PROVE k + 1 \in T
  <2> SUFFICES ASSUME k + 1 <= n PROVE go[k + 1] = At(at[k + 1], got(k + 1))
    OBVIOUS
  <2>1. k + 1 \in 1 .. n /\ k + 1 \in 1 .. most /\ (k + 1) - 1 = k /\ k <= n
    BY <1>1, <1>4
  <2>2. go[k + 1] = NextRecord(Header, b, go[k], ToEnd)
    BY <1>6, <2>1
  <2>3. go[k] = At(at[k], got(k))
    BY <1>12, <2>1
  <2>4. NextRecord(Header, b, At(at[k], got(k)), ToEnd) = At(at[k + 1], got(k + 1))
    BY <1>8, <2>1
  <2> QED BY <2>2, <2>3, <2>4
<1>13. go[n] = At(Len(b), hs)
  <2>1. n \in T
    <3> HIDE DEF T
    <3> QED BY <1>1, <1>11, <1>12, SetInduction
  <2>2. n <= n
    BY <1>1
  <2>3. go[n] = At(at[n], got(n))
    BY <2>1, <2>2
  <2> QED BY <1>2, <1>10, <2>3
<1>14. 0 \in E
  BY <1>1, <1>13
<1>15. ASSUME NEW j \in Nat, j \in E PROVE j + 1 \in E
  <2> SUFFICES ASSUME n + (j + 1) <= most PROVE go[n + (j + 1)] = At(Len(b), hs)
    OBVIOUS
  <2>1. n + (j + 1) \in 1 .. most /\ (n + (j + 1)) - 1 = n + j /\ n + j <= most
    BY <1>1, <1>4
  <2>2. go[n + (j + 1)] = NextRecord(Header, b, go[n + j], ToEnd)
    BY <1>6, <2>1
  <2>3. go[n + j] = At(Len(b), hs)
    BY <1>15, <2>1
  <2> QED BY <1>9, <2>2, <2>3
<1>16. go[most] = At(Len(b), hs)
  <2>1. most - n \in Nat /\ n + (most - n) = most /\ most <= most
    BY <1>1, <1>4
  <2>2. most - n \in E
    <3> HIDE DEF E
    <3> QED BY <1>14, <1>15, <2>1, SetInduction
  <2> QED BY <2>1, <2>2
<1>17. go[most].ok /\ go[most].off = Len(b) /\ go[most].msg = hs
  BY <1>16, Readers
<1> QED BY <1>6, <1>17

(* ParseHeaderBulk gives back the headers, if they fit or the frame fits   *)
(* the ring.                                                               *)
LEMMA BulkHeard ==
  ASSUME NEW hs \in Seq(HeaderRecords),
         \/ \A k \in 1 .. Len(hs) : HeaderFits(hs[k])
         \/ Len(EncodeHeaderBulk(headerBulk(hs))) <= Max16
  PROVE  LET b == EncodeHeaderBulk(headerBulk(hs))
         IN  IsFrame(b, 1) /\ ParseHeaderBulk(b).ok /\ ParseHeaderBulk(b).msg.headers = hs
<1> DEFINE b == EncodeHeaderBulk(headerBulk(hs))
           o == Len(Encode(Part, headerBulk(hs)))
<1>1. /\ IsFrame(b, 1) /\ o \in Nat /\ Stands(b, o, EncodeAll(Header, hs))
      /\ Len(b) = o + Len(EncodeAll(Header, hs))
  BY BulkFrame
<1>2. PICK out : Parse(Part, b) = At(o, out) /\ out["type"] = 1
  BY BulkFrame
<1>3. \/ \A k \in 1 .. Len(hs) : HeaderFits(hs[k])
      \/ Len(b) <= Max16
  OBVIOUS
<1> HIDE DEF b, o
<1>4. b \in Seq(Byte)
  BY <1>1 DEF IsFrame
<1>5. PICK at : Placed(hs, b, at) /\ at[0] = o
  BY <1>1, <1>4, BulkPlaced
<1>6. \A k \in 1 .. Len(hs) : HeaderFits(hs[k])
  <2> SUFFICES ASSUME Len(b) <= Max16, NEW k \in 1 .. Len(hs) PROVE HeaderFits(hs[k])
    BY <1>3
  <2> DEFINE h == hs[k]
             p == at[k - 1]
             L == Header
  <2>1. h \in HeaderRecords
    OBVIOUS
  <2>2. p \in Nat /\ Stands(b, p, Encode(L, h))
    <3>1. k - 1 \in 0 .. Len(hs)
      OBVIOUS
    <3>2. at \in [0 .. Len(hs) -> Nat] /\ Stands(b, at[k - 1], Encode(Header, hs[k]))
      BY <1>5 DEF Placed
    <3> QED BY <3>1, <3>2
  <2>3. Len(L) = 2 /\ L[1] = Str("key") /\ L[2] = Str("value") /\ IsLayout(L)
    BY HeaderLayout, FrameLayouts
  <2> HIDE DEF h, p
  <2>4. \A i \in 1 .. Len(L) : Holds(L[i], h)
    BY <2>1, HeaderTyped
  <2>5. h["key"] \in Seq(Byte) /\ h["value"] \in Seq(Byte)
    BY <2>1, HeaderTyped
  <2> HIDE DEF L
  <2>6. /\ 1 \in 1 .. Len(L) /\ L[1].type = "str" /\ L[1].name = "key"
        /\ 2 \in 1 .. Len(L) /\ L[2].type = "str" /\ L[2].name = "value"
    BY <2>3 DEF Str, Field
  <2>7. ASSUME NEW i \in 1 .. Len(L), L[i].type = "str" PROVE Len(h[L[i].name]) <= Len(b)
    BY <1>4, <2>2, <2>3, <2>4, <2>7, TextInside
  <2>8. Len(h["key"]) <= Len(b) /\ Len(h["value"]) <= Len(b)
    BY <2>6, <2>7
  <2>9. Len(h["key"]) \in Nat /\ Len(h["value"]) \in Nat /\ Len(b) \in Nat
    BY <1>4, <2>5
  <2>10. Len(h["key"]) <= Max16 /\ Len(h["value"]) <= Max16
    BY <2>8, <2>9, SmallTypes
  <2> QED BY <2>10 DEF HeaderFits, h
<1>7. ReadMany(Header, b, At(o, out), "headers", ToEnd) = At(Len(b), Assign(out, "headers", hs))
  BY <1>4, <1>5, <1>6, BulkRead
<1>8. ParseHeaderBulk(b) = At(Len(b), Assign(out, "headers", hs))
  <2> DEFINE r == Parse(Part, b)
             types == {"RequestHeader", "ResponseHeader"}
  <2>1. r.ok /\ r.msg = out
    BY <1>2, Readers
  <2>2. out.type \in {DataType(t) : t \in types}
    BY <1>2, DataTypeNumbers
  <2> HIDE DEF r
  <2>3. Typed(r, types) = r
    BY <2>1, <2>2 DEF Typed
  <2> QED BY <1>2, <1>7, <2>3 DEF ParseHeaderBulk, r
<1>9. Assign(out, "headers", hs).headers = hs
  BY DEF Assign
<1>10. ParseHeaderBulk(b).ok /\ ParseHeaderBulk(b).msg.headers = hs
  BY <1>8, <1>9, Readers
<1> QED BY <1>1, <1>10 DEF b

-----------------------------------------------------------------------------
(* What the engine hears of a transaction.                                 *)

(* Flattening one sequence among empty ones gives that sequence,           *)
LEMMA FlattenSole ==
  ASSUME NEW S, NEW s \in Seq(S), NEW n \in Nat, NEW k \in 1 .. n
  PROVE  FlattenSeq([i \in 1 .. n |-> IF i = k THEN s ELSE << >>]) = s
<1> DEFINE ss == [i \in 1 .. n |-> IF i = k THEN s ELSE << >>]
<1>1. ss \in Seq(Seq(S)) /\ Len(ss) = n /\ ss # << >>
  <2>1. << >> \in Seq(S)
    OBVIOUS
  <2>2. \A i \in 1 .. n : (IF i = k THEN s ELSE << >>) \in Seq(S)
    BY <2>1
  <2>3. ss \in [1 .. n -> Seq(S)]
    BY <2>2
  <2> HIDE DEF ss
  <2> QED BY <2>3
<1>2. \A i \in 1 .. n : ss[i] = IF i = k THEN s ELSE << >>
  OBVIOUS
<1> HIDE DEF ss
<1>3. PICK f : /\ f[1] = ss[1] /\ \A i \in 2 .. n : f[i] = f[i - 1] \o ss[i]
               /\ \A i \in 1 .. n : f[i] \in Seq(S)
               /\ FlattenSeq(ss) = f[n]
  BY <1>1, FlattenUnfold
<1> DEFINE T == {i \in Nat : i + 1 <= n => f[i + 1] = IF i + 1 < k THEN << >> ELSE s}
<1>4. 0 \in T
  BY <1>2, <1>3
<1>5. ASSUME NEW i \in Nat, i \in T PROVE i + 1 \in T
  <2> SUFFICES ASSUME i + 2 <= n PROVE f[i + 2] = IF i + 2 < k THEN << >> ELSE s
    OBVIOUS
  <2>1. i + 2 \in 2 .. n /\ i + 2 \in 1 .. n /\ (i + 2) - 1 = i + 1 /\ i + 1 <= n
    OBVIOUS
  <2>2. f[i + 2] = f[i + 1] \o ss[i + 2]
    BY <1>3, <2>1
  <2>3. f[i + 1] = IF i + 1 < k THEN << >> ELSE s
    BY <1>5, <2>1
  <2>4. ss[i + 2] = IF i + 2 = k THEN s ELSE << >>
    BY <1>2, <2>1
  <2>5. << >> \o << >> = << >> /\ << >> \o s = s /\ s \o << >> = s
    OBVIOUS
  <2>6. CASE i + 2 < k
    BY <2>2, <2>3, <2>4, <2>5, <2>6
  <2>7. CASE i + 2 = k
    <3>1. i + 1 < k
      BY <2>7
    <3> QED BY <2>2, <2>3, <2>4, <2>5, <2>7, <3>1
  <2>8. CASE i + 2 > k
    <3>1. ~(i + 1 < k) /\ i + 2 # k /\ ~(i + 2 < k)
      BY <2>8
    <3> QED BY <2>2, <2>3, <2>4, <2>5, <3>1
  <2> QED BY <2>6, <2>7, <2>8
<1>6. f[n] = s
  <2>1. n - 1 \in Nat /\ (n - 1) + 1 = n
    OBVIOUS
  <2>2. n - 1 \in T
    <3> HIDE DEF T
    <3> QED BY <1>4, <1>5, <2>1, SetInduction
  <2> QED BY <2>1, <2>2
<1> QED BY <1>3, <1>6 DEF ss

(* flattening only empty ones gives none,                                  *)
LEMMA FlattenEmpties ==
  ASSUME NEW n \in Nat
  PROVE  FlattenSeq([i \in 1 .. n |-> << >>]) = << >>
<1> DEFINE ss == [i \in 1 .. n |-> << >>]
<1>1. CASE n = 0
  <2>1. ss = << >> /\ << >> \in Seq(Seq(Byte))
    BY <1>1
  <2> QED BY <2>1, FlattenStands
<1>2. CASE n # 0
  <2>1. 1 \in 1 .. n /\ << >> \in Seq(Byte)
    BY <1>2
  <2>2. ss = [i \in 1 .. n |-> IF i = 1 THEN << >> ELSE << >>]
    OBVIOUS
  <2> HIDE DEF ss
  <2>3. FlattenSeq([i \in 1 .. n |-> IF i = 1 THEN << >> ELSE << >>]) = << >>
    BY <2>1, FlattenSole
  <2> QED BY <2>2, <2>3 DEF ss
<1> QED BY <1>1, <1>2

(* What of the frames one parser keeps: the frames that are its own.       *)
LEMMA KeptCases ==
  ASSUME NEW n \in Nat, NEW frames, DOMAIN frames = 1 .. n, NEW parsed
  PROVE  /\ (\A i \in 1 .. n : ~parsed[i].ok) => Kept(frames, parsed) = << >>
         /\ \A k \in 1 .. n :
              /\ parsed[k].ok /\ classify(frames[k], 2) = "request"
              /\ \A i \in 1 .. n : i # k => ~parsed[i].ok
              => Kept(frames, parsed) = <<parsed[k].msg>>
<1> DEFINE one(i) == IF classify(frames[i], 2) = "request" /\ parsed[i].ok
                     THEN <<parsed[i].msg>> ELSE << >>
<1>1. Kept(frames, parsed) = FlattenSeq([i \in 1 .. n |-> one(i)])
  BY DEF Kept
<1>2. ASSUME \A i \in 1 .. n : ~parsed[i].ok PROVE Kept(frames, parsed) = << >>
  <2>1. [i \in 1 .. n |-> one(i)] = [i \in 1 .. n |-> << >>]
    BY <1>2
  <2> QED BY <1>1, <2>1, FlattenEmpties
<1>3. ASSUME NEW k \in 1 .. n, parsed[k].ok, classify(frames[k], 2) = "request",
             \A i \in 1 .. n : i # k => ~parsed[i].ok
      PROVE  Kept(frames, parsed) = <<parsed[k].msg>>
  <2> DEFINE s == <<parsed[k].msg>>
             S == {parsed[k].msg}
  <2>1. \A i \in 1 .. n : one(i) = IF i = k THEN s ELSE << >>
    BY <1>3
  <2>2. s \in Seq(S)
    OBVIOUS
  <2> HIDE DEF one, s, S
  <2>3. [i \in 1 .. n |-> one(i)] = [i \in 1 .. n |-> IF i = k THEN s ELSE << >>]
    BY <2>1
  <2>4. FlattenSeq([i \in 1 .. n |-> IF i = k THEN s ELSE << >>]) = s
    BY <2>2, FlattenSole
  <2> QED BY <1>1, <2>3, <2>4 DEF s
<1> QED BY <1>2, <1>3

(* The frames are of the data types kinds, no two of one.                  *)
AreFrames(frames, kinds, n) ==
  /\ n \in Nat /\ DOMAIN frames = 1 .. n
  /\ \A i \in 1 .. n : kinds[i] \in 0 .. 3 /\ IsFrame(frames[i], kinds[i])
  /\ \A i, j \in 1 .. n : kinds[i] = kinds[j] => i = j

(* The parsers of a request keep the message of the one frame of their     *)
(* type, or nothing.                                                       *)
LEMMA HeardCases ==
  ASSUME NEW frames, NEW kinds, NEW n, AreFrames(frames, kinds, n)
  PROVE  LET starts == Kept(frames, [i \in DOMAIN frames |-> ParseRequestStart(frames[i])])
             ends   == Kept(frames, [i \in DOMAIN frames |-> ParseRequestEnd(frames[i])])
             bulks  == Kept(frames, [i \in DOMAIN frames |-> ParseHeaderBulk(frames[i])])
             chunks == Kept(frames, [i \in DOMAIN frames |-> ParseBodyChunk(frames[i])])
         IN  /\ (\A i \in 1 .. n : kinds[i] # 1) => bulks = << >>
             /\ (\A i \in 1 .. n : kinds[i] # 2) => chunks = << >>
             /\ \A k \in 1 .. n :
                  /\ kinds[k] = 0 /\ ParseRequestStart(frames[k]).ok
                     => starts = <<ParseRequestStart(frames[k]).msg>>
                  /\ kinds[k] = 1 /\ ParseHeaderBulk(frames[k]).ok
                     => bulks = <<ParseHeaderBulk(frames[k]).msg>>
                  /\ kinds[k] = 2 /\ ParseBodyChunk(frames[k]).ok
                     => chunks = <<ParseBodyChunk(frames[k]).msg>>
                  /\ kinds[k] = 3 /\ ParseRequestEnd(frames[k]).ok
                     => ends = <<ParseRequestEnd(frames[k]).msg>>
<1> DEFINE S == [i \in DOMAIN frames |-> ParseRequestStart(frames[i])]
           E == [i \in DOMAIN frames |-> ParseRequestEnd(frames[i])]
           H == [i \in DOMAIN frames |-> ParseHeaderBulk(frames[i])]
           B == [i \in DOMAIN frames |-> ParseBodyChunk(frames[i])]
<1>1. n \in Nat /\ DOMAIN frames = 1 .. n
  BY DEF AreFrames
<1>2. ASSUME NEW i \in 1 .. n
      PROVE  /\ kinds[i] # 0 => ~S[i].ok
             /\ kinds[i] # 3 => ~E[i].ok
             /\ kinds[i] # 1 => ~H[i].ok
             /\ kinds[i] # 2 => ~B[i].ok
             /\ S[i].ok \/ E[i].ok \/ H[i].ok \/ B[i].ok => classify(frames[i], 2) = "request"
             /\ S[i] = ParseRequestStart(frames[i]) /\ E[i] = ParseRequestEnd(frames[i])
             /\ H[i] = ParseHeaderBulk(frames[i]) /\ B[i] = ParseBodyChunk(frames[i])
  <2> DEFINE b == frames[i]
             t == kinds[i]
  <2>1. t \in 0 .. 3 /\ b \in Seq(Byte) /\ Stands(b, 0, Digits(t, 2))
    BY DEF AreFrames, IsFrame
  <2>2. /\ S[i] = ParseRequestStart(b) /\ E[i] = ParseRequestEnd(b)
        /\ H[i] = ParseHeaderBulk(b) /\ B[i] = ParseBodyChunk(b)
    BY <1>1
  <2> HIDE DEF b, t, S, E, H, B
  <2>3. /\ t # 0 => ~ParseRequestStart(b).ok
        /\ t # 3 => ~ParseRequestEnd(b).ok
        /\ t # 1 => ~ParseHeaderBulk(b).ok
        /\ t # 2 => ~ParseBodyChunk(b).ok
        /\ \/ ParseRequestStart(b).ok \/ ParseRequestEnd(b).ok
           \/ ParseHeaderBulk(b).ok \/ ParseBodyChunk(b).ok
           => classify(b, 2) = "request"
    BY <2>1, OwnParser
  <2> QED BY <2>2, <2>3, Zenon DEF b, t
<1> HIDE DEF S, E, H, B
<1>3. \A k, i \in 1 .. n : i # k => kinds[i] # kinds[k]
  BY DEF AreFrames
<1>4. (\A i \in 1 .. n : kinds[i] # 1) => Kept(frames, H) = << >>
  BY <1>1, <1>2, KeptCases
<1>5. (\A i \in 1 .. n : kinds[i] # 2) => Kept(frames, B) = << >>
  BY <1>1, <1>2, KeptCases
<1>6. ASSUME NEW k \in 1 .. n
      PROVE  /\ kinds[k] = 0 /\ S[k].ok => Kept(frames, S) = <<S[k].msg>>
             /\ kinds[k] = 1 /\ H[k].ok => Kept(frames, H) = <<H[k].msg>>
             /\ kinds[k] = 2 /\ B[k].ok => Kept(frames, B) = <<B[k].msg>>
             /\ kinds[k] = 3 /\ E[k].ok => Kept(frames, E) = <<E[k].msg>>
  <2>1. \A i \in 1 .. n : i # k => kinds[i] # kinds[k]
    BY <1>3
  <2>2. /\ kinds[k] = 0 => \A i \in 1 .. n : i # k => ~S[i].ok
        /\ kinds[k] = 1 => \A i \in 1 .. n : i # k => ~H[i].ok
        /\ kinds[k] = 2 => \A i \in 1 .. n : i # k => ~B[i].ok
        /\ kinds[k] = 3 => \A i \in 1 .. n : i # k => ~E[i].ok
    BY <1>2, <2>1, ZenonT(60)
  <2>3. S[k].ok \/ E[k].ok \/ H[k].ok \/ B[k].ok => classify(frames[k], 2) = "request"
    BY <1>2
  <2> QED BY <1>1, <2>2, <2>3, KeptCases, Zenon
<1> QED BY <1>2, <1>4, <1>5, <1>6, Zenon DEF S, E, H, B

(* The headers a request is sent with, in whatever order the map gives     *)
(* them, are records that fit if the request does (handler.go,             *)
(* requestHeaders).                                                        *)
LEMMA HeadersSent ==
  ASSUME NEW r, IsRequest(r), NEW order \in Orders(r)
  PROVE  /\ requestHeaders(r, order) \in Seq(HeaderRecords)
         /\ RequestFits(r) =>
              \A k \in 1 .. Len(requestHeaders(r, order)) : HeaderFits(requestHeaders(r, order)[k])
<1> DEFINE S == {h \in HeaderRecords : RequestFits(r) => HeaderFits(h)}
           n == Cardinality(r.header)
           line(i, j) == [key |-> order[i].key, value |-> order[i].values[j]]
           group(i) == [j \in DOMAIN order[i].values |-> line(i, j)]
           host == IF r.host.text = << >> THEN << >>
                   ELSE <<[key |-> HostKey, value |-> r.host.text]>>
           groups == [i \in DOMAIN order |-> group(i)]
<1>1. n \in Nat /\ order \in [1 .. n -> r.header] /\ DOMAIN order = 1 .. n
  <2>1. IsFiniteSet(r.header)
    BY DEF IsRequest
  <2>2. n \in Nat
    BY <2>1, FS_CardinalityType
  <2>3. order \in [1 .. n -> r.header]
    BY DEF Orders, SetToSeqs
  <2> QED BY <2>2, <2>3
<1>2. ASSUME NEW i \in 1 .. n PROVE group(i) \in Seq(S)
  <2> DEFINE h == order[i]
  <2>1. h \in r.header
    BY <1>1
  <2>2. h.key \in Text /\ h.values \in Seq(Text)
    BY <2>1 DEF IsRequest
  <2>3. RequestFits(r) => Len(h.key) <= Max16 /\ \A v \in Range(h.values) : Len(v) <= Max16
    BY <2>1 DEF RequestFits
  <2>4. ASSUME NEW j \in 1 .. Len(h.values) PROVE line(i, j) \in S
    <3> DEFINE v == h.values[j]
               g == line(i, j)
    <3>1. v \in Text /\ v \in Range(h.values)
      BY <2>2, <2>4 DEF Range
    <3>2. g.key = h.key /\ g.value = v /\ g \in HeaderRecords
      BY <2>2, <3>1 DEF HeaderRecords
    <3>3. RequestFits(r) => HeaderFits(g)
      BY <2>3, <3>1, <3>2 DEF HeaderFits
    <3> QED BY <3>2, <3>3
  <2>5. Len(h.values) \in Nat /\ DOMAIN h.values = 1 .. Len(h.values)
    BY <2>2
  <2> HIDE DEF S, line
  <2>6. group(i) \in [1 .. Len(h.values) -> S]
    BY <2>4, <2>5
  <2> HIDE DEF group
  <2> QED BY <2>5, <2>6
<1>3. host \in Seq(S)
  <2>1. CASE r.host.text = << >>
    BY <2>1
  <2>2. CASE r.host.text # << >>
    <3> DEFINE g == [key |-> HostKey, value |-> r.host.text]
    <3>1. HostKey \in Text /\ Len(HostKey) <= Max16
      <4>1. 8 \in 0 .. Max8 /\ 9 \in 0 .. Max8
        BY SmallTypes
      <4> QED BY <4>1, SmallTypes DEF HostKey, Text
    <3>2. r.host.text \in Text
      BY DEF IsRequest, IsAddress
    <3>3. g.key = HostKey /\ g.value = r.host.text /\ g \in HeaderRecords
      BY <3>1, <3>2 DEF HeaderRecords
    <3>4. RequestFits(r) => HeaderFits(g)
      BY <3>1, <3>3 DEF RequestFits, HeaderFits
    <3>5. g \in S
      BY <3>3, <3>4
    <3>6. host = <<g>>
      BY <2>2
    <3> HIDE DEF g, S, host
    <3> QED BY <3>5, <3>6
  <2> QED BY <2>1, <2>2
<1>4. FlattenSeq(groups) \in Seq(S)
  <2> HIDE DEF S, group
  <2>1. groups \in [1 .. n -> Seq(S)]
    BY <1>1, <1>2
  <2>2. groups \in Seq(Seq(S))
    <3> HIDE DEF groups, n
    <3> QED BY <1>1, <2>1
  <2> HIDE DEF groups
  <2> QED BY <2>2, FlattenTyped
<1>5. requestHeaders(r, order) = host \o FlattenSeq(groups)
  BY DEF requestHeaders
<1> HIDE DEF S, host, groups
<1>6. requestHeaders(r, order) \in Seq(S)
  BY <1>3, <1>4, <1>5, ConcatProperties
<1> DEFINE hs == requestHeaders(r, order)
<1> HIDE DEF hs
<1>7. hs \in Seq(S) /\ Len(hs) \in Nat /\ \A k \in 1 .. Len(hs) : hs[k] \in S
  <2>1. hs \in Seq(S)
    BY <1>6 DEF hs
  <2> QED BY <2>1
<1>8. \A k \in 1 .. Len(hs) : hs[k] \in HeaderRecords /\ (RequestFits(r) => HeaderFits(hs[k]))
  BY <1>7 DEF S
<1>9. hs \in Seq(HeaderRecords)
  BY <1>7, <1>8
<1> QED BY <1>8, <1>9 DEF hs

(* The frames carry request r with headers hs.                             *)
Carries(frames, kinds, n, r, hs) ==
  /\ AreFrames(frames, kinds, n)
  /\ \E k \in 1 .. n : /\ kinds[k] = 0 /\ ParseRequestStart(frames[k]).ok
                       /\ ParseRequestStart(frames[k]).msg = requestStart(r)
  /\ \/ hs = << >> /\ \A k \in 1 .. n : kinds[k] # 1
     \/ \E k \in 1 .. n : /\ kinds[k] = 1 /\ ParseHeaderBulk(frames[k]).ok
                          /\ ParseHeaderBulk(frames[k]).msg.headers = hs
  /\ \/ r.body = << >> /\ \A k \in 1 .. n : kinds[k] # 2
     \/ \E k \in 1 .. n : /\ kinds[k] = 2 /\ ParseBodyChunk(frames[k]).ok
                          /\ ParseBodyChunk(frames[k]).msg.data = r.body
  /\ \E k \in 1 .. n : kinds[k] = 3 /\ ParseRequestEnd(frames[k]).ok

(* The engine has parsed the start, the headers, the body and the end of   *)
(* r.                                                                      *)
Hears(heard, r, hs) ==
  heard.start = <<requestStart(r)>> /\ heard.headers = hs /\ heard.body = r.body /\ heard.ended

(* Flattening a single sequence gives that sequence.                       *)
LEMMA FlattenOfOne ==
  ASSUME NEW S, NEW s \in Seq(S), NEW ss, ss = <<s>>
  PROVE  FlattenSeq(ss) = s
<1>1. ss \in Seq(Seq(S)) /\ ss # << >> /\ Len(ss) = 1 /\ ss[1] = s
  OBVIOUS
<1>2. PICK f : f[1] = ss[1] /\ FlattenSeq(ss) = f[Len(ss)]
  BY <1>1, FlattenUnfold
<1> QED BY <1>1, <1>2

(* From frames that carry a request the engine hears that request.         *)
LEMMA CarriedIsHeard ==
  ASSUME NEW frames, NEW kinds, NEW n, NEW r, NEW hs \in Seq(HeaderRecords),
         r.body \in Seq(Byte), Carries(frames, kinds, n, r, hs)
  PROVE  Hears(Heard(frames), r, hs)
<1> DEFINE starts == Kept(frames, [i \in DOMAIN frames |-> ParseRequestStart(frames[i])])
           ends == Kept(frames, [i \in DOMAIN frames |-> ParseRequestEnd(frames[i])])
           bulks == Kept(frames, [i \in DOMAIN frames |-> ParseHeaderBulk(frames[i])])
           chunks == Kept(frames, [i \in DOMAIN frames |-> ParseBodyChunk(frames[i])])
<1>1. /\ Heard(frames).start = starts
      /\ Heard(frames).headers = FlattenSeq([i \in DOMAIN bulks |-> bulks[i].headers])
      /\ Heard(frames).body = FlattenSeq([i \in DOMAIN chunks |-> chunks[i].data])
      /\ Heard(frames).ended = (ends # << >>)
  BY DEF Heard
<1>2. /\ (\A i \in 1 .. n : kinds[i] # 1) => bulks = << >>
      /\ (\A i \in 1 .. n : kinds[i] # 2) => chunks = << >>
      /\ \A k \in 1 .. n :
           /\ kinds[k] = 0 /\ ParseRequestStart(frames[k]).ok
              => starts = <<ParseRequestStart(frames[k]).msg>>
           /\ kinds[k] = 1 /\ ParseHeaderBulk(frames[k]).ok
              => bulks = <<ParseHeaderBulk(frames[k]).msg>>
           /\ kinds[k] = 2 /\ ParseBodyChunk(frames[k]).ok
              => chunks = <<ParseBodyChunk(frames[k]).msg>>
           /\ kinds[k] = 3 /\ ParseRequestEnd(frames[k]).ok
              => ends = <<ParseRequestEnd(frames[k]).msg>>
  <2>1. AreFrames(frames, kinds, n)
    BY DEF Carries
  <2> QED BY <2>1, HeardCases, Zenon
<1> HIDE DEF starts, ends, bulks, chunks
<1>3. starts = <<requestStart(r)>>
  BY <1>2, Zenon DEF Carries
<1>4. ends # << >>
  <2>1. PICK k \in 1 .. n : kinds[k] = 3 /\ ParseRequestEnd(frames[k]).ok
    BY DEF Carries
  <2>2. ends = <<ParseRequestEnd(frames[k]).msg>>
    BY <1>2, <2>1, Zenon
  <2> QED BY <2>2
<1>5. FlattenSeq([i \in DOMAIN bulks |-> bulks[i].headers]) = hs
  <2>1. CASE bulks = << >> /\ hs = << >>
    <3>1. [i \in DOMAIN bulks |-> bulks[i].headers] = << >> /\ << >> \in Seq(Seq(Byte))
      BY <2>1
    <3> QED BY <2>1, <3>1, FlattenStands
  <2>2. ASSUME NEW x, bulks = <<x>>, x.headers = hs
        PROVE  FlattenSeq([i \in DOMAIN bulks |-> bulks[i].headers]) = hs
    <3> DEFINE ss == [i \in DOMAIN bulks |-> bulks[i].headers]
    <3>1. ss = <<hs>>
      BY <2>2
    <3> HIDE DEF ss
    <3>2. FlattenSeq(ss) = hs
      BY <3>1, FlattenOfOne
    <3> QED BY <3>2 DEF ss
  <2>3. \/ bulks = << >> /\ hs = << >>
        \/ \E x : bulks = <<x>> /\ x.headers = hs
    BY <1>2, Zenon DEF Carries
  <2> QED BY <2>1, <2>2, <2>3
<1>6. FlattenSeq([i \in DOMAIN chunks |-> chunks[i].data]) = r.body
  <2>1. CASE chunks = << >> /\ r.body = << >>
    <3>1. [i \in DOMAIN chunks |-> chunks[i].data] = << >> /\ << >> \in Seq(Seq(Byte))
      BY <2>1
    <3> QED BY <2>1, <3>1, FlattenStands
  <2>2. ASSUME NEW x, chunks = <<x>>, x.data = r.body
        PROVE  FlattenSeq([i \in DOMAIN chunks |-> chunks[i].data]) = r.body
    <3> DEFINE ss == [i \in DOMAIN chunks |-> chunks[i].data]
    <3>1. ss = <<r.body>>
      BY <2>2
    <3> HIDE DEF ss
    <3>2. FlattenSeq(ss) = r.body
      BY <3>1, FlattenOfOne
    <3> QED BY <3>2 DEF ss
  <2>3. \/ chunks = << >> /\ r.body = << >>
        \/ \E x : chunks = <<x>> /\ x.data = r.body
    BY <1>2, Zenon DEF Carries
  <2> QED BY <2>1, <2>2, <2>3
<1> QED BY <1>1, <1>3, <1>4, <1>5, <1>6 DEF Hears

(* A sequence one longer is an append.                                     *)
LEMMA Grown ==
  ASSUME NEW S, NEW s \in Seq(S), NEW e \in S, NEW t \in Seq(S), Len(t) = Len(s) + 1,
         \A i \in 1 .. Len(s) : t[i] = s[i], t[Len(s) + 1] = e
  PROVE  s \o <<e>> = t
<1>1. Append(s, e) = s \o <<e>>
  BY AppendIsConcat
<1>2. /\ Append(s, e) \in Seq(S) /\ Len(Append(s, e)) = Len(s) + 1
      /\ \A i \in 1 .. Len(s) : Append(s, e)[i] = s[i]
      /\ Append(s, e)[Len(s) + 1] = e
  BY AppendProperties
<1> DEFINE u == Append(s, e)
<1> HIDE DEF u
<1>3. u \in Seq(S) /\ Len(u) = Len(t) /\ \A i \in 1 .. Len(t) : u[i] = t[i]
  BY <1>2 DEF u
<1>4. u = t
  BY <1>3, SeqEqual
<1> QED BY <1>1, <1>4 DEF u

(* The sequences a transaction of at most four frames is put together      *)
(* from.                                                                   *)
LEMMA Joined ==
  ASSUME NEW x, NEW y, NEW z, NEW w
  PROVE  /\ <<x>> \o << >> = <<x>> /\ <<x, y>> \o << >> = <<x, y>>
         /\ <<x>> \o <<y>> = <<x, y>> /\ <<x, y>> \o <<z>> = <<x, y, z>>
         /\ <<x, y, z>> \o <<w>> = <<x, y, z, w>>
<1> DEFINE S == {x, y, z, w}
<1>0. x \in S /\ y \in S /\ z \in S /\ w \in S
  OBVIOUS
<1> HIDE DEF S
<1>1. ASSUME NEW s, NEW t, s = <<x>>, t = <<x, y>> PROVE s \o <<y>> = t
  <2>1. /\ s \in Seq(S) /\ t \in Seq(S) /\ Len(t) = Len(s) + 1
        /\ \A i \in 1 .. Len(s) : t[i] = s[i]
        /\ t[Len(s) + 1] = y
    BY <1>0, <1>1
  <2> QED BY <1>0, <2>1, Grown
<1>2. ASSUME NEW s, NEW t, s = <<x, y>>, t = <<x, y, z>> PROVE s \o <<z>> = t
  <2>1. /\ s \in Seq(S) /\ t \in Seq(S) /\ Len(t) = Len(s) + 1
        /\ \A i \in 1 .. Len(s) : t[i] = s[i]
        /\ t[Len(s) + 1] = z
    BY <1>0, <1>2
  <2> QED BY <1>0, <2>1, Grown
<1>3. ASSUME NEW s, NEW t, s = <<x, y, z>>, t = <<x, y, z, w>> PROVE s \o <<w>> = t
  <2>1. /\ s \in Seq(S) /\ t \in Seq(S) /\ Len(t) = Len(s) + 1
        /\ \A i \in 1 .. Len(s) : t[i] = s[i]
        /\ t[Len(s) + 1] = w
    BY <1>0, <1>3
  <2> QED BY <1>0, <2>1, Grown
<1>4. \A s \in Seq(S) : s \o << >> = s
  BY ConcatEmptySeq
<1>5. <<x>> \in Seq(S) /\ <<x, y>> \in Seq(S)
  BY <1>0
<1> QED BY <1>1, <1>2, <1>3, <1>4, <1>5, Zenon

(* What SendRequest tells of a request the engine hears, if the request    *)
(* fits or every frame fits the ring (conn.go, SendRequest; ring.go,       *)
(* push).                                                                  *)
LEMMA SentIsHeard ==
  ASSUME NEW r, IsRequest(r), NEW order \in Orders(r),
         LET frames == Transaction(r, requestHeaders(r, order))
         IN  RequestFits(r) \/ \A i \in DOMAIN frames : ~(Len(frames[i]) > MaxWriteSize)
  PROVE  LET frames == Transaction(r, requestHeaders(r, order))
         IN  Hears(Heard(frames), r, requestHeaders(r, order))
<1> DEFINE hs == requestHeaders(r, order)
           A == Encode(RequestStart, requestStart(r))
           H == EncodeHeaderBulk(headerBulk(hs))
           B == Encode(BodyChunk, bodyChunk(r.body))
           E == Encode(Session, [type |-> DataType("RequestEnd"), sid |-> Sid])
           frames == Transaction(r, hs)
<1>1. /\ hs \in Seq(HeaderRecords)
      /\ RequestFits(r) => \A k \in 1 .. Len(hs) : HeaderFits(hs[k])
  BY HeadersSent
<1>2. r.body \in Seq(Byte)
  BY DEF IsRequest, Text, Byte
<1>3. RequestFits(r) \/ \A i \in DOMAIN frames : ~(Len(frames[i]) > MaxWriteSize)
  OBVIOUS
<1>4. frames = <<A>> \o (IF hs = << >> THEN << >> ELSE <<H>>)
                     \o (IF r.body = << >> THEN << >> ELSE <<B>>) \o <<E>>
  BY DEF Transaction
<1>5. IsFrame(E, 3) /\ ParseRequestEnd(E).ok
  BY EndHeard
<1>6. IsFrame(B, 2) /\ ParseBodyChunk(B).ok /\ ParseBodyChunk(B).msg.data = r.body
  BY <1>2, BodyHeard
<1>7. RequestFits(r) \/ Len(A) <= Max16 =>
        /\ IsFrame(A, 0) /\ ParseRequestStart(A).ok
        /\ ParseRequestStart(A).msg = requestStart(r)
  BY StartHeard
<1> HIDE DEF hs
<1>8. RequestFits(r) \/ Len(H) <= Max16 =>
        /\ IsFrame(H, 1) /\ ParseHeaderBulk(H).ok /\ ParseHeaderBulk(H).msg.headers = hs
  BY <1>1, BulkHeard
<1> HIDE DEF A, H, B, E, frames
<1>9. \A k \in DOMAIN frames : RequestFits(r) \/ ~(Len(frames[k]) > MaxWriteSize)
  BY <1>3
<1>10. ASSUME NEW k \in DOMAIN frames, Len(frames[k]) \in Nat
       PROVE  RequestFits(r) \/ Len(frames[k]) <= Max16
  BY <1>9, <1>10, SmallTypes
<1>11. A \in Seq(Byte) /\ H \in Seq(Byte)
  <2>1. A \in Seq(Byte)
    <3> DEFINE m == requestStart(r)
               L == RequestStart
    <3>1. IsLayout(L) /\ \A i \in 1 .. Len(L) : Holds(L[i], m)
      BY StartHolds, FrameLayouts DEF Led
    <3> HIDE DEF m, L
    <3>2. Encode(L, m) \in Seq(Byte)
      BY <3>1, EncodeTyped
    <3> QED BY <3>2 DEF A, m, L
  <2>2. H \in Seq(Byte)
    BY <1>1, BulkFrame DEF IsFrame, H
  <2> QED BY <2>1, <2>2
<1>12. Len(A) \in Nat /\ Len(H) \in Nat
  BY <1>11
<1>13. ASSUME NEW kinds, NEW n, AreFrames(frames, kinds, n),
              \E k \in 1 .. n : frames[k] = A /\ kinds[k] = 0,
              \/ hs = << >> /\ \A k \in 1 .. n : kinds[k] # 1
              \/ \E k \in 1 .. n : frames[k] = H /\ kinds[k] = 1,
              \/ r.body = << >> /\ \A k \in 1 .. n : kinds[k] # 2
              \/ \E k \in 1 .. n : frames[k] = B /\ kinds[k] = 2,
              \E k \in 1 .. n : frames[k] = E /\ kinds[k] = 3
       PROVE  Hears(Heard(frames), r, hs)
  <2>1. DOMAIN frames = 1 .. n
    BY <1>13 DEF AreFrames
  <2>2. ParseRequestStart(A).ok /\ ParseRequestStart(A).msg = requestStart(r)
    BY <1>7, <1>10, <1>12, <1>13, <2>1
  <2>3. ASSUME NEW k \in 1 .. n, frames[k] = H
        PROVE  ParseHeaderBulk(H).ok /\ ParseHeaderBulk(H).msg.headers = hs
    BY <1>8, <1>10, <1>12, <2>1, <2>3
  <2>4. \E k \in 1 .. n : /\ kinds[k] = 0 /\ ParseRequestStart(frames[k]).ok
                          /\ ParseRequestStart(frames[k]).msg = requestStart(r)
    BY <1>13, <2>2
  <2>5. \/ hs = << >> /\ \A k \in 1 .. n : kinds[k] # 1
        \/ \E k \in 1 .. n : /\ kinds[k] = 1 /\ ParseHeaderBulk(frames[k]).ok
                             /\ ParseHeaderBulk(frames[k]).msg.headers = hs
    BY <1>13, <2>3
  <2>6. \/ r.body = << >> /\ \A k \in 1 .. n : kinds[k] # 2
        \/ \E k \in 1 .. n : /\ kinds[k] = 2 /\ ParseBodyChunk(frames[k]).ok
                             /\ ParseBodyChunk(frames[k]).msg.data = r.body
    BY <1>6, <1>13
  <2>7. \E k \in 1 .. n : kinds[k] = 3 /\ ParseRequestEnd(frames[k]).ok
    BY <1>5, <1>13
  <2>8. Carries(frames, kinds, n, r, hs)
    BY <1>13, <2>4, <2>5, <2>6, <2>7 DEF Carries
  <2> QED BY <1>1, <1>2, <2>8, CarriedIsHeard
<1>131. /\ <<A>> \o << >> \o << >> \o <<E>> = <<A, E>>
        /\ <<A>> \o <<H>> \o << >> \o <<E>> = <<A, H, E>>
        /\ <<A>> \o << >> \o <<B>> \o <<E>> = <<A, B, E>>
        /\ <<A>> \o <<H>> \o <<B>> \o <<E>> = <<A, H, B, E>>
  <2>1. /\ <<A>> \o << >> = <<A>> /\ <<A, H>> \o << >> = <<A, H>>
        /\ <<A>> \o <<H>> = <<A, H>> /\ <<A>> \o <<E>> = <<A, E>> /\ <<A>> \o <<B>> = <<A, B>>
        /\ <<A, H>> \o <<E>> = <<A, H, E>> /\ <<A, H>> \o <<B>> = <<A, H, B>>
        /\ <<A, B>> \o <<E>> = <<A, B, E>> /\ <<A, H, B>> \o <<E>> = <<A, H, B, E>>
    BY Joined, Zenon
  <2> QED BY <2>1, Zenon
<1>14. ASSUME hs = << >> /\ r.body = << >>
       PROVE  Hears(Heard(frames), r, hs)
  <2> DEFINE kinds == <<0, 3>>
  <2>1. frames = <<A, E>>
    BY <1>4, <1>11, <1>14, <1>131
  <2>2. /\ DOMAIN frames = 1 .. 2
        /\ frames[1] = A /\ kinds[1] = 0
        /\ frames[2] = E /\ kinds[2] = 3
    BY <2>1
  <2> HIDE DEF kinds
  <2>3. \A k \in 1 .. 2 : k \in {1, 2}
    OBVIOUS
  <2>4. \A k \in 1 .. 2 : kinds[k] \in 0 .. 3 /\ IsFrame(frames[k], kinds[k])
    BY <1>5, <1>6, <1>7, <1>8, <1>10, <1>12, <2>2, <2>3
  <2>5. AreFrames(frames, kinds, 2)
    BY <2>2, <2>3, <2>4 DEF AreFrames
  <2> QED BY <1>13, <1>14, <2>2, <2>3, <2>5
<1>15. ASSUME hs # << >> /\ r.body = << >>
       PROVE  Hears(Heard(frames), r, hs)
  <2> DEFINE kinds == <<0, 1, 3>>
  <2>1. frames = <<A, H, E>>
    BY <1>4, <1>11, <1>15, <1>131
  <2>2. /\ DOMAIN frames = 1 .. 3
        /\ frames[1] = A /\ kinds[1] = 0
        /\ frames[2] = H /\ kinds[2] = 1
        /\ frames[3] = E /\ kinds[3] = 3
    BY <2>1
  <2> HIDE DEF kinds
  <2>3. \A k \in 1 .. 3 : k \in {1, 2, 3}
    OBVIOUS
  <2>4. \A k \in 1 .. 3 : kinds[k] \in 0 .. 3 /\ IsFrame(frames[k], kinds[k])
    BY <1>5, <1>6, <1>7, <1>8, <1>10, <1>12, <2>2, <2>3
  <2>5. AreFrames(frames, kinds, 3)
    BY <2>2, <2>3, <2>4 DEF AreFrames
  <2> QED BY <1>13, <1>15, <2>2, <2>3, <2>5
<1>16. ASSUME hs = << >> /\ r.body # << >>
       PROVE  Hears(Heard(frames), r, hs)
  <2> DEFINE kinds == <<0, 2, 3>>
  <2>1. frames = <<A, B, E>>
    BY <1>4, <1>11, <1>16, <1>131
  <2>2. /\ DOMAIN frames = 1 .. 3
        /\ frames[1] = A /\ kinds[1] = 0
        /\ frames[2] = B /\ kinds[2] = 2
        /\ frames[3] = E /\ kinds[3] = 3
    BY <2>1
  <2> HIDE DEF kinds
  <2>3. \A k \in 1 .. 3 : k \in {1, 2, 3}
    OBVIOUS
  <2>4. \A k \in 1 .. 3 : kinds[k] \in 0 .. 3 /\ IsFrame(frames[k], kinds[k])
    BY <1>5, <1>6, <1>7, <1>8, <1>10, <1>12, <2>2, <2>3
  <2>5. AreFrames(frames, kinds, 3)
    BY <2>2, <2>3, <2>4 DEF AreFrames
  <2> QED BY <1>13, <1>16, <2>2, <2>3, <2>5
<1>17. ASSUME hs # << >> /\ r.body # << >>
       PROVE  Hears(Heard(frames), r, hs)
  <2> DEFINE kinds == <<0, 1, 2, 3>>
  <2>1. frames = <<A, H, B, E>>
    BY <1>4, <1>11, <1>17, <1>131
  <2>2. /\ DOMAIN frames = 1 .. 4
        /\ frames[1] = A /\ kinds[1] = 0
        /\ frames[2] = H /\ kinds[2] = 1
        /\ frames[3] = B /\ kinds[3] = 2
        /\ frames[4] = E /\ kinds[4] = 3
    BY <2>1
  <2> HIDE DEF kinds
  <2>3. \A k \in 1 .. 4 : k \in {1, 2, 3, 4}
    OBVIOUS
  <2>4. \A k \in 1 .. 4 : kinds[k] \in 0 .. 3 /\ IsFrame(frames[k], kinds[k])
    BY <1>5, <1>6, <1>7, <1>8, <1>10, <1>12, <2>2, <2>3
  <2>5. AreFrames(frames, kinds, 4)
    BY <2>2, <2>3, <2>4 DEF AreFrames
  <2> QED BY <1>13, <1>17, <2>2, <2>3, <2>5
<1>18. Hears(Heard(frames), r, hs)
  BY <1>14, <1>15, <1>16, <1>17
<1> QED BY <1>18 DEF frames, hs

(* What the engine has parsed is request r, if it could be told.           *)
HeardWhole(c, r, heard) ==
  SharedMemory(c) \/ RequestFits(r) =>
    \E order \in Orders(r) : Hears(heard, r, requestHeaders(r, order))

(* While a verdict is awaited and once it is given.                        *)
SeenInv ==
  /\ pc \notin {"load", "loaded", "provisioned", "rejected", "boot"} => IsRequest(request)
  /\ pc = "await" \/ Judged =>
       \A c, r, heard : c = config /\ r = request /\ heard = seen => HeardWhole(c, r, heard)

(* So it is when a session is opened.                                      *)
LEMMA OpenSessionHears ==
  ASSUME IsRequest(request), OpenSession
  PROVE  HeardWhole(config, request, seen')
<1> DEFINE r == request
<1>1. PICK order \in Orders(r) :
        LET frames == Transaction(r, requestHeaders(r, order))
        IN  ~TooLarge(frames) /\ seen' = Heard(frames)
  BY DEF OpenSession
<1> DEFINE frames == Transaction(r, requestHeaders(r, order))
<1>2. SUFFICES ASSUME SharedMemory(config) \/ RequestFits(r)
               PROVE  Hears(seen', r, requestHeaders(r, order))
  BY DEF HeardWhole
<1>3. seen' = Heard(frames)
  BY <1>1
<1>4. RequestFits(r) \/ \A i \in DOMAIN frames : ~(Len(frames[i]) > MaxWriteSize)
  <2> HIDE DEF frames
  <2>1. ~TooLarge(frames)
    BY <1>1 DEF frames
  <2> QED BY <1>2, <2>1, Zenon DEF TooLarge
<1>5. Hears(Heard(frames), r, requestHeaders(r, order))
  BY <1>4, SentIsHeard
<1> QED BY <1>3, <1>5

(* Every step keeps it: only OpenSession changes what the engine has seen, *)
(* and a verdict is awaited only after it.                                 *)
LEMMA SeenStep == PostureInv /\ SeenInv /\ [Next]_vars => SeenInv'
<1> SUFFICES ASSUME PostureInv, SeenInv, [Next]_vars PROVE SeenInv'
  OBVIOUS
<1>1. said' = said => (Judged' <=> Judged)
  BY DEF Judged
<1>2. pc \in BeforeSession => ~Judged
  BY NotJudgedYet DEF PostureInv
<1>3. CASE Load \/ Provision \/ Validate
  <2>1. /\ pc \in {"load", "loaded", "provisioned"} /\ said' = said
        /\ pc' \in {"loaded", "rejected", "provisioned", "boot"}
    BY <1>3 DEF Load, Provision, Validate, exchange
  <2>2. ~Judged'
    BY <1>1, <1>2, <2>1 DEF BeforeSession
  <2> QED BY <2>1, <2>2 DEF SeenInv
<1>4. CASE Arrive
  <2>1. /\ pc \in {"loaded", "boot"} /\ said' = said /\ request' \in Requests
        /\ pc' \in {"read", "unavailable", "forward"}
    BY <1>4 DEF Arrive, exchange
  <2>2. IsRequest(request')
    BY <2>1, InspectionAssumption
  <2>3. IsRequest(request)'
    BY <2>2 DEF IsRequest, IsAddress
  <2>4. ~Judged'
    BY <1>1, <1>2, <2>1 DEF BeforeSession
  <2> QED BY <2>1, <2>3, <2>4 DEF SeenInv
<1>5. CASE OpenSession
  <2>1. pc = "acquire" /\ UNCHANGED <<config, request>>
    BY <1>5 DEF OpenSession, loading
  <2>2. IsRequest(request) /\ IsRequest(request)'
    BY <2>1 DEF SeenInv, IsRequest, IsAddress
  <2>3. HeardWhole(config, request, seen')
    BY <1>5, <2>2, OpenSessionHears
  <2>4. \A c, r, heard : c = config' /\ r = request' /\ heard = seen' => HeardWhole(c, r, heard)
    BY <2>1, <2>3
  <2> QED BY <2>2, <2>4 DEF SeenInv
<1>6. CASE /\ UNCHANGED <<config, request, seen>>
           /\ \/ UNCHANGED <<pc, said>>
              \/ /\ pc \in {"read", "acquire", "await", "enforce", "block", "unavailable",
                           "forward", "origin"}
                 /\ pc' # "await" /\ UNCHANGED said
              \/ pc = "await"
  <2>1. IsRequest(request)' <=> IsRequest(request)
    BY <1>6 DEF IsRequest, IsAddress
  <2>2. (\A c, r, heard : c = config /\ r = request /\ heard = seen => HeardWhole(c, r, heard))'
        <=> \A c, r, heard : c = config /\ r = request /\ heard = seen => HeardWhole(c, r, heard)
    BY <1>6
  <2>3. pc' = "await" \/ Judged' => pc = "await" \/ Judged
    BY <1>1, <1>6
  <2> QED BY <1>6, <2>1, <2>2, <2>3 DEF SeenInv
<1>7. CASE ReadBody
  BY <1>6, <1>7 DEF ReadBody, loading, exchange
<1>8. CASE EngineFails
  BY <1>6, <1>8 DEF EngineFails, loading
<1>9. CASE EngineAnswers
  <2>1. pc = "await" /\ UNCHANGED <<config, request, seen>>
    BY <1>9 DEF EngineAnswers, loading
  <2> QED BY <1>6, <2>1
<1>10. CASE Enforce
  BY <1>6, <1>10 DEF Enforce, loading, exchange
<1>11. CASE writeBlock \/ writeUnavailable \/ Forward \/ OriginReturns
  BY <1>6, <1>11 DEF writeBlock, writeUnavailable, Forward, OriginReturns, loading, exchange
<1>12. CASE EngineGoesDown \/ EngineComesUp \/ UNCHANGED vars
  BY <1>6, <1>12 DEF EngineGoesDown, EngineComesUp, vars, loading, exchange
<1> QED BY <1>3, <1>4, <1>5, <1>7, <1>8, <1>9, <1>10, <1>11, <1>12 DEF Next, ServeHTTP

(* Whatever the request, the configuration and the order of its headers:   *)
(* once the engine judges, it has parsed the start line, the addresses,    *)
(* the headers, the body and the end that the client sent, if every text   *)
(* fits its two-byte length or the frames pass through the ring            *)
(* (handler.go, requestStart and requestHeaders; conn.go, SendRequest;     *)
(* frame.go, str; ring.go, push).                                          *)
THEOREM EngineSeesTheRequest == Spec => []InspectedIsSent
<1>1. Init => SeenInv
  BY NotJudgedYet DEF Init, SeenInv
<1>2. PostureInv /\ SeenInv => InspectedIsSent
  <2> SUFFICES ASSUME PostureInv, SeenInv, Judged, SharedMemory(config) \/ RequestFits(request)
               PROVE  /\ seen.start = <<requestStart(request)>>
                      /\ seen.start[1].clientIP # << >> /\ seen.start[1].listeningIP # << >>
                      /\ \E order \in Orders(request) :
                           seen.headers = requestHeaders(request, order)
                      /\ seen.body = request.body /\ seen.ended
    BY DEF InspectedIsSent
  <2>1. pc \notin BeforeSession
    BY NotJudgedYet DEF PostureInv
  <2>2. IsRequest(request) /\ HeardWhole(config, request, seen)
    BY <2>1 DEF SeenInv, BeforeSession
  <2>3. PICK order \in Orders(request) : Hears(seen, request, requestHeaders(request, order))
    BY <2>2 DEF HeardWhole
  <2>4. /\ requestStart(request).clientIP = remoteIP(request)
        /\ requestStart(request).listeningIP = localIP(request)
    BY DEF requestStart
  <2>5. remoteIP(request) # << >> /\ localIP(request) # << >>
    BY <2>2, AddressTyped
  <2> DEFINE m == requestStart(request)
  <2>6. m.clientIP # << >> /\ m.listeningIP # << >>
    BY <2>4, <2>5
  <2> HIDE DEF m
  <2>7. seen.start = <<m>>
    BY <2>3 DEF Hears, m
  <2>8. seen.start[1].clientIP # << >> /\ seen.start[1].listeningIP # << >>
    BY <2>6, <2>7
  <2> QED BY <2>3, <2>7, <2>8 DEF Hears, m
<1> QED BY <1>1, <1>2, SeenStep, Posture, PTL DEF Spec
=============================================================================
