--------------------------- MODULE BitInputProofs ---------------------------
(***************************************************************************)
(* The input of picojpeg, for every stream, every size of gInBuf and every *)
(* width of a byte: the decoder is given the bits of each segment in order *)
(* and the byte buffer loses nothing, whichever calls it makes and         *)
(* wherever the refills fall.                                              *)
(*                                                                         *)
(* From the inside out: the bit buffer is a number whose first digits, in  *)
(* base two, are the bits that are held (Held); Bits turns numbers into    *)
(* bits; Sound is the invariant of the byte buffer alone, which getChar    *)
(* and stuffChar keep, and getOctet with them; InStep says that the bits   *)
(* taken and those held are the segment's first octets, and that getOctet  *)
(* is at the octet behind.  IInv is InStep, or, after a failure, what is   *)
(* left of it.                                                             *)
(***************************************************************************)
EXTENDS BitInput, Arithmetic, SequenceTheorems

-----------------------------------------------------------------------------
(***************************************************************************)
(* The bit buffer.  What it holds is a number of h bits at its high end.   *)
(***************************************************************************)
\* The bits of the bit buffer.
Top == 2 * Width

LEMMA WidthNat == Width \in Nat \ {0} /\ Width \in Nat /\ Top \in Nat
BY InputAssumption DEF Top

\* Using up the first bits of a buffer leaves the rest of them at its high end.
LEMMA ShiftHeld ==
  ASSUME NEW h \in 0 .. Top, NEW A \in Nat, NEW n \in 0 .. h
  PROVE  Shift(A * Pow2[Top - h], n) = (A % Pow2[h - n]) * Pow2[Top - (h - n)]
<1>1. /\ Top - h \in Nat /\ h - n \in Nat /\ Top - (h - n) \in Nat /\ n \in Nat
      /\ (Top - h) + n = Top - (h - n) /\ (h - n) + (Top - (h - n)) = Top
  BY WidthNat
<1>2. (A * Pow2[Top - h]) * Pow2[n] = A * Pow2[Top - (h - n)]
  <2>1. Pow2[Top - (h - n)] = Pow2[Top - h] * Pow2[n]
    BY <1>1, Pow2Sum
  <2> QED
    BY <1>1, <2>1, PowNat, TimesTimes
<1>3. Pow2[Top] = Pow2[h - n] * Pow2[Top - (h - n)]
  BY <1>1, Pow2Sum
<1> DEFINE M == Pow2[Top - (h - n)]
           Q == Pow2[h - n]
<1>4. M \in Nat /\ Q \in Nat /\ 0 < M /\ 0 < Q
  BY <1>1, PowNat
<1>5. (A * M) % (Q * M) = (A % Q) * M
  <2> HIDE DEF M, Q
  <2> QED
    BY <1>4, DivScaledExact
<1> QED
  BY <1>2, <1>3, <1>5 DEF Shift, Top

\* The high end of the buffer, which is read.
LEMMA TopHeld ==
  ASSUME NEW h \in 0 .. Top, NEW A \in Nat, NEW n \in 0 .. h
  PROVE  (A * Pow2[Top - h]) \div Pow2[Top - n] = A \div Pow2[h - n]
<1>1. Top - h \in Nat /\ h - n \in Nat /\ (h - n) + (Top - h) = Top - n
  BY WidthNat
<1>2. Pow2[Top - n] = Pow2[h - n] * Pow2[Top - h]
  BY <1>1, Pow2Sum
<1> DEFINE M == Pow2[Top - h]
           Q == Pow2[h - n]
<1>4. M \in Nat /\ Q \in Nat /\ 0 < M /\ 0 < Q
  BY <1>1, PowNat
<1> HIDE DEF M, Q
<1>5. (A * M) \div (Q * M) = A \div Q
  BY <1>4, DivScaledExact
<1> QED
  BY <1>2, <1>5 DEF M, Q

\* An octet is put behind the low bits, and gap more of those are dropped.
LEMMA RefillHeld ==
  ASSUME NEW l \in 0 .. Width, NEW A \in Nat, NEW c \in 0 .. Pow2[Width] - 1, NEW gap \in 0 .. Width
  PROVE  Shift(Shift(A * Pow2[Width - l], l) + c, gap)
           = ((A % Pow2[Width - gap]) * Pow2[Width] + c) * Pow2[gap]
<1>1. /\ Width \in Nat /\ Width + l \in 0 .. Top /\ Top - (Width + l) = Width - l
      /\ (Width + l) - l = Width /\ Top - Width = Width /\ l \in 0 .. (Width + l)
      /\ gap \in 0 .. Top /\ Top \in 0 .. Top /\ Top - Top = 0 /\ Top - (Top - gap) = gap
      /\ Width - gap \in Nat /\ gap \in Nat /\ (Width - gap) + Width = Top - gap
      /\ gap + (Width - gap) = Width
  BY WidthNat DEF Top
<1> DEFINE P == Pow2[Width]
           Q == Pow2[Width - gap]
           D == (A % P) * P + c
<1>2. Shift(A * Pow2[Width - l], l) = (A % P) * P
  <2>1. Shift(A * Pow2[Top - (Width + l)], l)
          = (A % Pow2[(Width + l) - l]) * Pow2[Top - ((Width + l) - l)]
    BY <1>1, ShiftHeld
  <2> QED
    BY <1>1, <2>1
<1>3. P \in Nat \ {0} /\ Q \in Nat \ {0} /\ A % P \in Nat /\ D \in Nat
  <2>1. P \in Nat \ {0} /\ Q \in Nat \ {0}
    BY <1>1, PowNat
  <2> HIDE DEF P, Q
  <2>2. A % P \in Nat
    BY <2>1, DivModNat
  <2>3. (A % P) * P \in Nat
    BY <2>1, <2>2, TimesTimes
  <2> QED
    BY <2>1, <2>2, <2>3 DEF P
<1>4. Shift(D, gap) = (D % Pow2[Top - gap]) * Pow2[gap]
  <2> HIDE DEF D
  <2>1. D * Pow2[Top - Top] = D
    BY <1>1, <1>3, Pow2Def
  <2>2. Shift(D * Pow2[Top - Top], gap) = (D % Pow2[Top - gap]) * Pow2[Top - (Top - gap)]
    BY <1>1, <1>3, ShiftHeld
  <2> QED
    BY <1>1, <2>1, <2>2
<1>5. D % Pow2[Top - gap] = ((A % P) % Q) * P + c
  <2>1. Pow2[Top - gap] = Q * P
    BY <1>1, Pow2Sum
  <2>2. c \in Nat /\ c < P /\ P \in Nat /\ Q \in Nat /\ 0 < Q
    BY <1>3
  <2> DEFINE a == A % P
  <2>3. a \in Nat
    BY <1>3
  <2> HIDE DEF P, Q, a
  <2>4. (a * P + c) % (Q * P) = (a % Q) * P + c
    BY <2>2, <2>3, DivScaled
  <2> QED
    BY <2>1, <2>4 DEF a
<1>6. (A % P) % Q = A % Q
  <2>1. P = Pow2[gap] * Q /\ Pow2[gap] \in Nat \ {0}
    BY <1>1, Pow2Sum, PowNat
  <2> HIDE DEF P, Q
  <2> QED
    BY <1>3, <2>1, ModMod
<1> QED
  BY <1>2, <1>4, <1>5, <1>6
-----------------------------------------------------------------------------
(***************************************************************************)
(* Bits.                                                                   *)
(***************************************************************************)
\* Bits is a sequence of the length asked for.
LEMMA BitsSeq ==
  ASSUME NEW a \in Nat, NEW n \in Nat
  PROVE  Bits(a, n) \in Seq({0, 1}) /\ Len(Bits(a, n)) = n
<1>1. ASSUME NEW k \in 1 .. n PROVE (a \div Pow2[n - k]) % 2 \in {0, 1}
  <2>1. Pow2[n - k] \in Nat \ {0}
    BY PowNat
  <2>2. a \div Pow2[n - k] \in Nat
    BY <2>1, DivModNat
  <2> QED
    BY <2>2
<1> QED
  BY <1>1 DEF Bits

LEMMA BitsAssociative ==
  \A s, t, u \in Seq({0, 1}) : (s \o t) \o u = s \o (t \o u)
BY ConcatAssociative

\* What is put behind is found behind.
LEMMA BitsBehind ==
  ASSUME NEW s \in Seq({0, 1}), NEW t \in Seq({0, 1}),
         Len(t) \in Nat \ {0}
  PROVE  SubSeq(s \o t, Len(s) + 1, Len(s) + Len(t)) = t
<1>1. Len(s) \in Nat /\ Len(t) \in Nat \ {0}
  OBVIOUS
<1>2. /\ Len(s) + 1 \in Len(s) + 1 .. Len(s) + Len(t)
      /\ Len(s) + Len(t) \in Len(s) + 1 .. Len(s) + Len(t)
      /\ (Len(s) + 1) - Len(s) = 1 /\ (Len(s) + Len(t)) - Len(s) = Len(t)
  BY <1>1
<1>3. SubSeq(s \o t, Len(s) + 1, Len(s) + Len(t))
        = SubSeq(t, (Len(s) + 1) - Len(s), (Len(s) + Len(t)) - Len(s))
  BY <1>2, SubSeqOfConcat2
<1>4. SubSeq(t, 1, Len(t)) = t
  BY SubSeqFull
<1> QED
  BY <1>2, <1>3, <1>4

\* The bits of two numbers side by side, as a formula for the provers to keep whole.
BitsJoin(v, l, a, n, b, m) == Bits(v, l) = Bits(a, n) \o Bits(b, m)

LEMMA BitsSplit ==
  ASSUME NEW n \in Nat, NEW m \in Nat, NEW a \in Nat, NEW b \in 0 .. Pow2[m] - 1
  PROVE  BitsJoin(a * Pow2[m] + b, n + m, a, n, b, m)
<1> DEFINE M == Pow2[m]
           v == a * M + b
<1>1. M \in Nat \ {0} /\ v \in Nat /\ b \in Nat /\ b < M
  <2>1. M \in Nat \ {0}
    BY PowNat
  <2> HIDE DEF M
  <2> QED
    BY <2>1, TimesTimes DEF M
<1>2. ASSUME NEW k \in 1 .. n PROVE v \div Pow2[(n + m) - k] = a \div Pow2[n - k]
  <2>1. n - k \in Nat /\ (n - k) + m = (n + m) - k
    OBVIOUS
  <2>2. Pow2[(n + m) - k] = Pow2[n - k] * M /\ Pow2[n - k] \in Nat /\ 0 < Pow2[n - k]
    BY <2>1, Pow2Sum, PowNat
  <2> HIDE DEF M
  <2> QED
    BY <1>1, <2>2, DivScaled
<1>3. ASSUME NEW j \in 1 .. m PROVE (v \div Pow2[m - j]) % 2 = (b \div Pow2[m - j]) % 2
  <2> DEFINE q == Pow2[m - j]
             t == Pow2[j - 1]
  <2>1. m - j \in Nat /\ j - 1 \in Nat /\ j \in Nat /\ (m - j) + j = m /\ (j - 1) + 1 = j
    OBVIOUS
  <2>2. M = q * Pow2[j] /\ Pow2[j] = 2 * t
    <3>1. Pow2[(m - j) + j] = Pow2[m - j] * Pow2[j]
      BY <2>1, Pow2Sum
    <3>2. Pow2[(j - 1) + 1] = 2 * Pow2[j - 1]
      BY <2>1, Pow2Def
    <3> QED
      BY <2>1, <3>1, <3>2
  <2>3. q \in Nat \ {0} /\ t \in Nat \ {0}
    BY <2>1, PowNat
  <2>4. PICK x \in Nat, r \in 0 .. q - 1 : b = x * q + r
    <3> HIDE DEF q
    <3>1. q \in Nat /\ 0 < q
      BY <2>3
    <3> QED
      BY <1>1, <3>1, QuotientRemainder
  <2>5. v = (a * (2 * t) + x) * q + r
    <3> HIDE DEF q, t, M
    <3>1. a * M = (a * (2 * t)) * q
      BY <2>2, <2>3, TimesTimes
    <3>2. (a * (2 * t) + x) * q = (a * (2 * t)) * q + x * q
      BY <2>3, TimesSum, TimesTimes
    <3>3. (a * (2 * t)) * q \in Nat /\ x * q \in Nat
      BY <2>3, TimesTimes
    <3> QED
      BY <2>4, <3>1, <3>2, <3>3
  <2>6. v \div q = a * (2 * t) + x /\ b \div q = x
    <3> HIDE DEF q, t, v
    <3>1. a * (2 * t) \in Nat
      BY <2>3, TimesTimes
    <3> DEFINE y == a * (2 * t) + x
    <3>2. y \in Nat /\ q \in Nat /\ r \in Nat /\ r < q
      BY <2>3, <3>1
    <3> HIDE DEF y
    <3>3. (y * q + r) \div q = y
      BY <3>2, DivUnique
    <3>4. (x * q + r) \div q = x
      BY <3>2, DivUnique
    <3> QED
      BY <2>4, <2>5, <3>3, <3>4 DEF y
  <2>7. (a * (2 * t) + x) % 2 = x % 2
    <3> HIDE DEF t
    <3>1. a * (2 * t) = 2 * (a * t) /\ a * t \in Nat
      BY <2>3, TimesTimes
    <3> QED
      BY <3>1
  <2> QED
    BY <2>6, <2>7
<1> HIDE DEF v
<1> DEFINE s == Bits(v, n + m)
           t == Bits(a, n) \o Bits(b, m)
<1>4. s \in Seq({0, 1}) /\ Len(s) = n + m
  <2>1. n + m \in Nat
    OBVIOUS
  <2> QED
    BY <1>1, <2>1, BitsSeq
<1>5. t \in Seq({0, 1}) /\ Len(t) = n + m
  <2>1. /\ Bits(a, n) \in Seq({0, 1}) /\ Bits(b, m) \in Seq({0, 1})
        /\ Len(Bits(a, n)) = n /\ Len(Bits(b, m)) = m
    BY <1>1, BitsSeq
  <2> QED
    BY <2>1, ConcatProperties
<1>6. ASSUME NEW k \in 1 .. n + m PROVE s[k] = t[k]
  <2>1. s[k] = (v \div Pow2[(n + m) - k]) % 2
    BY DEF Bits
  <2>2. CASE k <= n
    <3>1. k \in 1 .. n
      BY <2>2
    <3>2. t[k] = Bits(a, n)[k]
      BY <1>1, <3>1, BitsSeq, ConcatProperties
    <3>3. Bits(a, n)[k] = (a \div Pow2[n - k]) % 2
      BY <3>1 DEF Bits
    <3> QED
      BY <1>2, <2>1, <3>1, <3>2, <3>3
  <2>3. CASE k > n
    <3> DEFINE j == k - n
    <3>1. j \in 1 .. m /\ k = n + j /\ (n + m) - k = m - j
      BY <2>3
    <3>2. t[k] = Bits(b, m)[j]
      <4>1. Bits(a, n) \in Seq({0, 1}) /\ Bits(b, m) \in Seq({0, 1})
            /\ Len(Bits(a, n)) = n /\ Len(Bits(b, m)) = m
        BY <1>1, BitsSeq
      <4> QED
        BY <2>3, <4>1, ConcatProperties
    <3>3. Bits(b, m)[j] = (b \div Pow2[m - j]) % 2
      BY <3>1 DEF Bits
    <3>4. (v \div Pow2[m - j]) % 2 = (b \div Pow2[m - j]) % 2
      BY <1>3, <3>1
    <3>5. s[k] = (v \div Pow2[m - j]) % 2
      BY <2>1, <3>1
    <3> HIDE DEF j, s, t
    <3> QED
      BY <3>2, <3>3, <3>4, <3>5
  <2> HIDE DEF s, t
  <2> QED
    BY <2>2, <2>3
<1> HIDE DEF s, t
<1>7. s = t
  BY <1>4, <1>5, <1>6, SeqEqual
<1> QED
  BY <1>7, Zenon DEF s, t, v, M, BitsJoin

\* A number's first bits, and then the rest.
LEMMA BitsParts ==
  ASSUME NEW h \in Nat, NEW n \in 0 .. h, NEW A \in Nat
  PROVE  Bits(A \div Pow2[h - n], n) \o Bits(A % Pow2[h - n], h - n) = Bits(A, h)
<1> DEFINE M == Pow2[h - n]
<1>1. h - n \in Nat /\ n \in Nat /\ n + (h - n) = h /\ M \in Nat /\ 0 < M
  BY PowNat
<1>2. PICK q \in Nat, r \in 0 .. M - 1 : A = q * M + r
  <2> HIDE DEF M
  <2> QED
    BY <1>1, QuotientRemainder
<1>3. A \div M = q /\ A % M = r
  <2> HIDE DEF M
  <2> QED
    BY <1>1, <1>2, DivUnique
<1>4. BitsJoin(A, h, q, n, r, h - n)
  BY <1>1, <1>2, BitsSplit, SMT
<1> QED
  BY <1>3, <1>4, Zenon DEF BitsJoin
-----------------------------------------------------------------------------
(***************************************************************************)
(* Bytes: the invariant of the byte buffer, of any input i.                *)
(***************************************************************************)
\* The unread slots hold the stream up to what has been served.
SlotsKept(i) ==
  \A k \in 1 .. i.gInBufLeft : i.gInBuf[(i.gInBufOfs + k - 1) % InBufSize] = ByteAt(i.at + k)

\* Past the end of the stream FF and EOI take turns.
EndKept(served, end, tem) ==
  IF served < Len(stream) THEN end = served /\ ~tem
  ELSE end >= Len(stream) /\ tem = ((end - Len(stream)) % 2 = 1)

Kept(i) == SlotsKept(i) /\ EndKept(i.served, i.at + i.gInBufLeft, i.gTemFlag)

\* The unread slots lie between lo and the end of gInBuf; when it is used up
\* gInBufOfs may have come round to 0.
Room(i, lo) == \/ i.gInBufOfs = 0 /\ i.gInBufLeft = 0
               \/ i.gInBufOfs >= lo /\ i.gInBufOfs + i.gInBufLeft <= InBufSize

\* An input whose unread bytes are the stream's, and lie above slot lo.
Sound(i, lo) == i \in InputType /\ i.served <= Len(stream) /\ Kept(i) /\ Room(i, lo)

\* Only the bytes of i have changed in j.
BitsKept(i, j) == j.gBitBuf = i.gBitBuf /\ j.gBitsLeft = i.gBitsLeft

\* What the assumptions say of the constants, one by one.
LEMMA Constants ==
  /\ Width \in Nat /\ Reserve \in Nat /\ InBufSize \in Nat /\ 3 <= Reserve /\ Reserve < InBufSize
  /\ FF \in Nat /\ 0 .. FF = 0 .. Pow2[Width] - 1
  /\ EOI \in 0 .. FF /\ RST \in 0 .. FF /\ EOI # 0 /\ RST # 0 /\ EOI # FF /\ RST # FF
BY InputAssumption, PowNat DEF FF

\* A byte of the stream, or of what follows it, has Width bits.
LEMMA ByteInRange ==
  ASSUME stream \in Streams, NEW n \in Nat \ {0}
  PROVE  ByteAt(n) \in 0 .. FF
<1>1. stream \in Seq(0 .. FF)
  BY InputAssumption DEF FF
<1>2. CASE n <= Len(stream)
  <2>1. n \in 1 .. Len(stream)
    BY <1>1, <1>2
  <2>2. stream[n] \in 0 .. FF
    BY <1>1, <2>1, ElementOfSeq
  <2> QED
    BY <1>2, <2>2 DEF ByteAt
<1>3. CASE ~ n <= Len(stream)
  BY <1>3, Constants DEF ByteAt
<1> QED
  BY <1>2, <1>3

\* A refill of a buffer that is used up.
LEMMA FillSound ==
  ASSUME stream \in Streams, NEW lo \in 1 .. Reserve, NEW i, Sound(i, lo), i.gInBufLeft = 0
  PROVE  /\ Sound(fillInBuf(i), Reserve) /\ BitsKept(i, fillInBuf(i)) /\ fillInBuf(i).at = i.at
         /\ fillInBuf(i).gInBufOfs = Reserve
<1> DEFINE n == IF Len(stream) - i.served < InBufSize - Reserve
                  THEN Len(stream) - i.served ELSE InBufSize - Reserve
           f == fillInBuf(i)
<1>0. i \in InputType /\ EndKept(i.served, i.at + 0, i.gTemFlag) /\ i.served <= Len(stream)
  BY DEF Sound, Kept
<1>1. /\ i.served \in Nat /\ i.at \in Nat /\ i.gTemFlag \in BOOLEAN /\ i.served <= Len(stream)
      /\ i.gInBuf \in [0 .. InBufSize - 1 -> 0 .. FF] /\ DOMAIN i.gInBuf = 0 .. InBufSize - 1
      /\ Len(stream) \in Nat /\ stream \in Seq(0 .. FF)
  <2>1. stream \in Seq(0 .. FF)
    BY InputAssumption DEF FF
  <2> QED
    BY <1>0, <2>1 DEF InputType
<1>2. n \in Nat /\ n <= InBufSize - Reserve /\ i.served + n <= Len(stream)
      /\ (i.served = Len(stream) => n = 0) /\ (i.served < Len(stream) => i.at = i.served)
  <2>1. n \in Nat /\ n <= InBufSize - Reserve /\ i.served + n <= Len(stream)
        /\ (i.served = Len(stream) => n = 0)
    BY <1>1, Constants
  <2> QED
    BY <1>0, <1>1, <2>1 DEF EndKept
<1> DEFINE buf == [k \in DOMAIN i.gInBuf |-> IF k \in Reserve .. Reserve + n - 1
                                             THEN stream[i.served + k - Reserve + 1]
                                             ELSE i.gInBuf[k]]
<1>3. /\ f.gInBufOfs = Reserve /\ f.gInBufLeft = n /\ f.served = i.served + n /\ f.at = i.at
      /\ f.gTemFlag = i.gTemFlag /\ f.gBitBuf = i.gBitBuf /\ f.gBitsLeft = i.gBitsLeft
      /\ f.gInBuf = buf
      /\ f = [i EXCEPT !.gInBufOfs = Reserve, !.gInBufLeft = n, !.served = i.served + n,
                       !.gInBuf = buf]
  <2> HIDE DEF n
  <2>1. f = [i EXCEPT !.gInBufOfs = Reserve, !.gInBufLeft = n, !.served = @ + n,
              !.gInBuf = [k \in DOMAIN @ |-> IF k \in Reserve .. Reserve + n - 1
                                                THEN stream[i.served + k - Reserve + 1]
                                                ELSE @[k]]]
    BY DEF fillInBuf, n
  <2>2. f = [i EXCEPT !.gInBufOfs = Reserve, !.gInBufLeft = n, !.served = i.served + n,
              !.gInBuf = buf]
    BY <2>1, <1>0 DEF InputType
  <2> HIDE DEF buf, f
  <2> QED
    BY <2>2, <1>0 DEF InputType
<1> HIDE DEF f, n
<1>4. ASSUME NEW k \in 1 .. n
      PROVE  /\ buf[Reserve + k - 1] = stream[i.served + k]
             /\ stream[i.served + k] = ByteAt(i.served + k) /\ stream[i.served + k] \in 0 .. FF
  <2>1. /\ Reserve + k - 1 \in DOMAIN i.gInBuf /\ Reserve + k - 1 \in Reserve .. Reserve + n - 1
        /\ i.served + (Reserve + k - 1) - Reserve + 1 = i.served + k
        /\ i.served + k \in 1 .. Len(stream) /\ i.served + k <= Len(stream)
    <3>1. i.served + k \in 1 .. Len(stream) /\ i.served + k <= Len(stream)
      BY <1>1, <1>2
    <3>2. Reserve + k - 1 \in 0 .. InBufSize - 1 /\ Reserve + k - 1 \in Reserve .. Reserve + n - 1
      BY <1>2, Constants
    <3>3. i.served + (Reserve + k - 1) - Reserve + 1 = i.served + k
      BY <1>1, Constants
    <3> QED
      BY <1>1, <3>1, <3>2, <3>3
  <2>2. stream[i.served + k] \in 0 .. FF
    BY <1>1, <2>1, ElementOfSeq
  <2> QED
    BY <2>1, <2>2 DEF ByteAt
<1>5. buf \in [0 .. InBufSize - 1 -> 0 .. FF]
  <2>1. ASSUME NEW k \in 0 .. InBufSize - 1 PROVE buf[k] \in 0 .. FF
    <3>1. CASE k \in Reserve .. Reserve + n - 1
      <4>1. k - Reserve + 1 \in 1 .. n /\ Reserve + (k - Reserve + 1) - 1 = k
        BY <1>2, <3>1, Constants
      <4> HIDE DEF buf
      <4> QED
        BY <1>4, <4>1
    <3>2. CASE k \notin Reserve .. Reserve + n - 1
      BY <1>1, <3>2
    <3> QED
      BY <3>1, <3>2
  <2>2. DOMAIN i.gInBuf = 0 .. InBufSize - 1
    BY <1>1
  <2> QED
    BY <2>1, <2>2
<1> HIDE DEF buf
<1>6. f \in InputType
  <2>1. Reserve \in 0 .. InBufSize - 1 /\ n \in 0 .. InBufSize - 1 /\ i.served + n \in Nat
    BY <1>1, <1>2, Constants
  <2>2. f = [i EXCEPT !.gInBufOfs = Reserve, !.gInBufLeft = n, !.served = i.served + n,
              !.gInBuf = buf]
    BY <1>3
  <2> QED
    BY <1>0, <1>5, <2>1, <2>2 DEF InputType
<1>7. Kept(f)
  <2>1. ASSUME NEW k \in 1 .. f.gInBufLeft
        PROVE  f.gInBuf[(f.gInBufOfs + k - 1) % InBufSize] = ByteAt(f.at + k)
    <3>1. k \in 1 .. n /\ Reserve + k - 1 \in 0 .. InBufSize - 1 /\ n # 0
      BY <1>2, <1>3, Constants
    <3>2. (Reserve + k - 1) % InBufSize = Reserve + k - 1
      BY <3>1, Constants
    <3>3. i.at = i.served
      BY <1>1, <1>2, <3>1
    <3> QED
      BY <1>3, <1>4, <3>1, <3>2, <3>3
  <2>2. EndKept(f.served, f.at + f.gInBufLeft, f.gTemFlag)
    <3>1. CASE i.served < Len(stream)
      <4>1. i.at = i.served /\ ~i.gTemFlag /\ f.at + f.gInBufLeft = f.served /\ ~f.gTemFlag
            /\ f.served \in Nat /\ f.served <= Len(stream)
        BY <1>0, <1>1, <1>2, <1>3, <3>1 DEF EndKept
      <4>2. ~ ((Len(stream) - Len(stream)) % 2 = 1) /\ f.gTemFlag \in BOOLEAN
        BY <1>1, <1>3
      <4> HIDE DEF f
      <4>3. CASE f.served < Len(stream)
        BY <4>1, <4>3 DEF EndKept
      <4>4. CASE f.served = Len(stream)
        <5>1. ~ f.served < Len(stream) /\ f.at + f.gInBufLeft >= Len(stream)
              /\ f.at + f.gInBufLeft = Len(stream)
          BY <1>1, <4>1, <4>4
        <5> QED
          BY <4>1, <4>2, <5>1, Zenon DEF EndKept
      <4> QED
        BY <1>1, <4>1, <4>3, <4>4
    <3>2. CASE i.served = Len(stream)
      <4>1. f.at + f.gInBufLeft = i.at + 0 /\ f.served = i.served /\ f.gTemFlag = i.gTemFlag
        BY <1>1, <1>2, <1>3, <3>2
      <4> QED
        BY <1>0, <4>1
    <3> QED
      BY <1>1, <3>1, <3>2
  <2> QED
    BY <2>1, <2>2 DEF Kept, SlotsKept
<1>8. Room(f, Reserve)
  BY <1>1, <1>2, <1>3, Constants DEF Room
<1> QED
  BY <1>2, <1>3, <1>6, <1>7, <1>8 DEF Sound, BitsKept, f

\* Room above a slot is room above a lower one.
LEMMA RoomLess ==
  ASSUME NEW lo \in Nat, NEW l \in Nat, lo <= l, NEW i, Sound(i, l)
  PROVE  Sound(i, lo)
<1>1. i.gInBufOfs \in Nat /\ (i.gInBufOfs >= l => i.gInBufOfs >= lo)
  BY Constants DEF Sound, InputType
<1> QED
  BY <1>1 DEF Sound, Room

\* A byte that is in gInBuf.
ReadSlot(f) == [f EXCEPT !.gInBufLeft = @ - 1, !.gInBufOfs = (@ + 1) % InBufSize, !.at = @ + 1]

\* Reading a slot keeps the input sound, and hands out the stream's byte.
LEMMA SlotSound ==
  ASSUME stream \in Streams, NEW l \in 1 .. Reserve, NEW f, Sound(f, l), f.gInBufLeft # 0
  PROVE  /\ Sound(ReadSlot(f), l + 1) /\ BitsKept(f, ReadSlot(f)) /\ ReadSlot(f).at = f.at + 1
         /\ f.gInBuf[f.gInBufOfs] = ByteAt(f.at + 1)
<1> DEFINE g == ReadSlot(f)
           ofs == f.gInBufOfs
           left == f.gInBufLeft
<1>1. /\ f \in InputType /\ ofs \in 0 .. InBufSize - 1 /\ left \in 1 .. InBufSize - 1
      /\ f.at \in Nat
      /\ f.served \in Nat /\ f.served <= Len(stream) /\ InBufSize \in Nat /\ InBufSize > 0
  BY Constants DEF Sound, InputType
<1>2. ofs >= l /\ ofs + left <= InBufSize
  BY <1>1 DEF Sound, Room
<1>3. /\ g.gInBufLeft = left - 1 /\ g.gInBufOfs = (ofs + 1) % InBufSize /\ g.at = f.at + 1
      /\ g.served = f.served /\ g.gTemFlag = f.gTemFlag /\ g.gInBuf = f.gInBuf
      /\ g.gBitBuf = f.gBitBuf /\ g.gBitsLeft = f.gBitsLeft
  BY <1>1 DEF ReadSlot, InputType
<1>4. \/ ofs + 1 < InBufSize /\ (ofs + 1) % InBufSize = ofs + 1
      \/ ofs + 1 = InBufSize /\ (ofs + 1) % InBufSize = 0 /\ left = 1
  <2> HIDE DEF ofs, left
  <2>1. CASE ofs + 1 < InBufSize
    BY <1>1, <2>1
  <2>2. CASE ofs + 1 = InBufSize
    <3>1. InBufSize % InBufSize = 0
      BY <1>1
    <3> QED
      BY <1>1, <1>2, <2>2, <3>1
  <2> QED
    BY <1>1, <2>1, <2>2
<1>5. g \in InputType
  <2>1. /\ (ofs + 1) % InBufSize \in 0 .. InBufSize - 1 /\ left - 1 \in 0 .. InBufSize - 1
        /\ f.at + 1 \in Nat
    <3> HIDE DEF ofs, left
    <3> QED
      BY <1>1, <1>4
  <2> QED
    BY <1>1, <2>1 DEF ReadSlot, InputType
<1>6. Room(g, l + 1)
  BY <1>1, <1>2, <1>3, <1>4 DEF Room
<1>7. SlotsKept(f) /\ EndKept(f.served, f.at + left, f.gTemFlag)
  BY DEF Sound, Kept
<1>8. f.gInBuf[ofs] = ByteAt(f.at + 1)
  <2>1. 1 \in 1 .. f.gInBufLeft /\ (ofs + 1 - 1) % InBufSize = ofs
    BY <1>1
  <2> QED
    BY <1>7, <2>1 DEF SlotsKept
<1>9. SlotsKept(g)
  <2>1. ASSUME NEW k \in 1 .. g.gInBufLeft
        PROVE  g.gInBuf[(g.gInBufOfs + k - 1) % InBufSize] = ByteAt(g.at + k)
    <3>1. k + 1 \in 1 .. f.gInBufLeft /\ k \in 1 .. left - 1
      BY <1>1, <1>3
    <3>2. g.gInBufOfs = ofs + 1
      BY <1>1, <1>3, <1>4, <3>1
    <3>3. g.gInBufOfs + k - 1 = ofs + (k + 1) - 1 /\ g.at + k = f.at + (k + 1)
      <4>1. ofs \in Nat /\ f.at \in Nat /\ k \in Nat /\ g.at = f.at + 1
        BY <1>1, <1>3
      <4> HIDE DEF g, ofs
      <4> QED
        BY <3>2, <4>1
    <3>4. f.gInBuf[(f.gInBufOfs + (k + 1) - 1) % InBufSize] = ByteAt(f.at + (k + 1))
      BY <1>7, <3>1 DEF SlotsKept
    <3> QED
      BY <1>3, <3>3, <3>4
  <2> QED
    BY <2>1 DEF SlotsKept
<1>10. EndKept(g.served, g.at + g.gInBufLeft, g.gTemFlag)
  <2>1. g.at + g.gInBufLeft = f.at + left
    <3>1. g.at = f.at + 1 /\ g.gInBufLeft = left - 1
      BY <1>3, Zenon
    <3>2. f.at \in Nat /\ left \in Nat
      BY <1>1
    <3> HIDE DEF g, left
    <3> QED
      BY <3>1, <3>2
  <2> QED
    BY <1>3, <1>7, <2>1
<1> QED
  BY <1>1, <1>3, <1>5, <1>6, <1>8, <1>9, <1>10 DEF Sound, Kept, BitsKept

\* A byte past the end.
ReadPast(f) == [f EXCEPT !.gTemFlag = ~@, !.at = @ + 1]

\* So does reading past the end.
LEMMA PastSound ==
  ASSUME stream \in Streams, NEW l \in 1 .. Reserve, NEW f, Sound(f, l), f.gInBufLeft = 0,
         f.served = Len(stream)
  PROVE  /\ Sound(ReadPast(f), l) /\ BitsKept(f, ReadPast(f)) /\ ReadPast(f).at = f.at + 1
         /\ (IF f.gTemFlag THEN EOI ELSE FF) = ByteAt(f.at + 1)
<1> DEFINE g == ReadPast(f)
<1>1. /\ f \in InputType /\ f.at \in Nat /\ Len(stream) \in Nat /\ f.gTemFlag \in BOOLEAN
      /\ EndKept(f.served, f.at + 0, f.gTemFlag)
  <2>1. stream \in Seq(0 .. FF)
    BY InputAssumption DEF FF
  <2> QED
    BY <2>1 DEF Sound, Kept, InputType
<1>2. /\ g.gInBufLeft = 0 /\ g.gInBufOfs = f.gInBufOfs /\ g.at = f.at + 1
      /\ g.served = f.served /\ g.gTemFlag = ~f.gTemFlag /\ g.gInBuf = f.gInBuf
      /\ g.gBitBuf = f.gBitBuf /\ g.gBitsLeft = f.gBitsLeft /\ g \in InputType
  <2>1. /\ g.gInBufLeft = 0 /\ g.gInBufOfs = f.gInBufOfs /\ g.at = f.at + 1
        /\ g.served = f.served /\ g.gInBuf = f.gInBuf
        /\ g.gBitBuf = f.gBitBuf /\ g.gBitsLeft = f.gBitsLeft
    BY <1>1 DEF ReadPast, InputType
  <2>2. g.gTemFlag = ~f.gTemFlag
    BY <1>1, Zenon DEF ReadPast, InputType
  <2>3. g = [f EXCEPT !.gTemFlag = g.gTemFlag, !.at = f.at + 1] /\ f.at + 1 \in Nat
    <3>1. g = [f EXCEPT !.gTemFlag = ~f.gTemFlag, !.at = f.at + 1]
      BY Zenon DEF ReadPast
    <3> HIDE DEF g
    <3>2. g = [f EXCEPT !.gTemFlag = g.gTemFlag, !.at = f.at + 1]
      BY <2>2, <3>1, Zenon
    <3> QED
      BY <1>1, <3>2
  <2>4. g.gTemFlag \in BOOLEAN
    BY <1>1, <2>2, Zenon
  <2> HIDE DEF g
  <2>5. g \in InputType
    BY <1>1, <2>3, <2>4 DEF InputType
  <2> QED
    BY <2>1, <2>2, <2>5, Zenon
<1> DEFINE d == f.at - Len(stream)
<1>3. d \in Nat /\ f.gTemFlag = (d % 2 = 1) /\ f.at >= Len(stream)
  <2>1. ~ f.served < Len(stream) /\ f.at + 0 = f.at
    BY <1>1
  <2>2. f.at >= Len(stream) /\ f.gTemFlag = ((f.at - Len(stream)) % 2 = 1)
    BY <1>1, <2>1, Zenon DEF EndKept
  <2> QED
    BY <1>1, <2>2
<1>4. (d + 1) % 2 = 1 <=> ~ (d % 2 = 1)
  <2> HIDE DEF d
  <2> QED
    BY <1>3
<1>5. EndKept(g.served, g.at + g.gInBufLeft, g.gTemFlag)
  <2>1. /\ ~ g.served < Len(stream) /\ g.at + g.gInBufLeft = f.at + 1 /\ f.at + 1 >= Len(stream)
        /\ (f.at + 1) - Len(stream) = d + 1
    BY <1>1, <1>2, <1>3
  <2>2. g.gTemFlag = ((d + 1) % 2 = 1)
    BY <1>2, <1>3, <1>4, Zenon
  <2> HIDE DEF d
  <2> QED
    BY <2>1, <2>2, Zenon DEF EndKept
<1>6. SlotsKept(g)
  BY <1>2 DEF SlotsKept
<1>7. (IF f.gTemFlag THEN EOI ELSE FF) = ByteAt(f.at + 1)
  <2>1. ~ (f.at + 1 <= Len(stream)) /\ (f.at + 1) - Len(stream) = d + 1
    BY <1>1, <1>3
  <2>2. ByteAt(f.at + 1) = IF (d + 1) % 2 = 1 THEN FF ELSE EOI
    BY <2>1 DEF ByteAt
  <2> HIDE DEF d
  <2>3. CASE d % 2 = 1
    BY <1>3, <1>4, <2>2, <2>3, Zenon
  <2>4. CASE ~ d % 2 = 1
    BY <1>3, <1>4, <2>2, <2>4, Zenon
  <2> QED
    BY <2>3, <2>4
<1>8. Room(g, l)
  BY <1>2 DEF Sound, Room
<1> QED
  BY <1>2, <1>5, <1>6, <1>8, <1>7 DEF Sound, Kept, BitsKept

\* getChar hands out the next byte, and goes on by one.
LEMMA GetCharSound ==
  ASSUME stream \in Streams, NEW lo \in 1 .. Reserve, NEW i, Sound(i, lo)
  PROVE  /\ Sound(getChar(i).in, lo) /\ (lo < Reserve => Sound(getChar(i).in, lo + 1))
         /\ BitsKept(i, getChar(i).in)
         /\ getChar(i).in.at = i.at + 1 /\ getChar(i).val = ByteAt(i.at + 1)
<1> DEFINE f == IF i.gInBufLeft = 0 THEN fillInBuf(i) ELSE i
<1>1. getChar(i) = IF f.gInBufLeft = 0
                     THEN [in |-> ReadPast(f), val |-> IF f.gTemFlag THEN EOI ELSE FF]
                     ELSE [in |-> ReadSlot(f), val |-> f.gInBuf[f.gInBufOfs]]
  BY DEF getChar, ReadPast, ReadSlot
<1>2. lo \in Nat /\ lo <= Reserve /\ Reserve \in 1 .. Reserve /\ lo + 1 \in Nat
      /\ Reserve + 1 \in Nat /\ lo + 1 <= Reserve + 1 /\ lo <= lo + 1 /\ lo <= Reserve + 1
      /\ (lo < Reserve => lo + 1 <= Reserve)
  BY Constants
<1>3. /\ Sound(f, lo) /\ BitsKept(i, f) /\ f.at = i.at
      /\ (f.gInBufLeft = 0 => Sound(f, Reserve) /\ f.served = Len(stream))
  <2>1. CASE i.gInBufLeft = 0
    <3>1. /\ f = fillInBuf(i) /\ Sound(f, Reserve) /\ BitsKept(i, f) /\ f.at = i.at
      BY <2>1, FillSound
    <3>2. f.gInBufLeft = 0 => f.served = Len(stream)
      <4>1. i \in InputType /\ i.served \in Nat /\ i.served <= Len(stream) /\ Len(stream) \in Nat
        <5>1. stream \in Seq(0 .. FF)
          BY InputAssumption DEF FF
        <5> QED
          BY <5>1 DEF Sound, InputType
      <4> DEFINE n == IF Len(stream) - i.served < InBufSize - Reserve
                        THEN Len(stream) - i.served ELSE InBufSize - Reserve
      <4>2. fillInBuf(i).gInBufLeft = n /\ fillInBuf(i).served = i.served + n
        <5> HIDE DEF n
        <5> QED
          BY <4>1 DEF fillInBuf, InputType, n
      <4>3. n = 0 => i.served + n = Len(stream)
        BY <4>1, Constants
      <4> HIDE DEF n
      <4> QED
        BY <3>1, <4>2, <4>3
    <3> QED
      BY <1>2, <3>1, <3>2, RoomLess, Constants
  <2>2. CASE i.gInBufLeft # 0
    BY <2>2 DEF BitsKept
  <2> QED
    BY <2>1, <2>2
<1> HIDE DEF f
<1>4. CASE f.gInBufLeft = 0
  <2>1. /\ Sound(ReadPast(f), Reserve) /\ BitsKept(f, ReadPast(f)) /\ ReadPast(f).at = f.at + 1
        /\ (IF f.gTemFlag THEN EOI ELSE FF) = ByteAt(f.at + 1)
    BY <1>2, <1>3, <1>4, PastSound
  <2>2. Sound(ReadPast(f), lo) /\ (lo < Reserve => Sound(ReadPast(f), lo + 1))
    BY <1>2, <2>1, RoomLess, Constants
  <2> QED
    BY <1>1, <1>3, <1>4, <2>1, <2>2 DEF BitsKept
<1>5. CASE f.gInBufLeft # 0
  <2>1. /\ Sound(ReadSlot(f), lo + 1) /\ BitsKept(f, ReadSlot(f)) /\ ReadSlot(f).at = f.at + 1
        /\ f.gInBuf[f.gInBufOfs] = ByteAt(f.at + 1)
    BY <1>3, <1>5, SlotSound
  <2>2. Sound(ReadSlot(f), lo)
    BY <1>2, <2>1, RoomLess
  <2> QED
    BY <1>1, <1>3, <1>5, <2>1, <2>2 DEF BitsKept
<1> QED
  BY <1>4, <1>5

\* The slot before slot a of n.
LEMMA SlotBefore ==
  ASSUME NEW n \in Nat, n > 3, NEW a \in 0 .. n - 1
  PROVE  (a - 1) % n = IF a = 0 THEN n - 1 ELSE a - 1
BY SMTT(30)

\* stuffChar puts the byte back that was read last.
LEMMA StuffSound ==
  ASSUME stream \in Streams, NEW lo \in 2 .. Reserve, NEW i, Sound(i, lo), i.at # 0,
         NEW c \in 0 .. FF, c = ByteAt(i.at)
  PROVE  /\ Sound(stuffChar(i, c), lo - 1) /\ BitsKept(i, stuffChar(i, c))
         /\ stuffChar(i, c).at = i.at - 1
<1> DEFINE ofs == (i.gInBufOfs - 1) % InBufSize
           g == stuffChar(i, c)
<1>1. /\ i \in InputType
      /\ i.gInBufOfs \in 0 .. InBufSize - 1 /\ i.gInBufLeft \in 0 .. InBufSize - 1
      /\ i.at \in Nat \ {0} /\ i.served \in Nat /\ i.gInBuf \in [0 .. InBufSize - 1 -> 0 .. FF]
      /\ InBufSize \in Nat /\ InBufSize > 3 /\ lo \in Nat /\ lo <= InBufSize - 1 /\ lo >= 2
  BY Constants DEF Sound, InputType
<1>2. /\ ofs \in 0 .. InBufSize - 1 /\ ofs >= lo - 1 /\ ofs + i.gInBufLeft + 1 <= InBufSize
      /\ i.gInBufLeft # 0 => i.gInBufOfs = ofs + 1
  <2>0. \/ i.gInBufOfs = 0 /\ i.gInBufLeft = 0
        \/ i.gInBufOfs >= lo /\ i.gInBufOfs + i.gInBufLeft <= InBufSize
    BY DEF Sound, Room
  <2> DEFINE o == i.gInBufOfs
             left == i.gInBufLeft
  <2>1. /\ o \in 0 .. InBufSize - 1 /\ left \in Nat /\ InBufSize \in Nat /\ InBufSize > 3
        /\ lo \in Nat /\ lo <= InBufSize - 1 /\ lo >= 2
    BY <1>1
  <2>2. ofs = IF o = 0 THEN InBufSize - 1 ELSE o - 1
    <3> HIDE DEF o
    <3> QED
      BY <2>1, SlotBefore DEF o
  <2> HIDE DEF ofs
  <2>3. (o = 0 /\ left = 0) \/ (o >= lo /\ o + left <= InBufSize)
    BY <2>0
  <2> HIDE DEF o, left
  <2>4. /\ ofs \in 0 .. InBufSize - 1 /\ ofs >= lo - 1 /\ ofs + left + 1 <= InBufSize
        /\ left # 0 => o = ofs + 1
    BY <2>1, <2>2, <2>3
  <2> QED
    BY <2>4 DEF o, left
<1> DEFINE buf == [i.gInBuf EXCEPT ![ofs] = c]
<1>3. g = [i EXCEPT !.gInBufOfs = ofs, !.gInBuf = buf, !.gInBufLeft = i.gInBufLeft + 1,
                    !.at = i.at - 1]
  <2> HIDE DEF ofs
  <2> QED
    BY <1>1 DEF stuffChar, InputType, ofs
<1> HIDE DEF g
<1>4. /\ g.gInBufLeft = i.gInBufLeft + 1 /\ g.gInBufOfs = ofs /\ g.at = i.at - 1
      /\ g.served = i.served /\ g.gTemFlag = i.gTemFlag /\ g.gInBuf = buf
      /\ g.gBitBuf = i.gBitBuf /\ g.gBitsLeft = i.gBitsLeft
  <2> HIDE DEF buf, ofs
  <2> QED
    BY <1>1, <1>3 DEF InputType
<1> HIDE DEF ofs
<1>5. g \in InputType
  <2>1. buf \in [0 .. InBufSize - 1 -> 0 .. FF]
    BY <1>1
  <2>2. i.gInBufLeft + 1 \in 0 .. InBufSize - 1 /\ i.at - 1 \in Nat
    <3> DEFINE left == i.gInBufLeft
    <3>1. /\ left \in Nat /\ i.at \in Nat \ {0} /\ InBufSize \in Nat
          /\ lo \in Nat /\ lo >= 2 /\ ofs \in Nat /\ ofs >= lo - 1 /\ ofs + left + 1 <= InBufSize
      BY <1>1, <1>2
    <3> HIDE DEF left, buf
    <3>2. left + 1 \in 0 .. InBufSize - 1 /\ i.at - 1 \in Nat
      BY <3>1
    <3> QED
      BY <3>2 DEF left
  <2> HIDE DEF buf
  <2> QED
    BY <1>1, <1>2, <1>3, <2>1, <2>2 DEF InputType
<1>6. Room(g, lo - 1)
  <2> HIDE DEF buf
  <2>1. ofs + (i.gInBufLeft + 1) <= InBufSize
    BY <1>1, <1>2
  <2> QED
    BY <1>2, <1>4, <2>1 DEF Room
<1>7. SlotsKept(i) /\ EndKept(i.served, i.at + i.gInBufLeft, i.gTemFlag) /\ i.served <= Len(stream)
  BY DEF Sound, Kept
<1>8. SlotsKept(g)
  <2>1. ASSUME NEW k \in 1 .. g.gInBufLeft
        PROVE  g.gInBuf[(g.gInBufOfs + k - 1) % InBufSize] = ByteAt(g.at + k)
    <3>1. ofs + k - 1 \in 0 .. InBufSize - 1 /\ (ofs + k - 1) % InBufSize = ofs + k - 1
      <4>1. k \in 1 .. i.gInBufLeft + 1
        BY <1>4, Zenon
      <4> DEFINE left == i.gInBufLeft
                 o == ofs + k - 1
      <4>2. /\ left \in Nat /\ InBufSize \in Nat /\ InBufSize > 3 /\ k \in 1 .. left + 1
            /\ ofs \in Nat /\ ofs + left + 1 <= InBufSize
        BY <1>1, <1>2, <4>1
      <4> HIDE DEF buf, left
      <4>3. o \in 0 .. InBufSize - 1
        BY <4>2
      <4> HIDE DEF o
      <4>4. o % InBufSize = o
        BY <4>2, <4>3
      <4> QED
        BY <4>3, <4>4 DEF o
    <3>2. CASE k = 1
      <4>1. ofs + k - 1 = ofs /\ g.at + k = i.at
        <5> HIDE DEF buf
        <5> QED
          BY <1>1, <1>2, <1>4, <3>2
      <4>2. buf[ofs] = c
        BY <1>1, <1>2
      <4> HIDE DEF buf
      <4> QED
        BY <1>4, <3>1, <4>1, <4>2
    <3>3. CASE k # 1
      <4>1. /\ k - 1 \in 1 .. i.gInBufLeft /\ i.gInBufOfs = ofs + 1 /\ g.at + k = i.at + (k - 1)
            /\ i.gInBufOfs + (k - 1) - 1 = ofs + k - 1 /\ ofs + k - 1 # ofs
        <5> HIDE DEF buf
        <5>1. /\ i.gInBufLeft \in Nat /\ i.at \in Nat \ {0} /\ k \in 1 .. i.gInBufLeft + 1
              /\ g.at = i.at - 1 /\ ofs \in Nat
          <6>1. k \in 1 .. i.gInBufLeft + 1 /\ g.at = i.at - 1
            BY <1>4, Zenon
          <6> HIDE DEF g
          <6> QED
            BY <1>1, <1>2, <6>1
        <5>2. k - 1 \in 1 .. i.gInBufLeft /\ g.at + k = i.at + (k - 1)
          BY <3>3, <5>1
        <5>3. i.gInBufOfs = ofs + 1
          <6>1. i.gInBufLeft # 0
            BY <5>2
          <6> QED
            BY <1>2, <6>1, Zenon
        <5> QED
          BY <3>3, <5>1, <5>2, <5>3
      <4>2. i.gInBuf[(i.gInBufOfs + (k - 1) - 1) % InBufSize] = ByteAt(i.at + (k - 1))
        BY <1>7, <4>1 DEF SlotsKept
      <4>3. buf[ofs + k - 1] = i.gInBuf[ofs + k - 1]
        BY <1>1, <3>1, <4>1
      <4> HIDE DEF buf
      <4> QED
        BY <1>4, <3>1, <4>1, <4>2, <4>3
    <3> QED
      BY <3>2, <3>3
  <2> QED
    BY <2>1 DEF SlotsKept
<1>9. EndKept(g.served, g.at + g.gInBufLeft, g.gTemFlag)
  <2>1. g.at + g.gInBufLeft = i.at + i.gInBufLeft
    <3> HIDE DEF buf
    <3>1. g.at = i.at - 1 /\ g.gInBufLeft = i.gInBufLeft + 1
      BY <1>4, Zenon
    <3>2. i.at \in Nat /\ i.gInBufLeft \in Nat
      BY <1>1
    <3> HIDE DEF g
    <3> QED
      BY <3>1, <3>2
  <2> QED
    BY <1>4, <1>7, <2>1, Zenon
<1> QED
  BY <1>4, <1>5, <1>6, <1>7, <1>8, <1>9 DEF Sound, Kept, BitsKept, g
-----------------------------------------------------------------------------
(***************************************************************************)
(* Octets.                                                                 *)
(***************************************************************************)
\* The place of the octet behind the one at p.
Behind(scan, p) == CASE ~scan \/ ByteAt(p) # FF -> p + 1
                     [] scan /\ ByteAt(p) = FF /\ ByteAt(p + 1) = 0 -> p + 2
                     [] OTHER -> p

\* The slots that are free below the unread ones: a marker takes two.
Free(scan) == IF scan THEN Reserve - 2 ELSE Reserve

\* getOctet hands out the next octet, and goes on to the one behind it.
LEMMA GetOctetSound ==
  ASSUME stream \in Streams, NEW scan \in BOOLEAN, NEW i, Sound(i, Free(scan))
  PROVE  LET o == getOctet(i, scan)
         IN  /\ Sound(o.in, Free(scan)) /\ BitsKept(i, o.in)
             /\ o.in.at + 1 = Behind(scan, i.at + 1) /\ o.val = ByteAt(i.at + 1)
             /\ o.val \in 0 .. FF /\ i.at \in Nat
<1> DEFINE o == getOctet(i, scan)
           c == getChar(i)
           n == getChar(c.in)
           lo == Free(scan)
<1>0. /\ lo \in 1 .. Reserve /\ lo \in Nat /\ Reserve \in Nat
      /\ (scan => lo + 2 = Reserve /\ lo + 1 \in 1 .. Reserve)
      /\ i.at \in Nat /\ i.at + 1 \in Nat \ {0} /\ i.at + 1 + 1 \in Nat \ {0}
  <2>1. i.at \in Nat
    BY DEF Sound, InputType
  <2> QED
    BY <2>1, Constants DEF Free
<1> HIDE DEF lo
<1>1. /\ Sound(c.in, lo) /\ BitsKept(i, c.in) /\ c.in.at = i.at + 1 /\ c.val = ByteAt(i.at + 1)
      /\ (scan => Sound(c.in, lo + 1)) /\ c.val \in 0 .. FF
  <2>1. Sound(i, lo)
    BY DEF lo
  <2>2. scan => lo < Reserve
    BY <1>0
  <2> HIDE DEF c
  <2>3. /\ Sound(c.in, lo) /\ BitsKept(i, c.in) /\ c.in.at = i.at + 1 /\ c.val = ByteAt(i.at + 1)
        /\ (lo < Reserve => Sound(c.in, lo + 1))
    BY <1>0, <2>1, GetCharSound DEF c
  <2>4. ByteAt(i.at + 1) \in 0 .. FF
    BY <1>0, ByteInRange
  <2> QED
    BY <2>2, <2>3, <2>4
<1>2. ASSUME scan
      PROVE  /\ Sound(n.in, lo + 2) /\ BitsKept(i, n.in) /\ n.in.at = i.at + 2
             /\ n.val = ByteAt(i.at + 1 + 1) /\ n.val \in 0 .. FF
  <2>1. Sound(c.in, lo + 1) /\ lo + 1 \in 1 .. Reserve /\ lo + 1 < Reserve /\ lo + 1 + 1 = lo + 2
    BY <1>0, <1>1, <1>2
  <2> HIDE DEF c, n
  <2>2. /\ Sound(n.in, lo + 1 + 1) /\ BitsKept(c.in, n.in) /\ n.in.at = c.in.at + 1
        /\ n.val = ByteAt(c.in.at + 1)
    <3> DEFINE l1 == lo + 1
    <3>1. Sound(c.in, l1) /\ l1 \in 1 .. Reserve /\ l1 < Reserve
      BY <2>1
    <3> HIDE DEF l1
    <3>2. /\ Sound(n.in, l1 + 1) /\ BitsKept(c.in, n.in) /\ n.in.at = c.in.at + 1
          /\ n.val = ByteAt(c.in.at + 1)
      BY <3>1, GetCharSound DEF n
    <3> QED
      BY <3>2 DEF l1
  <2>3. ByteAt(i.at + 1 + 1) \in 0 .. FF
    BY <1>0, ByteInRange
  <2>4. n.in.at = i.at + 2
    BY <1>0, <1>1, <2>2
  <2> QED
    BY <1>1, <2>1, <2>2, <2>3, <2>4 DEF BitsKept
<1>3. CASE ~scan \/ c.val # FF
  <2>1. o = c
    BY <1>3 DEF getOctet
  <2>2. Behind(scan, i.at + 1) = i.at + 1 + 1
    <3> HIDE DEF c
    <3>1. ~scan \/ ByteAt(i.at + 1) # FF
      BY <1>1, <1>3
    <3> QED
      BY <3>1 DEF Behind
  <2> HIDE DEF o, c
  <2> QED
    BY <1>0, <1>1, <2>1, <2>2 DEF lo, o
<1>4. CASE scan /\ c.val = FF /\ n.val = 0
  <2>1. o = [in |-> n.in, val |-> FF]
    BY <1>4 DEF getOctet
  <2> HIDE DEF c, n
  <2>2. Behind(scan, i.at + 1) = i.at + 1 + 2
    <3>1. scan /\ ByteAt(i.at + 1) = FF /\ ByteAt(i.at + 1 + 1) = 0
      BY <1>1, <1>2, <1>4
    <3> QED
      BY <3>1 DEF Behind
  <2>3. Sound(n.in, lo)
    <3>1. lo + 2 \in Nat /\ lo <= lo + 2
      BY <1>0
    <3> DEFINE l2 == lo + 2
    <3>2. Sound(n.in, l2) /\ l2 \in Nat /\ lo <= l2
      BY <1>2, <1>4, <3>1
    <3> HIDE DEF l2
    <3> QED
      BY <1>0, <3>2, RoomLess
  <2>4. o.in = n.in /\ o.val = FF
    BY <2>1
  <2>5. n.in.at + 1 = i.at + 1 + 2
    BY <1>0, <1>2, <1>4
  <2> HIDE DEF o
  <2> QED
    BY <1>0, <1>1, <1>2, <1>4, <2>2, <2>3, <2>4, <2>5 DEF lo, o
<1>5. CASE scan /\ c.val = FF /\ n.val # 0
  <2> DEFINE s == stuffChar(n.in, n.val)
             t == stuffChar(s, FF)
  <2>1. o = [in |-> t, val |-> FF]
    <3>1. ~ (~scan \/ c.val # FF) /\ ~ (scan /\ c.val = FF /\ n.val = 0)
      BY <1>5
    <3> HIDE DEF c, n
    <3> QED
      BY <3>1 DEF getOctet, c, n
  <2> HIDE DEF c, n
  <2>2. Behind(scan, i.at + 1) = i.at + 1
    <3>1. ~ (~scan \/ ByteAt(i.at + 1) # FF)
          /\ ~ (scan /\ ByteAt(i.at + 1) = FF /\ ByteAt(i.at + 1 + 1) = 0)
      BY <1>1, <1>2, <1>5
    <3> QED
      BY <3>1 DEF Behind
  <2>3. Sound(s, lo + 2 - 1) /\ BitsKept(n.in, s) /\ s.at = n.in.at - 1
    <3> DEFINE l2 == lo + 2
    <3>1. /\ l2 \in 2 .. Reserve /\ Sound(n.in, l2) /\ n.in.at # 0 /\ n.val \in 0 .. FF
          /\ n.val = ByteAt(n.in.at)
      <4>1. i.at + 2 = i.at + 1 + 1 /\ i.at + 2 # 0
        BY <1>0
      <4> QED
        BY <1>0, <1>2, <1>5, <4>1
    <3> DEFINE j == n.in
               v == n.val
    <3>3. /\ l2 \in 2 .. Reserve /\ Sound(j, l2) /\ j.at # 0 /\ v \in 0 .. FF
          /\ v = ByteAt(j.at)
      BY <3>1
    <3> HIDE DEF l2, j, v
    <3>4. /\ Sound(stuffChar(j, v), l2 - 1) /\ BitsKept(j, stuffChar(j, v))
          /\ stuffChar(j, v).at = j.at - 1
      BY <3>3, StuffSound
    <3>2. Sound(s, l2 - 1) /\ BitsKept(n.in, s) /\ s.at = n.in.at - 1
      BY <3>4 DEF j, v, s
    <3>5. l2 - 1 = lo + 2 - 1
      BY <1>0 DEF l2
    <3> QED
      BY <3>2, <3>5, Zenon
  <2> HIDE DEF s
  <2>4. Sound(t, lo) /\ BitsKept(s, t) /\ t.at = s.at - 1
    <3> DEFINE l1 == lo + 2 - 1
    <3>1. l1 \in 2 .. Reserve /\ Sound(s, l1) /\ l1 - 1 = lo
      BY <1>0, <1>5, <2>3
    <3>2. s.at = i.at + 1 /\ s.at # 0 /\ FF \in 0 .. FF
      BY <1>0, <1>2, <1>5, <2>3, Constants
    <3>3. FF = ByteAt(s.at)
      BY <1>1, <1>5, <3>2
    <3> HIDE DEF l1, t
    <3>4. Sound(t, l1 - 1) /\ BitsKept(s, t) /\ t.at = s.at - 1
      BY <3>1, <3>2, <3>3, StuffSound DEF t
    <3> QED
      BY <3>1, <3>4
  <2>5. o.in = t /\ o.val = FF
    BY <2>1
  <2> HIDE DEF o, t
  <2>6. t.at + 1 = i.at + 1
    BY <1>0, <1>2, <1>5, <2>3, <2>4
  <2>7. BitsKept(i, t)
    BY <1>2, <1>5, <2>3, <2>4 DEF BitsKept
  <2> QED
    BY <1>0, <1>1, <1>5, <2>2, <2>4, <2>5, <2>6, <2>7 DEF lo, o
<1> QED
  BY <1>3, <1>4, <1>5

\* Behind leads on.
LEMMA BehindNat ==
  ASSUME NEW scan \in BOOLEAN, NEW p \in Nat \ {0}
  PROVE  Behind(scan, p) \in Nat \ {0} /\ Behind(scan, p) >= p
<1>1. CASE ~scan \/ ByteAt(p) # FF
  BY <1>1 DEF Behind
<1>2. CASE scan /\ ByteAt(p) = FF /\ ByteAt(p + 1) = 0
  BY <1>2 DEF Behind
<1>3. CASE scan /\ ByteAt(p) = FF /\ ByteAt(p + 1) # 0
  BY <1>3 DEF Behind
<1> QED
  BY <1>1, <1>2, <1>3

\* The places of a segment's octets, each behind the one before.
LEMMA OctetSteps ==
  ASSUME NEW from \in Nat, NEW scan \in BOOLEAN
  PROVE  /\ OctetAt(from, scan, 1) = from + 1
         /\ \A n \in Nat \ {0} :
               /\ OctetAt(from, scan, n) \in Nat \ {0}
               /\ OctetAt(from, scan, n + 1) = Behind(scan, OctetAt(from, scan, n))
<1> DEFINE V == Nat \ {0}
           step == [p \in Nat \X V |-> Behind(scan, p[2])]
           a == from + 1
<1>1. a \in V /\ step \in [Nat \X V -> V]
  BY BehindNat
<1>2. \A n \in Nat, p \in V : step[<<n, p>>] = Behind(scan, p)
  OBVIOUS
<1> HIDE DEF V, step, a
<1>3. PICK f : PrimitiveRecursive(f, V, a, step)
  BY <1>1, RecursiveOnNat
<1>4. /\ f[0] = a /\ \A n \in Nat : f[n] \in V /\ f[n + 1] = step[<<n, f[n]>>]
  BY <1>3 DEF PrimitiveRecursive
<1>5. ASSUME NEW n \in Nat \ {0} PROVE OctetAt(from, scan, n) = f[n - 1]
  <2> DEFINE D(o) == [k \in 0 .. n - 1 |-> IF k = 0 THEN from + 1 ELSE Behind(scan, o[k - 1])]
             octet == CHOOSE o : o = D(o)
             g == [k \in 0 .. n - 1 |-> f[k]]
  <2>1. g = D(g)
    <3>1. ASSUME NEW k \in 0 .. n - 1, k # 0 PROVE f[k] = Behind(scan, f[k - 1])
      <4>1. k - 1 \in Nat /\ (k - 1) + 1 = k
        BY <3>1
      <4> QED
        BY <1>2, <1>4, <4>1
    <3>2. f[0] = from + 1
      BY <1>4 DEF a
    <3>3. ASSUME NEW k \in 0 .. n - 1, k # 0 PROVE g[k - 1] = f[k - 1]
      BY <3>3
    <3> QED
      BY <3>1, <3>2, <3>3
  <2>2. octet = D(octet)
    <3> HIDE DEF D, g
    <3> QED
      BY <2>1
  <2>3. OctetAt(from, scan, n) = octet[n - 1]
    BY DEF OctetAt, Behind
  <2> HIDE DEF octet
  <2> DEFINE S == {k \in Nat : k <= n - 1 => octet[k] = f[k]}
  <2>4. 0 \in S
    <3>1. 0 \in 0 .. n - 1
      OBVIOUS
    <3>2. octet[0] = from + 1
      BY <2>2, <3>1
    <3> QED
      BY <1>4, <3>2 DEF a
  <2>5. ASSUME NEW k \in Nat, k \in S PROVE k + 1 \in S
    <3> SUFFICES ASSUME k + 1 <= n - 1 PROVE octet[k + 1] = f[k + 1]
      OBVIOUS
    <3>1. k + 1 \in 0 .. n - 1 /\ k + 1 # 0 /\ (k + 1) - 1 = k /\ octet[k] = f[k]
      BY <2>5
    <3>2. octet[k + 1] = Behind(scan, octet[(k + 1) - 1])
      BY <2>2, <3>1
    <3> HIDE DEF D
    <3> QED
      BY <1>2, <1>4, <3>1, <3>2
  <2>6. Nat \subseteq S
    <3> HIDE DEF S
    <3> QED
      BY <2>4, <2>5, SetInduction
  <2>7. n - 1 \in Nat
    OBVIOUS
  <2> QED
    BY <2>3, <2>6, <2>7
<1>6. OctetAt(from, scan, 1) = from + 1
  BY <1>4, <1>5 DEF a
<1>7. ASSUME NEW n \in Nat \ {0}
      PROVE  /\ OctetAt(from, scan, n) \in Nat \ {0}
             /\ OctetAt(from, scan, n + 1) = Behind(scan, OctetAt(from, scan, n))
  <2>1. n - 1 \in Nat /\ n + 1 \in Nat \ {0} /\ (n + 1) - 1 = (n - 1) + 1
    OBVIOUS
  <2>2. OctetAt(from, scan, n) = f[n - 1] /\ OctetAt(from, scan, n + 1) = f[(n - 1) + 1]
    BY <1>5, <2>1
  <2>3. f[n - 1] \in V /\ f[(n - 1) + 1] = Behind(scan, f[n - 1])
    BY <1>2, <1>4, <2>1
  <2> QED
    BY <2>2, <2>3 DEF V
<1> QED
  BY <1>6, <1>7
-----------------------------------------------------------------------------
(***************************************************************************)
(* What has been taken and what the bit buffer holds are the octets of the *)
(* segment behind from, and the byte buffer stands behind the last of them.*)
(***************************************************************************)
\* What the buffer holds, as a number and as bits.
Held(i) == i.gBitBuf \div Pow2[Width - i.gBitsLeft]

Ahead(i) == Bits(Held(i), Width + i.gBitsLeft)

\* bits are those of the first N octets of the segment.
Octets(from, scan, bits, N) ==
  /\ Len(bits) = N * Width
  /\ \A k \in 1 .. N :
        SubSeq(bits, (k - 1) * Width + 1, k * Width) = Bits(ByteAt(OctetAt(from, scan, k)), Width)

\* N octets of the segment have been read.
ReadTo(from, scan, i, N) ==
  /\ OctetAt(from, scan, N + 1) = i.at + 1
  /\ Held(i) % Pow2[Width] = ByteAt(OctetAt(from, scan, N))

\* The bits taken and those held are the segment's, which is read so far.
InStep(from, scan, i, bits) ==
  /\ Sound(i, Free(scan)) /\ i.gBitsLeft < Width
  /\ i.gBitBuf = Held(i) * Pow2[Width - i.gBitsLeft]
  /\ bits \in Seq({0, 1})
  /\ \E N \in Nat \ {0} : Octets(from, scan, bits \o Ahead(i), N) /\ ReadTo(from, scan, i, N)

\* The ranges of the fields of the bit buffer, and an input with new ones.
Fits(b, l) == b \in 0 .. Pow2[Top] - 1 /\ l \in 0 .. Width

With(i, b, l) == [i EXCEPT !.gBitBuf = b, !.gBitsLeft = l]

\* New bits leave the bytes as sound as they were.
LEMMA WithBits ==
  ASSUME NEW lo, NEW i, Sound(i, lo), NEW b, NEW l, Fits(b, l)
  PROVE  /\ Sound(With(i, b, l), lo) /\ With(i, b, l).gBitBuf = b /\ With(i, b, l).gBitsLeft = l
         /\ With(i, b, l).at = i.at
<1> DEFINE j == With(i, b, l)
<1>1. i \in InputType
  BY DEF Sound
<1>2. /\ j.gInBuf = i.gInBuf /\ j.gInBufOfs = i.gInBufOfs /\ j.gInBufLeft = i.gInBufLeft
      /\ j.gTemFlag = i.gTemFlag /\ j.served = i.served /\ j.at = i.at
      /\ j.gBitBuf = b /\ j.gBitsLeft = l
  BY <1>1 DEF InputType, With
<1>3. j \in InputType
  BY <1>1 DEF InputType, Top, With, Fits
<1> HIDE DEF j
<1>4. Sound(j, lo)
  BY <1>2, <1>3 DEF Sound, Kept, SlotsKept, Room
<1> QED
  BY <1>2, <1>4 DEF j

\* A shift keeps the buffer in its range.
LEMMA ShiftRange ==
  ASSUME NEW a \in Nat, NEW n \in Nat
  PROVE  Shift(a, n) \in 0 .. Pow2[Top] - 1 /\ Shift(a, n) \in Nat
<1>1. Pow2[Top] \in Nat \ {0} /\ a * Pow2[n] \in Nat
  BY WidthNat, PowNat, TimesTimes
<1>2. (a * Pow2[n]) % Pow2[Top] \in 0 .. Pow2[Top] - 1
  BY <1>1, DivModNat
<1> QED
  BY <1>1, <1>2 DEF Shift, Top

\* What is held fits, and shows in the buffer.
LEMMA HeldFits ==
  ASSUME NEW h \in 0 .. Width, NEW A \in Nat
  PROVE  (A * Pow2[Width - h]) \div Pow2[Width - h] = A
<1>1. Pow2[Width - h] \in Nat /\ 0 < Pow2[Width - h]
  <2>1. Width - h \in Nat
    BY WidthNat
  <2> QED
    BY <2>1, PowNat
<1>2. ASSUME NEW b \in Nat, b = 0, NEW M \in Nat, 0 < M
      PROVE  (A * M) \div M = A
  <2>1. b < M
    BY <1>2
  <2>2. (A * M + b) \div M = A
    BY <1>2, <2>1, DivUnique
  <2>3. A * M \in Nat
    BY <1>2, TimesTimes
  <2>4. A * M + b = A * M
    BY <1>2, <2>3
  <2> QED
    BY <2>2, <2>4
<1> QED
  BY <1>1, <1>2

\* An input in step has its fields in their ranges.
LEMMA InStepFields ==
  ASSUME NEW from, NEW scan, NEW i, NEW bits, InStep(from, scan, i, bits)
  PROVE  /\ i.gBitsLeft \in 0 .. Width /\ i.gBitsLeft < Width /\ i.gBitsLeft \in Nat
         /\ i.gBitBuf \in Nat /\ Held(i) \in Nat /\ i.at \in Nat
         /\ Width + i.gBitsLeft \in Nat
         /\ Ahead(i) \in Seq({0, 1}) /\ Len(Ahead(i)) = Width + i.gBitsLeft
<1>1. i.gBitsLeft \in 0 .. Width /\ i.at \in Nat /\ i.gBitBuf \in Nat /\ i.gBitsLeft < Width
  <2>1. Pow2[2 * Width] \in Nat
    BY WidthNat, PowNat DEF Top
  <2> QED
    BY <2>1 DEF InStep, Sound, InputType
<1>2. Width - i.gBitsLeft \in Nat /\ Width + i.gBitsLeft \in Nat /\ i.gBitsLeft \in Nat
  BY <1>1, WidthNat
<1>3. Held(i) \in Nat
  <2>1. Pow2[Width - i.gBitsLeft] \in Nat \ {0}
    BY <1>2, PowNat
  <2> QED
    BY <1>1, <2>1, DivModNat DEF Held
<1> QED
  BY <1>1, <1>2, <1>3, BitsSeq DEF Ahead

\* An octet behind the others.
LEMMA OctetsNext ==
  ASSUME NEW from, NEW scan, NEW bits \in Seq({0, 1}), NEW N \in Nat,
         Octets(from, scan, bits, N), NEW c \in Nat, c = ByteAt(OctetAt(from, scan, N + 1))
  PROVE  Octets(from, scan, bits \o Bits(c, Width), N + 1)
<1> DEFINE t == Bits(c, Width)
           all == bits \o t
<1>1. t \in Seq({0, 1}) /\ Len(t) = Width /\ Width \in Nat \ {0} /\ Width \in Nat
  BY WidthNat, BitsSeq
<1>2. Len(bits) = N * Width /\ N * Width \in Nat /\ (N + 1) * Width = N * Width + Width
      /\ (N + 1) - 1 = N
  BY WidthNat, TimesTimes, NextMultiple DEF Octets
<1> HIDE DEF t
<1>3. Len(all) = (N + 1) * Width
  BY <1>1, <1>2, ConcatProperties
<1>4. ASSUME NEW k \in 1 .. N
      PROVE  SubSeq(all, (k - 1) * Width + 1, k * Width)
               = Bits(ByteAt(OctetAt(from, scan, k)), Width)
  <2> DEFINE m == (k - 1) * Width
             n == k * Width
             l == N * Width
  <2>1. m \in Nat /\ n = m + Width /\ n <= l /\ l \in Nat
    <3>1. k - 1 \in Nat /\ (k - 1) + 1 = k /\ N - k \in Nat /\ k \in Nat
      OBVIOUS
    <3>2. ((k - 1) + 1) * Width = (k - 1) * Width + Width /\ (k - 1) * Width \in Nat
      BY <1>1, <3>1, NextMultiple, TimesTimes
    <3>3. (k + (N - k)) * Width = k * Width + (N - k) * Width
          /\ k * Width \in Nat /\ (N - k) * Width \in Nat
      BY <1>1, <3>1, TimesSum, TimesTimes
    <3>4. k + (N - k) = N
      BY <3>1
    <3> QED
      BY <1>1, <1>2, <3>1, <3>2, <3>3, <3>4
  <2>2. Len(bits) = l
    BY <1>2
  <2>3. SubSeq(bits, m + 1, n) = Bits(ByteAt(OctetAt(from, scan, k)), Width)
    BY DEF Octets
  <2> HIDE DEF m, n, l
  <2>4. m + 1 \in 1 .. Len(bits) /\ n \in 1 .. Len(bits)
    BY <1>1, <2>1, <2>2
  <2>5. SubSeq(bits \o t, m + 1, n) = SubSeq(bits, m + 1, n)
    BY <1>1, <2>4, SubSeqOfConcat1
  <2> QED
    BY <2>3, <2>5 DEF m, n
<1>5. SubSeq(all, N * Width + 1, (N + 1) * Width) = t
  <2> DEFINE l == N * Width
  <2>1. l \in Nat /\ Len(bits) = l
    BY <1>2
  <2> HIDE DEF l
  <2>2. SubSeq(bits \o t, Len(bits) + 1, Len(bits) + Len(t)) = t
    <3>1. Len(t) \in Nat \ {0}
      BY <1>1
    <3> QED
      BY <1>1, <3>1, BitsBehind, Zenon
  <2> QED
    BY <1>1, <1>2, <2>1, <2>2 DEF l
<1>6. ASSUME NEW k \in 1 .. N + 1
      PROVE  SubSeq(all, (k - 1) * Width + 1, k * Width)
               = Bits(ByteAt(OctetAt(from, scan, k)), Width)
  <2>1. CASE k = N + 1
    BY <1>2, <1>5, <2>1 DEF t
  <2>2. CASE k # N + 1
    <3>1. k \in 1 .. N
      BY <2>2
    <3> QED
      BY <1>4, <3>1
  <2> QED
    BY <2>1, <2>2
<1> QED
  BY <1>3, <1>6 DEF Octets, t

\* Bits that the buffer holds.
LEMMA ReadHeld ==
  ASSUME NEW from, NEW scan \in BOOLEAN, NEW i, NEW bits, InStep(from, scan, i, bits),
         NEW n \in Nat, n <= i.gBitsLeft
  PROVE  InStep(from, scan, With(i, Shift(i.gBitBuf, n), i.gBitsLeft - n),
                bits \o Bits(i.gBitBuf \div Pow2[2 * Width - n], n))
<1> DEFINE j == With(i, Shift(i.gBitBuf, n), i.gBitsLeft - n)
           l == i.gBitsLeft
           A == Held(i)
           h == Width + l
           val == i.gBitBuf \div Pow2[2 * Width - n]
           B == A % Pow2[h - n]
<1>1. /\ l \in 0 .. Width /\ l < Width /\ l \in Nat /\ i.gBitBuf \in Nat /\ A \in Nat
      /\ Ahead(i) = Bits(A, h) /\ i.gBitBuf = A * Pow2[Width - l] /\ bits \in Seq({0, 1})
      /\ Sound(i, Free(scan))
  BY InStepFields DEF InStep, Ahead
<1>2. PICK N \in Nat \ {0} : Octets(from, scan, bits \o Bits(A, h), N) /\ ReadTo(from, scan, i, N)
  BY <1>1 DEF InStep
<1>0. j = With(i, Shift(i.gBitBuf, n), l - n) /\ n <= l
  OBVIOUS
<1>o. ReadTo(from, scan, i, N) => A % Pow2[Width] = ByteAt(OctetAt(from, scan, N))
                                   /\ OctetAt(from, scan, N + 1) = i.at + 1
  BY DEF ReadTo
<1>h. Held(j) = j.gBitBuf \div Pow2[Width - j.gBitsLeft]
        /\ Ahead(j) = Bits(Held(j), Width + j.gBitsLeft)
  BY DEF Held, Ahead
<1> HIDE DEF j, l, A, B
<1>3. /\ h \in 0 .. Top /\ h \in Nat /\ n \in 0 .. h /\ h - n \in Nat /\ Top - h = Width - l
      /\ Top - (h - n) = Width - (l - n) /\ l - n \in 0 .. Width /\ h - n = Width + (l - n)
      /\ Width - (l - n) \in Nat /\ Width \in Nat /\ l - n \in Nat /\ l - n < Width
      /\ 2 * Width - n = Top - n
  <2>1. l \in Nat /\ l < Width /\ n <= l /\ Width \in Nat /\ Top = 2 * Width
    BY <1>0, <1>1, WidthNat DEF Top
  <2> QED
    BY <2>1
<1>4. Shift(i.gBitBuf, n) = B * Pow2[Width - (l - n)]
  <2>1. Shift(A * Pow2[Top - h], n) = (A % Pow2[h - n]) * Pow2[Top - (h - n)]
    BY <1>1, <1>3, ShiftHeld
  <2> QED
    BY <1>1, <1>3, <2>1 DEF B
<1>5. val = A \div Pow2[h - n]
  <2>1. (A * Pow2[Top - h]) \div Pow2[Top - n] = A \div Pow2[h - n]
    BY <1>1, <1>3, TopHeld
  <2> QED
    BY <1>1, <1>3, <2>1
<1>6. Pow2[h - n] \in Nat \ {0} /\ B \in Nat /\ val \in Nat
  <2>1. Pow2[h - n] \in Nat \ {0} /\ A \in Nat
    BY <1>1, <1>3, PowNat
  <2>2. A % Pow2[h - n] \in Nat /\ A \div Pow2[h - n] \in Nat
    <3> DEFINE M == Pow2[h - n]
    <3>1. A \in Nat /\ M \in Nat \ {0}
      BY <2>1
    <3> HIDE DEF M
    <3>2. A % M \in 0 .. M - 1
      BY <3>1, DivModNat
    <3>3. A \div M \in Nat
      BY <3>1, DivModNat
    <3> QED
      BY <3>1, <3>2, <3>3 DEF M
  <2> HIDE DEF val
  <2> QED
    BY <1>5, <2>1, <2>2 DEF B
<1>7. /\ Sound(j, Free(scan)) /\ j.gBitsLeft = l - n /\ j.gBitBuf = Shift(i.gBitBuf, n)
      /\ j.at = i.at
  <2> DEFINE b == Shift(i.gBitBuf, n)
             m == l - n
             lo == Free(scan)
  <2>1. b \in 0 .. Pow2[Top] - 1
    BY <1>1, ShiftRange
  <2>2. Fits(b, m) /\ Sound(i, lo) /\ j = With(i, b, m)
    BY <1>0, <1>1, <1>3, <2>1 DEF Fits
  <2> HIDE DEF b, m, lo
  <2>3. Sound(j, lo) /\ j.gBitBuf = b /\ j.gBitsLeft = m /\ j.at = i.at
    BY <2>2, WithBits
  <2> QED
    BY <2>3 DEF b, m, lo
<1>8. Held(j) = B /\ j.gBitBuf = Held(j) * Pow2[Width - j.gBitsLeft]
  <2>1. (B * Pow2[Width - (l - n)]) \div Pow2[Width - (l - n)] = B
    BY <1>3, <1>6, HeldFits
  <2> QED
    BY <1>h, <1>4, <1>7, <2>1
<1>9. /\ (bits \o Bits(val, n)) \o Ahead(j) = bits \o Bits(A, h)
      /\ bits \o Bits(val, n) \in Seq({0, 1})
  <2>1. Bits(A \div Pow2[h - n], n) \o Bits(B, h - n) = Bits(A, h)
    BY <1>1, <1>3, BitsParts DEF B
  <2>2. Ahead(j) = Bits(B, h - n)
    BY <1>h, <1>3, <1>7, <1>8
  <2>3. Bits(val, n) \in Seq({0, 1}) /\ Bits(B, h - n) \in Seq({0, 1})
    BY <1>3, <1>6, BitsSeq
  <2> HIDE DEF val
  <2>4. (bits \o Bits(val, n)) \o Bits(B, h - n) = bits \o (Bits(val, n) \o Bits(B, h - n))
    BY <1>1, <2>3, BitsAssociative, Zenon
  <2>5. bits \o Bits(val, n) \in Seq({0, 1})
    BY <1>1, <2>3, ConcatProperties
  <2> QED
    BY <1>5, <2>1, <2>2, <2>4, <2>5
<1>10. ReadTo(from, scan, j, N)
  <2>1. B % Pow2[Width] = A % Pow2[Width]
    <3> DEFINE M == Pow2[Width]
               Q == Pow2[l - n]
    <3>1. Pow2[h - n] = Q * M /\ M \in Nat \ {0} /\ Q \in Nat \ {0}
      <4>1. (l - n) + Width = h - n
        BY <1>1, <1>3
      <4> QED
        BY <1>3, <4>1, Pow2Sum, PowNat
    <3> HIDE DEF M, Q
    <3>2. (A % (Q * M)) % M = A % M
      BY <1>1, <3>1, ModMod
    <3> QED
      BY <3>1, <3>2 DEF B, M
  <2> QED
    BY <1>2, <1>o, <1>7, <1>8, <2>1 DEF ReadTo
<1> QED
  <2>1. Octets(from, scan, (bits \o Bits(val, n)) \o Ahead(j), N)
    BY <1>2, <1>9
  <2> HIDE DEF val
  <2>2. InStep(from, scan, j, bits \o Bits(val, n))
    BY <1>3, <1>7, <1>8, <1>9, <1>10, <2>1 DEF InStep
  <2> QED
    BY <2>2 DEF val, j

\* Bits of which the buffer holds the first ones only.
LEMMA ReadOn ==
  ASSUME stream \in Streams, NEW from \in Nat, NEW scan \in BOOLEAN, NEW i, NEW bits,
         InStep(from, scan, i, bits), NEW n \in 0 .. Width, n > i.gBitsLeft
  PROVE  InStep(from, scan, [Refill(i, i.gBitsLeft, n - i.gBitsLeft, scan)
                               EXCEPT !.gBitsLeft = Width - (n - i.gBitsLeft)],
                bits \o Bits(i.gBitBuf \div Pow2[2 * Width - n], n))
<1> DEFINE j == [Refill(i, i.gBitsLeft, n - i.gBitsLeft, scan)
                   EXCEPT !.gBitsLeft = Width - (n - i.gBitsLeft)]
           l == i.gBitsLeft
           A == Held(i)
           h == Width + l
           val == i.gBitBuf \div Pow2[2 * Width - n]
           gap == n - l
           o == getOctet(i, scan)
           c == o.val
           buf == Shift(Shift(i.gBitBuf, l) + c, gap)
           B == A % Pow2[Width - gap]
           D == B * Pow2[Width] + c
<1>1. /\ l \in 0 .. Width /\ l < Width /\ l \in Nat /\ i.gBitBuf \in Nat /\ A \in Nat
      /\ Ahead(i) = Bits(A, h) /\ i.gBitBuf = A * Pow2[Width - l] /\ bits \in Seq({0, 1})
      /\ Sound(i, Free(scan)) /\ n > l
  BY InStepFields DEF InStep, Ahead
<1>2. PICK N \in Nat \ {0} : Octets(from, scan, bits \o Bits(A, h), N) /\ ReadTo(from, scan, i, N)
  BY <1>1 DEF InStep
<1>3. /\ Sound(o.in, Free(scan)) /\ BitsKept(i, o.in) /\ o.in.at + 1 = Behind(scan, i.at + 1)
      /\ c = ByteAt(i.at + 1) /\ c \in 0 .. FF /\ i.at \in Nat
  BY <1>1, GetOctetSound
<1>4. j = With(o.in, buf, Width - gap)
  <2>1. Refill(i, l, gap, scan) = [o.in EXCEPT !.gBitBuf = buf]
    <3>1. Refill(i, l, gap, scan) = [o.in EXCEPT !.gBitBuf = Shift(Shift(@, l) + c, gap)]
      BY DEF Refill
    <3>2. o.in \in InputType /\ o.in.gBitBuf = i.gBitBuf
      BY <1>3 DEF Sound, BitsKept
    <3> HIDE DEF o, c, l, gap
    <3> QED
      BY <3>1, <3>2 DEF InputType
  <2>2. o.in \in InputType
    BY <1>3 DEF Sound
  <2>3. j = [Refill(i, l, gap, scan) EXCEPT !.gBitsLeft = Width - gap]
    OBVIOUS
  <2> HIDE DEF o, c, l, gap, buf
  <2> QED
    BY <2>1, <2>2, <2>3 DEF InputType, With
<1>h. Held(j) = j.gBitBuf \div Pow2[Width - j.gBitsLeft]
        /\ Ahead(j) = Bits(Held(j), Width + j.gBitsLeft)
  BY DEF Held, Ahead
<1>o. OctetAt(from, scan, N + 1) = i.at + 1
  BY <1>2 DEF ReadTo
<1> HIDE DEF j, l, A, B, o, c
<1>5. /\ h \in 0 .. Top /\ h \in Nat /\ n \in 0 .. h /\ h - n \in Nat /\ Top - h = Width - l
      /\ gap \in 0 .. Width /\ gap \in Nat /\ gap > 0 /\ h - n = Width - gap
      /\ Width - gap \in 0 .. Width /\ Width - gap \in Nat /\ Width - gap < Width
      /\ Width - (Width - gap) = gap /\ Width \in Nat /\ 2 * Width - n = Top - n /\ n \in Nat
      /\ FF = Pow2[Width] - 1
  BY <1>1, WidthNat DEF Top, FF
<1> HIDE DEF gap
<1>6. /\ Pow2[Width - gap] \in Nat \ {0} /\ Pow2[Width] \in Nat \ {0} /\ B \in Nat
      /\ c \in Nat /\ D \in Nat
  <2>1. Pow2[Width - gap] \in Nat \ {0} /\ Pow2[Width] \in Nat \ {0}
    BY <1>5, PowNat
  <2>2. B \in Nat
    <3>1. A \in Nat /\ Pow2[Width - gap] \in Nat \ {0}
      BY <1>1, <2>1
    <3>2. A % Pow2[Width - gap] \in Nat
      BY <3>1, DivModNat
    <3> QED
      BY <3>2 DEF B
  <2>3. c \in Nat
    BY <1>3
  <2>4. B * Pow2[Width] \in Nat
    BY <2>1, <2>2, TimesTimes
  <2> QED
    BY <2>1, <2>2, <2>3, <2>4
<1>7. buf = D * Pow2[gap]
  <2>1. c \in 0 .. Pow2[Width] - 1
    BY <1>3, <1>5
  <2> QED
    BY <1>1, <1>5, <2>1, RefillHeld DEF B
<1>8. val = A \div Pow2[Width - gap]
  <2>1. (A * Pow2[Top - h]) \div Pow2[Top - n] = A \div Pow2[h - n]
    BY <1>1, <1>5, TopHeld
  <2> QED
    BY <1>1, <1>5, <2>1
<1>9. val \in Nat
  BY <1>1, <1>6, <1>8, DivModNat
<1>10. /\ Sound(j, Free(scan)) /\ j.gBitsLeft = Width - gap /\ j.gBitBuf = D * Pow2[gap]
       /\ j.at = o.in.at
  <2>1. buf \in 0 .. Pow2[Top] - 1
    <3>1. Shift(i.gBitBuf, l) + c \in Nat
      <4>1. i.gBitBuf \in Nat /\ l \in Nat /\ c \in Nat
        BY <1>1, <1>6
      <4>2. Shift(i.gBitBuf, l) \in Nat
        BY <4>1, ShiftRange
      <4> QED
        BY <4>1, <4>2
    <3> QED
      BY <1>5, <3>1, ShiftRange
  <2> DEFINE m == Width - gap
             p == o.in
             lo == Free(scan)
  <2>2. Fits(buf, m) /\ Sound(p, lo) /\ j = With(p, buf, m)
    BY <1>3, <1>4, <1>5, <2>1 DEF Fits
  <2> HIDE DEF buf, D, m, p, lo
  <2>3. Sound(j, lo) /\ j.gBitBuf = buf /\ j.gBitsLeft = m /\ j.at = p.at
    BY <2>2, WithBits
  <2> QED
    BY <1>7, <2>3 DEF m, p, lo
<1> HIDE DEF buf
<1>11. Held(j) = D /\ j.gBitBuf = Held(j) * Pow2[Width - j.gBitsLeft]
  <2>1. (D * Pow2[Width - (Width - gap)]) \div Pow2[Width - (Width - gap)] = D
    <3> HIDE DEF D
    <3> QED
      BY <1>5, <1>6, HeldFits
  <2> HIDE DEF D
  <2> QED
    BY <1>h, <1>5, <1>10, <2>1
<1>12. /\ (bits \o Bits(val, n)) \o Ahead(j) = (bits \o Bits(A, h)) \o Bits(c, Width)
       /\ bits \o Bits(val, n) \in Seq({0, 1}) /\ bits \o Bits(A, h) \in Seq({0, 1})
  <2>1. Bits(A \div Pow2[h - n], n) \o Bits(A % Pow2[h - n], h - n) = Bits(A, h)
    BY <1>1, <1>5, BitsParts
  <2> DEFINE v == Bits(val, n)
             r == Bits(B, Width - gap)
             t == Bits(c, Width)
             a == Bits(A, h)
  <2>2. v \o r = a
    BY <1>5, <1>8, <2>1 DEF B
  <2>3. Ahead(j) = r \o t
    <3>1. c \in 0 .. Pow2[Width] - 1
      BY <1>3, <1>5
    <3>2. Bits(B * Pow2[Width] + c, (Width - gap) + Width) = Bits(B, Width - gap) \o Bits(c, Width)
      <4> DEFINE m == Width - gap
      <4>1. m \in Nat /\ Width \in Nat /\ B \in Nat
        BY <1>5, <1>6
      <4> HIDE DEF m, D
      <4>2. BitsJoin(B * Pow2[Width] + c, m + Width, B, m, c, Width)
        BY <3>1, <4>1, BitsSplit, SMT
      <4> QED
        BY <4>2, Zenon DEF m, BitsJoin
    <3>3. (Width - gap) + Width = Width + (Width - gap)
      BY <1>5
    <3> QED
      BY <1>h, <1>10, <1>11, <3>2, <3>3
  <2>4. v \in Seq({0, 1}) /\ r \in Seq({0, 1}) /\ t \in Seq({0, 1}) /\ bits \in Seq({0, 1})
    BY <1>1, <1>5, <1>6, <1>9, BitsSeq
  <2> HIDE DEF v, r, t, a, D
  <2>5. (bits \o v) \o (r \o t) = ((bits \o v) \o r) \o t /\ (bits \o v) \o r = bits \o (v \o r)
        /\ bits \o v \in Seq({0, 1}) /\ bits \o (v \o r) \in Seq({0, 1})
    <3>1. bits \o v \in Seq({0, 1}) /\ v \o r \in Seq({0, 1})
      BY <2>4, ConcatProperties
    <3>2. bits \o (v \o r) \in Seq({0, 1})
      BY <2>4, <3>1, ConcatProperties
    <3>3. ((bits \o v) \o r) \o t = (bits \o v) \o (r \o t)
      <4> DEFINE w == bits \o v
      <4>1. w \in Seq({0, 1})
        BY <3>1
      <4> HIDE DEF w
      <4>2. (w \o r) \o t = w \o (r \o t)
        BY <2>4, <4>1, BitsAssociative, Zenon
      <4> QED
        BY <4>2 DEF w
    <3>4. (bits \o v) \o r = bits \o (v \o r)
      BY <2>4, BitsAssociative, Zenon
    <3> QED
      BY <3>1, <3>2, <3>3, <3>4
  <2> QED
    BY <2>2, <2>3, <2>5, Zenon DEF v, t, a
<1>13. Octets(from, scan, (bits \o Bits(A, h)) \o Bits(c, Width), N + 1)
  <2>1. c = ByteAt(OctetAt(from, scan, N + 1))
    BY <1>o, <1>3
  <2> QED
    BY <1>2, <1>6, <1>12, <2>1, OctetsNext
<1>14. ReadTo(from, scan, j, N + 1)
  <2>1. OctetAt(from, scan, (N + 1) + 1) = Behind(scan, OctetAt(from, scan, N + 1))
    BY OctetSteps
  <2>2. D % Pow2[Width] = c
    <3>1. c \in Nat /\ c < Pow2[Width] /\ Pow2[Width] \in Nat
      BY <1>3, <1>5, <1>6
    <3> QED
      BY <1>6, <3>1, DivUnique
  <2> HIDE DEF D
  <2> QED
    BY <1>o, <1>3, <1>10, <1>11, <2>1, <2>2 DEF ReadTo
<1> QED
  <2> HIDE DEF val, D
  <2>1. Octets(from, scan, (bits \o Bits(val, n)) \o Ahead(j), N + 1)
    BY <1>12, <1>13, Zenon
  <2>2. InStep(from, scan, j, bits \o Bits(val, n))
    <3>1. j.gBitsLeft < Width /\ N + 1 \in Nat \ {0}
      BY <1>5, <1>10
    <3> QED
      BY <1>10, <1>11, <1>12, <1>14, <2>1, <3>1 DEF InStep
  <2> QED
    BY <2>2 DEF val, j

\* A call of getBits for at most a byte takes the next bits.
LEMMA ReadShort ==
  ASSUME stream \in Streams, NEW from \in Nat, NEW scan \in BOOLEAN, NEW i, NEW bits,
         InStep(from, scan, i, bits), NEW n \in 0 .. Width
  PROVE  /\ InStep(from, scan, getBits(i, n, scan).in, bits \o Bits(getBits(i, n, scan).val, n))
         /\ getBits(i, n, scan).val = i.gBitBuf \div Pow2[2 * Width - n]
<1>1. n \in Nat /\ ~(n > Width) /\ i.gBitsLeft \in Nat /\ Width \in Nat
  BY WidthNat, InStepFields
<1> DEFINE r == [in |-> IF i.gBitsLeft < n
                          THEN [Refill(i, i.gBitsLeft, n - i.gBitsLeft, scan)
                                  EXCEPT !.gBitsLeft = Width - (n - i.gBitsLeft)]
                          ELSE [i EXCEPT !.gBitsLeft = @ - n, !.gBitBuf = Shift(@, n)],
                 val |-> i.gBitBuf \div Pow2[2 * Width - n]]
<1>2. getBits(i, n, scan) = r
  BY <1>1 DEF getBits
<1>3. r.val = i.gBitBuf \div Pow2[2 * Width - n]
  OBVIOUS
<1>4. InStep(from, scan, r.in, bits \o Bits(i.gBitBuf \div Pow2[2 * Width - n], n))
  <2>1. CASE i.gBitsLeft < n
    <3>1. n > i.gBitsLeft
      BY <1>1, <2>1
    <3>2. r.in = [Refill(i, i.gBitsLeft, n - i.gBitsLeft, scan)
                    EXCEPT !.gBitsLeft = Width - (n - i.gBitsLeft)]
      BY <2>1, Zenon
    <3> HIDE DEF r
    <3>3. InStep(from, scan, [Refill(i, i.gBitsLeft, n - i.gBitsLeft, scan)
                               EXCEPT !.gBitsLeft = Width - (n - i.gBitsLeft)],
                bits \o Bits(i.gBitBuf \div Pow2[2 * Width - n], n))
      BY <3>1, ReadOn, Zenon
    <3> QED
      BY <3>2, <3>3, Zenon
  <2>2. CASE ~(i.gBitsLeft < n)
    <3>1. n <= i.gBitsLeft
      BY <1>1, <2>2
    <3>2. r.in = With(i, Shift(i.gBitBuf, n), i.gBitsLeft - n)
      <4>1. r.in = [i EXCEPT !.gBitsLeft = @ - n, !.gBitBuf = Shift(@, n)]
        BY <2>2, Zenon
      <4>2. i \in InputType
        BY DEF InStep, Sound
      <4> HIDE DEF r
      <4> QED
        BY <4>1, <4>2 DEF With, InputType
    <3> HIDE DEF r
    <3>3. InStep(from, scan, With(i, Shift(i.gBitBuf, n), i.gBitsLeft - n),
                bits \o Bits(i.gBitBuf \div Pow2[2 * Width - n], n))
      BY <1>1, <3>1, ReadHeld
    <3> QED
      BY <3>2, <3>3, Zenon
  <2> QED
    BY <2>1, <2>2
<1> HIDE DEF r
<1> QED
  BY <1>2, <1>3, <1>4, Zenon

\* A long word's value is that of its first byte and that of the rest.
LEMMA LongValue ==
  ASSUME NEW a \in 0 .. Pow2[Top] - 1, NEW b \in 0 .. Pow2[Top] - 1, NEW m \in 0 .. Width
  PROVE  LET v == b \div Pow2[Top - m]
         IN  /\ ((a \div Pow2[Width]) * Pow2[Width] + b \div Pow2[Width]) \div Pow2[Width - m]
                   = (a \div Pow2[Width]) * Pow2[m] + v
             /\ v \in 0 .. Pow2[m] - 1 /\ a \div Pow2[Width] \in Nat
<1> DEFINE P == Pow2[Width]
           Q == Pow2[Width - m]
           M == Pow2[m]
           u == a \div P
           x == b \div P
<1>1. /\ P = M * Q /\ Pow2[Top] = P * P /\ Pow2[Top - m] = Q * P
      /\ P \in Nat /\ 0 < P /\ Q \in Nat /\ 0 < Q /\ M \in Nat /\ 0 < M
  <2>1. /\ Width \in Nat /\ m \in Nat /\ Width - m \in Nat /\ m + (Width - m) = Width
        /\ Width + Width = Top /\ (Width - m) + Width = Top - m
    BY WidthNat DEF Top
  <2> QED
    BY <2>1, Pow2Sum, PowNat
<1>2. a \in 0 .. P * P - 1 /\ b \in 0 .. P * P - 1 /\ a \in Nat /\ b \in Nat
  <2> HIDE DEF P, Q, M
  <2>1. Pow2[Top] \in Nat
    BY <1>1, TimesTimes
  <2> QED
    BY <1>1, <2>1
<1> HIDE DEF P, Q, M
<1>3. u \in Nat /\ x \in 0 .. P - 1 /\ x \in Nat
  <2>1. u \in 0 .. P - 1 /\ x \in 0 .. P - 1
    BY <1>1, <1>2, DivBelow
  <2> QED
    BY <1>1, <2>1
<1> HIDE DEF u
<1>4. x \div Q = b \div (Q * P)
  BY <1>1, <1>2, DivTwice
<1> HIDE DEF x
<1>5. u * P = (u * M) * Q /\ u * M \in Nat
  BY <1>1, <1>3, TimesTimes
<1>6. (u * P + x) \div Q = u * M + x \div Q
  <2> DEFINE w == u * M
  <2>1. w \in Nat
    BY <1>5
  <2> HIDE DEF w
  <2>2. (w * Q + x) \div Q = w + x \div Q
    BY <1>1, <1>3, <2>1, DivOver
  <2> QED
    BY <1>5, <2>2 DEF w
<1>7. x \div Q \in 0 .. M - 1
  <2>1. x \in 0 .. M * Q - 1 /\ M \in Nat \ {0} /\ Q \in Nat \ {0}
    BY <1>1, <1>3
  <2> QED
    BY <2>1, DivBelow
<1>8. b \div Pow2[Top - m] = x \div Q
  BY <1>1, <1>4
<1> QED
  BY <1>3, <1>6, <1>7, <1>8 DEF P, Q, M, u, x

\* A call of getBits for more than a byte reads what two calls would.
LEMMA LongIsTwo ==
  ASSUME stream \in Streams, NEW from \in Nat, NEW scan \in BOOLEAN, NEW i, NEW bits,
         InStep(from, scan, i, bits), NEW n \in Width + 1 .. 2 * Width
  PROVE  LET f == getBits(i, Width, scan)
             g == getBits(f.in, n - Width, scan)
         IN  /\ getBits(i, n, scan).in = g.in
             /\ getBits(i, n, scan).val
                  = ((i.gBitBuf \div Pow2[Width]) * Pow2[Width] + f.in.gBitBuf \div Pow2[Width])
                      \div Pow2[2 * Width - n]
<1> DEFINE l == i.gBitsLeft
           R == Refill(i, l, Width - l, scan)
           f == getBits(i, Width, scan)
<1>1. /\ l \in 0 .. Width /\ l < Width /\ l \in Nat /\ Width \in Nat /\ n > Width
      /\ ~(Width > Width) /\ n - Width \in 0 .. Width /\ ~(n - Width > Width)
      /\ Width - (Width - l) = l /\ Width - l \in Nat
  <2>1. l \in 0 .. Width /\ l < Width /\ l \in Nat /\ Width \in Nat
    BY InStepFields, WidthNat
  <2> HIDE DEF l
  <2> QED
    BY <2>1
<1>2. R \in InputType /\ R.gBitsLeft = l
  <2>1. Sound(i, Free(scan)) /\ i.gBitBuf \in Nat
    BY InStepFields DEF InStep
  <2> DEFINE o == getOctet(i, scan)
             b == Shift(Shift(i.gBitBuf, l) + o.val, Width - l)
  <2>2. Sound(o.in, Free(scan)) /\ BitsKept(i, o.in) /\ o.val \in 0 .. FF
    BY <2>1, GetOctetSound
  <2>3. o.in \in InputType /\ o.in.gBitBuf = i.gBitBuf /\ o.in.gBitsLeft = l /\ o.val \in Nat
    BY <2>2 DEF Sound, BitsKept
  <2>4. R = [o.in EXCEPT !.gBitBuf = b]
    <3>1. R = [o.in EXCEPT !.gBitBuf = Shift(Shift(@, l) + o.val, Width - l)]
      BY DEF Refill
    <3> HIDE DEF R, o, l
    <3> QED
      BY <2>3, <3>1 DEF InputType
  <2>5. b \in 0 .. Pow2[2 * Width] - 1
    <3>1. Shift(i.gBitBuf, l) \in Nat
      BY <1>1, <2>1, ShiftRange
    <3> DEFINE s == Shift(i.gBitBuf, l)
               t == s + o.val
               d == Width - l
    <3>2. t \in Nat /\ d \in Nat
      <4> HIDE DEF o, l
      <4> QED
        BY <1>1, <2>3, <3>1
    <3> HIDE DEF t, d
    <3>3. Shift(t, d) \in 0 .. Pow2[Top] - 1
      BY <3>2, ShiftRange
    <3> QED
      BY <3>3 DEF Top, t, d
  <2> HIDE DEF R, o, l, b
  <2> QED
    BY <2>3, <2>4, <2>5 DEF InputType
<1> HIDE DEF R
<1>3. f = [in |-> R, val |-> i.gBitBuf \div Pow2[2 * Width - Width]]
  <2>1. f.in = [R EXCEPT !.gBitsLeft = Width - (Width - l)]
    <3>1. f = [in |-> [R EXCEPT !.gBitsLeft = Width - (Width - l)],
               val |-> i.gBitBuf \div Pow2[2 * Width - Width]]
      BY <1>1 DEF getBits, R
    <3> QED
      BY <3>1
  <2>2. [R EXCEPT !.gBitsLeft = Width - (Width - l)] = R
    <3>1. Width - (Width - l) = R.gBitsLeft
      BY <1>1, <1>2
    <3> HIDE DEF l
    <3> QED
      BY <1>2, <3>1 DEF InputType
  <2>3. f = [in |-> [R EXCEPT !.gBitsLeft = Width - (Width - l)],
             val |-> i.gBitBuf \div Pow2[2 * Width - Width]]
    BY <1>1 DEF getBits, R
  <2> HIDE DEF f, l
  <2> QED
    BY <2>2, <2>3
<1>4. f.in = R
  <2> HIDE DEF f
  <2> QED
    BY <1>3
<1> DEFINE m == n - Width
           last == IF R.gBitsLeft < m
                     THEN [Refill(R, R.gBitsLeft, m - R.gBitsLeft, scan)
                             EXCEPT !.gBitsLeft = Width - (m - R.gBitsLeft)]
                     ELSE [R EXCEPT !.gBitsLeft = @ - m, !.gBitBuf = Shift(@, m)]
<1>5. getBits(R, m, scan).in = last
  <2>1. ~(m > Width)
    BY <1>1
  <2>2. getBits(R, m, scan) = [in |-> last, val |-> R.gBitBuf \div Pow2[2 * Width - m]]
    <3> HIDE DEF m
    <3> QED
      BY <2>1 DEF getBits
  <2> HIDE DEF last, m
  <2> QED
    BY <2>2
<1>6. getBits(i, n, scan)
        = [in |-> last,
           val |-> ((i.gBitBuf \div Pow2[Width]) * Pow2[Width] + R.gBitBuf \div Pow2[Width])
                      \div Pow2[2 * Width - n]]
  BY <1>1 DEF getBits, R
<1> HIDE DEF last
<1>7. getBits(i, n, scan).in = last
      /\ getBits(i, n, scan).val
            = ((i.gBitBuf \div Pow2[Width]) * Pow2[Width] + R.gBitBuf \div Pow2[Width])
                      \div Pow2[2 * Width - n]
  BY <1>6
<1> HIDE DEF f
<1> QED
  BY <1>4, <1>5, <1>7 DEF f, m

\* Every call of getBits takes the next bits.
LEMMA ReadBits ==
  ASSUME stream \in Streams, NEW from \in Nat, NEW scan \in BOOLEAN, NEW i, NEW bits,
         InStep(from, scan, i, bits), NEW n \in 0 .. 2 * Width
  PROVE  InStep(from, scan, getBits(i, n, scan).in, bits \o Bits(getBits(i, n, scan).val, n))
<1>0. Width \in Nat
  BY WidthNat
<1>1. CASE n <= Width
  <2>1. n \in 0 .. Width
    BY <1>0, <1>1
  <2> QED
    BY <2>1, ReadShort
<1>2. CASE ~(n <= Width)
  <2> DEFINE f == getBits(i, Width, scan)
             m == n - Width
             g == getBits(f.in, m, scan)
             v == f.val
             w == g.val
  <2>1. n \in Width + 1 .. 2 * Width /\ m \in 0 .. Width /\ m \in Nat /\ Width \in 0 .. Width
        /\ 2 * Width - n = Width - m /\ n = Width + m /\ 2 * Width - m = Top - m
        /\ 2 * Width - Width = Width
    BY <1>0, <1>2 DEF Top
  <2>2. /\ InStep(from, scan, f.in, bits \o Bits(v, Width))
        /\ v = i.gBitBuf \div Pow2[Width]
    <3>1. /\ InStep(from, scan, f.in, bits \o Bits(v, Width))
          /\ v = i.gBitBuf \div Pow2[2 * Width - Width]
      BY <2>1, ReadShort
    <3> HIDE DEF f
    <3> QED
      BY <2>1, <3>1
  <2>3. /\ getBits(i, n, scan).in = g.in
        /\ getBits(i, n, scan).val
             = (v * Pow2[Width] + f.in.gBitBuf \div Pow2[Width]) \div Pow2[Width - m]
    <3>1. /\ getBits(i, n, scan).in = g.in
          /\ getBits(i, n, scan).val
             = ((i.gBitBuf \div Pow2[Width]) * Pow2[Width] + f.in.gBitBuf \div Pow2[Width])
                  \div Pow2[2 * Width - n]
      BY <2>1, LongIsTwo
    <3> HIDE DEF f, g, m
    <3> QED
      BY <2>1, <2>2, <3>1
  <2> HIDE DEF f
  <2> DEFINE j == f.in
             b == bits \o Bits(v, Width)
  <2>4. /\ InStep(from, scan, g.in, b \o Bits(w, m)) /\ w = j.gBitBuf \div Pow2[2 * Width - m]
    <3>1. InStep(from, scan, j, b)
      BY <2>2
    <3> HIDE DEF j, b, m
    <3>2. /\ InStep(from, scan, getBits(j, m, scan).in, b \o Bits(getBits(j, m, scan).val, m))
          /\ getBits(j, m, scan).val = j.gBitBuf \div Pow2[2 * Width - m]
      BY <2>1, <3>1, ReadShort
    <3> QED
      BY <3>2 DEF j
  <2>5. i.gBitBuf \in 0 .. Pow2[Top] - 1 /\ j.gBitBuf \in 0 .. Pow2[Top] - 1
        /\ bits \in Seq({0, 1})
    <3>1. i \in InputType /\ j \in InputType /\ bits \in Seq({0, 1})
      BY <2>2 DEF InStep, Sound
    <3> HIDE DEF j, g, v, m
    <3> QED
      BY <3>1 DEF InputType, Top
  <2> HIDE DEF g, j, v
  <2>6. /\ (v * Pow2[Width] + j.gBitBuf \div Pow2[Width]) \div Pow2[Width - m] = v * Pow2[m] + w
        /\ w \in 0 .. Pow2[m] - 1 /\ v \in Nat
    <3> DEFINE x == i.gBitBuf
               y == j.gBitBuf
    <3>1. x \in 0 .. Pow2[Top] - 1 /\ y \in 0 .. Pow2[Top] - 1
      BY <2>5
    <3> HIDE DEF x, y, m
    <3>2. /\ ((x \div Pow2[Width]) * Pow2[Width] + y \div Pow2[Width]) \div Pow2[Width - m]
                   = (x \div Pow2[Width]) * Pow2[m] + y \div Pow2[Top - m]
          /\ y \div Pow2[Top - m] \in 0 .. Pow2[m] - 1 /\ x \div Pow2[Width] \in Nat
      BY <2>1, <3>1, LongValue
    <3>3. v = x \div Pow2[Width] /\ w = y \div Pow2[Top - m]
      BY <2>1, <2>2, <2>4 DEF x, y
    <3> HIDE DEF w
    <3> QED
      BY <3>2, <3>3 DEF y
  <2>7. Bits(v * Pow2[m] + w, Width + m) = Bits(v, Width) \o Bits(w, m)
    <3> HIDE DEF m, w
    <3>1. BitsJoin(v * Pow2[m] + w, Width + m, v, Width, w, m)
      BY <1>0, <2>1, <2>6, BitsSplit
    <3> QED
      BY <3>1, Zenon DEF BitsJoin
  <2>8. (bits \o Bits(v, Width)) \o Bits(w, m) = bits \o (Bits(v, Width) \o Bits(w, m))
    <3>1. w \in Nat
      <4>1. Pow2[m] \in Nat
        BY <2>1, PowNat
      <4> HIDE DEF w, m
      <4> QED
        BY <2>6, <4>1
    <3> HIDE DEF w, m
    <3>2. Bits(v, Width) \in Seq({0, 1}) /\ Bits(w, m) \in Seq({0, 1})
      BY <1>0, <2>1, <2>6, <3>1, BitsSeq
    <3> QED
      BY <2>5, <3>2, BitsAssociative
  <2> HIDE DEF w, m
  <2> DEFINE r == getBits(i, n, scan)
  <2>9. r.in = g.in /\ r.val = v * Pow2[m] + w
    BY <2>3, <2>6 DEF j
  <2> HIDE DEF r
  <2>10. Bits(r.val, n) = Bits(v, Width) \o Bits(w, m)
    BY <2>1, <2>7, <2>9
  <2>11. InStep(from, scan, r.in, bits \o Bits(r.val, n))
    BY <2>4, <2>8, <2>9, <2>10
  <2> QED
    BY <2>11 DEF r
<1> QED
  BY <1>1, <1>2

\* Two shifts are one of the sum.
LEMMA ShiftAgain ==
  ASSUME NEW x \in Nat, NEW n \in Nat
  PROVE  Shift(Shift(x, 0), n) = Shift(x, n)
<1> DEFINE T == Pow2[Top]
           M == Pow2[n]
<1>1. T \in Nat /\ 0 < T /\ M \in Nat /\ Pow2[0] = 1
  BY WidthNat, PowNat, Pow2Def
<1>2. \A y \in Nat, k \in Nat : Shift(y, k) = (y * Pow2[k]) % T
  BY DEF Shift, Top
<1> HIDE DEF T, M
<1>3. PICK q \in Nat, r \in 0 .. T - 1 : x = q * T + r
  BY <1>1, QuotientRemainder
<1>4. PICK s \in Nat, t \in 0 .. T - 1 : r * M = s * T + t
  <2>1. r * M \in Nat
    BY <1>1, TimesTimes
  <2> DEFINE y == r * M
  <2>2. y \in Nat
    BY <2>1
  <2> HIDE DEF y
  <2>3. \E s \in Nat : \E t \in 0 .. T - 1 : y = s * T + t
    BY <1>1, <2>2, QuotientRemainder
  <2> QED
    BY <2>3 DEF y
<1>5. t \in Nat /\ t < T /\ r \in Nat /\ r < T
  BY <1>1
<1>6. x * 1 = x /\ x % T = r
  <2>1. (q * T + r) % T = r
    BY <1>1, <1>5, DivUnique
  <2> QED
    BY <1>3, <2>1
<1>7. x * M = (q * M + s) * T + t /\ q * M + s \in Nat
  <2>1. x * M = (q * T) * M + r * M /\ (q * T) * M = (q * M) * T
    <3>1. q * T \in Nat
      BY <1>1, TimesTimes
    <3>2. (q * T + r) * M = (q * T) * M + r * M
      BY <1>1, <1>5, <3>1, TimesSum
    <3>3. (q * T) * M = q * (T * M) /\ T * M = M * T /\ (q * M) * T = q * (M * T)
      BY <1>1, TimesTimes
    <3> QED
      BY <1>3, <3>2, <3>3
  <2>2. q * M \in Nat
    BY <1>1, TimesTimes
  <2>3. (q * M + s) * T = (q * M) * T + s * T /\ (q * M) * T \in Nat /\ s * T \in Nat
    BY <1>1, <2>2, TimesSum, TimesTimes
  <2> QED
    BY <1>4, <1>5, <2>1, <2>2, <2>3
<1>8. (r * M) % T = t /\ (x * M) % T = t
  <2>1. (s * T + t) % T = t
    BY <1>1, <1>5, DivUnique
  <2> DEFINE z == q * M + s
  <2>2. z \in Nat
    BY <1>7
  <2> HIDE DEF z
  <2>3. (z * T + t) % T = t
    BY <1>1, <1>5, <2>2, DivUnique
  <2> QED
    BY <1>4, <1>7, <2>1, <2>3 DEF z
<1>9. Shift(x, 0) = r
  BY <1>1, <1>2, <1>6
<1>10. Shift(r, n) = (r * M) % T /\ Shift(x, n) = (x * M) % T
  BY <1>2, <1>5 DEF M
<1> QED
  BY <1>8, <1>9, <1>10

\* getBit takes the next bit.
LEMMA BitIsBits ==
  ASSUME stream \in Streams, NEW from \in Nat, NEW i, NEW bits, InStep(from, TRUE, i, bits)
  PROVE  getBit(i).in = getBits(i, 1, TRUE).in /\ getBit(i).val = getBits(i, 1, TRUE).val
<1>1. /\ i \in InputType /\ i.gBitsLeft \in Nat /\ i.gBitBuf \in Nat /\ Width \in Nat
      /\ ~(1 > Width) /\ Sound(i, Free(TRUE))
  <2>1. Sound(i, Free(TRUE)) /\ i \in InputType
    BY DEF InStep, Sound
  <2>2. i.gBitsLeft \in Nat /\ i.gBitBuf \in Nat
    BY InStepFields
  <2>3. Width \in Nat /\ ~(1 > Width)
    BY WidthNat
  <2> QED
    BY <2>1, <2>2, <2>3
<1> DEFINE next == IF i.gBitsLeft < 1
                     THEN [Refill(i, i.gBitsLeft, 1 - i.gBitsLeft, TRUE)
                             EXCEPT !.gBitsLeft = Width - (1 - i.gBitsLeft)]
                     ELSE [i EXCEPT !.gBitsLeft = @ - 1, !.gBitBuf = Shift(@, 1)]
<1>2. getBits(i, 1, TRUE) = [in |-> next, val |-> i.gBitBuf \div Pow2[2 * Width - 1]]
  BY <1>1 DEF getBits
<1> DEFINE f == IF i.gBitsLeft = 0
                  THEN [Refill(i, 0, 0, TRUE) EXCEPT !.gBitsLeft = Width] ELSE i
           g == [f EXCEPT !.gBitsLeft = @ - 1, !.gBitBuf = Shift(@, 1)]
<1>3. getBit(i) = [in |-> g, val |-> i.gBitBuf \div Pow2[2 * Width - 1]]
  BY DEF getBit
<1>4. g = next
  <2>1. CASE i.gBitsLeft # 0
    <3>1. ~(i.gBitsLeft < 1) /\ ~(i.gBitsLeft = 0)
      BY <1>1, <2>1
    <3> QED
      BY <3>1
  <2>2. CASE i.gBitsLeft = 0
    <3> DEFINE o == getOctet(i, TRUE)
               x == Shift(i.gBitBuf, 0) + o.val
    <3>1. o.in \in InputType /\ o.in.gBitBuf = i.gBitBuf /\ o.val \in Nat
      <4>1. Sound(o.in, Free(TRUE)) /\ BitsKept(i, o.in) /\ o.val \in 0 .. FF
        BY <1>1, GetOctetSound
      <4> HIDE DEF o
      <4> QED
        BY <4>1 DEF Sound, BitsKept
    <3>2. x \in Nat
      <4>1. Shift(i.gBitBuf, 0) \in Nat
        BY <1>1, ShiftRange
      <4> HIDE DEF o
      <4> QED
        BY <3>1, <4>1
    <3>3. Shift(Shift(x, 0), 1) = Shift(x, 1)
      <4> HIDE DEF x
      <4> QED
        BY <3>2, ShiftAgain
    <3>4. Refill(i, 0, 0, TRUE) = [o.in EXCEPT !.gBitBuf = Shift(x, 0)]
          /\ Refill(i, 0, 1, TRUE) = [o.in EXCEPT !.gBitBuf = Shift(x, 1)]
      <4>1. Refill(i, 0, 0, TRUE) = [o.in EXCEPT !.gBitBuf = Shift(Shift(@, 0) + o.val, 0)]
            /\ Refill(i, 0, 1, TRUE) = [o.in EXCEPT !.gBitBuf = Shift(Shift(@, 0) + o.val, 1)]
        BY DEF Refill
      <4> HIDE DEF o
      <4> QED
        BY <3>1, <4>1 DEF InputType
    <3>5. next = [Refill(i, 0, 1, TRUE) EXCEPT !.gBitsLeft = Width - 1]
      <4>1. i.gBitsLeft < 1 /\ 1 - i.gBitsLeft = 1
        BY <2>2
      <4> QED
        BY <2>2, <4>1
    <3>6. f = [Refill(i, 0, 0, TRUE) EXCEPT !.gBitsLeft = Width]
      BY <2>2
    <3> HIDE DEF o, x, next, f
    <3>7. next = With(o.in, Shift(x, 1), Width - 1)
      BY <3>1, <3>4, <3>5 DEF InputType, With
    <3>8. f = With(o.in, Shift(x, 0), Width)
      BY <3>1, <3>4, <3>6 DEF InputType, With
    <3>9. g = With(o.in, Shift(Shift(x, 0), 1), Width - 1)
      BY <3>1, <3>8 DEF InputType, With
    <3> HIDE DEF g
    <3> QED
      BY <3>3, <3>7, <3>9
  <2> QED
    BY <2>1, <2>2
<1> HIDE DEF g, next
<1> QED
  BY <1>2, <1>3, <1>4

\* The two calls that get the bit buffer going leave it with the next octet.
LEMMA PrimeSteps ==
  ASSUME stream \in Streams, NEW scan \in BOOLEAN, NEW i, Sound(i, Free(scan))
  PROVE  InStep(i.at, scan, Prime(i, scan), << >>)
<1>1. /\ i \in InputType /\ i.gBitBuf \in Nat /\ Width \in Nat /\ ~(Width > Width)
      /\ ~(Width < Width) /\ Width - Width = 0 /\ Width - 0 = Width /\ i.at \in Nat
      /\ 0 \in 0 .. Width /\ Width \in 0 .. Width /\ 0 < Width
  <2>1. Pow2[2 * Width] \in Nat
    BY WidthNat, PowNat DEF Top
  <2>2. i \in InputType
    BY DEF Sound
  <2> QED
    BY <2>1, <2>2, WidthNat DEF InputType
<1> DEFINE P == Pow2[Width]
           A == i.gBitBuf % P
           p == [i EXCEPT !.gBitsLeft = Width]
           q == With(i, Shift(i.gBitBuf, Width), 0)
           o == getOctet(q, scan)
           c == o.val
           j == Prime(i, scan)
<1>2. getBits(p, Width, scan).in = q
  <2>1. p.gBitsLeft = Width /\ p.gBitBuf = i.gBitBuf
    BY <1>1 DEF InputType
  <2> DEFINE r == [in |-> [p EXCEPT !.gBitsLeft = @ - Width, !.gBitBuf = Shift(@, Width)],
                   val |-> p.gBitBuf \div Pow2[2 * Width - Width]]
  <2>2. getBits(p, Width, scan) = r
    BY <1>1, <2>1 DEF getBits
  <2>3. r.in = q
    <3>1. r.in = [p EXCEPT !.gBitsLeft = @ - Width, !.gBitBuf = Shift(@, Width)]
      OBVIOUS
    <3> HIDE DEF r
    <3>2. [p EXCEPT !.gBitsLeft = @ - Width, !.gBitBuf = Shift(@, Width)] = q
      BY <1>1, <2>1 DEF InputType, With
    <3> QED
      BY <3>1, <3>2
  <2> HIDE DEF r, q, p
  <2> QED
    BY <2>2, <2>3
<1>3. /\ Sound(q, Free(scan)) /\ q.gBitsLeft = 0 /\ q.gBitBuf = Shift(i.gBitBuf, Width)
      /\ q.at = i.at
  <2> DEFINE b == Shift(i.gBitBuf, Width)
             lo == Free(scan)
  <2>1. Fits(b, 0) /\ Sound(i, lo)
    BY <1>1, ShiftRange DEF Fits
  <2> HIDE DEF b, lo
  <2>2. /\ Sound(With(i, b, 0), lo) /\ With(i, b, 0).gBitBuf = b /\ With(i, b, 0).gBitsLeft = 0
        /\ With(i, b, 0).at = i.at
    BY <2>1, WithBits
  <2> QED
    BY <2>2 DEF b, lo
<1>4. j = [Refill(q, 0, Width, scan) EXCEPT !.gBitsLeft = 0]
  <2>1. j = getBits(q, Width, scan).in
    <3> HIDE DEF q
    <3> QED
      BY <1>2 DEF Prime
  <2> HIDE DEF q
  <2>2. getBits(q, Width, scan)
          = [in |-> [Refill(q, 0, Width, scan) EXCEPT !.gBitsLeft = Width - Width],
             val |-> q.gBitBuf \div Pow2[2 * Width - Width]]
    BY <1>1, <1>3 DEF getBits
  <2> HIDE DEF j
  <2> QED
    BY <1>1, <2>1, <2>2
<1> HIDE DEF j, p, q
<1>5. /\ Sound(o.in, Free(scan)) /\ BitsKept(q, o.in) /\ o.in.at + 1 = Behind(scan, i.at + 1)
      /\ c = ByteAt(i.at + 1) /\ c \in 0 .. FF
  <2>1. /\ Sound(o.in, Free(scan)) /\ BitsKept(q, o.in) /\ o.in.at + 1 = Behind(scan, q.at + 1)
        /\ c = ByteAt(q.at + 1) /\ c \in 0 .. FF
    BY <1>3, GetOctetSound
  <2> HIDE DEF o
  <2> QED
    BY <1>3, <2>1
<1> DEFINE buf == Shift(Shift(q.gBitBuf, 0) + c, Width)
<1>6. j = With(o.in, buf, 0)
  <2>1. o.in \in InputType /\ o.in.gBitBuf = q.gBitBuf
    BY <1>5 DEF Sound, BitsKept
  <2>2. Refill(q, 0, Width, scan) = [o.in EXCEPT !.gBitBuf = buf]
    <3>1. Refill(q, 0, Width, scan) = [o.in EXCEPT !.gBitBuf = Shift(Shift(@, 0) + c, Width)]
      BY DEF Refill
    <3> HIDE DEF o, c
    <3> QED
      BY <2>1, <3>1 DEF InputType
  <2> HIDE DEF o, buf
  <2> QED
    BY <1>4, <2>1, <2>2 DEF InputType, With
<1> HIDE DEF o, c
<1>7. P \in Nat \ {0} /\ P \in Nat /\ 0 < P /\ A \in Nat /\ c \in 0 .. P - 1 /\ c \in Nat /\ c < P
  <2>1. P \in Nat \ {0}
    BY <1>1, PowNat
  <2>2. A \in Nat
    <3> HIDE DEF P
    <3> QED
      BY <1>1, <2>1, DivModNat
  <2>3. c \in 0 .. P - 1
    BY <1>5 DEF FF
  <2> HIDE DEF P, A
  <2> QED
    BY <2>1, <2>2, <2>3
<1>8. q.gBitBuf = A * Pow2[Width - 0]
  <2>1. Pow2[Top] = P * P
    <3>1. Width + Width = Top
      BY <1>1 DEF Top
    <3> QED
      BY <1>1, <3>1, Pow2Sum
  <2>2. Shift(i.gBitBuf, Width) = (i.gBitBuf * P) % (P * P)
    BY <2>1 DEF Shift, Top
  <2>3. (i.gBitBuf * P) % (P * P) = (i.gBitBuf % P) * P
    <3> HIDE DEF P
    <3> QED
      BY <1>1, <1>7, DivScaledExact
  <2> QED
    BY <1>1, <1>3, <2>2, <2>3
<1>9. buf = c * Pow2[Width]
  <2> HIDE DEF A
  <2>1. Shift(Shift(A * Pow2[Width - 0], 0) + c, Width)
          = ((A % Pow2[Width - Width]) * Pow2[Width] + c) * Pow2[Width]
    BY <1>1, <1>7, RefillHeld
  <2>2. A % Pow2[Width - Width] = 0
    <3>1. Pow2[Width - Width] = 1
      BY <1>1, Pow2Def
    <3>2. A % 1 = 0
      BY <1>7
    <3> QED
      BY <3>1, <3>2
  <2>3. 0 * Pow2[Width] + c = c
    BY <1>7
  <2> QED
    BY <1>8, <2>1, <2>2, <2>3
<1>10. Sound(j, Free(scan)) /\ j.gBitsLeft = 0 /\ j.gBitBuf = buf /\ j.at = o.in.at
  <2> DEFINE lo == Free(scan)
             k == o.in
             x == Shift(q.gBitBuf, 0) + c
  <2>1. x \in Nat
    <3>1. q.gBitBuf \in Nat
      BY <1>1, <1>3, ShiftRange
    <3>2. Shift(q.gBitBuf, 0) \in Nat
      BY <3>1, ShiftRange
    <3> QED
      BY <1>7, <3>2
  <2>2. buf \in 0 .. Pow2[Top] - 1
    <3> HIDE DEF x
    <3>1. Shift(x, Width) \in 0 .. Pow2[Top] - 1
      BY <1>1, <2>1, ShiftRange
    <3> QED
      BY <3>1 DEF x
  <2>3. Fits(buf, 0) /\ Sound(k, lo)
    BY <1>1, <1>5, <2>2 DEF Fits
  <2> HIDE DEF k, lo, buf
  <2>4. /\ Sound(With(k, buf, 0), lo) /\ With(k, buf, 0).gBitBuf = buf
        /\ With(k, buf, 0).gBitsLeft = 0 /\ With(k, buf, 0).at = k.at
    BY <2>3, WithBits
  <2> QED
    BY <1>6, <2>4 DEF k, lo
<1> HIDE DEF buf
<1>11. Held(j) = c /\ j.gBitBuf = Held(j) * Pow2[Width - j.gBitsLeft] /\ Ahead(j) = Bits(c, Width)
  <2>1. (c * Pow2[Width - 0]) \div Pow2[Width - 0] = c
    BY <1>1, <1>7, HeldFits
  <2>2. Held(j) = j.gBitBuf \div Pow2[Width - j.gBitsLeft]
        /\ Ahead(j) = Bits(Held(j), Width + j.gBitsLeft) /\ Width + 0 = Width
    BY <1>1 DEF Held, Ahead
  <2> QED
    BY <1>1, <1>9, <1>10, <2>1, <2>2
<1>12. Octets(i.at, scan, << >> \o Ahead(j), 1)
  <2>1. << >> \in Seq({0, 1}) /\ Octets(i.at, scan, << >>, 0)
    <3>1. Len(<< >>) = 0 * Width
      BY <1>1
    <3> QED
      BY <3>1 DEF Octets
  <2>2. c = ByteAt(OctetAt(i.at, scan, 0 + 1))
    BY <1>1, <1>5, OctetSteps
  <2> DEFINE n == 0
  <2>3. /\ n \in Nat /\ Octets(i.at, scan, << >>, n)
        /\ c = ByteAt(OctetAt(i.at, scan, n + 1)) /\ n + 1 = 1
    BY <2>1, <2>2
  <2> HIDE DEF n
  <2>4. Octets(i.at, scan, << >> \o Bits(c, Width), n + 1)
    BY <1>7, <2>1, <2>3, OctetsNext
  <2> QED
    BY <1>11, <2>3, <2>4
<1>13. ReadTo(i.at, scan, j, 1)
  <2>1. OctetAt(i.at, scan, 1) = i.at + 1 /\ OctetAt(i.at, scan, 1 + 1) = Behind(scan, i.at + 1)
    BY <1>1, OctetSteps
  <2>2. c % Pow2[Width] = c
    <3> HIDE DEF P
    <3>1. c % P = c
      BY <1>7
    <3> QED
      BY <3>1 DEF P
  <2> QED
    BY <1>5, <1>10, <1>11, <2>1, <2>2 DEF ReadTo
<1> QED
  <2>1. << >> \in Seq({0, 1}) /\ 1 \in Nat \ {0} /\ j.gBitsLeft < Width
    BY <1>1, <1>10
  <2>2. InStep(i.at, scan, j, << >>)
    BY <1>10, <1>11, <1>12, <1>13, <2>1 DEF InStep
  <2> QED
    BY <2>2 DEF j
-----------------------------------------------------------------------------
(***************************************************************************)
(* The invariant.                                                          *)
(***************************************************************************)
\* The types of all but the input.
Fields ==
  /\ stream \in Streams /\ phase \in {"markers", "scan", "failed"}
  /\ start \in Nat /\ taken \in Seq({0, 1})

\* An input in step has zeros below the bits it holds.
LEMMA InStepLow ==
  ASSUME NEW from, NEW scan, NEW i, NEW bits, InStep(from, scan, i, bits)
  PROVE  i.gBitBuf % Pow2[Width - i.gBitsLeft] = 0
<1>1. i.gBitBuf = Held(i) * Pow2[Width - i.gBitsLeft] /\ Held(i) \in Nat
  BY InStepFields DEF InStep
<1>2. Pow2[Width - i.gBitsLeft] \in Nat /\ 0 < Pow2[Width - i.gBitsLeft]
  <2>1. Width - i.gBitsLeft \in Nat
    BY InStepFields, WidthNat
  <2> QED
    BY <2>1, PowNat
<1> DEFINE M == Pow2[Width - i.gBitsLeft]
           A == Held(i)
<1>3. M \in Nat /\ 0 < M /\ A \in Nat
  BY <1>1, <1>2
<1> HIDE DEF M, A
<1>4. (A * M) % M = 0
  <2>1. ASSUME NEW z \in Nat, z = 0 PROVE (A * M) % M = 0
    <3>1. (A * M + z) % M = z
      BY <1>3, <2>1, DivUnique
    <3>2. A * M \in Nat
      BY <1>3, TimesTimes
    <3>3. A * M + z = A * M
      BY <2>1, <3>2
    <3> QED
      BY <2>1, <3>1, <3>3
  <2> QED
    BY <2>1
<1> QED
  BY <1>1, <1>4 DEF M, A

\* After a failure the bits are of no use any more, but the bytes still are.
Stopped(i) == Sound(i, Free(TRUE)) /\ i.gBitBuf % Pow2[Width - i.gBitsLeft] = 0

\* The inductive invariant.
IInv ==
  /\ Fields
  /\ phase # "failed" => InStep(start, phase = "scan", in, taken)
  /\ phase = "failed" => Stopped(in)

\* The place of the last octet of the markers, when only that octet is held.
LEMMA HeldLast ==
  ASSUME stream \in Streams, NEW from \in Nat, NEW i, NEW bits, InStep(from, FALSE, i, bits),
         i.gBitsLeft = 0
  PROVE  i.gBitBuf \div Pow2[Width] = ByteAt(i.at) /\ i.at # 0 /\ ByteAt(i.at) \in 0 .. FF
<1>1. PICK N \in Nat \ {0} : ReadTo(from, FALSE, i, N)
  BY DEF InStep
<1>2. OctetAt(from, FALSE, N) \in Nat \ {0}
      /\ OctetAt(from, FALSE, N + 1) = Behind(FALSE, OctetAt(from, FALSE, N))
  BY OctetSteps
<1> DEFINE p == OctetAt(from, FALSE, N)
<1>3. Behind(FALSE, p) = p + 1
  BY DEF Behind
<1>4. i.at \in Nat /\ i.gBitBuf \in Nat /\ Width \in Nat
  BY InStepFields, WidthNat
<1>5. p = i.at /\ p # 0
  <2>1. p + 1 = i.at + 1 /\ p \in Nat \ {0}
    BY <1>1, <1>2, <1>3 DEF ReadTo
  <2> HIDE DEF p
  <2> QED
    BY <1>4, <2>1
<1> DEFINE A == Held(i)
           P == Pow2[Width]
<1>6. A = i.gBitBuf \div P /\ A % P = ByteAt(p)
  <2>1. Width - i.gBitsLeft = Width
    BY <1>4
  <2> QED
    BY <1>1, <2>1 DEF ReadTo, Held
<1>7. P \in Nat \ {0} /\ i.gBitBuf \in 0 .. P * P - 1
  <2>1. Pow2[2 * Width] = P * P
    <3>1. Width + Width = 2 * Width
      BY <1>4
    <3> QED
      BY <1>4, <3>1, Pow2Sum
  <2>2. P \in Nat \ {0}
    BY <1>4, PowNat
  <2> HIDE DEF P, A, p
  <2>3. i.gBitBuf \in 0 .. Pow2[2 * Width] - 1
    BY DEF InStep, Sound, InputType
  <2> QED
    BY <2>1, <2>2, <2>3
<1>8. A % P = A
  <2> HIDE DEF P, A, p
  <2>1. A \in 0 .. P - 1
    BY <1>6, <1>7, DivBelow
  <2> QED
    BY <1>7, <2>1
<1>9. ByteAt(p) \in 0 .. FF
  BY <1>2, ByteInRange
<1> HIDE DEF P, A, p
<1> QED
  BY <1>5, <1>6, <1>8, <1>9 DEF P

\* fixInBuffer, on a byte boundary.
LEMMA PutBackStep ==
  ASSUME stream \in Streams, NEW from \in Nat, NEW i, NEW bits, InStep(from, FALSE, i, bits),
         i.gBitsLeft \in {0, Width}
  PROVE  PutBack(i).at \in Nat /\ InStep(PutBack(i).at, TRUE, Prime(PutBack(i), TRUE), << >>)
<1> DEFINE c == i.gBitBuf \div Pow2[Width]
           put == PutBack(i)
<1>1. i.gBitsLeft = 0
  <2>1. i.gBitsLeft < Width /\ Width \in Nat
    BY InStepFields, WidthNat
  <2>2. i.gBitsLeft # Width
    BY <2>1
  <2> QED
    BY <2>2
<1>2. c = ByteAt(i.at) /\ i.at # 0 /\ c \in 0 .. FF
  BY <1>1, HeldLast
<1>3. put = stuffChar(i, c)
  <2>1. ~(i.gBitsLeft > 0)
    BY <1>1
  <2> QED
    BY <2>1 DEF PutBack
<1>4. Sound(i, Reserve) /\ Reserve \in 2 .. Reserve
  BY Constants DEF InStep, Free
<1> HIDE DEF c, put
<1>5. Sound(put, Reserve - 1)
  BY <1>2, <1>3, <1>4, StuffSound
<1>6. Sound(put, Free(TRUE))
  <2> DEFINE l == Reserve - 1
             m == Free(TRUE)
  <2>1. l \in Nat /\ m \in Nat /\ m <= l /\ Sound(put, l)
    BY <1>5, Constants DEF Free
  <2> HIDE DEF l, m
  <2>2. Sound(put, m)
    BY <2>1, RoomLess
  <2> QED
    BY <2>2 DEF m
<1>7. put.at \in Nat
  BY <1>6 DEF Sound, InputType
<1>8. InStep(put.at, TRUE, Prime(put, TRUE), << >>)
  BY <1>6, PrimeSteps
<1> QED
  BY <1>7, <1>8 DEF put

\* getChar returns an input and a value.
LEMMA CharRecord ==
  ASSUME NEW i
  PROVE  getChar(i) = [in |-> getChar(i).in, val |-> getChar(i).val]
<1> DEFINE f == IF i.gInBufLeft = 0 THEN fillInBuf(i) ELSE i
<1>1. getChar(i) = IF f.gInBufLeft = 0
                     THEN [in |-> ReadPast(f), val |-> IF f.gTemFlag THEN EOI ELSE FF]
                     ELSE [in |-> ReadSlot(f), val |-> f.gInBuf[f.gInBufOfs]]
  BY DEF getChar, ReadPast, ReadSlot
<1> HIDE DEF f
<1> QED
  BY <1>1

\* The bytes that processRestart looks at.
Looked(char) ==
  \A k \in 0 .. MaxScan + 1 :
    /\ Sound(char[k].in, Free(TRUE)) /\ BitsKept(in, char[k].in)
    /\ char[k].in.at = in.at + k
    /\ k # 0 => char[k].val = ByteAt(in.at + k)

\* The bytes that processRestart goes through are the stream's, in order.
LEMMA RestartLooks ==
  ASSUME stream \in Streams, Sound(in, Free(TRUE)),
         NEW char, char = CHOOSE f : f = [k \in 0 .. MaxScan + 1 |->
                            IF k = 0 THEN [in |-> in, val |-> 0] ELSE getChar(f[k - 1].in)]
  PROVE  Looked(char)
<1> DEFINE S == {i \in InputType : Sound(i, Free(TRUE)) /\ BitsKept(in, i)}
           V == {[in |-> i, val |-> c] : i \in S, c \in 0 .. FF}
           step == [p \in Nat \X V |-> getChar(p[2].in)]
           a == [in |-> in, val |-> 0]
           n == MaxScan + 1
           D(f) == [k \in 0 .. n |-> IF k = 0 THEN a ELSE getChar(f[k - 1].in)]
<1>0. n \in Nat /\ 0 \in 0 .. FF /\ in.at \in Nat /\ in \in InputType
  BY InputAssumption, Constants DEF Sound, InputType
<1>1. ASSUME NEW i \in S
      PROVE  /\ getChar(i).in \in S /\ getChar(i).val \in 0 .. FF
             /\ getChar(i).in.at = i.at + 1 /\ getChar(i).val = ByteAt(i.at + 1)
  <2>1. Free(TRUE) \in 1 .. Reserve
    BY Constants DEF Free
  <2>2. /\ Sound(getChar(i).in, Free(TRUE)) /\ BitsKept(i, getChar(i).in)
        /\ getChar(i).in.at = i.at + 1 /\ getChar(i).val = ByteAt(i.at + 1)
    <3> DEFINE lo == Free(TRUE)
    <3>1. lo \in 1 .. Reserve /\ Sound(i, lo)
      BY <2>1
    <3> HIDE DEF lo
    <3>2. /\ Sound(getChar(i).in, lo) /\ BitsKept(i, getChar(i).in)
          /\ getChar(i).in.at = i.at + 1 /\ getChar(i).val = ByteAt(i.at + 1)
      BY <3>1, GetCharSound
    <3> QED
      BY <3>2 DEF lo
  <2>3. ByteAt(i.at + 1) \in 0 .. FF
    <3>1. i.at + 1 \in Nat \ {0}
      BY DEF InputType
    <3> QED
      BY <3>1, ByteInRange
  <2>4. getChar(i).in \in InputType
    BY <2>2 DEF Sound
  <2>5. BitsKept(in, getChar(i).in)
    BY <2>2 DEF BitsKept
  <2> QED
    BY <2>2, <2>3, <2>4, <2>5
<1>2. a \in V
  <2>1. in \in S
    BY <1>0 DEF BitsKept
  <2> HIDE DEF S
  <2> QED
    BY <1>0, <2>1
<1>3. ASSUME NEW v \in V PROVE v.in \in S /\ getChar(v.in) \in V
  <2>1. v.in \in S
    <3> HIDE DEF S
    <3> QED
      OBVIOUS
  <2> DEFINE i == v.in
  <2> HIDE DEF S, i
  <2>2. getChar(i) = [in |-> getChar(i).in, val |-> getChar(i).val]
    BY CharRecord
  <2>3. getChar(i).in \in S /\ getChar(i).val \in 0 .. FF
    BY <1>1, <2>1 DEF i
  <2> QED
    BY <2>1, <2>2, <2>3 DEF i
<1> HIDE DEF S
<1>4. step \in [Nat \X V -> V] /\ \A k \in Nat, v \in V : step[<<k, v>>] = getChar(v.in)
  <2> HIDE DEF V
  <2> QED
    BY <1>3
<1> HIDE DEF V, step, a, n
<1>5. PICK g \in [0 .. n -> V] : RecursiveUpTo(g, n, a, step)
  BY <1>0, <1>2, <1>4, FiniteRecursion
<1>6. g = D(g)
  <2>1. ASSUME NEW k \in 0 .. n, k # 0 PROVE step[<<k - 1, g[k - 1]>>] = getChar(g[k - 1].in)
    <3>1. k - 1 \in Nat /\ k - 1 \in 0 .. n
      BY <1>0, <2>1
    <3> QED
      BY <1>4, <1>5, <3>1
  <2> QED
    BY <1>5, <2>1 DEF RecursiveUpTo
<1>7. char = D(char)
  <2>1. char = CHOOSE f : f = D(f)
    BY DEF a, n
  <2> HIDE DEF D
  <2> QED
    BY <1>6, <2>1
<1> DEFINE Good(k) == /\ char[k].in \in S /\ char[k].in.at = in.at + k
                      /\ k # 0 => char[k].val = ByteAt(in.at + k)
           T == {k \in Nat : k <= n => Good(k)}
<1>8. 0 \in T
  <2>1. char[0] = a
    <3>1. 0 \in 0 .. n
      BY <1>0
    <3> QED
      BY <1>7, <3>1
  <2>2. a.in = in /\ in \in S
    BY <1>0 DEF a, S, BitsKept
  <2> QED
    BY <1>0, <2>1, <2>2
<1>9. ASSUME NEW k \in Nat, k \in T PROVE k + 1 \in T
  <2> SUFFICES ASSUME k + 1 <= n PROVE Good(k + 1)
    OBVIOUS
  <2>1. k + 1 \in 0 .. n /\ k + 1 # 0 /\ (k + 1) - 1 = k /\ k <= n
    BY <1>0
  <2>2. Good(k)
    BY <1>9, <2>1
  <2>3. char[k + 1] = getChar(char[k].in)
    <3>1. char[k + 1] = getChar(char[(k + 1) - 1].in)
      <4> HIDE DEF Good, T
      <4> QED
        BY <1>7, <2>1
    <3> HIDE DEF D, Good, T
    <3> QED
      BY <2>1, <3>1
  <2> DEFINE i == char[k].in
  <2>4. i \in S /\ i.at = in.at + k
    BY <2>2
  <2>5. /\ getChar(i).in \in S
        /\ getChar(i).in.at = i.at + 1 /\ getChar(i).val = ByteAt(i.at + 1)
    <3> HIDE DEF i, D, Good, T
    <3> QED
      BY <1>1, <2>4
  <2>6. i.at + 1 = in.at + (k + 1)
    <3> HIDE DEF i, D, Good, T
    <3> QED
      BY <1>0, <2>4
  <2> HIDE DEF D
  <2> QED
    BY <2>3, <2>5, <2>6, Zenon
<1>10. Nat \subseteq T
  <2> HIDE DEF T
  <2> QED
    BY <1>8, <1>9, SetInduction
<1>11. ASSUME NEW k \in 0 .. n
       PROVE  /\ Sound(char[k].in, Free(TRUE)) /\ BitsKept(in, char[k].in)
              /\ char[k].in.at = in.at + k
              /\ k # 0 => char[k].val = ByteAt(in.at + k)
  <2>1. k \in T /\ k <= n
    BY <1>0, <1>10
  <2>2. Good(k)
    BY <2>1
  <2> HIDE DEF D, T
  <2> QED
    BY <2>2 DEF S
<1> QED
  BY <1>11 DEF Looked, n

\* What these say of a state they say of the next: the stream stays as it is.
LEMMA NextByte ==
  ASSUME stream' = stream, NEW n PROVE ByteAt(n)' = ByteAt(n)
BY DEF ByteAt

LEMMA NextOctet ==
  ASSUME stream' = stream, NEW from, NEW scan, NEW n
  PROVE  OctetAt(from, scan, n)' = OctetAt(from, scan, n)
BY DEF OctetAt, ByteAt

LEMMA NextSound ==
  ASSUME stream' = stream, NEW i, NEW lo, Sound(i, lo)
  PROVE  Sound(i, lo)'
BY DEF Sound, Kept, SlotsKept, EndKept, Room, ByteAt

\* The same of InStep.
LEMMA NextInStep ==
  ASSUME stream' = stream, NEW from, NEW scan, NEW i, NEW bits, InStep(from, scan, i, bits)
  PROVE  InStep(from, scan, i, bits)'
<1>1. Sound(i, Free(scan))'
  <2>1. Sound(i, Free(scan))
    BY DEF InStep
  <2> QED
    BY <2>1, NextSound DEF Free
<1>2. PICK N \in Nat \ {0} : Octets(from, scan, bits \o Ahead(i), N) /\ ReadTo(from, scan, i, N)
  BY DEF InStep
<1>3. Octets(from, scan, bits \o Ahead(i), N)'
  BY <1>2, NextByte, NextOctet DEF Octets, Ahead, Held
<1>4. ReadTo(from, scan, i, N)'
  BY <1>2, NextByte, NextOctet DEF ReadTo, Held
<1> QED
  BY <1>1, <1>3, <1>4 DEF InStep, Held, Ahead

\* A step that is in step, or one that fails, keeps the invariant.
LEMMA Arrives ==
  ASSUME stream' = stream, NEW from, NEW scan, NEW i, NEW bits, InStep(from, scan, i, bits),
         start' = from, (phase' = "scan") = scan, in' = i, taken' = bits
  PROVE  InStep(start, phase = "scan", in, taken)'
<1>1. InStep(from, scan, i, bits)'
  BY NextInStep
<1> QED
  BY <1>1 DEF InStep, Sound, Kept, SlotsKept, EndKept, Room, Free, Octets, ReadTo, Held, Ahead

LEMMA Halts ==
  ASSUME stream' = stream, NEW i, Stopped(i), in' = i
  PROVE  Stopped(in)'
<1>1. Sound(i, Free(TRUE))
  BY DEF Stopped
<1>2. Sound(i, Free(TRUE))'
  BY <1>1, NextSound DEF Free
<1> QED
  BY <1>2 DEF Stopped, Sound, Kept, SlotsKept, EndKept, Room, Free

\* pjpeg_decode_init's first bits.
LEMMA InitHolds == Init => IInv
<1> SUFFICES ASSUME Init PROVE IInv
  OBVIOUS
<1> DEFINE i == [gInBuf |-> [k \in 0 .. InBufSize - 1 |-> 0],
                 gInBufOfs |-> 0, gInBufLeft |-> 0, gTemFlag |-> FALSE,
                 gBitBuf |-> 0, gBitsLeft |-> 0, served |-> 0, at |-> 0]
<1>1. stream \in Streams /\ in = Prime(i, FALSE) /\ phase = "markers" /\ start = 0 /\ taken = << >>
  BY DEF Init
<1>2. i \in InputType
  <2>1. 0 \in 0 .. InBufSize - 1 /\ 0 \in 0 .. FF /\ 0 \in 0 .. Width
        /\ 0 \in 0 .. Pow2[2 * Width] - 1
    <3>1. Pow2[2 * Width] \in Nat \ {0}
      BY WidthNat, PowNat DEF Top
    <3> QED
      BY <3>1, Constants
  <2>2. [k \in 0 .. InBufSize - 1 |-> 0] \in [0 .. InBufSize - 1 -> 0 .. FF]
    BY <2>1
  <2> QED
    BY <2>1, <2>2 DEF InputType
<1>3. /\ i.gInBufOfs = 0 /\ i.gInBufLeft = 0 /\ i.gTemFlag = FALSE /\ i.served = 0 /\ i.at = 0
  OBVIOUS
<1> HIDE DEF i
<1>4. Sound(i, Free(FALSE))
  <2>1. Len(stream) \in Nat
    <3>1. stream \in Seq(0 .. FF)
      BY <1>1, InputAssumption DEF FF
    <3> QED
      BY <3>1
  <2>2. EndKept(i.served, i.at + i.gInBufLeft, i.gTemFlag)
    <3>1. CASE 0 < Len(stream)
      BY <1>3, <3>1 DEF EndKept
    <3>2. CASE ~(0 < Len(stream))
      <4>1. Len(stream) = 0 /\ ~((0 - Len(stream)) % 2 = 1) /\ 0 >= Len(stream)
            /\ i.at + i.gInBufLeft = 0
        BY <1>3, <2>1, <3>2
      <4>2. EndKept(0, 0, FALSE)
        BY <3>2, <4>1 DEF EndKept
      <4> QED
        BY <1>3, <4>1, <4>2
    <3> QED
      BY <3>1, <3>2
  <2>3. SlotsKept(i) /\ Room(i, Free(FALSE))
    BY <1>3 DEF SlotsKept, Room
  <2>4. i.served <= Len(stream)
    BY <1>3, <2>1
  <2> QED
    BY <1>2, <2>2, <2>3, <2>4 DEF Sound, Kept
<1>5. InStep(0, FALSE, in, << >>)
  BY <1>1, <1>3, <1>4, PrimeSteps
<1>6. InStep(start, phase = "scan", in, taken)
  BY <1>1, <1>5
<1>7. Fields /\ phase # "failed"
  <2>1. << >> \in Seq({0, 1})
    OBVIOUS
  <2> QED
    BY <1>1, <2>1 DEF Fields
<1> QED
  BY <1>6, <1>7 DEF IInv

\* A call that takes n bits and leaves the segment as it is.
LEMMA TakeHolds ==
  ASSUME IInv, phase # "failed", NEW r, NEW n \in 0 .. 2 * Width, Take(r, n),
         r.in = getBits(in, n, phase = "scan").in, r.val = getBits(in, n, phase = "scan").val
  PROVE  IInv'
<1> DEFINE scan == phase = "scan"
           i == r.in
           bits == taken \o Bits(r.val, n)
<1>1. Fields /\ InStep(start, scan, in, taken)
  BY DEF IInv
<1>2. /\ stream' = stream /\ phase' = phase /\ start' = start /\ in' = i /\ taken' = bits
  BY DEF Take
<1>3. InStep(start, scan, i, bits)
  <2>1. InStep(start, scan, getBits(in, n, scan).in, taken \o Bits(getBits(in, n, scan).val, n))
    BY <1>1, ReadBits DEF Fields
  <2> QED
    BY <2>1
<1>4. InStep(start, phase = "scan", in, taken)'
  <2>1. (phase' = "scan") = scan
    BY <1>2
  <2> HIDE DEF scan, i, bits
  <2> QED
    BY <1>2, <1>3, <2>1, Arrives
<1>5. Fields'
  <2>1. bits \in Seq({0, 1})
    BY <1>3 DEF InStep
  <2> HIDE DEF bits
  <2> QED
    BY <1>1, <1>2, <2>1 DEF Fields
<1> QED
  BY <1>2, <1>4, <1>5 DEF IInv

\* The actions, one by one.
LEMMA GetBits1Holds == ASSUME IInv, getBits1 PROVE IInv'
<1>1. PICK n \in {Width \div 2, Width, 2 * Width} : Take(getBits(in, n, FALSE), n)
  BY DEF getBits1
<1>2. n \in 0 .. 2 * Width
  BY WidthNat
<1>3. phase # "failed" /\ (phase = "scan") = FALSE
  BY DEF getBits1
<1> DEFINE r == getBits(in, n, FALSE)
<1>4. /\ Take(r, n) /\ r.in = getBits(in, n, phase = "scan").in
      /\ r.val = getBits(in, n, phase = "scan").val
  BY <1>1, <1>3
<1> HIDE DEF r
<1> QED
  BY <1>2, <1>3, <1>4, TakeHolds

LEMMA GetBits2Holds == ASSUME IInv, getBits2 PROVE IInv'
<1>1. PICK n \in 1 .. 2 * Width : Take(getBits(in, n, TRUE), n)
  BY DEF getBits2
<1>2. n \in 0 .. 2 * Width
  BY WidthNat
<1>3. phase # "failed" /\ (phase = "scan") = TRUE
  BY DEF getBits2
<1> DEFINE r == getBits(in, n, TRUE)
<1>4. /\ Take(r, n) /\ r.in = getBits(in, n, phase = "scan").in
      /\ r.val = getBits(in, n, phase = "scan").val
  BY <1>1, <1>3
<1> HIDE DEF r
<1> QED
  BY <1>2, <1>3, <1>4, TakeHolds

LEMMA GetBitHolds == ASSUME IInv, getBit1 PROVE IInv'
<1>1. phase # "failed" /\ (phase = "scan") = TRUE /\ Take(getBit(in), 1)
  BY DEF getBit1
<1>2. 1 \in 0 .. 2 * Width
  BY WidthNat
<1>3. InStep(start, TRUE, in, taken) /\ stream \in Streams /\ start \in Nat
  BY <1>1 DEF IInv, Fields
<1> DEFINE r == getBit(in)
<1>4. r.in = getBits(in, 1, TRUE).in /\ r.val = getBits(in, 1, TRUE).val
  BY <1>3, BitIsBits
<1>5. /\ Take(r, 1) /\ r.in = getBits(in, 1, phase = "scan").in
      /\ r.val = getBits(in, 1, phase = "scan").val
  BY <1>1, <1>4
<1> HIDE DEF r
<1> DEFINE n == 1
<1>6. n \in 0 .. 2 * Width /\ Take(r, n) /\ r.in = getBits(in, n, phase = "scan").in
      /\ r.val = getBits(in, n, phase = "scan").val
  BY <1>2, <1>5
<1> HIDE DEF n
<1> QED
  BY <1>1, <1>6, TakeHolds

LEMMA FixInBufferHolds == ASSUME IInv, fixInBuffer PROVE IInv'
<1> DEFINE put == PutBack(in)
           i == Prime(put, TRUE)
<1>1. /\ phase = "markers" /\ in.gBitsLeft \in {0, Width} /\ in' = i /\ start' = put.at
      /\ phase' = "scan" /\ taken' = << >> /\ stream' = stream
  BY DEF fixInBuffer
<1>2. InStep(start, FALSE, in, taken) /\ Fields
  BY <1>1 DEF IInv
<1>3. put.at \in Nat /\ InStep(put.at, TRUE, i, << >>)
  BY <1>1, <1>2, PutBackStep DEF Fields
<1>4. InStep(start, phase = "scan", in, taken)'
  <2> DEFINE p == put.at
             scan == TRUE
             bits == << >>
  <2>1. /\ InStep(p, scan, i, bits) /\ start' = p /\ (phase' = "scan") = scan /\ in' = i
        /\ taken' = bits
    BY <1>1, <1>3
  <2> HIDE DEF i, p, scan, bits
  <2> QED
    BY <1>1, <2>1, Arrives
<1>5. Fields'
  <2>1. << >> \in Seq({0, 1})
    OBVIOUS
  <2> HIDE DEF put
  <2> QED
    BY <1>1, <1>2, <1>3, <2>1 DEF Fields
<1> QED
  BY <1>1, <1>4, <1>5 DEF IInv

LEMMA RestartHolds == ASSUME IInv, processRestart PROVE IInv'
<1> DEFINE D(f) == [k \in 0 .. MaxScan + 1 |->
                      IF k = 0 THEN [in |-> in, val |-> 0] ELSE getChar(f[k - 1].in)]
           char == CHOOSE f : f = D(f)
           found == {k \in 2 .. MaxScan + 1 :
                     /\ char[k].val # FF
                     /\ \E j \in 1 .. k - 1 : char[j].val = FF}
           code == Min(found)
<1>1. /\ phase = "scan"
      /\ IF found # {} /\ char[code].val = RST
           THEN /\ in' = Prime(char[code].in, TRUE)
                /\ start' = char[code].in.at
                /\ taken' = << >>
                /\ UNCHANGED <<stream, phase>>
           ELSE /\ phase' = "failed"
                /\ in' = IF found # {} THEN char[code].in
                         ELSE IF \E j \in 1 .. MaxScan : char[j].val = FF
                                THEN char[MaxScan + 1].in ELSE char[MaxScan].in
                /\ UNCHANGED <<stream, start, taken>>
  BY Zenon DEF processRestart
<1>2. InStep(start, TRUE, in, taken) /\ Fields
  BY <1>1, Zenon DEF IInv
<1>3. Looked(char)
  <2>1. stream \in Streams /\ Sound(in, Free(TRUE))
    BY <1>2 DEF InStep, Fields
  <2> QED
    BY <2>1, RestartLooks
<1> HIDE DEF char
<1>4. found # {} => code \in found /\ \A k \in found : code <= k
  <2> SUFFICES ASSUME found # {} PROVE code \in found /\ \A k \in found : code <= k
    OBVIOUS
  <2>1. found \subseteq Nat
    OBVIOUS
  <2> HIDE DEF found
  <2>2. \E m \in found : \A k \in found : m <= k
    BY <2>1, LeastExists
  <2> QED
    BY <2>2 DEF Min
<1>5. MaxScan \in 0 .. MaxScan + 1 /\ MaxScan + 1 \in 0 .. MaxScan + 1
      /\ \A k \in found : k \in 0 .. MaxScan + 1
  BY InputAssumption
<1> HIDE DEF code, found
<1>6. ASSUME NEW k \in 0 .. MaxScan + 1
      PROVE  Sound(char[k].in, Free(TRUE)) /\ BitsKept(in, char[k].in) /\ Stopped(char[k].in)
  <2>1. Sound(char[k].in, Free(TRUE)) /\ BitsKept(in, char[k].in)
    BY <1>3 DEF Looked
  <2>2. in.gBitBuf % Pow2[Width - in.gBitsLeft] = 0
    BY <1>2, InStepLow
  <2> QED
    BY <2>1, <2>2 DEF Stopped, BitsKept
<1>7. CASE found # {} /\ char[code].val = RST
  <2> DEFINE c == char[code].in
             i == Prime(c, TRUE)
  <2>1. /\ in' = i /\ start' = c.at /\ taken' = << >> /\ stream' = stream /\ phase' = phase
    BY <1>1, <1>7
  <2>2. Sound(c, Free(TRUE))
    BY <1>4, <1>5, <1>6, <1>7
  <2> HIDE DEF c
  <2>3. c.at \in Nat /\ InStep(c.at, TRUE, i, << >>)
    <3>1. c.at \in Nat
      BY <2>2 DEF Sound, InputType
    <3> QED
      BY <1>2, <2>2, <3>1, PrimeSteps DEF Fields
  <2>4. InStep(start, phase = "scan", in, taken)'
    <3> DEFINE p == c.at
               scan == TRUE
               bits == << >>
    <3>1. /\ InStep(p, scan, i, bits) /\ start' = p /\ (phase' = "scan") = scan /\ in' = i
          /\ taken' = bits
      BY <1>1, <2>1, <2>3
    <3> HIDE DEF i, p, scan, bits
    <3> QED
      BY <2>1, <3>1, Arrives
  <2>5. Fields'
    <3>1. << >> \in Seq({0, 1})
      OBVIOUS
    <3> QED
      BY <1>2, <2>1, <2>3, <3>1 DEF Fields
  <2> QED
    BY <1>1, <2>1, <2>4, <2>5 DEF IInv
<1>8. CASE ~(found # {} /\ char[code].val = RST)
  <2>1. /\ phase' = "failed" /\ stream' = stream /\ start' = start /\ taken' = taken
        /\ \E k \in 0 .. MaxScan + 1 : in' = char[k].in
    <3>1. /\ phase' = "failed" /\ UNCHANGED <<stream, start, taken>>
          /\ in' = IF found # {} THEN char[code].in
                   ELSE IF \E j \in 1 .. MaxScan : char[j].val = FF
                          THEN char[MaxScan + 1].in ELSE char[MaxScan].in
      BY <1>1, <1>8
    <3>2. \/ in' = char[code].in /\ found # {}
          \/ in' = char[MaxScan + 1].in
          \/ in' = char[MaxScan].in
      BY <3>1
    <3> QED
      BY <1>4, <1>5, <3>1, <3>2
  <2>2. PICK k \in 0 .. MaxScan + 1 : in' = char[k].in
    BY <2>1
  <2> DEFINE i == char[k].in
  <2>3. in' = i /\ Stopped(i)
    BY <1>6, <2>2
  <2> HIDE DEF i
  <2>4. Stopped(in)'
    BY <2>1, <2>3, Halts
  <2>5. Fields'
    BY <1>2, <2>1 DEF Fields
  <2> QED
    BY <2>1, <2>4, <2>5 DEF IInv
<1> QED
  BY <1>7, <1>8

LEMMA StutterHolds == ASSUME IInv, UNCHANGED vars PROVE IInv'
<1>1. stream' = stream /\ in' = in /\ phase' = phase /\ start' = start /\ taken' = taken
  BY DEF vars
<1>2. Fields'
  BY <1>1 DEF IInv, Fields
<1>3. CASE phase # "failed"
  <2> DEFINE scan == phase = "scan"
  <2>1. InStep(start, scan, in, taken) /\ (phase' = "scan") = scan
    BY <1>1, <1>3 DEF IInv
  <2> HIDE DEF scan
  <2>2. InStep(start, phase = "scan", in, taken)'
    BY <1>1, <2>1, Arrives
  <2> QED
    BY <1>1, <1>2, <1>3, <2>2 DEF IInv
<1>4. CASE phase = "failed"
  <2>1. Stopped(in)
    BY <1>4 DEF IInv
  <2>2. Stopped(in)'
    BY <1>1, <2>1, Halts
  <2> QED
    BY <1>1, <1>2, <1>4, <2>2 DEF IInv
<1> QED
  BY <1>3, <1>4

\* What the bit buffer and the byte buffer hold, with what has been taken, is
\* what the stream says: the invariant from which the others follow.
THEOREM Invariant == Spec => []IInv
<1>1. Init => IInv
  BY InitHolds
<1>2. IInv /\ [Next]_vars => IInv'
  <2> SUFFICES ASSUME IInv, [Next]_vars PROVE IInv'
    OBVIOUS
  <2>1. CASE getBits1
    BY <2>1, GetBits1Holds
  <2>2. CASE fixInBuffer
    BY <2>2, FixInBufferHolds
  <2>3. CASE getBits2
    BY <2>3, GetBits2Holds
  <2>4. CASE getBit1
    BY <2>4, GetBitHolds
  <2>5. CASE processRestart
    BY <2>5, RestartHolds
  <2>6. CASE UNCHANGED vars
    BY <2>6, StutterHolds
  <2> QED
    BY <2>1, <2>2, <2>3, <2>4, <2>5, <2>6 DEF Next
<1> QED
  BY <1>1, <1>2, PTL DEF Spec

\* Whatever the phase, the bytes are sound.
LEMMA SoundIn == IInv => Sound(in, Free(phase = "scan")) \/ Sound(in, Free(TRUE))
BY DEF IInv, InStep, Stopped

\* The input's fields stay in their ranges, the uint8 offset and count of
\* fillInBuf among them (picojpeg.c, fillInBuf, getBits).
THEOREM FieldsInRange == Spec => []TypeOK
<1>1. IInv => TypeOK
  BY SoundIn DEF IInv, Fields, TypeOK, Sound
<1> QED
  BY <1>1, Invariant, PTL

\* What stuffChar puts back overwrites no unread byte, and no byte is lost, made
\* up or read twice, for every stream and every size of the buffer
\* (picojpeg.c, fillInBuf, stuffChar, getChar).
THEOREM StreamIsKept == Spec => []StreamKept
<1>1. IInv => StreamKept
  <2> SUFFICES ASSUME IInv PROVE StreamKept
    OBVIOUS
  <2>1. SlotsKept(in) /\ EndKept(in.served, in.at + in.gInBufLeft, in.gTemFlag)
    BY SoundIn DEF Sound, Kept
  <2> QED
    BY <2>1 DEF StreamKept, SlotsKept, EndKept
<1> QED
  BY <1>1, Invariant, PTL

\* Every octet is or-ed into zeros (picojpeg.c, getBits and getBit).
THEOREM LowBitsAreZero == Spec => []LowBitsZero
<1>1. IInv => LowBitsZero
  <2> SUFFICES ASSUME IInv PROVE LowBitsZero
    OBVIOUS
  <2>1. in.gBitBuf % Pow2[Width - in.gBitsLeft] = 0
    <3>1. CASE phase # "failed"
      <4> DEFINE scan == phase = "scan"
      <4>1. InStep(start, scan, in, taken)
        BY <3>1 DEF IInv
      <4> HIDE DEF scan
      <4> QED
        BY <4>1, InStepLow
    <3>2. CASE phase = "failed"
      BY <3>2 DEF IInv, Stopped
    <3> QED
      BY <3>1, <3>2
  <2> QED
    BY <2>1 DEF LowBitsZero
<1> QED
  BY <1>1, Invariant, PTL

\* On a byte boundary as many octets have been read as the bits make.
LEMMA WholeOctets ==
  ASSUME NEW N \in Nat PROVE (N * Width) % Width = 0 /\ (N * Width) \div Width = N
<1>1. ASSUME NEW z \in Nat, z = 0 PROVE (N * Width) % Width = 0 /\ (N * Width) \div Width = N
  <2>1. (N * Width + z) % Width = z /\ (N * Width + z) \div Width = N
    BY <1>1, WidthNat, DivUnique
  <2>2. N * Width \in Nat
    BY WidthNat, TimesTimes
  <2>3. N * Width + z = N * Width
    BY <1>1, <2>2
  <2> QED
    BY <1>1, <2>1, <2>3
<1> QED
  BY <1>1

\* The decoder is given the segment's bits in order, none twice and none
\* missing, whatever it asks for and wherever the stuffed FFs and the refills
\* fall (picojpeg.c, getBits, getBit, getOctet, fixInBuffer, processRestart).
THEOREM BitsComeInOrder == Spec => []BitsInOrder
<1>1. IInv => BitsInOrder
  <2> SUFFICES ASSUME IInv, phase # "failed"
               PROVE  LET bits == taken \o Ahead(in)
                      IN  /\ Len(bits) % Width = 0
                          /\ \A k \in 1 .. Len(bits) \div Width :
                                SubSeq(bits, (k - 1) * Width + 1, k * Width)
                                  = Bits(ByteAt(OctetAt(start, phase = "scan", k)), Width)
    BY DEF BitsInOrder, Ahead, Held
  <2> DEFINE bits == taken \o Ahead(in)
  <2>1. PICK N \in Nat \ {0} : Octets(start, phase = "scan", bits, N)
    BY DEF IInv, InStep
  <2> HIDE DEF bits
  <2>2. Len(bits) % Width = 0 /\ Len(bits) \div Width = N
    <3>1. Len(bits) = N * Width
      BY <2>1 DEF Octets
    <3> QED
      BY <3>1, WholeOctets
  <2>3. \A k \in 1 .. N : SubSeq(bits, (k - 1) * Width + 1, k * Width)
                              = Bits(ByteAt(OctetAt(start, phase = "scan", k)), Width)
    BY <2>1 DEF Octets
  <2> QED
    BY <2>2, <2>3 DEF bits
<1> QED
  BY <1>1, Invariant, PTL

\* The number of the octet from which the last bits were taken.
LEMMA LastTaken ==
  ASSUME NEW N \in Nat \ {0}, NEW l \in Nat, l < Width, NEW t \in Nat \ {0},
         t + (Width + l) = N * Width
  PROVE  (t + Width - 1) \div Width = N - 1 /\ N - 1 \in Nat \ {0}
<1> DEFINE m == N - 1
           p == m * Width
<1>1. Width \in Nat \ {0} /\ Width \in Nat
  BY WidthNat
<1>2. m \in Nat /\ N = m + 1
  OBVIOUS
<1> HIDE DEF m
<1>3. N * Width = p + Width /\ p \in Nat
  BY <1>1, <1>2, NextMultiple, TimesTimes
<1>4. m # 0
  <2> SUFFICES ASSUME m = 0 PROVE FALSE
    OBVIOUS
  <2>1. p = 0
    BY <1>1
  <2> HIDE DEF p
  <2> QED
    BY <1>1, <1>3, <2>1
<1> DEFINE r == Width - 1 - l
<1>5. r \in Nat /\ r < Width /\ t + Width - 1 = p + r
  <2> HIDE DEF p
  <2> QED
    BY <1>1, <1>3
<1> HIDE DEF r
<1>6. (m * Width + r) \div Width = m
  BY <1>1, <1>2, <1>5, DivUnique
<1> QED
  BY <1>2, <1>4, <1>5, <1>6 DEF m

\* Where the reader stands when the last bits came from the byte before a
\* marker: in front of the marker.
LEMMA BeforeMarker ==
  ASSUME IInv, phase = "scan", taken # << >>, NEW p, LastOf(p),
         NEW marker, marker = IF ByteAt(p) = FF THEN p + 2 ELSE p + 1,
         ByteAt(marker) = FF, ByteAt(marker + 1) = RST
  PROVE  in.at + 1 = marker
<1>1. InStep(start, TRUE, in, taken) /\ start \in Nat
  BY DEF IInv, Fields
<1>2. PICK N \in Nat \ {0} : /\ Octets(start, TRUE, taken \o Ahead(in), N)
                             /\ ReadTo(start, TRUE, in, N)
  BY <1>1 DEF InStep
<1> DEFINE l == in.gBitsLeft
           t == Len(taken)
<1>3. l \in Nat /\ l < Width /\ t \in Nat \ {0} /\ t + (Width + l) = N * Width
  <2>1. /\ l \in Nat /\ l < Width /\ Ahead(in) \in Seq({0, 1}) /\ Len(Ahead(in)) = Width + l
        /\ taken \in Seq({0, 1})
    BY <1>1, InStepFields DEF InStep
  <2>2. Len(taken \o Ahead(in)) = t + (Width + l)
    BY <2>1, ConcatProperties
  <2>3. t \in Nat /\ t # 0
    BY <2>1, EmptySeq
  <2> QED
    BY <1>2, <2>1, <2>2, <2>3 DEF Octets
<1> HIDE DEF l, t
<1>4. (t + Width - 1) \div Width = N - 1 /\ N - 1 \in Nat \ {0}
  BY <1>3, LastTaken
<1>5. p = OctetAt(start, TRUE, N - 1) /\ Data(p)
  BY <1>4 DEF LastOf, t
<1>6. /\ OctetAt(start, TRUE, N) = Behind(TRUE, p)
      /\ OctetAt(start, TRUE, N + 1) = Behind(TRUE, OctetAt(start, TRUE, N))
  <2> DEFINE m == N - 1
  <2>1. m \in Nat \ {0} /\ m + 1 = N
    BY <1>4
  <2>2. p = OctetAt(start, TRUE, m)
    BY <1>5
  <2> HIDE DEF m
  <2>3. OctetAt(start, TRUE, m + 1) = Behind(TRUE, OctetAt(start, TRUE, m))
    BY <1>1, <2>1, OctetSteps
  <2>4. OctetAt(start, TRUE, N + 1) = Behind(TRUE, OctetAt(start, TRUE, N))
    BY <1>1, OctetSteps
  <2> QED
    BY <2>1, <2>2, <2>3, <2>4
<1>7. Behind(TRUE, p) = marker
  <2>1. CASE ByteAt(p) # FF
    BY <2>1 DEF Behind
  <2>2. CASE ByteAt(p) = FF
    <3>1. ByteAt(p + 1) = 0
      BY <1>5, <2>2 DEF Data
    <3> QED
      BY <2>2, <3>1 DEF Behind
  <2> QED
    BY <2>1, <2>2
<1>8. Behind(TRUE, marker) = marker
  <2>1. ByteAt(marker + 1) # 0
    BY Constants
  <2> QED
    BY <2>1 DEF Behind
<1> QED
  BY <1>2, <1>6, <1>7, <1>8 DEF ReadTo

\* processRestart from a state before a marker.
LEMMA MarkerStep == ASSUME IInv, processRestart PROVE RestartKeepsMarker
<1> SUFFICES ASSUME NEW p \in 1 .. Len(stream) + 1, NEW marker,
                    marker = (IF ByteAt(p) = FF THEN p + 2 ELSE p + 1),
                    taken # << >>, LastOf(p), ByteAt(marker) = FF, ByteAt(marker + 1) = RST
             PROVE  phase' = "scan" /\ start' = marker + 1
  BY DEF RestartKeepsMarker
<1> DEFINE D(f) == [k \in 0 .. MaxScan + 1 |->
                      IF k = 0 THEN [in |-> in, val |-> 0] ELSE getChar(f[k - 1].in)]
           char == CHOOSE f : f = D(f)
           found == {k \in 2 .. MaxScan + 1 :
                     /\ char[k].val # FF
                     /\ \E j \in 1 .. k - 1 : char[j].val = FF}
           code == Min(found)
<1>1. /\ phase = "scan"
      /\ (found # {} /\ char[code].val = RST) => start' = char[code].in.at /\ phase' = phase
  BY Zenon DEF processRestart
<1>2. InStep(start, TRUE, in, taken) /\ Fields
  BY <1>1, Zenon DEF IInv
<1>3. Looked(char)
  <2>1. stream \in Streams /\ Sound(in, Free(TRUE))
    BY <1>2 DEF InStep, Fields
  <2> QED
    BY <2>1, RestartLooks
<1> HIDE DEF char
<1>4. in.at \in Nat /\ in.at + 1 = marker /\ marker + 1 = in.at + 2
  <2>1. in.at \in Nat
    BY <1>2, InStepFields
  <2>2. in.at + 1 = marker
    BY <1>1, BeforeMarker
  <2> QED
    BY <2>1, <2>2
<1>5. /\ 1 \in 0 .. MaxScan + 1 /\ 2 \in 0 .. MaxScan + 1 /\ 2 \in 2 .. MaxScan + 1
  BY InputAssumption
<1>6. char[1].val = FF /\ char[2].val = RST /\ char[2].in.at = in.at + 2 /\ RST # FF
  <2>1. /\ char[1].val = ByteAt(in.at + 1) /\ char[2].val = ByteAt(in.at + 2)
        /\ char[2].in.at = in.at + 2
    <3>1. ASSUME NEW k \in 0 .. MaxScan + 1, k # 0
          PROVE  char[k].val = ByteAt(in.at + k) /\ char[k].in.at = in.at + k
      BY <1>3, <3>1, Zenon DEF Looked
    <3>2. 1 # 0 /\ 2 # 0
      OBVIOUS
    <3>3. char[1].val = ByteAt(in.at + 1)
      BY <1>5, <3>1, <3>2, Zenon
    <3>4. char[2].val = ByteAt(in.at + 2) /\ char[2].in.at = in.at + 2
      BY <1>5, <3>1, <3>2, Zenon
    <3> QED
      BY <3>3, <3>4
  <2>2. ByteAt(in.at + 1) = FF /\ ByteAt(in.at + 2) = RST
    <3>1. ByteAt(in.at + 1) = ByteAt(marker) /\ ByteAt(in.at + 2) = ByteAt(marker + 1)
      BY <1>4
    <3> QED
      BY <3>1
  <2> QED
    BY <2>1, <2>2, Constants
<1>7. 2 \in found /\ \A k \in found : 2 <= k
  <2>1. 1 \in 1 .. 2 - 1
    OBVIOUS
  <2> QED
    BY <1>5, <1>6, <2>1
<1>8. code = 2
  <2>1. found \subseteq Nat
    OBVIOUS
  <2> HIDE DEF found
  <2>2. code \in found /\ \A k \in found : code <= k
    BY <1>7 DEF Min
  <2> HIDE DEF code
  <2>3. code \in Nat /\ code <= 2 /\ 2 <= code
    BY <1>7, <2>1, <2>2
  <2> QED
    BY <2>3
<1> HIDE DEF code, found
<1> QED
  BY <1>1, <1>4, <1>6, <1>7, <1>8

\* The look-ahead never eats a restart marker: after the last bits before it
\* processRestart finds it (picojpeg.c, processRestart with getOctet).
THEOREM MarkerIsFound == Spec => RestartFindsMarker
<1>1. IInv /\ [Next]_vars => [RestartKeepsMarker]_vars
  <2> SUFFICES ASSUME IInv, [Next]_vars PROVE [RestartKeepsMarker]_vars
    OBVIOUS
  <2>1. CASE processRestart
    BY <2>1, MarkerStep
  <2>2. CASE ~processRestart
    BY <2>2 DEF RestartKeepsMarker
  <2> QED
    BY <2>1, <2>2
<1> QED
  BY <1>1, Invariant, PTL DEF Spec, RestartFindsMarker
=============================================================================
