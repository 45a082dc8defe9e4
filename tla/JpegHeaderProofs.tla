-------------------------- MODULE JpegHeaderProofs --------------------------
(***************************************************************************)
(* pjpeg_decode_init, for every set of files and every length of code.     *)
(*                                                                         *)
(* First the Huffman tables alone.  The codes of a canonical code divide   *)
(* the numbers of CodeLengths bits into as many intervals, of Room(l) each *)
(* for the codes of length l + 1; RoomBelow counts what those of the       *)
(* shorter lengths take.  A number lies in the intervals of one length, if *)
(* in any (SymbolLength), and that is the length at which huffDecode       *)
(* stops (NoHits, LengthHitIs): TableIsCanonical.                          *)
(*                                                                         *)
(* Then the header.  IInv adds to the type what is left of a segment that  *)
(* is being read (SegmentLeft), that a table counts as valid only if it    *)
(* has been read, as long as no reader has failed (ValidAreRead), what     *)
(* huffCreate has been given (TablesHold) and what initScan has looked at  *)
(* (Selected).  InStep is what a step does at the end of a segment.        *)
(***************************************************************************)
EXTENDS JpegHeader, Arithmetic, SequenceTheorems

(***************************************************************************)
(* Huffman tables.                                                         *)
(***************************************************************************)
LEMMA SumDef ==
  ASSUME NEW w \in [Lengths -> Nat]
  PROVE  /\ SumBelow(w, 0) = 0
         /\ \A i \in Lengths : SumBelow(w, i + 1) = SumBelow(w, i) + w[i]
         /\ \A i \in 0 .. CodeLengths : SumBelow(w, i) \in Nat
<1>0. CodeLengths \in Nat
  BY CodeAssumption
<1> DEFINE D(f) == [i \in 0 .. CodeLengths |-> IF i = 0 THEN 0 ELSE f[i - 1] + w[i - 1]]
           sum == CHOOSE f : f = D(f)
<1>1. \E f : f = D(f)
  <2>1. PICK next \in [Nat \X Nat -> Nat] :
          \A n, v \in Nat : next[<<n, v>>] = v + (IF n \in Lengths THEN w[n] ELSE 0)
    <3>1. [p \in Nat \X Nat |-> p[2] + (IF p[1] \in Lengths THEN w[p[1]] ELSE 0)]
            \in [Nat \X Nat -> Nat]
      OBVIOUS
    <3> QED
      BY <3>1
  <2>2. PICK f \in [0 .. CodeLengths -> Nat] : RecursiveUpTo(f, CodeLengths, 0, next)
    <3>1. 0 \in Nat
      OBVIOUS
    <3> QED
      BY <1>0, <2>1, <3>1, FiniteRecursion, Zenon
  <2>3. ASSUME NEW i \in 0 .. CodeLengths, i # 0
        PROVE  next[<<i - 1, f[i - 1]>>] = f[i - 1] + w[i - 1]
    <3>1. i - 1 \in Nat /\ i - 1 \in Lengths /\ i - 1 \in 0 .. CodeLengths
      BY <1>0, <2>3 DEF Lengths
    <3>2. f[i - 1] \in Nat
      BY <3>1
    <3> QED
      BY <2>1, <3>1, <3>2
  <2>4. f = D(f)
    BY <2>2, <2>3 DEF RecursiveUpTo
  <2> HIDE DEF D
  <2> QED
    BY <2>4
<1>2. sum = D(sum)
  <2> HIDE DEF D
  <2> QED
    BY <1>1
<1>3. \A i \in 0 .. CodeLengths : SumBelow(w, i) = sum[i]
  BY DEF SumBelow
<1>4. \A i \in 0 .. CodeLengths : sum[i] = IF i = 0 THEN 0 ELSE sum[i - 1] + w[i - 1]
  <2> HIDE DEF sum
  <2> QED
    BY <1>2
<1> HIDE DEF sum, D
<1>5. SumBelow(w, 0) = 0 /\ \A i \in Lengths : SumBelow(w, i + 1) = SumBelow(w, i) + w[i]
  <2>1. ASSUME NEW i \in Lengths
        PROVE  i \in 0 .. CodeLengths /\ i + 1 \in 0 .. CodeLengths /\ i + 1 # 0 /\ i + 1 - 1 = i
    BY <1>0 DEF Lengths
  <2> QED
    BY <1>0, <1>3, <1>4, <2>1
<1>6. \A i \in 0 .. CodeLengths : SumBelow(w, i) \in Nat
  <2> DEFINE S == {i \in Nat : i <= CodeLengths => SumBelow(w, i) \in Nat}
  <2>1. 0 \in S
    BY <1>5
  <2>2. ASSUME NEW i \in Nat, i \in S PROVE i + 1 \in S
    <3> SUFFICES ASSUME i + 1 <= CodeLengths PROVE SumBelow(w, i + 1) \in Nat
      OBVIOUS
    <3>1. i \in Lengths /\ SumBelow(w, i) \in Nat
      BY <1>0, <2>2 DEF Lengths
    <3> QED
      BY <1>5, <3>1
  <2>3. Nat \subseteq S
    <3> HIDE DEF S
    <3> QED
      BY <2>1, <2>2, SetInduction
  <2> QED
    BY <2>3
<1> QED
  BY <1>5, <1>6

LEMMA SumMonotone ==
  ASSUME NEW w \in [Lengths -> Nat], NEW i \in Nat, NEW j \in 0 .. CodeLengths, i <= j
  PROVE  SumBelow(w, i) <= SumBelow(w, j)
<1>0. CodeLengths \in Nat
  BY CodeAssumption
<1> DEFINE S == {d \in Nat : i + d <= CodeLengths => SumBelow(w, i) <= SumBelow(w, i + d)}
<1>1. 0 \in S
  <2>1. i \in 0 .. CodeLengths
    BY <1>0
  <2> QED
    BY <2>1, SumDef
<1>2. ASSUME NEW d \in Nat, d \in S PROVE d + 1 \in S
  <2> SUFFICES ASSUME i + (d + 1) <= CodeLengths
               PROVE  SumBelow(w, i) <= SumBelow(w, i + (d + 1))
    OBVIOUS
  <2>1. i + d \in Lengths /\ i + d \in 0 .. CodeLengths /\ i \in 0 .. CodeLengths
        /\ i + (d + 1) = (i + d) + 1
    BY <1>0 DEF Lengths
  <2>2. SumBelow(w, i) <= SumBelow(w, i + d)
    BY <1>2, <2>1
  <2>3. SumBelow(w, (i + d) + 1) = SumBelow(w, i + d) + w[i + d] /\ w[i + d] \in Nat
        /\ SumBelow(w, i) \in Nat /\ SumBelow(w, i + d) \in Nat
    BY <2>1, SumDef
  <2> QED
    BY <2>1, <2>2, <2>3
<1>3. Nat \subseteq S
  <2> HIDE DEF S
  <2> QED
    BY <1>1, <1>2, SetInduction
<1>4. j - i \in S /\ i + (j - i) = j
  BY <1>0, <1>3
<1> QED
  BY <1>0, <1>4

\* A number below a sum falls into one of its terms.
LEMMA SumReaches ==
  ASSUME NEW w \in [Lengths -> Nat], NEW x \in Nat, x < SumBelow(w, CodeLengths)
  PROVE  \E l \in Lengths : SumBelow(w, l) <= x /\ x < SumBelow(w, l + 1)
<1>0. CodeLengths \in Nat
  BY CodeAssumption
<1> DEFINE S == {i \in Nat : i <= CodeLengths /\ x < SumBelow(w, i) =>
                   \E l \in Lengths : SumBelow(w, l) <= x /\ x < SumBelow(w, l + 1)}
<1>1. 0 \in S
  BY SumDef
<1>2. ASSUME NEW i \in Nat, i \in S PROVE i + 1 \in S
  <2> SUFFICES ASSUME i + 1 <= CodeLengths, x < SumBelow(w, i + 1)
               PROVE  \E l \in Lengths : SumBelow(w, l) <= x /\ x < SumBelow(w, l + 1)
    OBVIOUS
  <2>1. i \in Lengths /\ i \in 0 .. CodeLengths
    BY <1>0 DEF Lengths
  <2>2. SumBelow(w, i) \in Nat
    BY <2>1, SumDef
  <2>3. CASE x < SumBelow(w, i)
    BY <1>0, <1>2, <2>1, <2>3
  <2>4. CASE SumBelow(w, i) <= x
    BY <2>1, <2>4
  <2> QED
    BY <2>2, <2>3, <2>4
<1>3. Nat \subseteq S
  <2> HIDE DEF S
  <2> QED
    BY <1>1, <1>2, SetInduction
<1> QED
  BY <1>0, <1>3
-----------------------------------------------------------------------------
LEMMA HuffmanNumbers ==
  /\ CodeLengths \in Nat \ {0} /\ Codes \in Nat \ {0} /\ NoCode \in Nat
  /\ \A i \in Lengths : Room(i) \in Nat \ {0}
  /\ \A i \in Lengths : i + 1 \in Lengths => Room(i) = 2 * Room(i + 1)
  /\ Codes = 2 * Room(0)
<1>0. CodeLengths \in Nat /\ CodeLengths > 0
  BY CodeAssumption
<1>1. Codes \in Nat \ {0} /\ NoCode \in Nat
  BY <1>0, Pow2Positive DEF Codes, NoCode
<1>2. ASSUME NEW i \in Lengths PROVE CodeLengths - 1 - i \in Nat
  BY <1>0 DEF Lengths
<1>3. ASSUME NEW i \in Lengths, i + 1 \in Lengths
      PROVE  CodeLengths - 1 - i = (CodeLengths - 1 - (i + 1)) + 1
  BY <1>0 DEF Lengths
<1>4. 0 \in Lengths /\ CodeLengths = (CodeLengths - 1 - 0) + 1
  BY <1>0 DEF Lengths
<1> QED
  BY <1>0, <1>1, <1>2, <1>3, <1>4, Pow2Positive, Pow2Def DEF Room, Codes

\* code and j obey the recursion that defines them.
LEMMA CodeAtDef ==
  ASSUME NEW bits \in [Lengths -> Nat]
  PROVE  /\ CodeAt(bits)[0] = 0
         /\ \A i \in Lengths : i + 1 \in Lengths =>
              CodeAt(bits)[i + 1] = (2 * (CodeAt(bits)[i] + bits[i])) % Codes
<1>0. CodeLengths \in Nat \ {0} /\ Codes \in Nat \ {0} /\ CodeLengths - 1 \in Nat
  BY HuffmanNumbers
<1> DEFINE D(f) == [i \in Lengths |-> IF i = 0 THEN 0 ELSE (2 * (f[i - 1] + bits[i - 1])) % Codes]
           code == CHOOSE f : f = D(f)
<1>1. \E f : f = D(f)
  <2> DEFINE B(n) == IF n \in Lengths THEN bits[n] ELSE 0
  <2>0. ASSUME NEW n \in Nat, NEW v \in Nat PROVE (2 * (v + B(n))) % Codes \in Nat
    <3>1. 2 * (v + B(n)) \in Nat
      OBVIOUS
    <3> HIDE DEF B
    <3> QED
      BY <1>0, <3>1, SMT
  <2>1. PICK next \in [Nat \X Nat -> Nat] :
          \A n, v \in Nat : next[<<n, v>>] = (2 * (v + B(n))) % Codes
    <3> HIDE DEF B
    <3>1. [p \in Nat \X Nat |-> (2 * (p[2] + B(p[1]))) % Codes] \in [Nat \X Nat -> Nat]
      BY <2>0
    <3> QED
      BY <3>1
  <2>2. PICK f \in [0 .. CodeLengths - 1 -> Nat] : RecursiveUpTo(f, CodeLengths - 1, 0, next)
    <3>1. 0 \in Nat
      OBVIOUS
    <3> QED
      BY <1>0, <2>1, <3>1, FiniteRecursion, Zenon
  <2>3. ASSUME NEW i \in Lengths, i # 0
        PROVE  next[<<i - 1, f[i - 1]>>] = (2 * (f[i - 1] + bits[i - 1])) % Codes
    <3>1. i - 1 \in Nat /\ i - 1 \in Lengths /\ i - 1 \in 0 .. CodeLengths - 1
      BY <1>0, <2>3 DEF Lengths
    <3>2. f[i - 1] \in Nat
      BY <3>1
    <3>3. B(i - 1) = bits[i - 1]
      BY <3>1
    <3> HIDE DEF B
    <3> QED
      BY <2>1, <3>1, <3>2, <3>3
  <2>4. f = D(f)
    <3> HIDE DEF B
    <3> QED
      BY <2>2, <2>3 DEF RecursiveUpTo, Lengths
  <2> HIDE DEF D
  <2> QED
    BY <2>4
<1>2. code = D(code)
  <2> HIDE DEF D
  <2> QED
    BY <1>1
<1>3. CodeAt(bits) = code
  BY DEF CodeAt
<1>4. \A i \in Lengths :
        code[i] = IF i = 0 THEN 0 ELSE (2 * (code[i - 1] + bits[i - 1])) % Codes
  <2> HIDE DEF code
  <2> QED
    BY <1>2
<1> HIDE DEF code, D
<1>5. 0 \in Lengths
  BY <1>0 DEF Lengths
<1>6. ASSUME NEW i \in Lengths, i + 1 \in Lengths
      PROVE  code[i + 1] = (2 * (code[i] + bits[i])) % Codes
  <2>1. PICK k : k = i + 1
    OBVIOUS
  <2>2. k \in Lengths /\ k # 0 /\ k - 1 = i
    BY <1>0, <1>6, <2>1 DEF Lengths
  <2>3. code[k] = (2 * (code[k - 1] + bits[k - 1])) % Codes
    BY <1>4, <2>2, Zenon
  <2> QED
    BY <2>1, <2>2, <2>3, Zenon
<1> QED
  BY <1>3, <1>4, <1>5, <1>6, Zenon

LEMMA ValueAtDef ==
  ASSUME NEW bits \in [Lengths -> Nat]
  PROVE  /\ ValueAt(bits)[0] = 0
         /\ \A i \in Lengths : i + 1 \in Lengths =>
              ValueAt(bits)[i + 1] = (ValueAt(bits)[i] + bits[i]) % 256
<1>0. CodeLengths \in Nat \ {0} /\ CodeLengths - 1 \in Nat
  BY HuffmanNumbers
<1> DEFINE D(f) == [i \in Lengths |-> IF i = 0 THEN 0 ELSE (f[i - 1] + bits[i - 1]) % 256]
           j == CHOOSE f : f = D(f)
<1>1. \E f : f = D(f)
  <2>1. PICK next \in [Nat \X Nat -> Nat] :
          \A n, v \in Nat : next[<<n, v>>] = (v + (IF n \in Lengths THEN bits[n] ELSE 0)) % 256
    <3>1. [p \in Nat \X Nat |-> (p[2] + (IF p[1] \in Lengths THEN bits[p[1]] ELSE 0)) % 256]
            \in [Nat \X Nat -> Nat]
      OBVIOUS
    <3> QED
      BY <3>1
  <2>2. PICK f \in [0 .. CodeLengths - 1 -> Nat] : RecursiveUpTo(f, CodeLengths - 1, 0, next)
    <3>1. 0 \in Nat
      OBVIOUS
    <3> QED
      BY <1>0, <2>1, <3>1, FiniteRecursion, Zenon
  <2>3. ASSUME NEW i \in Lengths, i # 0
        PROVE  next[<<i - 1, f[i - 1]>>] = (f[i - 1] + bits[i - 1]) % 256
    <3>1. i - 1 \in Nat /\ i - 1 \in Lengths /\ i - 1 \in 0 .. CodeLengths - 1
      BY <1>0, <2>3 DEF Lengths
    <3>2. f[i - 1] \in Nat
      BY <3>1
    <3> QED
      BY <2>1, <3>1, <3>2
  <2>4. f = D(f)
    BY <2>2, <2>3 DEF RecursiveUpTo, Lengths
  <2> HIDE DEF D
  <2> QED
    BY <2>4
<1>2. j = D(j)
  <2> HIDE DEF D
  <2> QED
    BY <1>1
<1>3. ValueAt(bits) = j
  BY DEF ValueAt
<1>4. \A i \in Lengths : j[i] = IF i = 0 THEN 0 ELSE (j[i - 1] + bits[i - 1]) % 256
  <2> HIDE DEF j
  <2> QED
    BY <1>2
<1> HIDE DEF j, D
<1>5. 0 \in Lengths
  BY <1>0 DEF Lengths
<1>6. ASSUME NEW i \in Lengths, i + 1 \in Lengths PROVE j[i + 1] = (j[i] + bits[i]) % 256
  <2>1. PICK k : k = i + 1
    OBVIOUS
  <2>2. k \in Lengths /\ k # 0 /\ k - 1 = i
    BY <1>0, <1>6, <2>1 DEF Lengths
  <2>3. j[k] = (j[k - 1] + bits[k - 1]) % 256
    BY <1>4, <2>2, Zenon
  <2> QED
    BY <2>1, <2>2, <2>3, Zenon
<1> QED
  BY <1>3, <1>4, <1>5, <1>6, Zenon
-----------------------------------------------------------------------------
\* The weights of RoomBelow.
RoomOf(bits) == [l \in Lengths |-> bits[l] * Room(l)]

LEMMA RoomBelowDef ==
  ASSUME NEW bits \in [Lengths -> Nat]
  PROVE  /\ RoomOf(bits) \in [Lengths -> Nat]
         /\ \A i : RoomBelow(bits, i) = SumBelow(RoomOf(bits), i)
         /\ RoomBelow(bits, 0) = 0
         /\ \A i \in Lengths : RoomBelow(bits, i + 1) = RoomBelow(bits, i) + bits[i] * Room(i)
         /\ \A i \in 0 .. CodeLengths : RoomBelow(bits, i) \in Nat
<1>1. RoomOf(bits) \in [Lengths -> Nat]
  <2>1. ASSUME NEW l \in Lengths PROVE bits[l] * Room(l) \in Nat
    <3>1. bits[l] \in Nat /\ Room(l) \in Nat
      BY HuffmanNumbers
    <3> QED
      BY <3>1
  <2> QED
    BY <2>1 DEF RoomOf
<1>2. \A i : RoomBelow(bits, i) = SumBelow(RoomOf(bits), i)
  BY DEF RoomBelow, RoomOf
<1>3. \A i \in Lengths : RoomOf(bits)[i] = bits[i] * Room(i)
  BY DEF RoomOf
<1> QED
  BY <1>1, <1>2, <1>3, SumDef

LEMMA RoomBelowMonotone ==
  ASSUME NEW bits \in [Lengths -> Nat], NEW i \in Nat, NEW j \in 0 .. CodeLengths, i <= j
  PROVE  /\ RoomBelow(bits, i) \in Nat /\ RoomBelow(bits, j) \in Nat
         /\ RoomBelow(bits, i) <= RoomBelow(bits, j)
<1>1. i \in 0 .. CodeLengths
  BY HuffmanNumbers
<1>2. RoomOf(bits) \in [Lengths -> Nat]
  BY RoomBelowDef
<1>3. SumBelow(RoomOf(bits), i) <= SumBelow(RoomOf(bits), j)
  BY <1>2, SumMonotone
<1>4. RoomBelow(bits, i) <= RoomBelow(bits, j)
  BY <1>3, RoomBelowDef, Zenon
<1> QED
  BY <1>1, <1>4, RoomBelowDef

\* Of a prefix code, the code that huffCreate comes to at a length is the one where
\* the codes of lesser length end, and no addition or shift has wrapped.
LEMMA CodeAtRoom ==
  ASSUME NEW bits \in [Lengths -> Nat], IsPrefixCode(bits), NEW i \in Lengths
  PROVE  CodeAt(bits)[i] \in Nat /\ CodeAt(bits)[i] * Room(i) = RoomBelow(bits, i)
<1>0. CodeLengths \in Nat /\ CodeLengths > 0 /\ Codes \in Nat \ {0}
  BY HuffmanNumbers
<1> DEFINE code == CodeAt(bits)
           S == {n \in Nat : n \in Lengths =>
                   code[n] \in Nat /\ code[n] * Room(n) = RoomBelow(bits, n)}
<1>1. 0 \in S
  <2>1. code[0] = 0 /\ RoomBelow(bits, 0) = 0
    BY CodeAtDef, RoomBelowDef
  <2>2. 0 \in Lengths => Room(0) \in Nat
    BY HuffmanNumbers
  <2> QED
    BY <2>1, <2>2
<1>2. ASSUME NEW n \in Nat, n \in S PROVE n + 1 \in S
  <2> SUFFICES ASSUME n + 1 \in Lengths
               PROVE  code[n + 1] \in Nat /\ code[n + 1] * Room(n + 1) = RoomBelow(bits, n + 1)
    OBVIOUS
  <2>1. n \in Lengths /\ n + 1 \in 0 .. CodeLengths
    BY <1>0 DEF Lengths
  <2>2. code[n] \in Nat /\ code[n] * Room(n) = RoomBelow(bits, n) /\ bits[n] \in Nat
    BY <1>2, <2>1
  <2>3. PICK c \in Nat : c = code[n]
    BY <2>2
  <2>4. PICK r \in Nat \ {0} : r = Room(n + 1) /\ Room(n) = 2 * r
    BY <2>1, HuffmanNumbers
  <2>5. PICK b \in Nat : b = bits[n]
    BY <2>2
  <2>6. RoomBelow(bits, n + 1) = c * (2 * r) + b * (2 * r)
    BY <2>1, <2>2, <2>3, <2>4, <2>5, RoomBelowDef
  <2>7. c * (2 * r) + b * (2 * r) = (2 * (c + b)) * r
    <3>1. \A x, y, z \in Nat : x * (2 * z) + y * (2 * z) = (2 * (x + y)) * z
      BY SMTT(30)
    <3>2. r \in Nat
      OBVIOUS
    <3> QED
      BY <3>1, <3>2, Zenon
  <2>8. RoomBelow(bits, n + 1) < Codes /\ RoomBelow(bits, n + 1) \in Nat
    <3>1. n + 1 \in Nat /\ CodeLengths \in 0 .. CodeLengths /\ n + 1 <= CodeLengths
      BY <1>0, <2>1
    <3> QED
      BY <1>0, <3>1, RoomBelowMonotone DEF IsPrefixCode
  <2>9. PICK d \in Nat : d = 2 * (c + b)
    OBVIOUS
  <2>10. d * r < Codes /\ d * r = RoomBelow(bits, n + 1)
    BY <2>6, <2>7, <2>8, <2>9
  <2>11. d <= d * r
    BY <2>4, <2>9, SMT
  <2>12. d % Codes = d
    <3>1. d < Codes
      BY <1>0, <2>4, <2>10, <2>11
    <3>2. PICK m \in Nat \ {0} : m = Codes
      BY <1>0
    <3> QED
      BY <3>1, <3>2, SMT
  <2>13. code[n + 1] = d
    BY <2>1, <2>3, <2>5, <2>9, <2>12, CodeAtDef
  <2> QED
    BY <2>4, <2>10, <2>13
<1>3. Nat \subseteq S
  <2> HIDE DEF S
  <2> QED
    BY <1>1, <1>2, SetInduction
<1>4. i \in Nat
  BY DEF Lengths
<1> QED
  BY <1>3, <1>4

LEMMA ValueAtCodes ==
  ASSUME NEW bits \in [Lengths -> Nat], NEW i \in Lengths
  PROVE  ValueAt(bits)[i] = CodesBelow(bits, i) % 256
<1>0. CodeLengths \in Nat /\ CodeLengths > 0
  BY HuffmanNumbers
<1> DEFINE j == ValueAt(bits)
           S == {n \in Nat : n \in Lengths => j[n] = CodesBelow(bits, n) % 256}
<1>1. 0 \in S
  <2>1. j[0] = 0 /\ CodesBelow(bits, 0) = 0
    BY ValueAtDef, SumDef DEF CodesBelow
  <2> QED
    BY <2>1
<1>2. ASSUME NEW n \in Nat, n \in S PROVE n + 1 \in S
  <2> SUFFICES ASSUME n + 1 \in Lengths PROVE j[n + 1] = CodesBelow(bits, n + 1) % 256
    OBVIOUS
  <2>1. n \in Lengths /\ n \in 0 .. CodeLengths /\ bits[n] \in Nat
    BY <1>0 DEF Lengths
  <2>2. PICK c \in Nat : c = CodesBelow(bits, n) /\ CodesBelow(bits, n + 1) = c + bits[n]
    BY <2>1, SumDef DEF CodesBelow
  <2>3. j[n + 1] = ((c % 256) + bits[n]) % 256
    BY <1>2, <2>1, <2>2, ValueAtDef
  <2>4. ((c % 256) + bits[n]) % 256 = (c + bits[n]) % 256
    BY <2>1, <2>2
  <2> QED
    BY <2>2, <2>3, <2>4
<1>3. Nat \subseteq S
  <2> HIDE DEF S
  <2> QED
    BY <1>1, <1>2, SetInduction
<1>4. i \in Nat
  BY DEF Lengths
<1> QED
  BY <1>3, <1>4
-----------------------------------------------------------------------------
\* Division by the room of a length.
LEMMA QuotientBelow ==
  ASSUME NEW r \in Nat \ {0}, NEW x \in Nat, NEW c \in Nat
  PROVE  /\ x \div r \in Nat
         /\ x < c * r <=> x \div r < c
         /\ c * r <= x => x - c * r \in Nat
<1>1. PICK q \in Nat, m \in 0 .. r - 1 : x = q * r + m
  BY QuotientRemainder
<1>2. x \div r = q
  <2>1. m \in Nat /\ r \in Nat /\ m < r
    OBVIOUS
  <2> QED
    BY <1>1, <2>1, DivUnique
<1>3. CASE q < c
  <2>1. \A a, b, n \in Nat : a + 1 <= b => (a + 1) * n <= b * n
    BY SMTT(30)
  <2>2. (q + 1) * r <= c * r
    <3>1. r \in Nat /\ q + 1 <= c
      BY <1>3
    <3> QED
      BY <2>1, <3>1
  <2>3. (q + 1) * r = q * r + r
    BY NextMultiple
  <2>4. PICK a \in Nat : a = q * r
    OBVIOUS
  <2>5. PICK b \in Nat : b = c * r
    OBVIOUS
  <2> QED
    BY <1>1, <1>2, <1>3, <2>2, <2>3, <2>4, <2>5
<1>4. CASE c <= q
  <2>1. \A a, b, n \in Nat : a <= b => a * n <= b * n
    BY SMTT(30)
  <2>2. c * r <= q * r
    <3>1. r \in Nat
      OBVIOUS
    <3> QED
      BY <1>4, <2>1, <3>1
  <2>4. PICK a \in Nat : a = q * r
    OBVIOUS
  <2>5. PICK b \in Nat : b = c * r
    OBVIOUS
  <2> QED
    BY <1>1, <1>2, <1>4, <2>2, <2>4, <2>5
<1> QED
  BY <1>3, <1>4

\* Where the codes of a length end.
LEMMA LengthEnds ==
  ASSUME NEW bits \in [Lengths -> Nat], IsPrefixCode(bits), NEW i \in Lengths
  PROVE  \E r \in Nat \ {0}, c \in Nat, b \in Nat :
           /\ r = Room(i) /\ c = CodeAt(bits)[i] /\ b = bits[i]
           /\ RoomBelow(bits, i) = c * r
           /\ RoomBelow(bits, i + 1) = (c + b) * r
           /\ (c + b) * r < Codes
<1>1. PICK c \in Nat : c = CodeAt(bits)[i] /\ c * Room(i) = RoomBelow(bits, i)
  BY CodeAtRoom
<1>2. PICK r \in Nat \ {0} : r = Room(i)
  BY HuffmanNumbers
<1>3. PICK b \in Nat : b = bits[i]
  OBVIOUS
<1>4. RoomBelow(bits, i + 1) = (c + b) * r
  <2>1. RoomBelow(bits, i + 1) = c * r + b * r
    BY <1>1, <1>2, <1>3, RoomBelowDef
  <2>2. c * r + b * r = (c + b) * r
    BY <1>2, SMTT(30)
  <2> QED
    BY <2>1, <2>2
<1>5. RoomBelow(bits, i + 1) < Codes
  <2>1. /\ i + 1 \in Nat /\ CodeLengths \in 0 .. CodeLengths /\ i + 1 <= CodeLengths
        /\ Codes \in Nat
    BY HuffmanNumbers DEF Lengths
  <2> QED
    BY <2>1, RoomBelowMonotone DEF IsPrefixCode
<1> QED
  BY <1>1, <1>2, <1>3, <1>4, <1>5

\* A length is a hit of huffDecode exactly when it has codes and the number lies
\* below where they end.
LEMMA HitsBelow ==
  ASSUME NEW bits \in [Lengths -> Nat], IsPrefixCode(bits), NEW i \in Lengths, NEW x \in Nat
  PROVE  (/\ x \div Room(i) <= huffCreate(bits)[i].mMaxCode
          /\ huffCreate(bits)[i].mMaxCode # NoCode)
            <=> bits[i] # 0 /\ x < RoomBelow(bits, i + 1)
<1>0. /\ CodeLengths \in Nat /\ CodeLengths > 0 /\ Codes \in Nat \ {0} /\ NoCode = Codes - 1
      /\ Room(i) \in Nat \ {0}
  BY HuffmanNumbers DEF NoCode
<1>1. PICK t : t = huffCreate(bits)[i] /\ t = 
         IF bits[i] = 0 THEN [mMinCode |-> 0, mMaxCode |-> NoCode, mValPtr |-> 0]
         ELSE [mMinCode |-> CodeAt(bits)[i], mMaxCode |-> (CodeAt(bits)[i] + bits[i] - 1) % Codes,
               mValPtr |-> ValueAt(bits)[i]]
  BY DEF huffCreate
<1>2. CASE bits[i] = 0
  <2>1. t.mMaxCode = NoCode
    BY <1>1, <1>2
  <2> QED
    BY <1>1, <1>2, <2>1
<1>3. CASE bits[i] # 0
  <2>1. PICK r \in Nat \ {0}, c \in Nat, b \in Nat :
          /\ r = Room(i) /\ c = CodeAt(bits)[i] /\ b = bits[i]
          /\ RoomBelow(bits, i) = c * r
          /\ RoomBelow(bits, i + 1) = (c + b) * r
          /\ (c + b) * r < Codes
    BY LengthEnds, Zenon
  <2>2. b \in Nat \ {0}
    BY <1>3, <2>1
  <2>4. PICK e \in Nat : e = c + b
    OBVIOUS
  <2>5. RoomBelow(bits, i + 1) = e * r
    BY <2>1, <2>4
  <2>6. e < Codes
    <3>1. e <= e * r
      BY <2>1, <2>4, SMT
    <3>2. e * r \in Nat /\ e * r < Codes
      BY <2>1, <2>4
    <3> QED
      BY <1>0, <3>1, <3>2
  <2>7. t.mMaxCode = e - 1
    <3>1. t.mMaxCode = (c + b - 1) % Codes
      <4>1. t.mMaxCode = (CodeAt(bits)[i] + bits[i] - 1) % Codes
        BY <1>1, <1>3
      <4> QED
        BY <2>1, <4>1, Zenon
    <3>2. c + b - 1 = e - 1 /\ e - 1 \in Nat
      BY <2>2, <2>4
    <3>3. (e - 1) % Codes = e - 1
      <4>1. PICK m \in Nat \ {0} : m = Codes
        BY <1>0
      <4>2. PICK d \in Nat : d = e - 1
        BY <3>2
      <4>3. d < m
        BY <2>6, <4>1, <4>2
      <4>4. d % m = d
        BY <4>3, SMT
      <4> QED
        BY <4>1, <4>2, <4>4
    <3> QED
      BY <3>1, <3>2, <3>3
  <2>8. x \div r \in Nat /\ (x < e * r <=> x \div r < e)
    BY QuotientBelow
  <2>9. PICK y \in Nat : y = x \div r
    BY <2>8
  <2>10. y <= e - 1 <=> y < e
    OBVIOUS
  <2>11. t.mMaxCode # NoCode
    BY <1>0, <2>6, <2>7
  <2> QED
    BY <1>1, <1>3, <2>1, <2>5, <2>7, <2>8, <2>9, <2>10, <2>11
<1> QED
  BY <1>2, <1>3

\* What the canonical code gives to symbol k of a length is what begins with the
\* number that huffCreate counts up to.
LEMMA SymbolStarts ==
  ASSUME NEW bits \in [Lengths -> Nat], IsPrefixCode(bits), NEW i \in Lengths,
         NEW k \in 0 .. bits[i] - 1, NEW x \in Nat
  PROVE  LET start == RoomBelow(bits, i) + k * Room(i)
         IN  x \in start .. start + Room(i) - 1 <=> x \div Room(i) = CodeAt(bits)[i] + k
<1>1. PICK c \in Nat : c = CodeAt(bits)[i] /\ c * Room(i) = RoomBelow(bits, i)
  BY CodeAtRoom
<1>2. PICK r \in Nat \ {0} : r = Room(i)
  BY HuffmanNumbers
<1>3. k \in Nat
  BY SMT
<1>4. PICK e \in Nat : e = c + k
  BY <1>3
<1>5. c * r + k * r = (c + k) * r
  BY <1>2, <1>3, SMTT(30)
<1>6. PICK start \in Nat : start = RoomBelow(bits, i) + k * Room(i) /\ start = e * r
  BY <1>1, <1>2, <1>3, <1>4, <1>5
<1>7. (e + 1) * r = start + r
  BY <1>6, NextMultiple
<1>8. /\ x \div r \in Nat
      /\ x < e * r <=> x \div r < e
      /\ x < (e + 1) * r <=> x \div r < e + 1
  BY QuotientBelow
<1>9. PICK y \in Nat : y = x \div r
  BY <1>8
<1>10. x \in start .. start + r - 1 <=> y = e
  BY <1>6, <1>7, <1>8, <1>9
<1> QED
  BY <1>1, <1>2, <1>4, <1>6, <1>9, <1>10

Symbols(bits) == UNION {{i} \X (0 .. bits[i] - 1) : i \in Lengths}

\* The symbols whose streams x is one of, as canonicalDecode looks for them.
SymbolHits(bits, x) ==
  {s \in Symbols(bits) :
     x \in RoomBelow(bits, s[1]) + s[2] * Room(s[1]) ..
           RoomBelow(bits, s[1]) + s[2] * Room(s[1]) + Room(s[1]) - 1}

\* The lengths that huffDecode would stop at.
LengthHits(table, x) ==
  {i \in Lengths : x \div Room(i) <= table[i].mMaxCode /\ table[i].mMaxCode # NoCode}

\* The symbol there is, if there is one.
IsSymbolOf(bits, x, l, k) ==
  /\ l \in Lengths /\ k \in 0 .. bits[l] - 1
  /\ RoomBelow(bits, l) <= x /\ x < RoomBelow(bits, l + 1)
  /\ x \div Room(l) = CodeAt(bits)[l] + k

LEMMA SymbolExists ==
  ASSUME NEW bits \in [Lengths -> Nat], IsPrefixCode(bits), NEW x \in Nat,
         x < RoomBelow(bits, CodeLengths)
  PROVE  \E l, k : IsSymbolOf(bits, x, l, k)
<1>1. PICK l \in Lengths : RoomBelow(bits, l) <= x /\ x < RoomBelow(bits, l + 1)
  <2>1. RoomOf(bits) \in [Lengths -> Nat] /\ x < SumBelow(RoomOf(bits), CodeLengths)
    BY RoomBelowDef
  <2>2. PICK l \in Lengths :
          SumBelow(RoomOf(bits), l) <= x /\ x < SumBelow(RoomOf(bits), l + 1)
    BY <2>1, SumReaches
  <2> QED
    BY <2>2, RoomBelowDef, Zenon
<1>2. PICK r \in Nat \ {0}, c \in Nat, b \in Nat :
        /\ r = Room(l) /\ c = CodeAt(bits)[l] /\ b = bits[l]
        /\ RoomBelow(bits, l) = c * r
        /\ RoomBelow(bits, l + 1) = (c + b) * r
        /\ (c + b) * r < Codes
  BY LengthEnds, Zenon
<1>6. PICK e \in Nat : e = c + b
  OBVIOUS
<1>7. /\ x \div r \in Nat
      /\ x < c * r <=> x \div r < c
      /\ x < e * r <=> x \div r < e
  BY QuotientBelow
<1>8. PICK y \in Nat : y = x \div r
  BY <1>7
<1>9. c * r \in Nat /\ c * r <= x /\ x < e * r
  BY <1>1, <1>2, <1>6
<1>10. c <= y /\ y < c + b
  BY <1>6, <1>7, <1>8, <1>9
<1>11. y - c \in 0 .. b - 1 /\ y = c + (y - c)
  BY <1>10
<1>12. IsSymbolOf(bits, x, l, y - c)
  BY <1>1, <1>2, <1>8, <1>11 DEF IsSymbolOf
<1> QED
  BY <1>12

\* A number is below where the codes of one length end, but not of a lesser one.
LEMMA SymbolLength ==
  ASSUME NEW bits \in [Lengths -> Nat], NEW x \in Nat, NEW l \in Lengths, NEW i \in Lengths,
         RoomBelow(bits, l) <= x, x < RoomBelow(bits, i + 1)
  PROVE  l <= i
<1>0. CodeLengths \in Nat
  BY HuffmanNumbers
<1> SUFFICES ASSUME i + 1 <= l PROVE FALSE
  BY <1>0 DEF Lengths
<1>1. i + 1 \in Nat /\ i + 1 \in 0 .. CodeLengths /\ l \in 0 .. CodeLengths
  BY <1>0 DEF Lengths
<1> QED
  BY <1>1, RoomBelowMonotone

\* Each hit is the symbol that there is.
LEMMA HitIsSymbol ==
  ASSUME NEW bits \in [Lengths -> Nat], IsPrefixCode(bits), NEW x \in Nat,
         NEW s \in SymbolHits(bits, x)
  PROVE  \E i, m : s = <<i, m>> /\ IsSymbolOf(bits, x, i, m)
<1>1. PICK i \in Lengths : s \in {i} \X (0 .. bits[i] - 1)
  BY DEF SymbolHits, Symbols
<1>2. PICK m \in 0 .. bits[i] - 1 : s = <<i, m>>
  BY <1>1
<1>3. x \div Room(i) = CodeAt(bits)[i] + m
  <2>1. x \in RoomBelow(bits, i) + m * Room(i) .. RoomBelow(bits, i) + m * Room(i) + Room(i) - 1
    BY <1>2 DEF SymbolHits
  <2> QED
    BY <2>1, SymbolStarts
<1>4. RoomBelow(bits, i) <= x /\ x < RoomBelow(bits, i + 1)
  <2>1. PICK r \in Nat \ {0}, c \in Nat, b \in Nat :
          /\ r = Room(i) /\ c = CodeAt(bits)[i] /\ b = bits[i]
          /\ RoomBelow(bits, i) = c * r
          /\ RoomBelow(bits, i + 1) = (c + b) * r
          /\ (c + b) * r < Codes
    BY LengthEnds, Zenon
  <2>2. PICK e \in Nat : e = c + b
    OBVIOUS
  <2>3. /\ x < c * r <=> x \div r < c
        /\ x < e * r <=> x \div r < e
    BY QuotientBelow
  <2>4. x \div r = c + m /\ c + m < e /\ ~ (c + m < c)
    BY <1>3, <2>1, <2>2
  <2>5. c * r \in Nat
    OBVIOUS
  <2> QED
    BY <2>1, <2>2, <2>3, <2>4, <2>5
<1> QED
  BY <1>2, <1>3, <1>4 DEF IsSymbolOf

LEMMA SymbolHitIs ==
  ASSUME NEW bits \in [Lengths -> Nat], IsPrefixCode(bits), NEW x \in Nat,
         NEW l, NEW k, IsSymbolOf(bits, x, l, k)
  PROVE  SymbolHits(bits, x) = {<<l, k>>}
<1>1. <<l, k>> \in SymbolHits(bits, x)
  <2>1. <<l, k>> \in Symbols(bits) /\ <<l, k>>[1] = l /\ <<l, k>>[2] = k
    BY DEF IsSymbolOf, Symbols
  <2>2. x \in RoomBelow(bits, l) + k * Room(l) .. RoomBelow(bits, l) + k * Room(l) + Room(l) - 1
    BY SymbolStarts DEF IsSymbolOf
  <2> QED
    BY <2>1, <2>2 DEF SymbolHits
<1>2. ASSUME NEW s \in SymbolHits(bits, x) PROVE s = <<l, k>>
  <2>1. PICK i, m : s = <<i, m>> /\ IsSymbolOf(bits, x, i, m)
    BY HitIsSymbol
  <2>2. /\ i \in Lengths /\ m \in 0 .. bits[i] - 1
        /\ RoomBelow(bits, i) <= x /\ x < RoomBelow(bits, i + 1)
        /\ x \div Room(i) = CodeAt(bits)[i] + m
    BY <2>1 DEF IsSymbolOf
  <2>5. l \in Lengths /\ RoomBelow(bits, l) <= x /\ x < RoomBelow(bits, l + 1)
    BY DEF IsSymbolOf
  <2>6. l <= i /\ i <= l
    BY <2>2, <2>5, SymbolLength
  <2>7. i = l
    BY <2>2, <2>5, <2>6 DEF Lengths
  <2>8. CodeAt(bits)[l] \in Nat /\ m \in Nat /\ k \in Nat
    BY <2>2, <2>5, CodeAtRoom DEF IsSymbolOf
  <2>9. CodeAt(bits)[l] + m = CodeAt(bits)[l] + k
    BY <2>2, <2>7 DEF IsSymbolOf
  <2>10. m = k
    BY <2>8, <2>9
  <2> QED
    BY <2>1, <2>7, <2>10
<1> QED
  BY <1>1, <1>2

LEMMA LengthHitIs ==
  ASSUME NEW bits \in [Lengths -> Nat], IsPrefixCode(bits), NEW x \in Nat,
         NEW l, NEW k, IsSymbolOf(bits, x, l, k)
  PROVE  /\ LengthHits(huffCreate(bits), x) # {}
         /\ Min(LengthHits(huffCreate(bits), x)) = l
<1>1. l \in Lengths /\ RoomBelow(bits, l) <= x /\ x < RoomBelow(bits, l + 1) /\ bits[l] # 0
  BY DEF IsSymbolOf
<1>2. l \in LengthHits(huffCreate(bits), x)
  BY <1>1, HitsBelow DEF LengthHits
<1>3. ASSUME NEW i \in LengthHits(huffCreate(bits), x) PROVE i \in Lengths /\ l <= i
  <2>1. i \in Lengths /\ x < RoomBelow(bits, i + 1)
    BY HitsBelow DEF LengthHits
  <2> QED
    BY <1>1, <2>1, SymbolLength
<1>4. PICK hits : hits = LengthHits(huffCreate(bits), x)
  OBVIOUS
<1>5. l \in hits /\ \A i \in hits : i \in Nat /\ l <= i
  BY <1>2, <1>3, <1>4 DEF Lengths
<1>6. \A m \in hits : (\A i \in hits : m <= i) => m = l
  BY <1>5
<1>7. Min(hits) = l
  BY <1>5, <1>6 DEF Min
<1> QED
  BY <1>4, <1>5, <1>7

LEMMA NoHits ==
  ASSUME NEW bits \in [Lengths -> Nat], IsPrefixCode(bits), NEW x \in Nat,
         RoomBelow(bits, CodeLengths) <= x
  PROVE  SymbolHits(bits, x) = {} /\ LengthHits(huffCreate(bits), x) = {}
<1>0. CodeLengths \in Nat
  BY HuffmanNumbers
<1>1. ASSUME NEW i \in Lengths PROVE ~ (x < RoomBelow(bits, i + 1))
  <2>1. i + 1 \in Nat /\ CodeLengths \in 0 .. CodeLengths /\ i + 1 <= CodeLengths
    BY <1>0 DEF Lengths
  <2> QED
    BY <2>1, RoomBelowMonotone
<1>2. ASSUME NEW i \in LengthHits(huffCreate(bits), x) PROVE FALSE
  BY <1>1, HitsBelow DEF LengthHits
<1>3. ASSUME NEW s \in SymbolHits(bits, x) PROVE FALSE
  BY <1>1, HitIsSymbol DEF IsSymbolOf
<1> QED
  BY <1>2, <1>3

\* Of the numbers of codes of any prefix code, of any lengths, with no more values
\* than a uint8 can number: the table that huffCreate makes lets huffDecode read from
\* any bits what the canonical code says.
THEOREM TableIsCanonical ==
  ASSUME NEW bits \in [Lengths -> Nat], IsPrefixCode(bits),
         CodesBelow(bits, CodeLengths) <= 256, NEW pHuffVal, NEW x \in Nat
  PROVE  huffDecode(huffCreate(bits), pHuffVal, x) = canonicalDecode(bits, pHuffVal, x)
<1>0. CodeLengths \in Nat
  BY HuffmanNumbers
<1>1. huffDecode(huffCreate(bits), pHuffVal, x) =
        IF LengthHits(huffCreate(bits), x) = {} THEN [value |-> 0, bits |-> CodeLengths + 1]
        ELSE [value |-> pHuffVal[(huffCreate(bits)[Min(LengthHits(huffCreate(bits), x))].mValPtr
                  + x \div Room(Min(LengthHits(huffCreate(bits), x)))
                  - huffCreate(bits)[Min(LengthHits(huffCreate(bits), x))].mMinCode) % 256],
              bits |-> Min(LengthHits(huffCreate(bits), x)) + 1]
  BY DEF huffDecode, LengthHits
<1>2. canonicalDecode(bits, pHuffVal, x) =
        IF SymbolHits(bits, x) = {} THEN [value |-> 0, bits |-> CodeLengths + 1]
        ELSE [value |-> pHuffVal[CodesBelow(bits, (CHOOSE s \in SymbolHits(bits, x) : TRUE)[1])
                                   + (CHOOSE s \in SymbolHits(bits, x) : TRUE)[2]],
              bits |-> (CHOOSE s \in SymbolHits(bits, x) : TRUE)[1] + 1]
  BY DEF canonicalDecode, SymbolHits, Symbols
<1>3. CASE RoomBelow(bits, CodeLengths) <= x
  BY <1>1, <1>2, <1>3, NoHits
<1>4. CASE ~ (RoomBelow(bits, CodeLengths) <= x)
  <2>1. x < RoomBelow(bits, CodeLengths)
    <3>1. CodeLengths \in 0 .. CodeLengths
      BY <1>0
    <3>2. RoomBelow(bits, CodeLengths) \in Nat
      BY <3>1, RoomBelowDef
    <3> QED
      BY <1>4, <3>2
  <2>2. PICK l, k : IsSymbolOf(bits, x, l, k)
    BY <2>1, SymbolExists
  <2>3. /\ LengthHits(huffCreate(bits), x) # {}
        /\ Min(LengthHits(huffCreate(bits), x)) = l
    BY <2>2, LengthHitIs
  <2>4. SymbolHits(bits, x) = {<<l, k>>}
    BY <2>2, SymbolHitIs
  <2>5. (CHOOSE s \in SymbolHits(bits, x) : TRUE) = <<l, k>>
    BY <2>4
  <2>6. /\ l \in Lengths /\ k \in 0 .. bits[l] - 1 /\ bits[l] # 0
        /\ x \div Room(l) = CodeAt(bits)[l] + k
    BY <2>2 DEF IsSymbolOf
  <2>7. huffCreate(bits)[l] = [mMinCode |-> CodeAt(bits)[l],
          mMaxCode |-> (CodeAt(bits)[l] + bits[l] - 1) % Codes, mValPtr |-> ValueAt(bits)[l]]
    BY <2>6 DEF huffCreate
  <2>8. PICK v \in Nat : v = CodesBelow(bits, l) /\ v + k <= 255
    <3>1. l \in 0 .. CodeLengths /\ l + 1 \in Nat /\ CodeLengths \in 0 .. CodeLengths
          /\ l + 1 <= CodeLengths
      BY <1>0, <2>6 DEF Lengths
    <3>2. SumBelow(bits, l + 1) <= SumBelow(bits, CodeLengths)
      BY <3>1, SumMonotone
    <3>3. SumBelow(bits, l + 1) = SumBelow(bits, l) + bits[l] /\ SumBelow(bits, l) \in Nat
          /\ SumBelow(bits, CodeLengths) \in Nat /\ bits[l] \in Nat
      BY <2>6, <3>1, SumDef
    <3> QED
      BY <2>6, <3>2, <3>3 DEF CodesBelow
  <2>9. PICK c \in Nat : c = CodeAt(bits)[l]
    BY <2>6, CodeAtRoom
  <2>10. ValueAt(bits)[l] = v
    <3>1. ValueAt(bits)[l] = v % 256
      BY <2>6, <2>8, ValueAtCodes
    <3>2. v % 256 = v
      BY <2>6, <2>8
    <3> QED
      BY <3>1, <3>2
  <2>11. (huffCreate(bits)[l].mValPtr + x \div Room(l) - huffCreate(bits)[l].mMinCode) % 256
           = v + k
    <3>1. huffCreate(bits)[l].mValPtr = v /\ huffCreate(bits)[l].mMinCode = c
      BY <2>7, <2>9, <2>10
    <3>2. x \div Room(l) = c + k
      BY <2>6, <2>9
    <3>3. (v + (c + k) - c) % 256 = v + k
      BY <2>6, <2>8, <2>9
    <3> QED
      BY <3>1, <3>2, <3>3
  <2> QED
    BY <1>1, <1>2, <2>3, <2>4, <2>5, <2>8, <2>11
<1> QED
  BY <1>3, <1>4
-----------------------------------------------------------------------------
(***************************************************************************)
(* The header.                                                             *)
(***************************************************************************)
LEMMA MinIs ==
  ASSUME NEW S, S \subseteq Nat, S # {}
  PROVE  Min(S) \in S /\ Min(S) \in Nat /\ \A y \in S : Min(S) <= y
<1>1. \E m \in S : \A y \in S : m <= y
  BY LeastExists
<1> QED
  BY <1>1 DEF Min

LEMMA MaxIs ==
  ASSUME NEW n \in Nat, NEW S, S \subseteq 0 .. n, S # {}
  PROVE  Max(S) \in S
<1>1. \E m \in S : \A y \in S : m >= y
  BY GreatestExists
<1> QED
  BY <1>1 DEF Max

\* What a byte and a word are.
Octets == 0 .. 255

LEMMA ByteType ==
  ASSUME stream \in Streams, NEW i \in Nat \ {0}
  PROVE  Byte(i) \in 0 .. 255
<1>0. stream \in Seq(Octets)
  BY HeaderAssumption DEF Octets
<1>1. Len(stream) \in Nat /\ stream \in [1 .. Len(stream) -> Octets]
  BY <1>0, LenProperties
<1>2. CASE i <= Len(stream)
  <2>1. stream[i] \in Octets
    BY <1>1, <1>2
  <2> QED
    BY <1>2, <2>1 DEF Byte, Octets
<1>3. CASE ~ (i <= Len(stream))
  BY <1>3 DEF Byte, M_EOI
<1> QED
  BY <1>2, <1>3

LEMMA MaxWordType == MaxWord \in Nat /\ MaxWord >= 65535
BY DEF MaxWord

LEMMA WordType ==
  ASSUME stream \in Streams, NEW i \in Nat \ {0}
  PROVE  Word(i) \in Nat /\ Word(i) <= MaxWord
<1>1. i + 1 \in Nat \ {0}
  OBVIOUS
<1>2. PICK a \in 0 .. 255, b \in 0 .. 255 : a = Byte(i) /\ b = Byte(i + 1)
  BY <1>1, ByteType, Zenon
<1>3. Word(i) = 256 * a + b
  BY <1>2 DEF Word
<1> QED
  BY <1>3, MaxWordType

\* FirstFailure gives "ok" and the end exactly when no check fails.
Checks(checks, n) ==
  /\ DOMAIN checks = 1 .. n
  /\ \A i \in 1 .. n : checks[i][2] # "ok" /\ checks[i][3] \in Nat \ {0}

LEMMA FirstFailureIs ==
  ASSUME NEW n \in Nat, NEW checks, Checks(checks, n), NEW end \in Nat \ {0}
  PROVE  /\ FirstFailure(checks, end).pos \in Nat \ {0}
         /\ FirstFailure(checks, end).status = "ok" =>
              /\ FirstFailure(checks, end).pos = end
              /\ \A i \in 1 .. n : ~ checks[i][1]
<1> DEFINE failing == {i \in DOMAIN checks : checks[i][1]}
<1>1. CASE failing = {}
  BY <1>1 DEF FirstFailure, Checks
<1>2. CASE failing # {}
  <2>1. failing \subseteq Nat
    BY DEF Checks
  <2>2. Min(failing) \in failing
    <3> HIDE DEF failing
    <3> QED
      BY <1>2, <2>1, MinIs
  <2>3. FirstFailure(checks, end) =
          [status |-> checks[Min(failing)][2], pos |-> checks[Min(failing)][3]]
    BY <1>2 DEF FirstFailure
  <2>4. Min(failing) \in 1 .. n
    BY <2>2 DEF Checks
  <2> QED
    BY <2>3, <2>4 DEF Checks
<1> QED
  BY <1>1, <1>2

\* The statuses of the readers that processMarkers calls.
Reported == {"ok", "PJPG_BAD_VARIABLE_MARKER", "PJPG_BAD_DRI_LENGTH", "PJPG_BAD_DHT_MARKER",
             "PJPG_BAD_DQT_MARKER", "PJPG_BAD_DHT_INDEX", "PJPG_BAD_DHT_COUNTS",
             "PJPG_BAD_DQT_TABLE", "PJPG_BAD_DQT_LENGTH"}

LEMMA DroppedMore ==
  ASSUME dropped \in Seq(Reported), NEW st \in Reported
  PROVE  Append(dropped, st) \in Seq(Reported) /\ Append(dropped, st) # dropped
         /\ Append(dropped, st) # <<>>
<1>1. /\ Append(dropped, st) \in Seq(Reported)
      /\ Len(Append(dropped, st)) = Len(dropped) + 1
      /\ Append(dropped, st) # <<>>
  BY AppendProperties
<1>2. Len(dropped) \in Nat
  BY LenProperties
<1>3. ASSUME Append(dropped, st) = dropped PROVE FALSE
  BY <1>1, <1>2, <1>3
<1> QED
  BY <1>1, <1>3
-----------------------------------------------------------------------------
\* TypeOK, in two parts.
FieldTypes ==
  /\ pc \in {"init", "soi", "markers", "dht", "dqt", "frame", "scan", "returned"}
  /\ locating \in {"SOF", "SOS"}
  /\ pos \in Nat \ {0} /\ segment \in Nat
  /\ left \in 0 .. MaxWord - 2
  /\ gValidHuffTables \subseteq 0 .. 3 /\ gValidQuantTables \subseteq {0, 1}
  /\ gImageXSize \in 0 .. MaxSize /\ gImageYSize \in 0 .. MaxSize
  /\ pc # "init" => DOMAIN gComp \subseteq 0 .. 2
  /\ gRestartInterval \in 0 .. MaxWord
  /\ gScanType \in {"GRAYSCALE", "YH1V1", "YH1V2", "YH2V1", "YH2V2"}

ValuesFit ==
  \A t \in 0 .. 3 : DOMAIN gHuffVal[t] \subseteq 0 .. (IF t < 2 THEN 15 ELSE 255)

LEMMA TypeParts == FieldTypes /\ ValuesFit <=> TypeOK
BY DEF FieldTypes, ValuesFit, TypeOK

InputType ==
  /\ stream \in Streams /\ fails \in BOOLEAN
  /\ dropped \in Seq(Reported)

\* The tables, and what those hold that this picture has read.
TablesHold ==
  /\ DOMAIN gHuffTab = 0 .. 3 /\ DOMAIN bitsRead = 0 .. 3 /\ DOMAIN gHuffVal = 0 .. 3
  /\ DOMAIN gQuant = {0, 1}
  /\ \A t \in 0 .. 3 : gHuffTab[t] # Stale =>
       /\ bitsRead[t] \in [Lengths -> 0 .. 255]
       /\ CodesBelow(bitsRead[t], CodeLengths) <= 256
       /\ gHuffTab[t] = huffCreate(bitsRead[t])

\* As long as no reader has failed, a table that counts as valid has been read.
ValidAreRead ==
  pc # "init" /\ dropped = <<>> =>
    /\ \A t \in gValidHuffTables : gHuffTab[t] # Stale
    /\ \A n \in gValidQuantTables : gQuant[n] # Stale

\* Where a segment is being read, what is left of it.
SegmentLeft ==
  /\ pc \in {"init", "soi"} => segment = 0
  /\ pc \in {"dht", "dqt"} => segment # 0 /\ pos + left = segment + Word(segment)
  /\ pc = "frame" => segment # 0 /\ pos = segment + Word(segment)

\* What the scan header has chosen, and initScan has looked at.
Selected ==
  /\ pc = "scan" \/ (pc = "returned" /\ status = "ok") =>
       \A i \in DOMAIN gCompList :
         gCompList[i] \in 0 .. 2 => gCompACTab[gCompList[i]] \in Nat
  /\ pc = "returned" /\ status = "ok" => checkHuffTables /\ checkQuantTables

IInv == FieldTypes /\ ValuesFit /\ InputType /\ TablesHold /\ ValidAreRead /\ SegmentLeft /\ Selected

InStep ==
  pc' \in {"markers", "frame", "scan"} /\ segment' # 0 /\ dropped' = dropped =>
    pos' = segment' + Word(segment')

LEMMA InitIInv == Init => IInv
<1> SUFFICES ASSUME Init PROVE IInv
  OBVIOUS
<1>1. FieldTypes /\ ValuesFit
  BY HeaderAssumption, MaxWordType DEF Init, FieldTypes, ValuesFit
<1>2. InputType
  BY EmptySeq DEF Init, InputType
<1>3. TablesHold
  BY DEF Init, TablesHold
<1>4. ValidAreRead /\ SegmentLeft /\ Selected
  BY DEF Init, ValidAreRead, SegmentLeft, Selected
<1> QED
  BY <1>1, <1>2, <1>3, <1>4 DEF IInv

\* The marker that processMarkers comes to, and the segment behind it.
LEMMA MarkerFound ==
  ASSUME stream \in Streams, pos \in Nat \ {0}, NEW set, AtMarker(set)
  PROVE  /\ MarkerAt \in Nat /\ Byte(MarkerAt) \in set
         /\ Segment = MarkerAt + 1 /\ Segment \in Nat \ {0, 1}
         /\ Word(Segment) \in Nat /\ Word(Segment) <= MaxWord
         /\ Word(Segment + 2) \in Nat /\ Word(Segment + 2) <= MaxWord
<1>1. Markers \subseteq Nat /\ Markers # {}
  BY DEF Markers, AtMarker
<1>2. MarkerAt \in Markers
  BY <1>1, MinIs DEF MarkerAt
<1>3. MarkerAt \in Nat /\ MarkerAt >= pos + 1
  BY <1>2 DEF Markers
<1>4. Segment = MarkerAt + 1 /\ Segment \in Nat \ {0, 1}
  BY <1>3 DEF Segment
<1>5. Segment \in Nat \ {0} /\ Segment + 2 \in Nat \ {0}
  BY <1>4
<1> QED
  BY <1>3, <1>4, <1>5, WordType DEF AtMarker

\* A reader that returns st, back to byte i.
LEMMA BackAtIs ==
  ASSUME dropped \in Seq(Reported), NEW i, NEW st \in Reported, BackAt(i, st)
  PROVE  /\ pos' = i /\ pc' = "markers" /\ dropped' \in Seq(Reported)
         /\ dropped' = <<>> => dropped = <<>>
         /\ st = "ok" => dropped' = dropped
         /\ st # "ok" => dropped' # dropped /\ dropped' # <<>>
<1>1. CASE st = "ok"
  BY <1>1 DEF BackAt
<1>2. CASE st # "ok"
  BY <1>2, DroppedMore DEF BackAt
<1> QED
  BY <1>1, <1>2

LEMMA ValidKept ==
  ASSUME ValidAreRead, pc # "init", dropped' = <<>> => dropped = <<>>,
         UNCHANGED <<gValidHuffTables, gHuffTab, gValidQuantTables, gQuant>>
  PROVE  ValidAreRead'
BY DEF ValidAreRead

-----------------------------------------------------------------------------

LEMMA CallInitStep == IInv /\ CallInit => IInv' /\ InStep
<1> SUFFICES ASSUME IInv, CallInit PROVE IInv' /\ InStep
  OBVIOUS
<1> USE DEF CallInit, input, tables, frame, scan, init, Return
<1>1. FieldTypes'
  BY HeaderAssumption, MaxWordType DEF IInv, InputType, FieldTypes
<1>2. ValuesFit'
  BY DEF IInv, ValuesFit
<1>3. InputType'
  BY DEF IInv, InputType
<1>4. TablesHold'
  BY DEF IInv, TablesHold
<1>5. ValidAreRead'
  BY DEF IInv, ValidAreRead
<1>6. SegmentLeft'
  BY MaxWordType DEF IInv, FieldTypes, SegmentLeft
<1>7. Selected'
  BY DEF IInv, Selected
<1>8. InStep
  BY DEF IInv, FieldTypes, SegmentLeft, InStep
<1> QED
  BY <1>1, <1>2, <1>3, <1>4, <1>5, <1>6, <1>7, <1>8 DEF IInv

LEMMA RefuseMarkerStep == IInv /\ RefuseMarker => IInv' /\ InStep
<1> SUFFICES ASSUME IInv, RefuseMarker PROVE IInv' /\ InStep
  OBVIOUS
<1> USE DEF RefuseMarker, input, tables, frame, scan, Return
<1>a. AtMarker(Refused)
  BY DEF RefuseMarker
<1>b. /\ pc = "markers" /\ Segment \in Nat \ {0, 1}
      /\ Word(Segment) \in Nat /\ Word(Segment) <= MaxWord
      /\ Word(Segment + 2) \in Nat /\ Word(Segment + 2) <= MaxWord
  BY <1>a, MarkerFound DEF IInv, InputType, FieldTypes, AtMarker
<1>1. FieldTypes'
  BY <1>b, HeaderAssumption, MaxWordType DEF IInv, InputType, FieldTypes
<1>2. ValuesFit'
  BY <1>b DEF IInv, ValuesFit
<1>3. InputType'
  BY <1>b DEF IInv, InputType
<1>4. TablesHold'
  BY <1>b DEF IInv, TablesHold
<1>5. ValidAreRead'
  BY <1>b DEF IInv, ValidAreRead
<1>6. SegmentLeft'
  BY <1>b, MaxWordType DEF IInv, FieldTypes, SegmentLeft
<1>7. Selected'
  BY <1>b DEF IInv, Selected
<1>8. InStep
  BY <1>b DEF IInv, FieldTypes, SegmentLeft, InStep
<1> QED
  BY <1>1, <1>2, <1>3, <1>4, <1>5, <1>6, <1>7, <1>8 DEF IInv

LEMMA EndTablesStep == IInv /\ EndTables => IInv' /\ InStep
<1> SUFFICES ASSUME IInv, EndTables PROVE IInv' /\ InStep
  OBVIOUS
<1> USE DEF EndTables, input, tables, frame, scan, BackAt
<1>1. FieldTypes'
  BY HeaderAssumption, MaxWordType DEF IInv, InputType, FieldTypes
<1>2. ValuesFit'
  BY DEF IInv, ValuesFit
<1>3. InputType'
  BY DEF IInv, InputType
<1>4. TablesHold'
  BY DEF IInv, TablesHold
<1>5. ValidAreRead'
  BY DEF IInv, ValidAreRead
<1>6. SegmentLeft'
  BY MaxWordType DEF IInv, FieldTypes, SegmentLeft
<1>7. Selected'
  BY DEF IInv, Selected
<1>8. InStep
  BY DEF IInv, FieldTypes, SegmentLeft, InStep
<1> QED
  BY <1>1, <1>2, <1>3, <1>4, <1>5, <1>6, <1>7, <1>8 DEF IInv

LEMMA skipVariableMarkerStep == IInv /\ skipVariableMarker => IInv' /\ InStep
<1> SUFFICES ASSUME IInv, skipVariableMarker PROVE IInv' /\ InStep
  OBVIOUS
<1> USE DEF skipVariableMarker, input, tables, frame, scan
<1>a. AtMarker((1 .. 254) \ (Returned \cup Refused \cup {M_DHT, M_DQT, M_DRI}))
  BY DEF skipVariableMarker
<1>b. /\ pc = "markers" /\ Segment \in Nat \ {0, 1}
      /\ Word(Segment) \in Nat /\ Word(Segment) <= MaxWord
      /\ Word(Segment + 2) \in Nat /\ Word(Segment + 2) <= MaxWord
  BY <1>a, MarkerFound DEF IInv, InputType, FieldTypes, AtMarker
<1>c. /\ pc' = "markers" /\ dropped' \in Seq(Reported)
      /\ dropped' = <<>> => dropped = <<>>
      /\ pos' \in Nat \ {0}
      /\ dropped' = dropped => pos' = Segment + Word(Segment)
  <2>0. dropped \in Seq(Reported) /\ "PJPG_BAD_VARIABLE_MARKER" \in Reported /\ "PJPG_BAD_VARIABLE_MARKER" # "ok" /\ "ok" \in Reported
    BY DEF IInv, InputType, Reported
  <2>1. CASE Word(Segment) < 2
    <3>1. BackAt(Segment + 2, "PJPG_BAD_VARIABLE_MARKER")
      BY <2>1
    <3>2. /\ pos' = Segment + 2 /\ pc' = "markers"
          /\ dropped' \in Seq(Reported) /\ dropped' # dropped /\ dropped' # <<>>
      BY <2>0, <3>1, BackAtIs, Zenon
    <3> QED
      BY <1>b, <3>2
  <2>2. CASE ~ (Word(Segment) < 2)
    <3>1. BackAt(Segment + Word(Segment), "ok")
      BY <2>2
    <3>2. pos' = Segment + Word(Segment) /\ pc' = "markers" /\ dropped' = dropped
      BY <2>0, <3>1, BackAtIs, Zenon
    <3> QED
      BY <1>b, <2>0, <2>2, <3>2
  <2> QED
    BY <2>1, <2>2
<1>1. FieldTypes'
  BY <1>b, <1>c, HeaderAssumption, MaxWordType DEF IInv, InputType, FieldTypes
<1>2. ValuesFit'
  BY <1>b, <1>c DEF IInv, ValuesFit
<1>3. InputType'
  BY <1>b, <1>c DEF IInv, InputType
<1>4. TablesHold'
  BY <1>b, <1>c DEF IInv, TablesHold
<1>5. ValidAreRead'
  BY <1>b, <1>c DEF IInv, ValidAreRead
<1>6. SegmentLeft'
  BY <1>b, <1>c, MaxWordType DEF IInv, FieldTypes, SegmentLeft
<1>7. Selected'
  BY <1>b, <1>c DEF IInv, Selected
<1>8. InStep
  BY <1>b, <1>c DEF IInv, FieldTypes, SegmentLeft, InStep
<1> QED
  BY <1>1, <1>2, <1>3, <1>4, <1>5, <1>6, <1>7, <1>8 DEF IInv

LEMMA readDRIMarkerStep == IInv /\ readDRIMarker => IInv' /\ InStep
<1> SUFFICES ASSUME IInv, readDRIMarker PROVE IInv' /\ InStep
  OBVIOUS
<1> USE DEF readDRIMarker, input, tables, frame, scan
<1>a. AtMarker({M_DRI})
  BY DEF readDRIMarker
<1>b. /\ pc = "markers" /\ Segment \in Nat \ {0, 1}
      /\ Word(Segment) \in Nat /\ Word(Segment) <= MaxWord
      /\ Word(Segment + 2) \in Nat /\ Word(Segment + 2) <= MaxWord
  BY <1>a, MarkerFound DEF IInv, InputType, FieldTypes, AtMarker
<1>c. /\ pc' = "markers" /\ dropped' \in Seq(Reported)
      /\ dropped' = <<>> => dropped = <<>>
      /\ pos' \in Nat \ {0}
      /\ dropped' = dropped => pos' = Segment + Word(Segment)
  <2>0. dropped \in Seq(Reported) /\ "PJPG_BAD_DRI_LENGTH" \in Reported /\ "PJPG_BAD_DRI_LENGTH" # "ok" /\ "ok" \in Reported
    BY DEF IInv, InputType, Reported
  <2>1. CASE Word(Segment) # 4
    <3>1. BackAt(Segment + 2, "PJPG_BAD_DRI_LENGTH")
      BY <2>1
    <3>2. /\ pos' = Segment + 2 /\ pc' = "markers"
          /\ dropped' \in Seq(Reported) /\ dropped' # dropped /\ dropped' # <<>>
      BY <2>0, <3>1, BackAtIs, Zenon
    <3> QED
      BY <1>b, <3>2
  <2>2. CASE ~ (Word(Segment) # 4)
    <3>1. BackAt(Segment + 4, "ok")
      BY <2>2
    <3>2. pos' = Segment + 4 /\ pc' = "markers" /\ dropped' = dropped
      BY <2>0, <3>1, BackAtIs, Zenon
    <3> QED
      BY <1>b, <2>0, <2>2, <3>2
  <2> QED
    BY <2>1, <2>2
<1>1. FieldTypes'
  BY <1>b, <1>c, HeaderAssumption, MaxWordType DEF IInv, InputType, FieldTypes
<1>2. ValuesFit'
  BY <1>b, <1>c DEF IInv, ValuesFit
<1>3. InputType'
  BY <1>b, <1>c DEF IInv, InputType
<1>4. TablesHold'
  BY <1>b, <1>c DEF IInv, TablesHold
<1>5. ValidAreRead'
  BY <1>b, <1>c DEF IInv, ValidAreRead
<1>6. SegmentLeft'
  BY <1>b, <1>c, MaxWordType DEF IInv, FieldTypes, SegmentLeft
<1>7. Selected'
  BY <1>b, <1>c DEF IInv, Selected
<1>8. InStep
  BY <1>b, <1>c DEF IInv, FieldTypes, SegmentLeft, InStep
<1> QED
  BY <1>1, <1>2, <1>3, <1>4, <1>5, <1>6, <1>7, <1>8 DEF IInv

LEMMA BeginDHTStep == IInv /\ BeginDHT => IInv' /\ InStep
<1> SUFFICES ASSUME IInv, BeginDHT PROVE IInv' /\ InStep
  OBVIOUS
<1> USE DEF BeginDHT, input, tables, frame, scan, BeginTables
<1>a. AtMarker({M_DHT})
  BY DEF BeginDHT
<1>b. /\ pc = "markers" /\ Segment \in Nat \ {0, 1}
      /\ Word(Segment) \in Nat /\ Word(Segment) <= MaxWord
      /\ Word(Segment + 2) \in Nat /\ Word(Segment + 2) <= MaxWord
  BY <1>a, MarkerFound DEF IInv, InputType, FieldTypes, AtMarker
<1>c. \/ /\ pc' = "markers" /\ dropped' \in Seq(Reported)
         /\ dropped' # dropped /\ dropped' # <<>>
         /\ pos' \in Nat \ {0} /\ left' = left
      \/ /\ pc' = "dht" /\ pos' \in Nat \ {0} /\ left' \in Nat /\ left' <= MaxWord - 2
         /\ pos' + left' = Segment + Word(Segment) /\ dropped' = dropped
  <2>1. CASE Word(Segment) < 2
    <3>0. dropped \in Seq(Reported) /\ "PJPG_BAD_DHT_MARKER" \in Reported /\ "PJPG_BAD_DHT_MARKER" # "ok"
      BY DEF IInv, InputType, Reported
    <3>1. BackAt(Segment + 2, "PJPG_BAD_DHT_MARKER") /\ left' = left
      BY <2>1
    <3>2. /\ pos' = Segment + 2 /\ pc' = "markers"
          /\ dropped' \in Seq(Reported) /\ dropped' # dropped /\ dropped' # <<>>
      BY <3>0, <3>1, BackAtIs, Zenon
    <3> QED
      BY <1>b, <3>1, <3>2
  <2>2. CASE ~ (Word(Segment) < 2)
    BY <1>b, <2>2, MaxWordType
  <2> QED
    BY <2>1, <2>2
<1>d. (dropped' = <<>> => dropped = <<>>) /\ pc # "init"
  BY <1>b, <1>c
<1>e. ValidAreRead
  BY DEF IInv
<1>f. segment' = Segment /\ Word(segment)' = Word(Segment)
  BY DEF Word, Byte
<1>g. UNCHANGED <<gValidHuffTables, gHuffTab, gValidQuantTables, gQuant>>
  OBVIOUS
<1>1. FieldTypes'
  BY <1>b, <1>c, HeaderAssumption, MaxWordType DEF IInv, InputType, FieldTypes
<1>2. ValuesFit'
  BY <1>b, <1>c DEF IInv, ValuesFit
<1>3. InputType'
  BY <1>b, <1>c DEF IInv, InputType
<1>4. TablesHold'
  BY <1>b, <1>c DEF IInv, TablesHold
<1>5. ValidAreRead'
  BY <1>d, <1>g, <1>e, ValidKept, Zenon
<1>6. SegmentLeft'
  BY <1>b, <1>c, <1>f DEF SegmentLeft
<1>7. Selected'
  BY <1>b, <1>c DEF IInv, Selected
<1>8. InStep
  BY <1>b, <1>c DEF IInv, FieldTypes, SegmentLeft, InStep
<1> QED
  BY <1>1, <1>2, <1>3, <1>4, <1>5, <1>6, <1>7, <1>8 DEF IInv

LEMMA BeginDQTStep == IInv /\ BeginDQT => IInv' /\ InStep
<1> SUFFICES ASSUME IInv, BeginDQT PROVE IInv' /\ InStep
  OBVIOUS
<1> USE DEF BeginDQT, input, tables, frame, scan, BeginTables
<1>a. AtMarker({M_DQT})
  BY DEF BeginDQT
<1>b. /\ pc = "markers" /\ Segment \in Nat \ {0, 1}
      /\ Word(Segment) \in Nat /\ Word(Segment) <= MaxWord
      /\ Word(Segment + 2) \in Nat /\ Word(Segment + 2) <= MaxWord
  BY <1>a, MarkerFound DEF IInv, InputType, FieldTypes, AtMarker
<1>c. \/ /\ pc' = "markers" /\ dropped' \in Seq(Reported)
         /\ dropped' # dropped /\ dropped' # <<>>
         /\ pos' \in Nat \ {0} /\ left' = left
      \/ /\ pc' = "dqt" /\ pos' \in Nat \ {0} /\ left' \in Nat /\ left' <= MaxWord - 2
         /\ pos' + left' = Segment + Word(Segment) /\ dropped' = dropped
  <2>1. CASE Word(Segment) < 2
    <3>0. dropped \in Seq(Reported) /\ "PJPG_BAD_DQT_MARKER" \in Reported /\ "PJPG_BAD_DQT_MARKER" # "ok"
      BY DEF IInv, InputType, Reported
    <3>1. BackAt(Segment + 2, "PJPG_BAD_DQT_MARKER") /\ left' = left
      BY <2>1
    <3>2. /\ pos' = Segment + 2 /\ pc' = "markers"
          /\ dropped' \in Seq(Reported) /\ dropped' # dropped /\ dropped' # <<>>
      BY <3>0, <3>1, BackAtIs, Zenon
    <3> QED
      BY <1>b, <3>1, <3>2
  <2>2. CASE ~ (Word(Segment) < 2)
    BY <1>b, <2>2, MaxWordType
  <2> QED
    BY <2>1, <2>2
<1>d. (dropped' = <<>> => dropped = <<>>) /\ pc # "init"
  BY <1>b, <1>c
<1>e. ValidAreRead
  BY DEF IInv
<1>f. segment' = Segment /\ Word(segment)' = Word(Segment)
  BY DEF Word, Byte
<1>g. UNCHANGED <<gValidHuffTables, gHuffTab, gValidQuantTables, gQuant>>
  OBVIOUS
<1>1. FieldTypes'
  BY <1>b, <1>c, HeaderAssumption, MaxWordType DEF IInv, InputType, FieldTypes
<1>2. ValuesFit'
  BY <1>b, <1>c DEF IInv, ValuesFit
<1>3. InputType'
  BY <1>b, <1>c DEF IInv, InputType
<1>4. TablesHold'
  BY <1>b, <1>c DEF IInv, TablesHold
<1>5. ValidAreRead'
  BY <1>d, <1>g, <1>e, ValidKept, Zenon
<1>6. SegmentLeft'
  BY <1>b, <1>c, <1>f DEF SegmentLeft
<1>7. Selected'
  BY <1>b, <1>c DEF IInv, Selected
<1>8. InStep
  BY <1>b, <1>c DEF IInv, FieldTypes, SegmentLeft, InStep
<1> QED
  BY <1>1, <1>2, <1>3, <1>4, <1>5, <1>6, <1>7, <1>8 DEF IInv

LEMMA initFrameStep == IInv /\ initFrame => IInv' /\ InStep
<1> SUFFICES ASSUME IInv, initFrame PROVE IInv' /\ InStep
  OBVIOUS
<1> USE DEF initFrame, input, tables, frame, scan
<1>t. gScanType' \in {"GRAYSCALE", "YH1V1", "YH1V2", "YH2V1", "YH2V2"}
      /\ (pc' = "returned" \/ (pc' = "markers" /\ locating' = "SOS"))
      /\ locating' \in {"SOF", "SOS"}
  <2>1. CASE gScanType' = gScanType /\ locating' = locating /\ pc' = "returned"
    BY <2>1 DEF IInv, FieldTypes
  <2>2. CASE gCompsInFrame = 1 /\ gScanType' = "GRAYSCALE" /\ pc' = "markers" /\ locating' = "SOS"
    BY <2>2
  <2>3. CASE /\ {gComp[0].h, gComp[0].v} \subseteq {1, 2}
             /\ gScanType' = ScanTypeOf(gComp[0].h, gComp[0].v)
             /\ pc' = "markers" /\ locating' = "SOS"
    BY <2>3 DEF ScanTypeOf
  <2> QED
    BY <2>1, <2>2, <2>3 DEF Return
<1>u. pc' = "returned" => status' # "ok"
  BY DEF Return
<1>1. FieldTypes'
  BY <1>t, HeaderAssumption, MaxWordType DEF IInv, InputType, FieldTypes
<1>2. ValuesFit'
  BY <1>t DEF IInv, ValuesFit
<1>3. InputType'
  BY <1>t DEF IInv, InputType
<1>4. TablesHold'
  BY <1>t DEF IInv, TablesHold
<1>5. ValidAreRead'
  BY <1>t DEF IInv, ValidAreRead
<1>6. SegmentLeft'
  BY <1>t, MaxWordType DEF IInv, FieldTypes, SegmentLeft
<1>7. Selected'
  BY <1>t, <1>u DEF IInv, Selected
<1>8. InStep
  BY <1>t DEF IInv, FieldTypes, SegmentLeft, InStep
<1> QED
  BY <1>1, <1>2, <1>3, <1>4, <1>5, <1>6, <1>7, <1>8 DEF IInv

LEMMA initScanStep == IInv /\ initScan => IInv' /\ InStep
<1> SUFFICES ASSUME IInv, initScan PROVE IInv' /\ InStep
  OBVIOUS
<1> USE DEF initScan, input, tables, frame, scan
<1>s. pc' = "returned" /\ (status' = "ok" => checkHuffTables /\ checkQuantTables)
  BY DEF Return
<1>t. checkHuffTables' = checkHuffTables /\ checkQuantTables' = checkQuantTables
  BY DEF checkHuffTables, checkQuantTables
<1>1. FieldTypes'
  BY <1>s, HeaderAssumption, MaxWordType DEF IInv, InputType, FieldTypes
<1>2. ValuesFit'
  BY <1>s DEF IInv, ValuesFit
<1>3. InputType'
  BY <1>s DEF IInv, InputType
<1>4. TablesHold'
  BY <1>s DEF IInv, TablesHold
<1>5. ValidAreRead'
  BY <1>s DEF IInv, ValidAreRead
<1>6. SegmentLeft'
  BY <1>s, MaxWordType DEF IInv, FieldTypes, SegmentLeft
<1>7. Selected'
  BY <1>s, <1>t DEF IInv, Selected
<1>8. InStep
  BY <1>s DEF IInv, FieldTypes, SegmentLeft, InStep
<1> QED
  BY <1>1, <1>2, <1>3, <1>4, <1>5, <1>6, <1>7, <1>8 DEF IInv

LEMMA locateSOIMarkerStep == IInv /\ locateSOIMarker => IInv' /\ InStep
<1> SUFFICES ASSUME IInv, locateSOIMarker PROVE IInv' /\ InStep
  OBVIOUS
<1> USE DEF input, tables, frame, scan
<1> DEFINE atOnce == Byte(1) = 255 /\ Byte(2) = M_SOI
           last == IF atOnce THEN 2 ELSE IF SOIStops = {} THEN SOILimit + 1 ELSE Min(SOIStops)
<1>1. last \in Nat
  <2>1. SOIStops \subseteq Nat
    BY HeaderAssumption DEF SOIStops
  <2>2. SOIStops # {} => Min(SOIStops) \in Nat
    BY <2>1, MinIs
  <2> QED
    BY <2>2, HeaderAssumption
<1>2. /\ pc = "soi" /\ pos' \in Nat \ {0}
      /\ \/ pc' = "markers" /\ status' = status
         \/ pc' = "returned" /\ status' # "ok"
      /\ UNCHANGED <<input, locating, left, segment, dropped, tables, frame, scan, gRestartInterval>>
  <2>1. pos' = last + 1
    BY DEF locateSOIMarker
  <2>2. /\ pc = "soi"
        /\ \/ pc' = "markers" /\ status' = status
           \/ Return("PJPG_NOT_JPEG", last + 1)
        /\ UNCHANGED <<input, locating, left, segment, dropped, tables, frame, scan, gRestartInterval>>
    BY DEF locateSOIMarker
  <2> HIDE DEF last
  <2>3. pos' \in Nat \ {0}
    BY <1>1, <2>1
  <2>4. Return("PJPG_NOT_JPEG", last + 1) => pc' = "returned" /\ status' # "ok"
    BY DEF Return
  <2> QED
    BY <2>2, <2>3, <2>4
<1>3. FieldTypes'
  BY <1>2 DEF IInv, FieldTypes
<1>4. ValuesFit' /\ TablesHold'
  BY <1>2 DEF IInv, ValuesFit, TablesHold
<1>5. InputType'
  BY <1>2 DEF IInv, InputType
<1>6. ValidAreRead'
  BY <1>2 DEF IInv, ValidAreRead
<1>7. SegmentLeft' /\ Selected'
  BY <1>2 DEF IInv, SegmentLeft, Selected
<1>8. InStep
  BY <1>2 DEF IInv, SegmentLeft, InStep
<1> QED
  BY <1>3, <1>4, <1>5, <1>6, <1>7, <1>8 DEF IInv

\* A reader of tables that gives up: whatever it has marked as valid.
LEMMA GivesUp ==
  ASSUME IInv, pc \in {"dht", "dqt"},
         NEW i \in Nat \ {0}, NEW st \in Reported, st # "ok", BackAt(i, st),
         gValidHuffTables' \subseteq 0 .. 3, gValidQuantTables' \subseteq {0, 1}, ValuesFit',
         DOMAIN gHuffVal' = 0 .. 3, DOMAIN gQuant' = {0, 1},
         UNCHANGED <<gHuffTab, bitsRead, left, input, locating, segment, status, frame,
                     scan, gRestartInterval>>
  PROVE  IInv' /\ InStep
<1> USE DEF input, frame, scan
<1>1. dropped \in Seq(Reported)
  BY DEF IInv, InputType
<1>2. /\ pos' = i /\ pc' = "markers" /\ dropped' \in Seq(Reported)
      /\ dropped' # dropped /\ dropped' # <<>>
  BY <1>1, BackAtIs, Zenon
<1>3. FieldTypes'
  BY <1>2 DEF IInv, FieldTypes
<1>4. TablesHold'
  BY <1>2 DEF IInv, TablesHold
<1>5. InputType'
  BY <1>2 DEF IInv, InputType
<1>6. ValidAreRead'
  BY <1>2 DEF ValidAreRead
<1>7. SegmentLeft' /\ Selected'
  BY <1>2 DEF SegmentLeft, Selected
<1>8. InStep
  BY <1>2 DEF InStep
<1> QED
  BY <1>3, <1>4, <1>5, <1>6, <1>7, <1>8 DEF IInv

\* What a turn of readDHTMarker does with the numbers that it reads.
HuffTableTurn(t, bits, count, totalRead) ==
  /\ count = CodesBelow(bits, CodeLengths)
  /\ totalRead = 1 + CodeLengths + count
  /\ pc = "dht" /\ left # 0
  /\ \/ /\ BackAt(pos + 1, "PJPG_BAD_DHT_INDEX")
        /\ UNCHANGED <<left, gValidHuffTables, gHuffTab, bitsRead, gHuffVal>>
     \/ /\ BackAt(pos + 1 + CodeLengths, "PJPG_BAD_DHT_COUNTS")
        /\ gValidHuffTables' = gValidHuffTables \cup {t}
        /\ UNCHANGED <<left, gHuffTab, bitsRead, gHuffVal>>
     \/ /\ count <= getMaxHuffCodes(t)
        /\ gValidHuffTables' = gValidHuffTables \cup {t}
        /\ gHuffVal' = [gHuffVal EXCEPT ![t] =
             [i \in DOMAIN @ \cup (0 .. count - 1) |->
                IF i < count THEN Byte(pos + 1 + CodeLengths + i) ELSE @[i]]]
        /\ \/ /\ BackAt(pos + totalRead, "PJPG_BAD_DHT_MARKER")
              /\ UNCHANGED <<left, gHuffTab, bitsRead>>
           \/ /\ totalRead <= left
              /\ pos' = pos + totalRead
              /\ left' = left - totalRead
              /\ gHuffTab' = [gHuffTab EXCEPT ![t] = huffCreate(bits)]
              /\ bitsRead' = [bitsRead EXCEPT ![t] = bits]
              /\ UNCHANGED <<pc, dropped>>
  /\ UNCHANGED <<input, locating, segment, status, gValidQuantTables, gQuant, frame, scan,
                 gRestartInterval>>

LEMMA HuffTableRead ==
  ASSUME IInv, readHuffTable
  PROVE  \E t \in 0 .. 3, bits \in [Lengths -> 0 .. 255], count \in Nat, totalRead \in Nat :
           HuffTableTurn(t, bits, count, totalRead)
<1> DEFINE index == Byte(pos)
           t == tableIndex(index)
           bits == [i \in Lengths |-> Byte(pos + 1 + i)]
           count == CodesBelow(bits, CodeLengths)
           totalRead == 1 + CodeLengths + count
<1>0. pos \in Nat \ {0} /\ CodeLengths \in Nat /\ stream \in Streams
  BY HuffmanNumbers DEF IInv, FieldTypes, InputType
<1>1. \A i \in Lengths : Byte(pos + 1 + i) \in 0 .. 255
  <2>1. ASSUME NEW i \in Lengths PROVE pos + 1 + i \in Nat \ {0}
    BY <1>0 DEF Lengths
  <2> QED
    BY <1>0, <2>1, ByteType
<1>2. bits \in [Lengths -> 0 .. 255] /\ bits \in [Lengths -> Nat]
  BY <1>1
<1>3. count \in Nat
  <2> HIDE DEF bits
  <2>1. CodeLengths \in 0 .. CodeLengths
    BY <1>0
  <2> QED
    BY <1>2, <2>1, SumDef DEF CodesBelow
<1>4. totalRead \in Nat
  <2> HIDE DEF count
  <2> QED
    BY <1>0, <1>3
<1>5. index \in {0, 1, 16, 17} => t \in 0 .. 3
  BY DEF tableIndex
<1>6. \A n \in Nat : count <= n \/ count > n
  <2> HIDE DEF count
  <2> QED
    BY <1>3
<1>7. getMaxHuffCodes(t) \in Nat
  BY HeaderAssumption DEF getMaxHuffCodes
<1>8. left \in Nat /\ (totalRead <= left \/ left < totalRead)
  <2>1. left \in Nat
    BY MaxWordType DEF IInv, FieldTypes
  <2> HIDE DEF totalRead
  <2> QED
    BY <1>4, <2>1
<1>9. CASE index \notin {0, 1, 16, 17}
  <2>1. 0 \in 0 .. 3
    OBVIOUS
  <2>2. /\ pc = "dht" /\ left # 0
        /\ BackAt(pos + 1, "PJPG_BAD_DHT_INDEX")
        /\ UNCHANGED <<left, gValidHuffTables, gHuffTab, bitsRead, gHuffVal>>
        /\ UNCHANGED <<input, locating, segment, status, gValidQuantTables, gQuant, frame, scan,
                       gRestartInterval>>
    BY <1>9 DEF readHuffTable
  <2> HIDE DEF index, t, bits, count, totalRead
  <2>3. count = CodesBelow(bits, CodeLengths) /\ totalRead = 1 + CodeLengths + count
    BY DEF count, totalRead
  <2> QED
    BY <1>2, <1>3, <1>4, <2>1, <2>2, <2>3 DEF HuffTableTurn
<1>10. CASE index \in {0, 1, 16, 17}
  <2>1. t \in 0 .. 3
    BY <1>5, <1>10
  <2>2. /\ pc = "dht" /\ left # 0
        /\ UNCHANGED <<input, locating, segment, status, gValidQuantTables, gQuant, frame, scan,
                       gRestartInterval>>
        /\ gValidHuffTables' = gValidHuffTables \cup {t}
    BY <1>10 DEF readHuffTable
  <2>3. CASE count > getMaxHuffCodes(t)
    <3>1. /\ BackAt(pos + 1 + CodeLengths, "PJPG_BAD_DHT_COUNTS")
          /\ UNCHANGED <<left, gHuffTab, bitsRead, gHuffVal>>
      BY <1>10, <2>3 DEF readHuffTable
    <3> HIDE DEF index, t, bits, count, totalRead
    <3>2. count = CodesBelow(bits, CodeLengths) /\ totalRead = 1 + CodeLengths + count
      BY DEF count, totalRead
    <3> QED
      BY <1>2, <1>3, <1>4, <2>1, <2>2, <3>1, <3>2 DEF HuffTableTurn
  <2>4. CASE ~ (count > getMaxHuffCodes(t))
    <3>1. /\ gHuffVal' = [gHuffVal EXCEPT ![t] =
               [i \in DOMAIN @ \cup (0 .. count - 1) |->
                  IF i < count THEN Byte(pos + 1 + CodeLengths + i) ELSE @[i]]]
      BY <1>10, <2>4 DEF readHuffTable
    <3>2. CASE left < totalRead
      <4>1. /\ BackAt(pos + totalRead, "PJPG_BAD_DHT_MARKER")
            /\ UNCHANGED <<left, gHuffTab, bitsRead>>
        BY <1>10, <2>4, <3>2 DEF readHuffTable
      <4> HIDE DEF index, t, bits, count, totalRead
      <4>2. count = CodesBelow(bits, CodeLengths) /\ totalRead = 1 + CodeLengths + count
        BY DEF count, totalRead
      <4>3. count <= getMaxHuffCodes(t)
        BY <1>6, <1>7, <2>4
      <4> QED
        BY <1>2, <1>3, <1>4, <2>1, <2>2, <3>1, <4>1, <4>2, <4>3 DEF HuffTableTurn
    <3>3. CASE ~ (left < totalRead)
      <4>1. /\ pos' = pos + totalRead
            /\ left' = left - totalRead
            /\ gHuffTab' = [gHuffTab EXCEPT ![t] = huffCreate(bits)]
            /\ bitsRead' = [bitsRead EXCEPT ![t] = bits]
            /\ UNCHANGED <<pc, dropped>>
        BY <1>10, <2>4, <3>3 DEF readHuffTable
      <4> HIDE DEF index, t, bits, count, totalRead
      <4>2. count = CodesBelow(bits, CodeLengths) /\ totalRead = 1 + CodeLengths + count
        BY DEF count, totalRead
      <4>3. count <= getMaxHuffCodes(t) /\ totalRead <= left
        BY <1>6, <1>7, <1>8, <2>4, <3>3
      <4> QED
        BY <1>2, <1>3, <1>4, <2>1, <2>2, <3>1, <4>1, <4>2, <4>3 DEF HuffTableTurn
    <3> QED
      BY <3>2, <3>3
  <2> QED
    BY <2>3, <2>4
<1> QED
  BY <1>9, <1>10

LEMMA readHuffTableStep == IInv /\ readHuffTable => IInv' /\ InStep
<1> SUFFICES ASSUME IInv, readHuffTable PROVE IInv' /\ InStep
  OBVIOUS
<1>0. PICK t \in 0 .. 3, bits \in [Lengths -> 0 .. 255], count \in Nat, totalRead \in Nat :
        HuffTableTurn(t, bits, count, totalRead)
  BY HuffTableRead
<1> USE DEF HuffTableTurn, input, frame, scan
<1>1. pos \in Nat \ {0} /\ CodeLengths \in Nat \ {0} /\ left \in Nat /\ left <= MaxWord - 2
  BY MaxWordType, HuffmanNumbers DEF IInv, FieldTypes
<1>2. gValidHuffTables' \subseteq 0 .. 3 /\ gValidQuantTables' \subseteq {0, 1}
  BY <1>0 DEF IInv, FieldTypes
<1>3. DOMAIN gQuant' = {0, 1} /\ DOMAIN gHuffVal = 0 .. 3 /\ DOMAIN gHuffVal' = 0 .. 3
  BY <1>0 DEF IInv, TablesHold
<1>4. ValuesFit'
  <2>1. getMaxHuffCodes(t) \in Nat /\ getMaxHuffCodes(t) <= (IF t < 2 THEN 16 ELSE 256)
    BY HeaderAssumption DEF getMaxHuffCodes
  <2>2. CASE UNCHANGED gHuffVal
    BY <2>2 DEF IInv, ValuesFit
  <2>3. CASE /\ count <= getMaxHuffCodes(t)
             /\ gHuffVal' = [gHuffVal EXCEPT ![t] =
                   [i \in DOMAIN @ \cup (0 .. count - 1) |->
                      IF i < count THEN Byte(pos + 1 + CodeLengths + i) ELSE @[i]]]
    <3>1. DOMAIN gHuffVal'[t] = DOMAIN gHuffVal[t] \cup (0 .. count - 1)
      BY <1>3, <2>3
    <3>2. \A u \in 0 .. 3 : u # t => gHuffVal'[u] = gHuffVal[u]
      BY <1>3, <2>3
    <3>3. 0 .. count - 1 \subseteq 0 .. (IF t < 2 THEN 15 ELSE 255)
      BY <2>1, <2>3
    <3> QED
      BY <3>1, <3>2, <3>3 DEF IInv, ValuesFit
  <2> QED
    BY <1>0, <2>2, <2>3
<1>5. CASE BackAt(pos + 1, "PJPG_BAD_DHT_INDEX") /\ UNCHANGED <<left, gHuffTab, bitsRead>>
  <2>1. pos + 1 \in Nat \ {0} /\ "PJPG_BAD_DHT_INDEX" \in Reported
        /\ "PJPG_BAD_DHT_INDEX" # "ok" /\ pc \in {"dht", "dqt"}
    BY <1>0, <1>1 DEF Reported
  <2> QED
    BY <1>0, <1>2, <1>3, <1>4, <1>5, <2>1, GivesUp
<1>6. CASE BackAt(pos + 1 + CodeLengths, "PJPG_BAD_DHT_COUNTS") /\ UNCHANGED <<left, gHuffTab, bitsRead>>
  <2>1. pos + 1 + CodeLengths \in Nat \ {0} /\ "PJPG_BAD_DHT_COUNTS" \in Reported
        /\ "PJPG_BAD_DHT_COUNTS" # "ok" /\ pc \in {"dht", "dqt"}
    BY <1>0, <1>1 DEF Reported
  <2> QED
    BY <1>0, <1>2, <1>3, <1>4, <1>6, <2>1, GivesUp
<1>7. CASE BackAt(pos + totalRead, "PJPG_BAD_DHT_MARKER") /\ UNCHANGED <<left, gHuffTab, bitsRead>>
  <2>1. pos + totalRead \in Nat \ {0} /\ "PJPG_BAD_DHT_MARKER" \in Reported
        /\ "PJPG_BAD_DHT_MARKER" # "ok" /\ pc \in {"dht", "dqt"}
    BY <1>0, <1>1 DEF Reported
  <2> QED
    BY <1>0, <1>2, <1>3, <1>4, <1>7, <2>1, GivesUp
<1>8. CASE /\ count <= getMaxHuffCodes(t)
           /\ totalRead <= left
           /\ pos' = pos + totalRead
           /\ left' = left - totalRead
           /\ gValidHuffTables' = gValidHuffTables \cup {t}
           /\ gHuffTab' = [gHuffTab EXCEPT ![t] = huffCreate(bits)]
           /\ bitsRead' = [bitsRead EXCEPT ![t] = bits]
           /\ UNCHANGED <<pc, dropped>>
  <2>1. pos' \in Nat \ {0} /\ left' \in Nat /\ left' <= MaxWord - 2
        /\ pos' + left' = pos + left
    BY <1>0, <1>1, <1>8, MaxWordType
  <2>2. pc = "dht" /\ pc' = "dht"
    BY <1>0, <1>8
  <2>3. FieldTypes'
    BY <1>0, <1>2, <2>1, <2>2, MaxWordType DEF IInv, FieldTypes
  <2>4. InputType'
    BY <1>0, <1>8 DEF IInv, InputType
  <2>5. TablesHold'
    <3>1. CodesBelow(bits, CodeLengths) <= 256
      <4>1. getMaxHuffCodes(t) \in Nat /\ getMaxHuffCodes(t) <= 256
        BY HeaderAssumption DEF getMaxHuffCodes
      <4>2. count = CodesBelow(bits, CodeLengths) /\ count <= getMaxHuffCodes(t)
        BY <1>0, <1>8
      <4> HIDE DEF HuffTableTurn
      <4> QED
        BY <4>1, <4>2
    <3> QED
      BY <1>0, <1>3, <1>8, <3>1 DEF IInv, TablesHold
  <2>6. ValidAreRead'
    <3>1. huffCreate(bits) # Stale
      <4>1. DOMAIN huffCreate(bits) = Lengths
        BY DEF huffCreate
      <4>2. 0 \in Lengths
        BY <1>1 DEF Lengths
      <4>3. DOMAIN Stale = {}
        BY DEF Stale
      <4> QED
        BY <4>1, <4>2, <4>3
    <3>2. DOMAIN gHuffTab = 0 .. 3
      BY DEF IInv, TablesHold
    <3> QED
      BY <1>0, <1>8, <2>2, <3>1, <3>2 DEF IInv, ValidAreRead
  <2>7. SegmentLeft'
    <3>1. segment # 0 /\ pos + left = segment + Word(segment)
      BY <2>2 DEF IInv, SegmentLeft
    <3>2. segment' = segment /\ Word(segment)' = Word(segment)
      BY <1>0 DEF Word, Byte
    <3> QED
      BY <2>1, <2>2, <3>1, <3>2 DEF SegmentLeft
  <2>8. Selected' /\ InStep
    BY <2>2 DEF Selected, InStep
  <2> QED
    BY <1>4, <2>3, <2>4, <2>5, <2>6, <2>7, <2>8 DEF IInv
<1> QED
  BY <1>0, <1>5, <1>6, <1>7, <1>8

\* What a turn of readDQTMarker does.
QuantTableTurn(n, prec, end, totalRead) ==
  /\ end = pos + totalRead
  /\ pc = "dqt" /\ left # 0
  /\ \/ /\ BackAt(pos + 1, "PJPG_BAD_DQT_TABLE")
        /\ UNCHANGED <<left, gValidQuantTables, gQuant>>
     \/ /\ n \in {0, 1}
        /\ gValidQuantTables' = gValidQuantTables \cup {n}
        /\ gQuant' = [gQuant EXCEPT ![n] = [i \in 0 .. QuantSize - 1 |->
             IF prec = 0 THEN Byte(pos + 1 + i) ELSE Word(pos + 1 + 2 * i)]]
        /\ \/ BackAt(end, "PJPG_BAD_DQT_LENGTH") /\ UNCHANGED left
           \/ /\ totalRead <= left
              /\ pos' = end /\ left' = left - totalRead
              /\ UNCHANGED <<pc, dropped>>
  /\ UNCHANGED <<input, locating, segment, status, gValidHuffTables, gHuffTab, bitsRead,
                 gHuffVal, frame, scan, gRestartInterval>>

LEMMA QuantTableRead ==
  ASSUME IInv, readQuantTable
  PROVE  \E n \in Nat, prec \in Nat, end \in Nat \ {0}, totalRead \in Nat :
           QuantTableTurn(n, prec, end, totalRead)
<1>0. pos \in Nat \ {0} /\ stream \in Streams /\ QuantSize \in Nat \ {0}
  BY HeaderAssumption DEF IInv, FieldTypes, InputType
<1>1. PICK b \in 0 .. 255 : b = Byte(pos)
  BY <1>0, ByteType
<1> DEFINE n == b % 16
           prec == b \div 16
           totalRead == QuantRead(prec)
           end == pos + totalRead
<1>2. n \in Nat /\ prec \in Nat
  OBVIOUS
<1>3. totalRead \in Nat /\ totalRead = 1 + (IF prec = 0 THEN 1 ELSE 2) * QuantSize
  BY <1>0 DEF QuantRead
<1>4. end \in Nat \ {0} /\ end = pos + 1 + (IF prec = 0 THEN 1 ELSE 2) * QuantSize
  BY <1>0, <1>3
<1>5. left \in Nat
  BY MaxWordType DEF IInv, FieldTypes
<1>6. /\ pc = "dqt" /\ left # 0
      /\ IF n > 1
           THEN BackAt(pos + 1, "PJPG_BAD_DQT_TABLE")
                /\ UNCHANGED <<left, gValidQuantTables, gQuant>>
           ELSE /\ gValidQuantTables' = gValidQuantTables \cup {n}
                /\ gQuant' = [gQuant EXCEPT ![n] = [i \in 0 .. QuantSize - 1 |->
                     IF prec = 0 THEN Byte(pos + 1 + i) ELSE Word(pos + 1 + 2 * i)]]
                /\ IF left < totalRead
                     THEN BackAt(end, "PJPG_BAD_DQT_LENGTH") /\ UNCHANGED left
                     ELSE /\ pos' = end
                          /\ left' = left - totalRead
                          /\ UNCHANGED <<pc, dropped>>
      /\ UNCHANGED <<input, locating, segment, status, gValidHuffTables, gHuffTab, bitsRead,
                     gHuffVal, frame, scan, gRestartInterval>>
  <2>1. end = pos + 1 + (IF Byte(pos) \div 16 = 0 THEN 1 ELSE 2) * QuantSize
        /\ n = Byte(pos) % 16 /\ prec = Byte(pos) \div 16
    BY <1>1, <1>4
  <2> HIDE DEF n, prec, end
  <2> QED
    BY <2>1 DEF readQuantTable
<1>7. end = pos + totalRead
  OBVIOUS
<1> HIDE DEF n, prec, end, totalRead
<1>8. ~ (n > 1) => n \in {0, 1}
  BY <1>2
<1>9. ~ (left < totalRead) => totalRead <= left
  BY <1>3, <1>5
<1>10. QuantTableTurn(n, prec, end, totalRead)
  BY <1>6, <1>7, <1>8, <1>9 DEF QuantTableTurn
<1> QED
  BY <1>2, <1>3, <1>4, <1>10

LEMMA readQuantTableStep == IInv /\ readQuantTable => IInv' /\ InStep
<1> SUFFICES ASSUME IInv, readQuantTable PROVE IInv' /\ InStep
  OBVIOUS
<1>0. PICK n \in Nat, prec \in Nat, end \in Nat \ {0}, totalRead \in Nat :
        QuantTableTurn(n, prec, end, totalRead)
  BY QuantTableRead
<1> USE DEF QuantTableTurn, input, frame, scan
<1>1. pos \in Nat \ {0} /\ left \in Nat /\ left <= MaxWord - 2 /\ QuantSize \in Nat \ {0}
  BY MaxWordType, HeaderAssumption DEF IInv, FieldTypes
<1>2. gValidHuffTables' \subseteq 0 .. 3 /\ gValidQuantTables' \subseteq {0, 1}
  BY <1>0 DEF IInv, FieldTypes
<1>3. DOMAIN gQuant = {0, 1} /\ DOMAIN gQuant' = {0, 1} /\ DOMAIN gHuffVal' = 0 .. 3
  BY <1>0 DEF IInv, TablesHold
<1>4. ValuesFit' /\ UNCHANGED <<gHuffTab, bitsRead>>
  BY <1>0 DEF IInv, ValuesFit
<1>5. CASE BackAt(pos + 1, "PJPG_BAD_DQT_TABLE") /\ UNCHANGED left
  <2>1. pos + 1 \in Nat \ {0} /\ "PJPG_BAD_DQT_TABLE" \in Reported
        /\ "PJPG_BAD_DQT_TABLE" # "ok" /\ pc \in {"dht", "dqt"}
    BY <1>0, <1>1 DEF Reported
  <2> QED
    BY <1>0, <1>2, <1>3, <1>4, <1>5, <2>1, GivesUp
<1>6. CASE BackAt(end, "PJPG_BAD_DQT_LENGTH") /\ UNCHANGED left
  <2>1. "PJPG_BAD_DQT_LENGTH" \in Reported
        /\ "PJPG_BAD_DQT_LENGTH" # "ok" /\ pc \in {"dht", "dqt"}
    BY <1>0, <1>1 DEF Reported
  <2> QED
    BY <1>0, <1>2, <1>3, <1>4, <1>6, <2>1, GivesUp
<1>7. CASE /\ n \in {0, 1}
           /\ gValidQuantTables' = gValidQuantTables \cup {n}
           /\ gQuant' = [gQuant EXCEPT ![n] = [i \in 0 .. QuantSize - 1 |->
                IF prec = 0 THEN Byte(pos + 1 + i) ELSE Word(pos + 1 + 2 * i)]]
           /\ totalRead <= left
           /\ pos' = end /\ left' = left - totalRead
           /\ UNCHANGED <<pc, dropped>>
  <2>1. pos' \in Nat \ {0} /\ left' \in Nat /\ left' <= MaxWord - 2
        /\ pos' + left' = pos + left
    BY <1>0, <1>1, <1>7, MaxWordType
  <2>2. pc = "dqt" /\ pc' = "dqt"
    BY <1>0, <1>7
  <2>3. FieldTypes'
    BY <1>0, <1>2, <2>1, <2>2, MaxWordType DEF IInv, FieldTypes
  <2>4. InputType'
    BY <1>0, <1>7 DEF IInv, InputType
  <2>5. TablesHold'
    BY <1>0, <1>3, <1>4 DEF IInv, TablesHold
  <2>6. ValidAreRead'
    <3>1. gQuant'[n] # Stale
      <4>1. DOMAIN gQuant'[n] = 0 .. QuantSize - 1
        BY <1>3, <1>7
      <4>2. 0 \in 0 .. QuantSize - 1
        BY <1>1
      <4>3. DOMAIN Stale = {}
        BY DEF Stale
      <4> QED
        BY <4>1, <4>2, <4>3
    <3>2. \A m \in {0, 1} : m # n => gQuant'[m] = gQuant[m]
      BY <1>3, <1>7
    <3>3. gValidQuantTables \subseteq {0, 1}
      BY DEF IInv, FieldTypes
    <3>4. gValidHuffTables' = gValidHuffTables /\ dropped' = dropped
      BY <1>0, <1>7
    <3> QED
      BY <1>4, <1>7, <2>2, <3>1, <3>2, <3>3, <3>4 DEF IInv, ValidAreRead
  <2>7. SegmentLeft'
    <3>1. segment # 0 /\ pos + left = segment + Word(segment)
      BY <2>2 DEF IInv, SegmentLeft
    <3>2. segment' = segment /\ Word(segment)' = Word(segment)
      BY <1>0 DEF Word, Byte
    <3> QED
      BY <2>1, <2>2, <3>1, <3>2 DEF SegmentLeft
  <2>8. Selected' /\ InStep
    BY <2>2 DEF Selected, InStep
  <2> QED
    BY <1>4, <2>3, <2>4, <2>5, <2>6, <2>7, <2>8 DEF IInv
<1> QED
  BY <1>0, <1>5, <1>6, <1>7

\* What readSOFMarker accepts is as long as its length says.
LEMMA FrameRead ==
  ASSUME stream \in Streams, NEW p \in Nat \ {0}
  PROVE  /\ readSOFMarker(p).pos \in Nat \ {0}
         /\ readSOFMarker(p).status = "ok" =>
              /\ readSOFMarker(p).pos = p + Word(p)
              /\ Word(p + 3) \in 1 .. MaxSize /\ Word(p + 5) \in 1 .. MaxSize
              /\ Byte(p + 7) \in 0 .. 3
<1>1. PICK n \in 0 .. 255 : n = Byte(p + 7)
  BY ByteType
<1> DEFINE bad == {ci \in 0 .. 2 : ci < Byte(p + 7) /\ Byte(p + 10 + 3 * ci) > 1}
           first == Min(bad \cup {3})
           end == p + 8 + 3 * Byte(p + 7)
           checks == <<
        <<Byte(p + 2) # 8, "PJPG_BAD_PRECISION", p + 3>>,
        <<Word(p + 3) \notin 1 .. MaxSize, "PJPG_BAD_HEIGHT", p + 5>>,
        <<Word(p + 5) \notin 1 .. MaxSize, "PJPG_BAD_WIDTH", p + 7>>,
        <<Byte(p + 7) > 3, "PJPG_TOO_MANY_COMPONENTS", p + 8>>,
        <<Word(p) # 3 * Byte(p + 7) + 8, "PJPG_BAD_SOF_LENGTH", p + 8>>,
        <<bad # {}, "PJPG_UNSUPPORTED_QUANT_TABLE", p + 11 + 3 * first>>>>
<1>2. first \in Nat
  <2>1. bad \cup {3} \subseteq Nat /\ bad \cup {3} # {}
    OBVIOUS
  <2> QED
    BY <2>1, MinIs
<1>3. p + 11 + 3 * first \in Nat \ {0} /\ end \in Nat \ {0}
  <2> HIDE DEF first
  <2> QED
    BY <1>1, <1>2
<1>4. readSOFMarker(p) = FirstFailure(checks, end)
  BY DEF readSOFMarker
<1>5. Checks(checks, 6)
  <2> HIDE DEF first, bad
  <2>1. DOMAIN checks = 1 .. 6
    OBVIOUS
  <2>2. \A i \in 1 .. 6 : i = 1 \/ i = 2 \/ i = 3 \/ i = 4 \/ i = 5 \/ i = 6
    OBVIOUS
  <2>3. \A i \in 1 .. 6 : checks[i][2] # "ok" /\ checks[i][3] \in Nat \ {0}
    BY <1>3, <2>2
  <2> HIDE DEF checks
  <2> QED
    BY <2>1, <2>3 DEF Checks
<1>6. /\ ~ checks[2][1] => Word(p + 3) \in 1 .. MaxSize
      /\ ~ checks[3][1] => Word(p + 5) \in 1 .. MaxSize
      /\ ~ checks[4][1] => ~ (Byte(p + 7) > 3)
      /\ ~ checks[5][1] => Word(p) = 3 * Byte(p + 7) + 8
  <2> HIDE DEF first, bad
  <2> QED
    OBVIOUS
<1> HIDE DEF checks, end
<1>7. /\ FirstFailure(checks, end).pos \in Nat \ {0}
      /\ FirstFailure(checks, end).status = "ok" =>
           /\ FirstFailure(checks, end).pos = end
           /\ \A i \in 1 .. 6 : ~ checks[i][1]
  BY <1>3, <1>5, FirstFailureIs
<1>8. end = p + 8 + 3 * Byte(p + 7)
  BY DEF end
<1> QED
  BY <1>1, <1>4, <1>6, <1>7, <1>8

LEMMA Wraps ==
  ASSUME NEW w \in Nat, w <= MaxWord, NEW n \in 1 .. 3,
         (w - 3) % (MaxWord + 1) = n + n + 3
  PROVE  w = n + n + 6
<1>1. w <= 65535 /\ (w - 3) % 65536 = n + n + 3
  BY DEF MaxWord
<1> QED
  BY <1>1

\* And so is what readSOSMarker accepts.
LEMMA ScanRead ==
  ASSUME stream \in Streams, NEW p \in Nat \ {0}
  PROVE  /\ readSOSMarker(p).pos \in Nat \ {0}
         /\ readSOSMarker(p).status = "ok" =>
              readSOSMarker(p).pos = p + Word(p) /\ Byte(p + 2) \in 1 .. 3
<1> DEFINE n == Byte(p + 2)
           bad == {i \in 0 .. 2 : i < n /\ CompOf(Byte(p + 3 + 2 * i)) = gCompsInFrame}
           first == Min(bad \cup {3})
           end == p + 3 + 2 * n + 3
           checks == <<
        <<(Word(p) - 3) % (MaxWord + 1) # n + n + 3 \/ n \notin 1 .. 3, "PJPG_BAD_SOS_LENGTH", p + 3>>,
        <<bad # {}, "PJPG_BAD_SOS_COMP_ID", p + 5 + 2 * first>>>>
<1>1. n \in 0 .. 255
  BY ByteType
<1>2. first \in Nat
  <2>1. bad \cup {3} \subseteq Nat /\ bad \cup {3} # {}
    OBVIOUS
  <2> QED
    BY <2>1, MinIs
<1>3. p + 5 + 2 * first \in Nat \ {0} /\ end \in Nat \ {0}
  <2> HIDE DEF first, n
  <2> QED
    BY <1>1, <1>2
<1>4. readSOSMarker(p) = FirstFailure(checks, end)
  BY DEF readSOSMarker
<1>5. Checks(checks, 2)
  <2> HIDE DEF first, bad, n
  <2>1. DOMAIN checks = 1 .. 2
    OBVIOUS
  <2>2. \A i \in 1 .. 2 : i = 1 \/ i = 2
    OBVIOUS
  <2>3. \A i \in 1 .. 2 : checks[i][2] # "ok" /\ checks[i][3] \in Nat \ {0}
    BY <1>3, <2>2
  <2> HIDE DEF checks
  <2> QED
    BY <2>1, <2>3 DEF Checks
<1>6. ~ checks[1][1] => (Word(p) - 3) % (MaxWord + 1) = n + n + 3 /\ n \in 1 .. 3
  <2> HIDE DEF first, bad, n
  <2> QED
    OBVIOUS
<1>7. end = p + 3 + 2 * n + 3 /\ n = Byte(p + 2)
  OBVIOUS
<1> HIDE DEF checks, end, n
<1>8. /\ FirstFailure(checks, end).pos \in Nat \ {0}
      /\ FirstFailure(checks, end).status = "ok" =>
           /\ FirstFailure(checks, end).pos = end
           /\ \A i \in 1 .. 2 : ~ checks[i][1]
  BY <1>3, <1>5, FirstFailureIs
<1>9. FirstFailure(checks, end).status = "ok" => n \in 1 .. 3 /\ Word(p) = n + n + 6
  BY <1>6, <1>8, WordType, Wraps
<1> QED
  BY <1>4, <1>7, <1>8, <1>9

LEMMA locateSOFMarkerStep == IInv /\ locateSOFMarker => IInv' /\ InStep
<1> SUFFICES ASSUME IInv, locateSOFMarker PROVE IInv' /\ InStep
  OBVIOUS
<1> USE DEF input, tables, frame, scan
<1>1. AtMarker(Returned)
  BY DEF locateSOFMarker
<1>2. pc = "markers" /\ Segment \in Nat \ {0, 1} /\ stream \in Streams
  BY <1>1, MarkerFound DEF IInv, InputType, FieldTypes, AtMarker
<1> DEFINE c == Byte(MarkerAt)
           read == IF c = M_SOF0 THEN readSOFMarker(Segment)
                 ELSE [status |-> CASE c = M_SOF2 -> "PJPG_UNSUPPORTED_MODE"
                                    [] c = M_SOF9 -> "PJPG_NO_ARITHMITIC_SUPPORT"
                                    [] OTHER -> "PJPG_UNSUPPORTED_MARKER",
                       pos |-> Segment]
<1>3. /\ read.pos \in Nat \ {0}
      /\ read.status = "ok" =>
           /\ read.pos = Segment + Word(Segment)
           /\ Word(Segment + 3) \in 1 .. MaxSize /\ Word(Segment + 5) \in 1 .. MaxSize
           /\ Byte(Segment + 7) \in 0 .. 3
  <2>1. CASE c = M_SOF0
    <3>1. read = readSOFMarker(Segment)
      BY <2>1
    <3> HIDE DEF read
    <3> QED
      BY <1>2, <3>1, FrameRead
  <2>2. CASE c # M_SOF0
    <3>1. read.pos = Segment /\ read.status # "ok"
      BY <2>2
    <3> HIDE DEF read
    <3> QED
      BY <1>2, <3>1
  <2> QED
    BY <2>1, <2>2
<1>4. /\ segment' = Segment /\ pos' = read.pos
      /\ IF read.status # "ok" \/ ReadError(pos')
           THEN Return(read.status, pos') /\ UNCHANGED <<gImageXSize, gImageYSize, gComp>>
           ELSE /\ pc' = "frame" /\ UNCHANGED status
                /\ gImageYSize' = Word(Segment + 3) /\ gImageXSize' = Word(Segment + 5)
                /\ gComp' = CompsAt(Segment)
      /\ UNCHANGED <<input, locating, left, dropped, tables, gScanType, scan, gRestartInterval>>
  BY DEF locateSOFMarker
<1> HIDE DEF read
<1>5. \/ pc' = "returned" /\ status' # "ok" /\ UNCHANGED <<gImageXSize, gImageYSize, gComp>>
      \/ /\ pc' = "frame" /\ read.status = "ok"
         /\ gImageYSize' = Word(Segment + 3) /\ gImageXSize' = Word(Segment + 5)
         /\ gComp' = CompsAt(Segment)
  <2>1. read.status # "ok" \/ ReadError(pos') => (Return(read.status, pos') => pc' = "returned" /\ status' # "ok")
    BY DEF Return
  <2> QED
    BY <1>4, <2>1
<1>6. pos' \in Nat \ {0} /\ segment' \in Nat \ {0}
      /\ (pc' = "frame" => pos' = segment' + Word(segment'))
  BY <1>2, <1>3, <1>4, <1>5
<1>7. FieldTypes'
  <2>1. gImageXSize' \in 0 .. MaxSize /\ gImageYSize' \in 0 .. MaxSize
    BY <1>3, <1>5, HeaderAssumption DEF IInv, FieldTypes
  <2>2. DOMAIN gComp' \subseteq 0 .. 2
    <3>1. CASE gComp' = gComp
      BY <1>2, <3>1 DEF IInv, FieldTypes
    <3>2. CASE gComp' = CompsAt(Segment) /\ Byte(Segment + 7) \in 0 .. 3
      <4>1. DOMAIN gComp' = 0 .. Byte(Segment + 7) - 1
        BY <3>2 DEF CompsAt
      <4> QED
        BY <3>2, <4>1
    <3> QED
      BY <1>3, <1>5, <3>1, <3>2
  <2> QED
    BY <1>4, <1>5, <1>6, <2>1, <2>2 DEF IInv, FieldTypes
<1>8. ValuesFit' /\ TablesHold'
  BY <1>4 DEF IInv, ValuesFit, TablesHold
<1>9. InputType'
  BY <1>4 DEF IInv, InputType
<1>10. ValidAreRead'
  BY <1>2, <1>4 DEF IInv, ValidAreRead
<1>11. SegmentLeft'
  <2>1. Word(segment)' = Word(segment')
    BY <1>4 DEF Word, Byte
  <2> QED
    BY <1>5, <1>6, <2>1 DEF SegmentLeft
<1>12. Selected'
  BY <1>5 DEF Selected
<1>13. InStep
  BY <1>5, <1>6 DEF InStep
<1> QED
  BY <1>7, <1>8, <1>9, <1>10, <1>11, <1>12, <1>13 DEF IInv

LEMMA locateSOSMarkerStep == IInv /\ locateSOSMarker => IInv' /\ InStep
<1> SUFFICES ASSUME IInv, locateSOSMarker PROVE IInv' /\ InStep
  OBVIOUS
<1> USE DEF input, tables, frame, scan
<1>1. AtMarker(Returned)
  BY DEF locateSOSMarker
<1>2. pc = "markers" /\ Segment \in Nat \ {0, 1} /\ stream \in Streams
  BY <1>1, MarkerFound DEF IInv, InputType, FieldTypes, AtMarker
<1> DEFINE n == Byte(Segment + 2)
           read == IF Byte(MarkerAt) = M_SOS THEN readSOSMarker(Segment)
                   ELSE [status |-> "PJPG_UNEXPECTED_MARKER", pos |-> Segment]
           list == [i \in 1 .. n |-> CompOf(Byte(Segment + 1 + 2 * i))]
           listed(ci) == {i \in 1 .. n : list[i] = ci}
           selectors(ci) == Byte(Segment + 2 + 2 * Max(listed(ci)))
<1>3. /\ read.pos \in Nat \ {0}
      /\ read.status = "ok" => read.pos = Segment + Word(Segment) /\ n \in 1 .. 3
  <2>1. CASE Byte(MarkerAt) = M_SOS
    <3>1. read = readSOSMarker(Segment)
      BY <2>1
    <3> HIDE DEF read
    <3> QED
      BY <1>2, <3>1, ScanRead
  <2>2. CASE Byte(MarkerAt) # M_SOS
    <3>1. read.pos = Segment /\ read.status # "ok"
      BY <2>2
    <3> HIDE DEF read
    <3> QED
      BY <1>2, <3>1
  <2> QED
    BY <2>1, <2>2
<1>4. /\ segment' = Segment /\ pos' = read.pos
      /\ IF read.status # "ok" THEN Return(read.status, pos') /\ UNCHANGED scan
         ELSE /\ gCompList' = list
              /\ gCompACTab' = [ci \in 0 .. 2 |->
                   IF listed(ci) = {} THEN gCompACTab[ci] ELSE selectors(ci) % 16]
              /\ pc' = "scan" /\ UNCHANGED status
      /\ UNCHANGED <<input, locating, left, dropped, tables, frame, gRestartInterval>>
  BY DEF locateSOSMarker
<1> HIDE DEF read
<1>5. \/ pc' = "returned" /\ status' # "ok"
      \/ /\ pc' = "scan" /\ n \in 1 .. 3 /\ gCompList' = list
         /\ gCompACTab' = [ci \in 0 .. 2 |->
               IF listed(ci) = {} THEN gCompACTab[ci] ELSE selectors(ci) % 16]
  <2>1. read.status # "ok" => (Return(read.status, pos') => pc' = "returned" /\ status' # "ok")
    BY DEF Return
  <2> QED
    BY <1>3, <1>4, <2>1
<1>6. pos' \in Nat \ {0} /\ segment' \in Nat \ {0}
      /\ (pc' = "scan" => pos' = segment' + Word(segment'))
  <2>1. pc' = "scan" => read.status = "ok"
    BY <1>4 DEF Return
  <2> QED
    BY <1>2, <1>3, <1>4, <2>1
<1>7. FieldTypes'
  BY <1>2, <1>4, <1>5, <1>6 DEF IInv, FieldTypes
<1>8. ValuesFit' /\ TablesHold'
  BY <1>4 DEF IInv, ValuesFit, TablesHold
<1>9. InputType'
  BY <1>4 DEF IInv, InputType
<1>10. ValidAreRead'
  BY <1>2, <1>4 DEF IInv, ValidAreRead
<1>11. SegmentLeft'
  BY <1>5 DEF SegmentLeft
<1>12. Selected'
  <2>1. CASE pc' = "returned" /\ status' # "ok"
    BY <2>1 DEF Selected
  <2>2. CASE /\ pc' = "scan" /\ n \in 1 .. 3 /\ gCompList' = list
             /\ gCompACTab' = [ci \in 0 .. 2 |->
                  IF listed(ci) = {} THEN gCompACTab[ci] ELSE selectors(ci) % 16]
    <3>1. ASSUME NEW i \in DOMAIN gCompList', gCompList'[i] \in 0 .. 2
          PROVE  gCompACTab'[gCompList'[i]] \in Nat
      <4>1. PICK ci \in 0 .. 2 : ci = gCompList'[i]
        BY <3>1
      <4>2. i \in listed(ci)
        BY <2>2, <3>1, <4>1
      <4>3. listed(ci) \subseteq 0 .. 3 /\ listed(ci) # {}
        BY <2>2, <4>2
      <4>4. PICK m : m = Max(listed(ci)) /\ m \in listed(ci)
        BY <4>3, MaxIs
      <4>5. m \in Nat
        BY <4>3, <4>4
      <4>6. PICK b \in 0 .. 255 : b = Byte(Segment + 2 + 2 * m)
        BY <1>2, <4>5, ByteType
      <4>7. b = selectors(ci)
        BY <4>4, <4>6
      <4>8. gCompACTab'[ci] = b % 16
        BY <2>2, <4>3, <4>7
      <4> QED
        BY <4>1, <4>6, <4>8
    <3> QED
      BY <2>2, <3>1 DEF Selected
  <2> QED
    BY <1>5, <2>1, <2>2
<1>13. InStep
  BY <1>5, <1>6 DEF InStep
<1> QED
  BY <1>7, <1>8, <1>9, <1>10, <1>11, <1>12, <1>13 DEF IInv

\* A turn of no reader disturbs it.
LEMMA StutterIInv == IInv /\ UNCHANGED vars => IInv'
<1> SUFFICES ASSUME IInv, UNCHANGED vars PROVE IInv'
  OBVIOUS
<1> USE DEF vars, input, tables, frame, scan
<1>1. FieldTypes' /\ ValuesFit' /\ InputType' /\ TablesHold' /\ ValidAreRead'
  <2>1. FieldTypes'
    BY DEF IInv, FieldTypes
  <2>2. ValuesFit' /\ InputType'
    BY DEF IInv, ValuesFit, InputType
  <2>3. TablesHold' /\ ValidAreRead'
    BY DEF IInv, TablesHold, ValidAreRead
  <2> QED
    BY <2>1, <2>2, <2>3
<1>2. SegmentLeft'
  BY DEF IInv, SegmentLeft, Word, Byte
<1>3. Selected'
  BY DEF IInv, Selected, checkHuffTables, checkQuantTables
<1> QED
  BY <1>1, <1>2, <1>3 DEF IInv

LEMMA NextIInv == IInv /\ Next => IInv' /\ InStep
BY CallInitStep, locateSOIMarkerStep, RefuseMarkerStep, skipVariableMarkerStep,
   readDRIMarkerStep, BeginDHTStep, BeginDQTStep, readHuffTableStep, readQuantTableStep,
   EndTablesStep, locateSOFMarkerStep, initFrameStep, locateSOSMarkerStep, initScanStep
   DEF Next

LEMMA SpecIInv == Spec => []IInv
<1>1. IInv /\ [Next]_vars => IInv'
  BY StutterIInv, NextIInv
<1> QED
  BY InitIInv, <1>1, PTL DEF Spec

\* Types; the values of a Huffman table stay within its array, of whatever file
\* (picojpeg.c:522-577).
THEOREM HeaderTypeCorrect == Spec => []TypeOK
<1>1. IInv => TypeOK
  BY TypeParts DEF IInv
<1> QED
  BY <1>1, SpecIInv, PTL

\* Every reader that reports no error stops where its segment's length says.
THEOREM ReadersStayInStep == Spec => SegmentsInStep
<1>1. IInv /\ [Next]_vars =>
        [pc' \in {"markers", "frame", "scan"} /\ segment' # 0 /\ dropped' = dropped =>
           pos' = segment' + Word(segment')]_vars
  BY NextIInv DEF InStep
<1> QED
  BY <1>1, SpecIInv, PTL DEF Spec, SegmentsInStep

\* The tables that decodeNextMCU takes were read in this picture, when
\* pjpeg_decode_init succeeds on a file that was well formed.
THEOREM UsedTablesWereRead == Spec => []TablesUsedAreRead
<1>1. IInv => TablesUsedAreRead
  <2> SUFFICES ASSUME IInv, pc = "returned", status = "ok", dropped = <<>>,
                      DOMAIN gComp \subseteq {gCompList[i] : i \in DOMAIN gCompList},
                      \A ci \in DOMAIN gComp : gCompDCTab[ci] \in {0, 1},
                      NEW ci \in DOMAIN gComp
               PROVE  /\ gHuffTab[DCTable(ci)] # Stale /\ gHuffTab[ACTable(ci)] # Stale
                      /\ gQuant[QuantTable(ci)] # Stale
    BY DEF TablesUsedAreRead
  <2>1. PICK i \in DOMAIN gCompList : gCompList[i] = ci
    OBVIOUS
  <2>2. ci \in 0 .. 2
    BY DEF IInv, FieldTypes
  <2>3. gCompACTab[ci] \in Nat /\ checkHuffTables /\ checkQuantTables
    BY <2>1, <2>2 DEF IInv, Selected
  <2>4. /\ {gCompDCTab[ci], gCompACTab[ci] + 2} \subseteq gValidHuffTables
        /\ gComp[ci].quant \in gValidQuantTables
    BY <2>1, <2>3 DEF checkHuffTables, checkQuantTables
  <2>5. gValidHuffTables \subseteq 0 .. 3 /\ gValidQuantTables \subseteq {0, 1}
    BY DEF IInv, FieldTypes
  <2>6. gCompACTab[ci] \in {0, 1}
    BY <2>3, <2>4, <2>5
  <2>7. DCTable(ci) \in gValidHuffTables /\ ACTable(ci) \in gValidHuffTables
    BY <2>4, <2>6 DEF DCTable, ACTable
  <2>8. QuantTable(ci) \in gValidQuantTables
    BY <2>4, <2>5 DEF QuantTable
  <2> QED
    BY <2>7, <2>8 DEF IInv, ValidAreRead
<1> QED
  BY <1>1, SpecIInv, PTL

\* By the tables that huffCreate makes, huffDecode reads what the canonical code
\* says, of whatever numbers of codes, values and bits.
THEOREM HuffmanIsCanonical == Spec => []HuffmanCanonical
<1>1. IInv => HuffmanCanonical
  <2> SUFFICES ASSUME IInv, NEW t \in 0 .. 3, gHuffTab[t] # Stale,
                      IsPrefixCode(bitsRead[t]), NEW x \in 0 .. Codes - 1
               PROVE  huffDecode(gHuffTab[t], gHuffVal[t], x)
                        = canonicalDecode(bitsRead[t], gHuffVal[t], x)
    BY DEF HuffmanCanonical
  <2>1. /\ bitsRead[t] \in [Lengths -> Nat]
        /\ CodesBelow(bitsRead[t], CodeLengths) <= 256
        /\ gHuffTab[t] = huffCreate(bitsRead[t])
    BY DEF IInv, TablesHold
  <2>2. x \in Nat
    BY HuffmanNumbers
  <2> QED
    BY <2>1, <2>2, TableIsCanonical
<1> QED
  BY <1>1, SpecIInv, PTL
=============================================================================
