------------------------------ MODULE Huffman ------------------------------
(***************************************************************************)
(* picojpeg's Huffman tables: what huffCreate makes of the number of codes *)
(* of each length, and what huffDecode makes of the bits that come next.   *)
(***************************************************************************)
EXTENDS Powers, FiniteSetsExt

CONSTANT CodeLengths   \* the longest code: 16

ASSUME CodeAssumption == CodeLengths \in Nat \ {0}

Lengths == 0 .. CodeLengths - 1   \* the place of length i + 1 in the tables
Codes == Pow2[CodeLengths]        \* what a uint16 wraps at
NoCode == Codes - 1               \* 0xFFFF

\* Mutant: the code is not shifted past a length that has no codes.
CreateUnshifted(bits) ==
  LET code[i \in Lengths] ==
        IF i = 0 THEN 0
        ELSE IF bits[i - 1] = 0 THEN code[i - 1] ELSE (2 * (code[i - 1] + bits[i - 1])) % Codes
      j[i \in Lengths] == IF i = 0 THEN 0 ELSE (j[i - 1] + bits[i - 1]) % 256
  IN  [i \in Lengths |->
         IF bits[i] = 0 THEN [mMinCode |-> 0, mMaxCode |-> NoCode, mValPtr |-> 0]
         ELSE [mMinCode |-> code[i], mMaxCode |-> (code[i] + bits[i] - 1) % Codes,
               mValPtr |-> j[i]]]

\* code and j as they are when the loop comes to each length.
CodeAt(bits) ==
  LET code[i \in Lengths] ==
        IF i = 0 THEN 0 ELSE (2 * (code[i - 1] + bits[i - 1])) % Codes
  IN  code

ValueAt(bits) ==
  LET j[i \in Lengths] == IF i = 0 THEN 0 ELSE (j[i - 1] + bits[i - 1]) % 256
  IN  j

huffCreate(bits) ==
  LET code == CodeAt(bits)
      j == ValueAt(bits)
  IN  [i \in Lengths |->
         IF bits[i] = 0 THEN [mMinCode |-> 0, mMaxCode |-> NoCode, mValPtr |-> 0]
         ELSE [mMinCode |-> code[i], mMaxCode |-> (code[i] + bits[i] - 1) % Codes,
               mValPtr |-> j[i]]]

\* How many streams, by their next CodeLengths bits, begin with a code of a length.
Room(i) == Pow2[CodeLengths - 1 - i]

\* The value and the number of bits read, of a stream whose next CodeLengths
\* bits are the number x.
huffDecode(table, pHuffVal, x) ==
  LET code(i) == x \div Room(i)
      hits == {i \in Lengths : code(i) <= table[i].mMaxCode /\ table[i].mMaxCode # NoCode}
  IN  IF hits = {} THEN [value |-> 0, bits |-> CodeLengths + 1]
      ELSE LET i == Min(hits)
           IN  [value |-> pHuffVal[(table[i].mValPtr + code(i) - table[i].mMinCode) % 256],
                bits |-> i + 1]
-----------------------------------------------------------------------------
(***************************************************************************)
(* The canonical code, for reference: each symbol, in order, gets the      *)
(* streams that begin with its code, Room of them by its length, from      *)
(* where the symbol before it ends.                                        *)
(***************************************************************************)
SumBelow(w, n) ==
  LET sum[i \in 0 .. CodeLengths] == IF i = 0 THEN 0 ELSE sum[i - 1] + w[i - 1]
  IN  sum[n]

RoomBelow(bits, i) == SumBelow([l \in Lengths |-> bits[l] * Room(l)], i)
CodesBelow(bits, i) == SumBelow(bits, i)

\* A prefix code, and one that leaves out all ones, as JPEG asks.
IsPrefixCode(bits) == RoomBelow(bits, CodeLengths) < Codes

canonicalDecode(bits, pHuffVal, x) ==
  LET symbols == UNION {{i} \X (0 .. bits[i] - 1) : i \in Lengths}
      start(s) == RoomBelow(bits, s[1]) + s[2] * Room(s[1])
      hits == {s \in symbols : x \in start(s) .. start(s) + Room(s[1]) - 1}
  IN  IF hits = {} THEN [value |-> 0, bits |-> CodeLengths + 1]
      ELSE LET s == CHOOSE s \in hits : TRUE
           IN  [value |-> pHuffVal[CodesBelow(bits, s[1]) + s[2]], bits |-> s[1] + 1]
=============================================================================
