------------------------- MODULE BlockDecodeProofs -------------------------
(***************************************************************************)
(* The coefficient loops on any symbols, for every longest run and every   *)
(* set of scan types: k stays within the block, full and reduce mode take  *)
(* the same symbols the same way, and transformBlock gets all of a block.  *)
(*                                                                         *)
(* The invariant says that all places before k hold this block's           *)
(* coefficients.  For the places still to be written not to be among them  *)
(* it needs that the zigzag order comes to no place twice.                 *)
(*                                                                         *)
(* The second part is about the pixels of the MCU that the blocks make.    *)
(***************************************************************************)
EXTENDS BlockDecode, SequenceTheorems, TLAPS

\* Where a symbol leads from a place in the block: on, and within the block.
LEMMA SymbolInBlock ==
  ASSUME NEW j \in 1 .. Last, NEW r \in 0 .. MaxRun, NEW s \in {0, 1}
  PROVE  /\ Symbol(j, r, s).outcome \in {"next", "end", "error"}
         /\ Symbol(j, r, s).outcome = "next" => Symbol(j, r, s).n \in j + 1 .. Coeffs
<1>1. MaxRun \in Nat
  BY BlockAssumption
<1>2. CASE s # 0
  BY <1>1, <1>2 DEF Symbol, Error, EndOfBlock, To, Coeffs, Last
<1>3. CASE s = 0
  BY <1>1, <1>3 DEF Symbol, Error, EndOfBlock, To, Coeffs, Last
<1> QED
  BY <1>2, <1>3

\* The two modes treat every symbol alike.
LEMMA SymbolModes ==
  ASSUME NEW j \in 0 .. Coeffs, NEW r \in 0 .. MaxRun, NEW s \in {0, 1}, j < Coeffs
  PROVE  Symbol(j, r, s) = SymbolReduced(j, r, s)
<1>1. MaxRun \in Nat
  BY BlockAssumption
<1>2. CASE s # 0
  BY <1>1, <1>2 DEF Symbol, SymbolReduced, Error, EndOfBlock, To, Coeffs, Last
<1>3. CASE s = 0
  BY <1>1, <1>3 DEF Symbol, SymbolReduced, Error, EndOfBlock, To, Coeffs, Last
<1> QED
  BY <1>2, <1>3
-----------------------------------------------------------------------------
\* ZAG lists each place of the block once, along the zigzag.
LEMMA ZAGPlace == \A j \in 0 .. Last : ZAG(j) \in 0 .. Last
BY SMTT(30) DEF ZAG, Last, Coeffs

LEMMA ZAGOnce ==
  ASSUME NEW i \in 0 .. Last, NEW j \in 0 .. Last, ZAG(i) = ZAG(j)
  PROVE  i = j
BY SMTT(60) DEF ZAG, Last, Coeffs

LEMMA ZAGAlongZigzag ==
  ZAG(0) = 0 /\ \A j \in 0 .. Last - 1 : ZigzagNext(ZAG(j)) = ZAG(j + 1)
BY SMTT(60) DEF ZAG, ZigzagNext, Last, Coeffs

LEMMA ZAGEverywhere ==
  ASSUME NEW p \in 0 .. Last - 1
  PROVE  \E j \in 0 .. Last - 1 : ZAG(j) = p
BY SMTT(60) DEF ZAG, Last, Coeffs

\* What writing some coefficients does to the buffer.
LEMMA WrittenEffect ==
  ASSUME NEW I \in SUBSET (0 .. Coeffs)
  PROVE  /\ \A j \in 0 .. Last : j \in I => Written(I)[ZAG(j)] = j
         /\ \A j \in 0 .. Last : j \notin I => Written(I)[ZAG(j)] = gCoeffBuf[ZAG(j)]
         /\ gCoeffBuf \in [0 .. Last -> {Stale} \cup (0 .. Last)]
              => Written(I) \in [0 .. Last -> {Stale} \cup (0 .. Last)]
<1> DEFINE At(p) == {j \in I : j <= Last /\ ZAG(j) = p}
<1>1. \A j \in I : j <= Last => j \in 0 .. Last
  BY DEF Coeffs, Last
<1>2. ASSUME NEW p \in 0 .. Last, \E j \in I : j <= Last /\ ZAG(j) = p
      PROVE  Written(I)[p] \in At(p)
  <2>1. Written(I)[p] = CHOOSE j \in I : j <= Last /\ ZAG(j) = p
    BY <1>2 DEF Written
  <2> QED
    BY <1>2, <2>1
<1>3. ASSUME NEW p \in 0 .. Last, ~ \E j \in I : j <= Last /\ ZAG(j) = p
      PROVE  Written(I)[p] = gCoeffBuf[p]
  BY <1>3 DEF Written
<1>4. ASSUME NEW j \in 0 .. Last, j \in I PROVE Written(I)[ZAG(j)] = j
  <2>1. j <= Last /\ ZAG(j) \in 0 .. Last
    BY ZAGPlace DEF Last, Coeffs
  <2>2. Written(I)[ZAG(j)] \in At(ZAG(j))
    BY <1>2, <1>4, <2>1
  <2> QED
    BY <1>1, <2>2, ZAGOnce
<1>5. ASSUME NEW j \in 0 .. Last, j \notin I PROVE Written(I)[ZAG(j)] = gCoeffBuf[ZAG(j)]
  <2>1. ~ \E i \in I : i <= Last /\ ZAG(i) = ZAG(j)
    BY <1>1, <1>5, ZAGOnce
  <2> QED
    BY <1>3, <2>1, ZAGPlace
<1>6. ASSUME gCoeffBuf \in [0 .. Last -> {Stale} \cup (0 .. Last)]
      PROVE  Written(I) \in [0 .. Last -> {Stale} \cup (0 .. Last)]
  <2>1. \A p \in 0 .. Last : Written(I)[p] \in {Stale} \cup (0 .. Last)
    <3> TAKE p \in 0 .. Last
    <3>1. CASE \E j \in I : j <= Last /\ ZAG(j) = p
      BY <1>1, <1>2, <3>1
    <3>2. CASE ~ \E j \in I : j <= Last /\ ZAG(j) = p
      BY <1>3, <1>6, <3>2
    <3> QED
      BY <3>1, <3>2
  <2> HIDE DEF Stale
  <2>2. Written(I) = [p \in 0 .. Last |-> Written(I)[p]]
    BY DEF Written
  <2> QED
    BY <2>1, <2>2
<1> QED
  BY <1>4, <1>5, <1>6

LEMMA IntervalInBlock ==
  \A a \in 1 .. Coeffs, b \in 0 .. Last : a .. b \in SUBSET (0 .. Coeffs)
BY DEF Coeffs, Last

\* Writing those from a to b, for the coefficients that are then there.
LEMMA WrittenInterval ==
  ASSUME NEW a \in 1 .. Coeffs, NEW b \in 0 .. Last, NEW j \in 0 .. b
  PROVE  Written(a .. b)[ZAG(j)] = IF j < a THEN gCoeffBuf[ZAG(j)] ELSE j
<1> DEFINE I == a .. b
<1>1. I \in SUBSET (0 .. Coeffs) /\ j \in 0 .. Last /\ (j \in I <=> ~ j < a)
  BY DEF Coeffs, Last
<1>2. Written(I)[ZAG(j)] = IF j < a THEN gCoeffBuf[ZAG(j)] ELSE j
  <2> HIDE DEF I
  <2>1. CASE j < a
    BY <1>1, <2>1, WrittenEffect
  <2>2. CASE ~ j < a
    BY <1>1, <2>2, WrittenEffect
  <2> QED
    BY <2>1, <2>2
<1> QED
  BY <1>2

\* A buffer whose every coefficient is at its ZAG place is in zigzag order.
LEMMA ZAGIsZigzag ==
  ASSUME NEW block, \A j \in 0 .. Last : block[ZAG(j)] = j
  PROVE  InZigzag(block)
<1>1. block[0] = 0
  BY ZAGAlongZigzag DEF Last, Coeffs
<1>2. ASSUME NEW p \in 0 .. Last - 1 PROVE block[ZigzagNext(p)] = block[p] + 1
  <2>1. PICK j \in 0 .. Last - 1 : ZAG(j) = p
    BY ZAGEverywhere
  <2>2. block[ZigzagNext(p)] = j + 1
    <3>1. j + 1 \in 0 .. Last
      BY DEF Last, Coeffs
    <3> QED
      BY <2>1, <3>1, ZAGAlongZigzag
  <2>3. block[p] = j
    BY <2>1 DEF Last, Coeffs
  <2> QED
    BY <2>2, <2>3
<1> QED
  BY <1>1, <1>2 DEF InZigzag
-----------------------------------------------------------------------------
\* The block's coefficients before k; of reduce mode, the first.
WrittenSoFar ==
  pc \in {"ac", "transform"} =>
    /\ k \in 1 .. Coeffs
    /\ \A j \in 0 .. (IF gReduce THEN 0 ELSE k - 1) : gCoeffBuf[ZAG(j)] = j

BlocksLeft == pc \in {"dc", "ac", "transform"} => mcuBlock < gMaxBlocksPerMCU

MCUTyped == DOMAIN gMCUBuf = Channels /\ \A c \in Channels : DOMAIN gMCUBuf[c] = Places

IInv == TypeOK /\ WrittenSoFar /\ BlocksLeft

LEMMA BlocksOfScan == gScanType \in ScanTypes => gMaxBlocksPerMCU \in {1, 3, 4, 6}
BY BlockAssumption DEF gMaxBlocksPerMCU

LEMMA InitIInv == Init => IInv
<1> SUFFICES ASSUME Init PROVE IInv
  OBVIOUS
<1>1. gMaxBlocksPerMCU \in {1, 3, 4, 6}
  BY BlocksOfScan DEF Init
<1>2. MCUTyped
  BY DEF Init, MCUTyped, StaleMCU
<1> QED
  BY <1>1, <1>2 DEF Init, IInv, TypeOK, WrittenSoFar, BlocksLeft, MCUTyped, Coeffs, Last

LEMMA DCStep == IInv /\ DecodeDC => IInv'
<1> SUFFICES ASSUME IInv, DecodeDC PROVE IInv'
  OBVIOUS
<1>1. gMaxBlocksPerMCU' = gMaxBlocksPerMCU
  BY DEF DecodeDC, gMaxBlocksPerMCU
<1>2. gCoeffBuf' \in [0 .. Last -> {Stale} \cup (0 .. Last)] /\ gCoeffBuf'[0] = 0
  BY DEF DecodeDC, Last, Coeffs
<1>3. TypeOK'
  BY <1>1, <1>2 DEF DecodeDC, IInv, TypeOK, Coeffs
<1>4. WrittenSoFar'
  BY <1>2, ZAGAlongZigzag DEF DecodeDC, WrittenSoFar, Coeffs
<1> QED
  BY <1>1, <1>3, <1>4 DEF DecodeDC, IInv, BlocksLeft

LEMMA ACStep == IInv /\ DecodeAC => IInv'
<1> SUFFICES ASSUME IInv, DecodeAC PROVE IInv'
  OBVIOUS
<1>1. PICK r \in 0 .. MaxRun, s \in {0, 1} :
        LET to == IF gReduce THEN SymbolReduced(k, r, s) ELSE Symbol(k, r, s)
        IN  /\ gCoeffBuf' = IF gReduce \/ to.outcome # "next" THEN gCoeffBuf
                            ELSE Written(k .. to.n - 1)
            /\ k' = IF to.outcome = "next" THEN to.n ELSE k
            /\ pc' = CASE to.outcome = "next" -> "ac"
                       [] to.outcome = "end" -> "transform"
                       [] to.outcome = "error" -> "failed"
  BY DEF DecodeAC
<1>2. k \in 1 .. Last /\ k \in 0 .. Coeffs /\ k < Coeffs /\ pc = "ac"
  BY DEF DecodeAC, IInv, WrittenSoFar, Coeffs, Last
<1> DEFINE to == Symbol(k, r, s)
<1>3. /\ gCoeffBuf' = IF gReduce \/ to.outcome # "next" THEN gCoeffBuf
                      ELSE Written(k .. to.n - 1)
      /\ k' = IF to.outcome = "next" THEN to.n ELSE k
      /\ pc' = CASE to.outcome = "next" -> "ac"
                 [] to.outcome = "end" -> "transform"
                 [] to.outcome = "error" -> "failed"
  BY <1>1, <1>2, SymbolModes
<1>4. /\ to.outcome \in {"next", "end", "error"}
      /\ to.outcome = "next" => to.n \in k + 1 .. Coeffs
  BY <1>2, SymbolInBlock
<1> HIDE DEF to
<1>5. pc' \in {"ac", "transform", "failed"}
  BY <1>3, <1>4
<1>6. k' \in 1 .. Coeffs
  <2>1. k' = k \/ k' \in k + 1 .. Coeffs
    BY <1>3, <1>4
  <2> QED
    BY <1>2, <2>1 DEF Coeffs, Last
<1>7. /\ gCoeffBuf' \in [0 .. Last -> {Stale} \cup (0 .. Last)]
      /\ \A j \in 0 .. (IF gReduce THEN 0 ELSE k' - 1) : gCoeffBuf'[ZAG(j)] = j
  <2>1. CASE gReduce \/ to.outcome # "next"
    <3>1. gCoeffBuf' = gCoeffBuf /\ (gReduce \/ k' = k)
      BY <1>3, <2>1
    <3> QED
      BY <1>2, <3>1 DEF IInv, TypeOK, WrittenSoFar
  <2>2. CASE ~gReduce /\ to.outcome = "next"
    <3>1. gCoeffBuf' = Written(k .. k' - 1) /\ k' \in k + 1 .. Coeffs
      BY <1>3, <1>4, <2>2
    <3>2. k' - 1 \in 0 .. Last /\ k .. k' - 1 \in SUBSET (0 .. Coeffs)
      <4>1. k' \in 1 .. Coeffs /\ k \in 1 .. Last
        BY <1>2, <1>6
      <4>2. k' - 1 \in 0 .. Last
        BY <4>1 DEF Coeffs, Last
      <4>3. k \in 1 .. Coeffs
        BY <4>1 DEF Coeffs, Last
      <4> QED
        BY <4>2, <4>3, IntervalInBlock
    <3>3. ASSUME NEW j \in 0 .. k' - 1 PROVE gCoeffBuf'[ZAG(j)] = j
      <4> DEFINE b == k' - 1
      <4>1. b \in 0 .. Last /\ j \in 0 .. b /\ k \in 1 .. Coeffs
        BY <1>2, <3>2 DEF Coeffs, Last
      <4>2. gCoeffBuf' = Written(k .. b)
        BY <3>1
      <4> HIDE DEF b
      <4>3. Written(k .. b)[ZAG(j)] = IF j < k THEN gCoeffBuf[ZAG(j)] ELSE j
        BY <4>1, WrittenInterval
      <4>4. j < k => gCoeffBuf[ZAG(j)] = j
        BY <1>2, <2>2, <4>1 DEF IInv, WrittenSoFar, Last
      <4> QED
        BY <4>2, <4>3, <4>4
    <3> QED
      BY <2>2, <3>1, <3>2, <3>3, WrittenEffect DEF IInv, TypeOK
  <2> QED
    BY <2>1, <2>2
<1>8. gMaxBlocksPerMCU' = gMaxBlocksPerMCU /\ UNCHANGED <<gReduce, gScanType, mcuBlock, gMCUBuf>>
  BY DEF DecodeAC, gMaxBlocksPerMCU
<1>9. TypeOK'
  BY <1>5, <1>6, <1>7, <1>8 DEF IInv, TypeOK, Coeffs
<1> QED
  BY <1>2, <1>6, <1>7, <1>8, <1>9 DEF IInv, WrittenSoFar, BlocksLeft

LEMMA FullStep == IInv /\ BlockFull => IInv'
<1> SUFFICES ASSUME IInv, BlockFull PROVE IInv'
  OBVIOUS
<1>1. gMaxBlocksPerMCU' = gMaxBlocksPerMCU
  BY DEF BlockFull, gMaxBlocksPerMCU
<1> QED
  BY <1>1 DEF BlockFull, IInv, TypeOK, WrittenSoFar, BlocksLeft

\* The MCU's buffers keep their channels and places.
LEMMA TransformKeepsBuffers ==
  ASSUME gScanType \in ScanTypes, mcuBlock \in 0 .. gMaxBlocksPerMCU - 1
  PROVE  LET buf == IF gReduce THEN transformBlockReduce(gScanType, mcuBlock, gMCUBuf)
                               ELSE transformBlock(gScanType, mcuBlock, gMCUBuf)
         IN  DOMAIN buf = Channels /\ \A c \in Channels : DOMAIN buf[c] = Places
<1> DEFINE Typed(buf) == DOMAIN buf = Channels /\ \A c \in Channels : DOMAIN buf[c] = Places
<1>1. \A dst, block, buf : Typed(copyY(dst, block, buf))
  BY DEF copyY
<1>2. \A comp, h, v, src, dst, buf : Typed(Accumulate(comp, h, v, src, dst, buf))
  BY DEF Accumulate
<1>3. Typed(transformBlockReduce(gScanType, mcuBlock, gMCUBuf))
  BY DEF transformBlockReduce
<1>4. Typed(transformBlock(gScanType, mcuBlock, gMCUBuf))
  <2> HIDE DEF Typed
  <2>1. CASE gScanType = "GRAYSCALE"
    <3>1. mcuBlock = 0
      BY <2>1 DEF gMaxBlocksPerMCU
    <3> QED
      BY <1>1, <3>1 DEF transformBlock
  <2>2. CASE gScanType = "YH1V1"
    <3>1. mcuBlock \in {0, 1, 2}
      BY <2>2 DEF gMaxBlocksPerMCU
    <3> QED
      BY <1>1, <1>2, <2>2, <3>1 DEF transformBlock, convertCb, convertCr
  <2>3. CASE gScanType = "YH1V2"
    <3>1. mcuBlock \in {0, 1, 2, 3}
      BY <2>3 DEF gMaxBlocksPerMCU
    <3> QED
      BY <1>1, <1>2, <2>3, <3>1 DEF transformBlock, upsampleCbV, upsampleCrV
  <2>4. CASE gScanType = "YH2V1"
    <3>1. mcuBlock \in {0, 1, 2, 3}
      BY <2>4 DEF gMaxBlocksPerMCU
    <3> QED
      BY <1>1, <1>2, <2>4, <3>1 DEF transformBlock, upsampleCbH, upsampleCrH
  <2>5. CASE gScanType = "YH2V2"
    <3>1. mcuBlock \in {0, 1, 2, 3, 4, 5}
      BY <2>5 DEF gMaxBlocksPerMCU
    <3> QED
      BY <1>1, <1>2, <2>5, <3>1 DEF transformBlock, upsampleCb, upsampleCr
  <2> QED
    BY <2>1, <2>2, <2>3, <2>4, <2>5, BlockAssumption
<1> QED
  BY <1>3, <1>4

\* All of a block is there when it is transformed.
LEMMA TransformFresh ==
  ASSUME IInv, Transform
  PROVE  IF gReduce THEN gCoeffBuf'[0] = 0 ELSE InZigzag(gCoeffBuf')
<1>1. /\ k \in 1 .. Coeffs
      /\ \A j \in 0 .. (IF gReduce THEN 0 ELSE k - 1) : gCoeffBuf[ZAG(j)] = j
  BY DEF IInv, WrittenSoFar, Transform
<1>2. CASE gReduce
  BY <1>1, <1>2, ZAGAlongZigzag DEF Transform, Rest
<1>3. CASE ~gReduce
  <2>1. gCoeffBuf' = Written(k .. Last)
    BY <1>3 DEF Transform, Rest
  <2>2. ASSUME NEW j \in 0 .. Last PROVE gCoeffBuf'[ZAG(j)] = j
    <3>1. Last \in 0 .. Last
      BY DEF Last, Coeffs
    <3>2. Written(k .. Last)[ZAG(j)] = IF j < k THEN gCoeffBuf[ZAG(j)] ELSE j
      BY <1>1, <3>1, WrittenInterval
    <3>3. j < k => gCoeffBuf[ZAG(j)] = j
      BY <1>1, <1>3 DEF Last, Coeffs
    <3> QED
      BY <2>1, <3>2, <3>3
  <2> QED
    BY <1>3, <2>2, ZAGIsZigzag
<1> QED
  BY <1>2, <1>3

LEMMA TransformStep == IInv /\ Transform => IInv'
<1> SUFFICES ASSUME IInv, Transform PROVE IInv'
  OBVIOUS
<1>1. gMaxBlocksPerMCU' = gMaxBlocksPerMCU /\ gMaxBlocksPerMCU \in {1, 3, 4, 6}
  BY BlocksOfScan DEF Transform, gMaxBlocksPerMCU, IInv, TypeOK
<1>2. mcuBlock \in 0 .. gMaxBlocksPerMCU - 1
  BY <1>1 DEF Transform, IInv, TypeOK, BlocksLeft
<1>3. MCUTyped'
  BY <1>2, TransformKeepsBuffers DEF Transform, IInv, TypeOK, MCUTyped
<1>4. gCoeffBuf' \in [0 .. Last -> {Stale} \cup (0 .. Last)]
  <2>1. k .. Last \in SUBSET (0 .. Coeffs)
    BY DEF IInv, TypeOK, Last, Coeffs
  <2> QED
    BY <2>1, WrittenEffect DEF Transform, Rest, IInv, TypeOK
<1>5. pc' \in {"dc", "returned"} /\ (pc' = "dc" => mcuBlock' < gMaxBlocksPerMCU')
  BY <1>1 DEF Transform
<1>6. TypeOK'
  BY <1>1, <1>2, <1>3, <1>4, <1>5 DEF Transform, IInv, TypeOK, MCUTyped
<1> QED
  BY <1>5, <1>6 DEF IInv, WrittenSoFar, BlocksLeft

LEMMA NextMCUStep == IInv /\ NextMCU => IInv'
<1> SUFFICES ASSUME IInv, NextMCU PROVE IInv'
  OBVIOUS
<1>1. gScanType' \in ScanTypes
  BY DEF NextMCU, IInv, TypeOK
<1>2. gMaxBlocksPerMCU' \in {1, 3, 4, 6}
  BY <1>1, BlockAssumption DEF gMaxBlocksPerMCU
<1>3. MCUTyped'
  BY DEF NextMCU, MCUTyped, StaleMCU
<1> QED
  BY <1>1, <1>2, <1>3 DEF NextMCU, IInv, TypeOK, WrittenSoFar, BlocksLeft, MCUTyped

LEMMA NextStep == IInv /\ [Next]_vars => IInv'
<1> SUFFICES ASSUME IInv, [Next]_vars PROVE IInv'
  OBVIOUS
<1>1. ASSUME UNCHANGED vars PROVE IInv'
  BY <1>1 DEF IInv, vars, TypeOK, WrittenSoFar, BlocksLeft, gMaxBlocksPerMCU
<1>2. CASE Next
  BY <1>2, DCStep, ACStep, FullStep, TransformStep, NextMCUStep DEF Next
<1> QED
  BY <1>1, <1>2

THEOREM BlockInvariance == Spec => []IInv
BY InitIInv, NextStep, PTL DEF Spec

\* The buffers keep their places and k stays within the block, whatever symbols
\* it holds (picojpeg.c:2221, 2239).
THEOREM BlockTypeCorrect == Spec => []TypeOK
BY BlockInvariance, PTL DEF IInv

\* The loops of full and reduce mode agree on every symbol at every place.
THEOREM BlockModesAgree == Spec => []ModesAgree
<1>1. IInv => ModesAgree
  BY SymbolModes DEF IInv, TypeOK, ModesAgree
<1> QED
  BY <1>1, BlockInvariance, PTL

\* transformBlock gets all 64 coefficients of this block, each at its place in
\* the zigzag order, after any symbols and any failure before.
THEOREM BlockFresh == Spec => CoefficientsFresh
<1>1. IInv /\ [Next]_vars =>
        [mcuBlock' = mcuBlock + 1 => IF gReduce THEN gCoeffBuf'[0] = 0
                                      ELSE InZigzag(gCoeffBuf')]_vars
  <2> SUFFICES ASSUME IInv, Next, mcuBlock' = mcuBlock + 1
               PROVE  IF gReduce THEN gCoeffBuf'[0] = 0 ELSE InZigzag(gCoeffBuf')
    OBVIOUS
  <2>1. mcuBlock \in Int
    BY BlocksOfScan DEF IInv, TypeOK
  <2>2. ~DecodeDC /\ ~DecodeAC /\ ~BlockFull /\ ~NextMCU
    BY <2>1 DEF DecodeDC, DecodeAC, BlockFull, NextMCU, IInv, TypeOK
  <2> QED
    BY <2>2, TransformFresh DEF Next
<1> QED
  BY <1>1, BlockInvariance, PTL DEF Spec, CoefficientsFresh
-----------------------------------------------------------------------------
(***************************************************************************)
(* The pixels.  With n blocks transformed, the bytes of the luma blocks    *)
(* among them are what those n blocks make of them.  A luma block replaces *)
(* its own bytes and no other's; a chroma block is added, by one, two or   *)
(* four calls on parts that do not overlap, to every byte of the luma      *)
(* blocks, each with the value that covers it.                             *)
(***************************************************************************)
\* The luma blocks of an MCU, how many pixels a chroma value covers, across and
\* down, and where the values for a luma block begin.
Lumas == Len(BlockOffsets(gScanType))
Across == IF gScanType \in {"YH2V1", "YH2V2"} THEN 2 ELSE 1
Down == IF gScanType \in {"YH1V2", "YH2V2"} THEN 2 ELSE 1
OffsetOf(b) == BlockOffsets(gScanType)[b + 1]
SourceOf(b) == 4 * (Across - 1) * (b % Across) + 32 * (b \div Across)

\* The value at place src and on that covers pixel i of a block.
Covering(src, h, v, i) == src + 8 * ((i \div 8) \div v) + ((i % 8) \div h)

\* What a byte holds with n of its two chroma values.
Pixel(c, luma, cb, cr, n) ==
  IF n <= 0 THEN <<luma>>
  ELSE IF n = 1 THEN (IF c = "R" THEN <<luma>> ELSE <<luma, cb>>)
  ELSE IF c = "R" THEN <<luma, cr>>
  ELSE IF c = "G" THEN <<luma, cb, cr>>
  ELSE <<luma, cb>>

From(b, i) == IF gReduce THEN 0 ELSE Covering(SourceOf(b), Across, Down, i)
PixelOf(c, b, i, n) == Pixel(c, Y(b, i), Chroma("Cb", From(b, i)), Chroma("Cr", From(b, i)), n)

\* The pixels and the channels that are put together.
Bytes == 0 .. 63
Shown == IF gReduce THEN {0} ELSE Bytes
Shades == IF gScanType = "GRAYSCALE" THEN {"R"} ELSE Channels

\* The MCU's pixels so far.
PixelsSoFar ==
  pc # "failed" =>
    \A b \in 0 .. Lumas - 1, i \in Shown, c \in Shades :
      b < mcuBlock => gMCUBuf[c][OffsetOf(b) + i] = PixelOf(c, b, i, mcuBlock - Lumas)

AllBlocks == pc = "returned" => mcuBlock = gMaxBlocksPerMCU

\* The layout of each scan type.
LEMMA Layout ==
  ASSUME gScanType \in ScanTypes
  PROVE  \/ /\ gScanType = "GRAYSCALE" /\ Lumas = 1 /\ gMaxBlocksPerMCU = 1
            /\ OffsetOf(0) = 0 /\ Across = 1 /\ Down = 1
         \/ /\ gScanType = "YH1V1" /\ Lumas = 1 /\ gMaxBlocksPerMCU = 3
            /\ OffsetOf(0) = 0 /\ SourceOf(0) = 0 /\ Across = 1 /\ Down = 1
         \/ /\ gScanType = "YH1V2" /\ Lumas = 2 /\ gMaxBlocksPerMCU = 4
            /\ OffsetOf(0) = 0 /\ OffsetOf(1) = 128
            /\ SourceOf(0) = 0 /\ SourceOf(1) = 32 /\ Across = 1 /\ Down = 2
         \/ /\ gScanType = "YH2V1" /\ Lumas = 2 /\ gMaxBlocksPerMCU = 4
            /\ OffsetOf(0) = 0 /\ OffsetOf(1) = 64
            /\ SourceOf(0) = 0 /\ SourceOf(1) = 4 /\ Across = 2 /\ Down = 1
         \/ /\ gScanType = "YH2V2" /\ Lumas = 4 /\ gMaxBlocksPerMCU = 6
            /\ OffsetOf(0) = 0 /\ OffsetOf(1) = 64 /\ OffsetOf(2) = 128 /\ OffsetOf(3) = 192
            /\ SourceOf(0) = 0 /\ SourceOf(1) = 4 /\ SourceOf(2) = 32 /\ SourceOf(3) = 36
            /\ Across = 2 /\ Down = 2
<1> USE DEF Lumas, BlockOffsets, gMaxBlocksPerMCU, OffsetOf, SourceOf, Across, Down
<1>1. CASE gScanType = "GRAYSCALE"
  BY <1>1
<1>2. CASE gScanType = "YH1V1"
  BY <1>2
<1>3. CASE gScanType = "YH1V2"
  BY <1>3
<1>4. CASE gScanType = "YH2V1"
  BY <1>4
<1>5. CASE gScanType = "YH2V2"
  BY <1>5
<1> QED
  BY <1>1, <1>2, <1>3, <1>4, <1>5, BlockAssumption

\* Where the blocks of the buffers begin.
Starts == {0, 64, 128, 192}

\* What copying a block, and adding to one, does to a byte in it and to others.
LEMMA CopyEffect ==
  ASSUME NEW dst \in Starts, NEW block \in Int, NEW buf, NEW c \in Channels
  PROVE  /\ \A i \in Bytes : copyY(dst, block, buf)[c][dst + i] = <<Y(block, i)>>
         /\ \A j \in Places : j \notin BlockAt(dst) => copyY(dst, block, buf)[c][j] = buf[c][j]
<1>1. ASSUME NEW i \in Bytes PROVE copyY(dst, block, buf)[c][dst + i] = <<Y(block, i)>>
  <2>1. dst + i \in Places /\ dst + i \in BlockAt(dst) /\ (dst + i) - dst = i
    BY DEF Starts, Bytes, Places, BufSize, BlockAt
  <2> QED
    BY <2>1 DEF copyY
<1> QED
  BY <1>1 DEF copyY

LEMMA AddEffect ==
  ASSUME NEW dst \in Starts, NEW comp, NEW h, NEW v, NEW src, NEW buf, NEW c \in Channels
  PROVE  /\ \A i \in Bytes : Accumulate(comp, h, v, src, dst, buf)[c][dst + i] =
                                 IF c \in Affected(comp)
                                   THEN Append(buf[c][dst + i], Chroma(comp, Covering(src, h, v, i)))
                                   ELSE buf[c][dst + i]
         /\ \A j \in Places : j \notin BlockAt(dst) =>
              Accumulate(comp, h, v, src, dst, buf)[c][j] = buf[c][j]
<1>1. ASSUME NEW i \in Bytes
      PROVE  Accumulate(comp, h, v, src, dst, buf)[c][dst + i] =
               IF c \in Affected(comp)
                 THEN Append(buf[c][dst + i], Chroma(comp, Covering(src, h, v, i)))
                 ELSE buf[c][dst + i]
  <2>1. dst + i \in Places /\ dst + i \in BlockAt(dst) /\ (dst + i) - dst = i
    BY DEF Starts, Bytes, Places, BufSize, BlockAt
  <2> QED
    BY <2>1 DEF Accumulate, Covering
<1> QED
  BY <1>1 DEF Accumulate

\* Blocks do not overlap.
LEMMA Apart ==
  ASSUME NEW d \in Starts, NEW e \in Starts, d # e, NEW i \in Bytes
  PROVE  e + i \in Places /\ e + i \notin BlockAt(d)
BY DEF Starts, Bytes, Places, BufSize, BlockAt

LEMMA CopyAt ==
  ASSUME NEW d \in Starts, NEW e \in Starts, NEW block \in Int, NEW buf, NEW c \in Channels, NEW i \in Bytes
  PROVE  copyY(d, block, buf)[c][e + i] = IF e = d THEN <<Y(block, i)>> ELSE buf[c][e + i]
<1>1. CASE e = d
  BY <1>1, CopyEffect
<1>2. CASE e # d
  <2>1. e + i \in Places /\ e + i \notin BlockAt(d)
    BY <1>2, Apart
  <2> QED
    BY <1>2, <2>1, CopyEffect
<1> QED
  BY <1>1, <1>2

LEMMA AddAt ==
  ASSUME NEW d \in Starts, NEW e \in Starts, NEW comp, NEW h, NEW v, NEW src, NEW buf,
         NEW c \in Channels, NEW i \in Bytes
  PROVE  Accumulate(comp, h, v, src, d, buf)[c][e + i] =
           IF e = d /\ c \in Affected(comp)
             THEN Append(buf[c][e + i], Chroma(comp, Covering(src, h, v, i)))
             ELSE buf[c][e + i]
<1>1. CASE e = d
  BY <1>1, AddEffect
<1>2. CASE e # d
  <2>1. e + i \in Places /\ e + i \notin BlockAt(d)
    BY <1>2, Apart
  <2> QED
    BY <1>2, <2>1, AddEffect
<1> QED
  BY <1>1, <1>2

\* Byte i of a block with the chroma value that covers it.
With(old, comp, src, h, v, i, c) ==
  IF c \in Affected(comp) THEN Append(old, Chroma(comp, Covering(src, h, v, i))) ELSE old

LEMMA AddOne ==
  ASSUME NEW comp, NEW h, NEW v, NEW buf, NEW c \in Channels, NEW i \in Bytes
  PROVE  Accumulate(comp, h, v, 0, 0, buf)[c][0 + i] = With(buf[c][0 + i], comp, 0, h, v, i, c)
BY AddAt DEF Starts, With

LEMMA AddTwo ==
  ASSUME NEW comp, NEW h, NEW v, NEW src, NEW d \in Starts \ {0}, NEW buf,
         NEW c \in Channels, NEW i \in Bytes
  PROVE  LET new == Accumulate(comp, h, v, src, d, Accumulate(comp, h, v, 0, 0, buf))
         IN  /\ new[c][0 + i] = With(buf[c][0 + i], comp, 0, h, v, i, c)
             /\ new[c][d + i] = With(buf[c][d + i], comp, src, h, v, i, c)
<1> DEFINE one == Accumulate(comp, h, v, 0, 0, buf)
           two == Accumulate(comp, h, v, src, d, one)
<1>1. 0 \in Starts /\ d \in Starts /\ d # 0
  BY DEF Starts
<1>2. /\ one[c][0 + i] = With(buf[c][0 + i], comp, 0, h, v, i, c)
      /\ one[c][d + i] = buf[c][d + i]
  BY <1>1, AddAt DEF With
<1> HIDE DEF one
<1>3. /\ two[c][0 + i] = one[c][0 + i]
      /\ two[c][d + i] = With(one[c][d + i], comp, src, h, v, i, c)
  BY <1>1, AddAt DEF With
<1> QED
  BY <1>2, <1>3 DEF one

LEMMA AddFour ==
  ASSUME NEW comp, NEW buf, NEW c \in Channels, NEW i \in Bytes
  PROVE  LET new == Accumulate(comp, 2, 2, 36, 192, Accumulate(comp, 2, 2, 32, 128,
                      Accumulate(comp, 2, 2, 4, 64, Accumulate(comp, 2, 2, 0, 0, buf))))
         IN  /\ new[c][0 + i] = With(buf[c][0 + i], comp, 0, 2, 2, i, c)
             /\ new[c][64 + i] = With(buf[c][64 + i], comp, 4, 2, 2, i, c)
             /\ new[c][128 + i] = With(buf[c][128 + i], comp, 32, 2, 2, i, c)
             /\ new[c][192 + i] = With(buf[c][192 + i], comp, 36, 2, 2, i, c)
<1> DEFINE two == Accumulate(comp, 2, 2, 4, 64, Accumulate(comp, 2, 2, 0, 0, buf))
           three == Accumulate(comp, 2, 2, 32, 128, two)
           four == Accumulate(comp, 2, 2, 36, 192, three)
<1>1. /\ two[c][0 + i] = With(buf[c][0 + i], comp, 0, 2, 2, i, c)
      /\ two[c][64 + i] = With(buf[c][64 + i], comp, 4, 2, 2, i, c)
  BY AddTwo DEF Starts
<1>2. two[c][128 + i] = buf[c][128 + i] /\ two[c][192 + i] = buf[c][192 + i]
  <2> DEFINE one == Accumulate(comp, 2, 2, 0, 0, buf)
  <2>1. one[c][128 + i] = buf[c][128 + i] /\ one[c][192 + i] = buf[c][192 + i]
    BY AddAt DEF Starts
  <2> HIDE DEF one
  <2>2. /\ Accumulate(comp, 2, 2, 4, 64, one)[c][128 + i] = one[c][128 + i]
        /\ Accumulate(comp, 2, 2, 4, 64, one)[c][192 + i] = one[c][192 + i]
    BY AddAt DEF Starts
  <2> QED
    BY <2>1, <2>2 DEF one
<1> HIDE DEF two
<1>3. /\ three[c][0 + i] = two[c][0 + i] /\ three[c][64 + i] = two[c][64 + i]
      /\ three[c][128 + i] = With(two[c][128 + i], comp, 32, 2, 2, i, c)
      /\ three[c][192 + i] = two[c][192 + i]
  BY AddAt DEF Starts, With
<1> HIDE DEF three
<1>4. /\ four[c][0 + i] = three[c][0 + i] /\ four[c][64 + i] = three[c][64 + i]
      /\ four[c][128 + i] = three[c][128 + i]
      /\ four[c][192 + i] = With(three[c][192 + i], comp, 36, 2, 2, i, c)
  BY AddAt DEF Starts, With
<1> QED
  BY <1>1, <1>2, <1>3, <1>4 DEF three, two

\* What byte i of block b, which held old, is after block mcuBlock: a luma block
\* replaces its own bytes, a chroma block is added to those of every luma block.
ChromaOf == IF mcuBlock = Lumas THEN "Cb" ELSE "Cr"
Turned(c, b, i, old) ==
  CASE mcuBlock < Lumas -> IF b = mcuBlock THEN <<Y(b, i)>> ELSE old
    [] mcuBlock >= Lumas -> IF c \in Affected(ChromaOf)
                              THEN Append(old, Chroma(ChromaOf, From(b, i))) ELSE old

LEMMA OffsetsApart ==
  ASSUME gScanType \in ScanTypes, NEW b \in 0 .. Lumas - 1, NEW d \in 0 .. Lumas - 1
  PROVE  OffsetOf(b) \in Starts /\ (OffsetOf(b) = OffsetOf(d) <=> b = d)
BY Layout DEF Starts

LEMMA FullLuma ==
  ASSUME gScanType \in ScanTypes, mcuBlock \in 0 .. Lumas - 1,
         NEW b \in 0 .. Lumas - 1, NEW i \in Bytes, NEW c \in Channels
  PROVE  transformBlock(gScanType, mcuBlock, gMCUBuf)[c][OffsetOf(b) + i] =
           Turned(c, b, i, gMCUBuf[c][OffsetOf(b) + i])
<1>1. transformBlock(gScanType, mcuBlock, gMCUBuf) = copyY(OffsetOf(mcuBlock), mcuBlock, gMCUBuf)
  <2>1. CASE mcuBlock = 0
    BY <2>1, Layout DEF transformBlock
  <2>2. CASE gScanType = "YH1V2" /\ mcuBlock = 1
    BY <2>2, Layout DEF transformBlock
  <2>3. CASE gScanType = "YH2V1" /\ mcuBlock = 1
    BY <2>3, Layout DEF transformBlock
  <2>4. CASE gScanType = "YH2V2" /\ mcuBlock \in 1 .. 3
    <3>1. OffsetOf(mcuBlock) = 64 * mcuBlock
      BY <2>4, Layout
    <3> QED
      BY <2>4, <3>1 DEF transformBlock
  <2> QED
    BY <2>1, <2>2, <2>3, <2>4, Layout
<1>2. /\ OffsetOf(b) \in Starts /\ OffsetOf(mcuBlock) \in Starts
      /\ OffsetOf(b) = OffsetOf(mcuBlock) <=> b = mcuBlock
  BY OffsetsApart
<1>3. copyY(OffsetOf(mcuBlock), mcuBlock, gMCUBuf)[c][OffsetOf(b) + i] =
        IF OffsetOf(b) = OffsetOf(mcuBlock) THEN <<Y(mcuBlock, i)>> ELSE gMCUBuf[c][OffsetOf(b) + i]
  <2>1. mcuBlock \in Int
    BY Layout
  <2>2. \A d \in Starts, e \in Starts : copyY(d, mcuBlock, gMCUBuf)[c][e + i] =
          IF e = d THEN <<Y(mcuBlock, i)>> ELSE gMCUBuf[c][e + i]
    BY <2>1, CopyAt
  <2>3. copyY(OffsetOf(mcuBlock), mcuBlock, gMCUBuf)[c][OffsetOf(b) + i] =
          IF OffsetOf(b) = OffsetOf(mcuBlock) THEN <<Y(mcuBlock, i)>>
          ELSE gMCUBuf[c][OffsetOf(b) + i]
    BY <1>2, <2>2
  <2> QED
    BY <2>3
<1>4. mcuBlock < Lumas /\ ~ mcuBlock >= Lumas
  BY Layout
<1>5. CASE b = mcuBlock
  BY <1>1, <1>3, <1>4, <1>5 DEF Turned
<1>6. CASE b # mcuBlock
  BY <1>1, <1>2, <1>3, <1>4, <1>6 DEF Turned
<1> QED
  BY <1>5, <1>6

\* Each value of a chroma block goes to the pixels it covers.
LEMMA FullChroma ==
  ASSUME gScanType \in ScanTypes, mcuBlock \in Lumas .. gMaxBlocksPerMCU - 1, ~gReduce,
         NEW b \in 0 .. Lumas - 1, NEW i \in Bytes, NEW c \in Channels
  PROVE  transformBlock(gScanType, mcuBlock, gMCUBuf)[c][OffsetOf(b) + i] =
           Turned(c, b, i, gMCUBuf[c][OffsetOf(b) + i])
<1> DEFINE new == transformBlock(gScanType, mcuBlock, gMCUBuf)
           old == gMCUBuf[c][OffsetOf(b) + i]
<1>1. new[c][OffsetOf(b) + i] = With(old, ChromaOf, SourceOf(b), Across, Down, i, c)
  <2>1. CASE gScanType = "GRAYSCALE"
    BY <2>1, Layout
  <2>2. CASE gScanType = "YH1V1"
    <3>1. mcuBlock \in {1, 2} /\ b = 0 /\ Lumas = 1
      BY <2>2, Layout
    <3>2. new = Accumulate(ChromaOf, 1, 1, 0, 0, gMCUBuf)
      BY <2>2, <3>1 DEF transformBlock, ChromaOf, convertCb, convertCr
    <3>3. new[c][0 + i] = With(gMCUBuf[c][0 + i], ChromaOf, 0, 1, 1, i, c)
      BY <3>2, AddOne
    <3> QED
      BY <2>2, <3>1, <3>3, Layout
  <2>3. CASE gScanType = "YH1V2"
    <3>1. mcuBlock \in {2, 3} /\ b \in {0, 1} /\ Lumas = 2
      BY <2>3, Layout
    <3>2. new = Accumulate(ChromaOf, 1, 2, 32, 128, Accumulate(ChromaOf, 1, 2, 0, 0, gMCUBuf))
      BY <2>3, <3>1 DEF transformBlock, ChromaOf, upsampleCbV, upsampleCrV
    <3>3. /\ new[c][0 + i] = With(gMCUBuf[c][0 + i], ChromaOf, 0, 1, 2, i, c)
          /\ new[c][128 + i] = With(gMCUBuf[c][128 + i], ChromaOf, 32, 1, 2, i, c)
      BY <3>2, AddTwo DEF Starts
    <3> QED
      BY <2>3, <3>1, <3>3, Layout
  <2>4. CASE gScanType = "YH2V1"
    <3>1. mcuBlock \in {2, 3} /\ b \in {0, 1} /\ Lumas = 2
      BY <2>4, Layout
    <3>2. new = Accumulate(ChromaOf, 2, 1, 4, 64, Accumulate(ChromaOf, 2, 1, 0, 0, gMCUBuf))
      BY <2>4, <3>1 DEF transformBlock, ChromaOf, upsampleCbH, upsampleCrH
    <3>3. /\ new[c][0 + i] = With(gMCUBuf[c][0 + i], ChromaOf, 0, 2, 1, i, c)
          /\ new[c][64 + i] = With(gMCUBuf[c][64 + i], ChromaOf, 4, 2, 1, i, c)
      BY <3>2, AddTwo DEF Starts
    <3> QED
      BY <2>4, <3>1, <3>3, Layout
  <2>5. CASE gScanType = "YH2V2"
    <3>1. mcuBlock \in {4, 5} /\ b \in 0 .. 3 /\ Lumas = 4
      BY <2>5, Layout
    <3>2. new = Accumulate(ChromaOf, 2, 2, 36, 192, Accumulate(ChromaOf, 2, 2, 32, 128,
                  Accumulate(ChromaOf, 2, 2, 4, 64, Accumulate(ChromaOf, 2, 2, 0, 0, gMCUBuf))))
      BY <2>5, <3>1 DEF transformBlock, ChromaOf, upsampleCb, upsampleCr
    <3>3. /\ new[c][0 + i] = With(gMCUBuf[c][0 + i], ChromaOf, 0, 2, 2, i, c)
          /\ new[c][64 + i] = With(gMCUBuf[c][64 + i], ChromaOf, 4, 2, 2, i, c)
          /\ new[c][128 + i] = With(gMCUBuf[c][128 + i], ChromaOf, 32, 2, 2, i, c)
          /\ new[c][192 + i] = With(gMCUBuf[c][192 + i], ChromaOf, 36, 2, 2, i, c)
      BY <3>2, AddFour
    <3> QED
      BY <2>5, <3>1, <3>3, Layout
  <2> QED
    BY <2>1, <2>2, <2>3, <2>4, <2>5, BlockAssumption
<1>2. mcuBlock >= Lumas /\ ~ mcuBlock < Lumas
  BY Layout
<1> HIDE DEF new, old
<1> QED
  BY <1>1, <1>2 DEF Turned, From, With, new, old

\* Reduce mode does the same to the first byte of each block.
LEMMA ReducedBlock ==
  ASSUME gScanType \in ScanTypes, mcuBlock \in 0 .. gMaxBlocksPerMCU - 1, gReduce,
         NEW b \in 0 .. Lumas - 1, NEW c \in Shades
  PROVE  transformBlockReduce(gScanType, mcuBlock, gMCUBuf)[c][OffsetOf(b) + 0] =
           Turned(c, b, 0, gMCUBuf[c][OffsetOf(b) + 0])
<1> DEFINE at == BlockOffsets(gScanType)
           new == transformBlockReduce(gScanType, mcuBlock, gMCUBuf)
           p == OffsetOf(b) + 0
<1>1. p \in Places /\ p = at[b + 1] /\ Len(at) = Lumas /\ b + 1 \in 1 .. Len(at)
  <2>1. OffsetOf(b) \in Starts
    BY OffsetsApart
  <2>2. p \in Places
    BY <2>1 DEF Starts, Places, BufSize
  <2>3. Len(at) = Lumas
    BY DEF Lumas
  <2>4. b + 1 \in 1 .. Lumas
    BY Layout
  <2>5. p = OffsetOf(b)
    BY <2>1 DEF Starts
  <2> QED
    BY <2>2, <2>3, <2>4, <2>5 DEF OffsetOf
<1>2. c \in Channels /\ c \in (IF gScanType = "GRAYSCALE" THEN {"R"} ELSE Channels)
  BY DEF Shades, Channels
<1>3. CASE mcuBlock < Lumas
  <2>1. p = at[mcuBlock + 1] <=> b = mcuBlock
    BY <1>1, <1>3, OffsetsApart, Layout DEF OffsetOf
  <2>2. new[c][p] = IF b = mcuBlock THEN <<Y(mcuBlock, 0)>> ELSE gMCUBuf[c][p]
    BY <1>1, <1>2, <1>3, <2>1 DEF transformBlockReduce
  <2>3. ~ mcuBlock >= Lumas
    BY <1>3, Layout
  <2>4. CASE b = mcuBlock
    BY <1>3, <2>2, <2>3, <2>4 DEF Turned
  <2>5. CASE b # mcuBlock
    BY <1>3, <2>2, <2>3, <2>5 DEF Turned
  <2> QED
    BY <2>4, <2>5
<1>4. CASE mcuBlock >= Lumas
  <2>1. \E n \in 1 .. Len(at) : p = at[n]
    BY <1>1
  <2>2. new[c][p] = IF c \in Affected(ChromaOf) THEN Append(gMCUBuf[c][p], Chroma(ChromaOf, 0))
                    ELSE gMCUBuf[c][p]
    BY <1>1, <1>2, <1>4, <2>1 DEF transformBlockReduce, ChromaOf
  <2> QED
    BY <1>4, <2>2 DEF Turned, From
<1> QED
  BY <1>3, <1>4, Layout

LEMMA AppendIs ==
  ASSUME NEW S, NEW s \in Seq(S), NEW t \in Seq(S), NEW e \in S, Len(t) = Len(s) + 1,
         \A i \in 1 .. Len(s) : t[i] = s[i], t[Len(s) + 1] = e
  PROVE  Append(s, e) = t
<1> DEFINE u == Append(s, e)
<1>1. /\ u \in Seq(S) /\ Len(u) = Len(s) + 1 /\ u[Len(s) + 1] = e
      /\ \A i \in 1 .. Len(s) : u[i] = s[i]
  BY AppendProperties
<1>2. Len(s) \in Nat
  OBVIOUS
<1> HIDE DEF u
<1>3. ASSUME NEW i \in 1 .. Len(u) PROVE u[i] = t[i]
  <2>1. i \in 1 .. Len(s) \/ i = Len(s) + 1
    BY <1>1, <1>2
  <2> QED
    BY <1>1, <2>1
<1>4. u = t
  BY <1>1, <1>3, SeqEqual
<1> QED
  BY <1>4 DEF u

LEMMA Appended ==
  ASSUME NEW l, NEW b, NEW r
  PROVE  Append(<<l>>, b) = <<l, b>> /\ Append(<<l, b>>, r) = <<l, b, r>>
<1> DEFINE S == {l, b, r}
           one == <<l>>
           two == <<l, b>>
           three == <<l, b, r>>
<1>1. one \in Seq(S) /\ two \in Seq(S) /\ three \in Seq(S) /\ b \in S /\ r \in S
  OBVIOUS
<1>2. Len(one) = 1 /\ Len(two) = 2 /\ Len(three) = 3
  OBVIOUS
<1>3. /\ two[1] = one[1] /\ two[2] = b
      /\ three[1] = two[1] /\ three[2] = two[2] /\ three[3] = r
  OBVIOUS
<1> HIDE DEF S, one, two, three
<1>4. Append(one, b) = two
  <2>1. Len(two) = Len(one) + 1 /\ two[Len(one) + 1] = b
    BY <1>2, <1>3
  <2>2. \A i \in 1 .. Len(one) : two[i] = one[i]
    BY <1>2, <1>3
  <2> QED
    BY <1>1, <2>1, <2>2, AppendIs, Zenon
<1>5. Append(two, r) = three
  <2>1. Len(three) = Len(two) + 1 /\ three[Len(two) + 1] = r
    BY <1>2, <1>3
  <2>2. \A i \in 1 .. Len(two) : three[i] = two[i]
    BY <1>2, <1>3
  <2> QED
    BY <1>1, <2>1, <2>2, AppendIs, Zenon
<1> QED
  BY <1>4, <1>5 DEF one, two, three

LEMMA PixelTurned ==
  ASSUME gScanType \in ScanTypes, mcuBlock \in 0 .. gMaxBlocksPerMCU - 1,
         NEW b \in 0 .. Lumas - 1, b < mcuBlock + 1, NEW i \in Bytes, NEW c \in Channels,
         NEW old, b < mcuBlock => old = PixelOf(c, b, i, mcuBlock - Lumas)
  PROVE  Turned(c, b, i, old) = PixelOf(c, b, i, (mcuBlock + 1) - Lumas)
<1>1. mcuBlock \in Int /\ Lumas \in Int /\ (mcuBlock < Lumas \/ mcuBlock \in {Lumas, Lumas + 1})
  BY Layout
<1>2. CASE mcuBlock < Lumas
  <2>1. mcuBlock - Lumas <= 0 /\ (mcuBlock + 1) - Lumas <= 0 /\ ~ mcuBlock >= Lumas
    BY <1>1, <1>2
  <2>2. PixelOf(c, b, i, mcuBlock - Lumas) = <<Y(b, i)>>
    BY <2>1 DEF PixelOf, Pixel
  <2>3. PixelOf(c, b, i, (mcuBlock + 1) - Lumas) = <<Y(b, i)>>
    BY <2>1 DEF PixelOf, Pixel
  <2>4. b # mcuBlock => b < mcuBlock
    BY <1>1
  <2> QED
    BY <1>2, <2>1, <2>2, <2>3, <2>4 DEF Turned
<1>3. CASE mcuBlock = Lumas
  <2>1. /\ b < mcuBlock /\ mcuBlock - Lumas = 0 /\ (mcuBlock + 1) - Lumas = 1
        /\ mcuBlock >= Lumas /\ ~ mcuBlock < Lumas /\ ChromaOf = "Cb"
    BY <1>1, <1>3 DEF ChromaOf
  <2>2. old = <<Y(b, i)>>
    BY <2>1 DEF PixelOf, Pixel
  <2>3. PixelOf(c, b, i, 1) = IF c = "R" THEN <<Y(b, i)>> ELSE <<Y(b, i), Chroma("Cb", From(b, i))>>
    BY DEF PixelOf, Pixel
  <2>4. Append(<<Y(b, i)>>, Chroma("Cb", From(b, i))) = <<Y(b, i), Chroma("Cb", From(b, i))>>
    BY Appended
  <2>5. c \in Affected("Cb") <=> c # "R"
    BY DEF Affected, Channels
  <2> QED
    BY <2>1, <2>2, <2>3, <2>4, <2>5 DEF Turned
<1>4. CASE mcuBlock = Lumas + 1
  <2>1. /\ b < mcuBlock /\ mcuBlock - Lumas = 1 /\ (mcuBlock + 1) - Lumas = 2
        /\ mcuBlock >= Lumas /\ ~ mcuBlock < Lumas /\ ChromaOf = "Cr"
    BY <1>1, <1>4 DEF ChromaOf
  <2> DEFINE luma == Y(b, i)
             cb == Chroma("Cb", From(b, i))
             cr == Chroma("Cr", From(b, i))
  <2>2. old = IF c = "R" THEN <<luma>> ELSE <<luma, cb>>
    BY <2>1 DEF PixelOf, Pixel
  <2>3. PixelOf(c, b, i, 2) = IF c = "R" THEN <<luma, cr>>
                              ELSE IF c = "G" THEN <<luma, cb, cr>> ELSE <<luma, cb>>
    BY DEF PixelOf, Pixel
  <2>4. Turned(c, b, i, old) = IF c \in Affected("Cr") THEN Append(old, cr) ELSE old
    BY <2>1 DEF Turned
  <2>5. c \in {"R", "G", "B"} /\ (c \in Affected("Cr") <=> c # "B")
    BY DEF Affected, Channels
  <2> HIDE DEF luma, cb, cr
  <2>6. Append(<<luma>>, cr) = <<luma, cr>> /\ Append(<<luma, cb>>, cr) = <<luma, cb, cr>>
    BY Appended
  <2> QED
    BY <2>1, <2>2, <2>3, <2>4, <2>5, <2>6
<1> QED
  BY <1>1, <1>2, <1>3, <1>4

LEMMA PixelsStep == IInv /\ PixelsSoFar /\ Transform => PixelsSoFar'
<1> SUFFICES ASSUME IInv, PixelsSoFar, Transform PROVE PixelsSoFar'
  OBVIOUS
<1>1. /\ gScanType \in ScanTypes /\ gReduce \in BOOLEAN
      /\ mcuBlock \in 0 .. gMaxBlocksPerMCU - 1 /\ mcuBlock' = mcuBlock + 1
  <2>1. gMaxBlocksPerMCU \in {1, 3, 4, 6}
    BY BlocksOfScan DEF IInv, TypeOK
  <2> QED
    BY <2>1 DEF Transform, IInv, TypeOK, BlocksLeft
<1>2. /\ Lumas' = Lumas /\ Shown' = Shown /\ Shades' = Shades
      /\ \A b : OffsetOf(b)' = OffsetOf(b)
      /\ \A c, b, i, n : PixelOf(c, b, i, n)' = PixelOf(c, b, i, n)
  BY DEF Transform, Lumas, Shown, Shades, OffsetOf, PixelOf, From, SourceOf, Across, Down
<1>3. ASSUME NEW b \in 0 .. Lumas - 1, NEW i \in Shown, NEW c \in Shades, b < mcuBlock + 1
      PROVE  gMCUBuf'[c][OffsetOf(b) + i] = PixelOf(c, b, i, (mcuBlock + 1) - Lumas)
  <2> DEFINE old == gMCUBuf[c][OffsetOf(b) + i]
  <2>1. i \in Bytes /\ c \in Channels /\ (gReduce => i = 0)
    BY DEF Shown, Bytes, Shades, Channels
  <2>2. gMCUBuf'[c][OffsetOf(b) + i] = Turned(c, b, i, old)
    <3>1. CASE gReduce
      BY <1>1, <2>1, <3>1, ReducedBlock DEF Transform
    <3>2. CASE ~gReduce /\ mcuBlock \in 0 .. Lumas - 1
      BY <1>1, <2>1, <3>2, FullLuma DEF Transform
    <3>3. CASE ~gReduce /\ mcuBlock \in Lumas .. gMaxBlocksPerMCU - 1
      BY <1>1, <2>1, <3>3, FullChroma DEF Transform
    <3> QED
      BY <1>1, <3>1, <3>2, <3>3, Layout
  <2>3. b < mcuBlock => old = PixelOf(c, b, i, mcuBlock - Lumas)
    BY DEF PixelsSoFar, Transform
  <2> HIDE DEF old
  <2> QED
    BY <1>1, <1>3, <2>1, <2>2, <2>3, PixelTurned
<1> QED
  BY <1>1, <1>2, <1>3 DEF PixelsSoFar

LEMMA ACOutcomes == IInv /\ DecodeAC => pc' \in {"ac", "transform", "failed"}
<1> SUFFICES ASSUME IInv, DecodeAC PROVE pc' \in {"ac", "transform", "failed"}
  OBVIOUS
<1>1. k \in 1 .. Last /\ k \in 0 .. Coeffs /\ k < Coeffs
  BY DEF DecodeAC, IInv, WrittenSoFar, Coeffs, Last
<1>2. \A r \in 0 .. MaxRun, s \in {0, 1} :
        /\ Symbol(k, r, s) = SymbolReduced(k, r, s)
        /\ Symbol(k, r, s).outcome \in {"next", "end", "error"}
  BY <1>1, SymbolInBlock, SymbolModes
<1> QED
  BY <1>2 DEF DecodeAC

LEMMA PixelsInvariant == Spec => [](PixelsSoFar /\ AllBlocks)
<1>1. Init => PixelsSoFar /\ AllBlocks
  <2> SUFFICES ASSUME Init PROVE PixelsSoFar /\ AllBlocks
    OBVIOUS
  <2>1. mcuBlock = 0 /\ pc = "dc"
    BY DEF Init
  <2> QED
    BY <2>1, BlockAssumption DEF PixelsSoFar, AllBlocks
<1>2. IInv /\ PixelsSoFar /\ AllBlocks /\ [Next]_vars => (PixelsSoFar /\ AllBlocks)'
  <2> SUFFICES ASSUME IInv, PixelsSoFar, AllBlocks, [Next]_vars PROVE (PixelsSoFar /\ AllBlocks)'
    OBVIOUS
  <2>1. ASSUME UNCHANGED <<gReduce, gScanType, mcuBlock, gMCUBuf>>, pc # "failed" \/ pc' = pc,
               pc' # "returned" \/ pc' = pc
        PROVE  (PixelsSoFar /\ AllBlocks)'
    <3>1. /\ Lumas' = Lumas /\ Shown' = Shown /\ Shades' = Shades
          /\ gMaxBlocksPerMCU' = gMaxBlocksPerMCU
          /\ \A b : OffsetOf(b)' = OffsetOf(b)
          /\ \A c, b, i, n : PixelOf(c, b, i, n)' = PixelOf(c, b, i, n)
      BY <2>1 DEF Lumas, Shown, Shades, OffsetOf, PixelOf, From, SourceOf, Across, Down,
                  gMaxBlocksPerMCU
    <3>2. PixelsSoFar'
      BY <2>1, <3>1 DEF PixelsSoFar
    <3> QED
      BY <2>1, <3>1, <3>2 DEF AllBlocks
  <2>2. CASE UNCHANGED vars
    BY <2>1, <2>2 DEF vars
  <2>3. CASE DecodeDC
    BY <2>1, <2>3 DEF DecodeDC
  <2>4. CASE DecodeAC
    <3>1. pc = "ac" /\ pc' # "returned"
      <4>1. pc' \in {"ac", "transform", "failed"}
        BY <2>4, ACOutcomes
      <4> QED
        BY <2>4, <4>1 DEF DecodeAC
    <3> QED
      BY <2>1, <2>4, <3>1 DEF DecodeAC
  <2>5. CASE BlockFull
    BY <2>1, <2>5 DEF BlockFull
  <2>6. CASE Transform
    <3>1. PixelsSoFar'
      BY <2>6, PixelsStep
    <3>2. gMaxBlocksPerMCU' = gMaxBlocksPerMCU
      BY <2>6 DEF Transform, gMaxBlocksPerMCU
    <3>3. gMaxBlocksPerMCU \in Int /\ mcuBlock \in Int /\ mcuBlock < gMaxBlocksPerMCU
      BY <2>6, BlocksOfScan DEF Transform, IInv, TypeOK, BlocksLeft
    <3> QED
      BY <2>6, <3>1, <3>2, <3>3 DEF Transform, AllBlocks
  <2>7. CASE NextMCU
    <3>1. mcuBlock' = 0 /\ pc' = "dc"
      BY <2>7 DEF NextMCU
    <3>2. \A b \in 0 .. (Lumas' - 1) : ~ b < mcuBlock'
      BY <3>1
    <3> QED
      BY <3>1, <3>2 DEF PixelsSoFar, AllBlocks
  <2> QED
    BY <2>2, <2>3, <2>4, <2>5, <2>6, <2>7 DEF Next
<1> QED
  BY <1>1, <1>2, BlockInvariance, PTL DEF Spec

\* Where a pixel of the MCU is: in which luma block, at which of its bytes, and
\* the chroma value that covers it.
LEMMA PlaceOfPixel ==
  ASSUME gScanType \in ScanTypes, NEW x \in 0 .. 8 * Across - 1, NEW y \in 0 .. 8 * Down - 1
  PROVE  LET b == Across * (y \div 8) + x \div 8
             i == 8 * (y % 8) + (x % 8)
         IN  /\ b \in 0 .. Lumas - 1 /\ i \in Bytes
             /\ OffsetOf(b) + i = 64 * (x \div 8) + 128 * (y \div 8) + 8 * (y % 8) + (x % 8)
             /\ Covering(SourceOf(b), Across, Down, i) = 8 * (y \div Down) + x \div Across
<1> DEFINE q == x \div 8
           r == x % 8
           t == y \div 8
           w == y % 8
           b == Across * t + q
           i == 8 * w + r
<1>1. /\ x \in Int /\ y \in Int /\ Across \in {1, 2} /\ Down \in {1, 2}
      /\ q \in 0 .. Across - 1 /\ t \in 0 .. Down - 1 /\ r \in 0 .. 7 /\ w \in 0 .. 7
      /\ x = 8 * q + r /\ y = 8 * t + w
  <2>1. Across \in {1, 2} /\ Down \in {1, 2}
    BY DEF Across, Down
  <2>2. CASE Across = 1
    <3>1. x \in 0 .. 7
      BY <2>2
    <3> QED
      BY <2>1, <2>2, <3>1
  <2> QED
    BY <2>1, <2>2
<1>2. b \in 0 .. Lumas - 1 /\ OffsetOf(b) = 64 * q + 128 * t /\ SourceOf(b) = 4 * (Across - 1) * q + 32 * t
  <2> HIDE DEF q, r, t, w
  <2>1. CASE gScanType \in {"GRAYSCALE", "YH1V1"}
    <3>1. q = 0 /\ t = 0 /\ Across = 1 /\ Down = 1 /\ OffsetOf(0) = 0 /\ Lumas = 1
      BY <1>1, <2>1, Layout
    <3>2. b = 0
      BY <3>1
    <3> QED
      BY <3>1, <3>2 DEF SourceOf
  <2>2. CASE gScanType = "YH1V2"
    <3>1. q = 0 /\ t \in {0, 1} /\ Across = 1
      BY <1>1, <2>2, Layout
    <3>2. b = t
      BY <3>1
    <3> QED
      BY <2>2, <3>1, <3>2, Layout
  <2>3. CASE gScanType = "YH2V1"
    <3>1. t = 0 /\ q \in {0, 1} /\ Across = 2
      BY <1>1, <2>3, Layout
    <3>2. b = q
      BY <3>1
    <3> QED
      BY <2>3, <3>1, <3>2, Layout
  <2>4. CASE gScanType = "YH2V2"
    <3>1. t \in {0, 1} /\ q \in {0, 1} /\ Across = 2
      BY <1>1, <2>4, Layout
    <3>2. b = 2 * t + q
      BY <3>1
    <3> QED
      BY <2>4, <3>1, <3>2, Layout
  <2> QED
    BY <2>1, <2>2, <2>3, <2>4, BlockAssumption
<1>3. i \in Bytes /\ i \div 8 = w /\ i % 8 = r /\ i \in Int
  <2> HIDE DEF r, w
  <2> QED
    BY <1>1 DEF Bytes
<1>4. x \div Across = 4 * (Across - 1) * q + r \div Across
  <2> HIDE DEF q, r
  <2>1. CASE Across = 1
    BY <1>1, <2>1
  <2>2. CASE Across = 2
    BY <1>1, <2>2
  <2> QED
    BY <1>1, <2>1, <2>2
<1>5. 8 * (y \div Down) = 32 * t + 8 * (w \div Down)
  <2> HIDE DEF t, w
  <2>1. CASE Down = 1
    BY <1>1, <2>1
  <2>2. CASE Down = 2
    BY <1>1, <2>2
  <2> QED
    BY <1>1, <2>1, <2>2
<1>6. Covering(SourceOf(b), Across, Down, i) = 8 * (y \div Down) + x \div Across
  <2>1. r \div Across \in Int /\ w \div Down \in Int /\ y \div Down \in Int /\ x \div Across \in Int
    BY <1>1
  <2> HIDE DEF b, i, q, r, t, w
  <2>2. Covering(SourceOf(b), Across, Down, i) = SourceOf(b) + 8 * (w \div Down) + r \div Across
    BY <1>3 DEF Covering
  <2> QED
    BY <1>1, <1>2, <1>4, <1>5, <2>1, <2>2
<1>7. OffsetOf(b) + i = 64 * q + 128 * t + 8 * w + r
  <2> HIDE DEF b, q, r, t, w
  <2> QED
    BY <1>1, <1>2
<1> QED
  BY <1>2, <1>3, <1>6, <1>7

\* The pixels of an MCU that decodeNextMCU has returned: every one from its own
\* luma and from the chroma that covers it, in picojpeg.h's layout, for every set
\* of scan types and every longest run.
THEOREM PixelsAreComplete == Spec => []PixelsComplete
<1>1. IInv /\ PixelsSoFar /\ AllBlocks => PixelsComplete
  <2> SUFFICES ASSUME IInv, PixelsSoFar, AllBlocks, pc = "returned"
               PROVE  PixelsComplete
    BY DEF PixelsComplete
  <2>1. gScanType \in ScanTypes /\ mcuBlock = gMaxBlocksPerMCU
    BY DEF IInv, TypeOK, AllBlocks
  <2>2. mcuBlock - Lumas = IF gScanType = "GRAYSCALE" THEN 0 ELSE 2
    BY <2>1, Layout
  <2>3. \A b \in 0 .. Lumas - 1 : b < mcuBlock
    BY <2>1, Layout
  <2>4. ASSUME NEW x \in 0 .. 8 * Across - 1, NEW y \in 0 .. 8 * Down - 1,
               gReduce => x % 8 = 0 /\ y % 8 = 0
        PROVE  LET at == 64 * (x \div 8) + 128 * (y \div 8) + 8 * (y % 8) + (x % 8)
                   luma == Y(Across * (y \div 8) + x \div 8,
                             IF gReduce THEN 0 ELSE 8 * (y % 8) + (x % 8))
                   from == IF gReduce THEN 0 ELSE 8 * (y \div Down) + x \div Across
               IN  IF gScanType = "GRAYSCALE" THEN gMCUBuf["R"][at] = <<luma>>
                   ELSE /\ gMCUBuf["R"][at] = <<luma, Chroma("Cr", from)>>
                        /\ gMCUBuf["G"][at] = <<luma, Chroma("Cb", from), Chroma("Cr", from)>>
                        /\ gMCUBuf["B"][at] = <<luma, Chroma("Cb", from)>>
    <3> DEFINE b == Across * (y \div 8) + x \div 8
               i == 8 * (y % 8) + (x % 8)
               at == 64 * (x \div 8) + 128 * (y \div 8) + 8 * (y % 8) + (x % 8)
               from == IF gReduce THEN 0 ELSE 8 * (y \div Down) + x \div Across
    <3>1. /\ b \in 0 .. Lumas - 1 /\ i \in Bytes /\ OffsetOf(b) + i = at
          /\ Covering(SourceOf(b), Across, Down, i) = 8 * (y \div Down) + x \div Across
      BY <2>1, PlaceOfPixel
    <3>2. gReduce => i = 0
      BY <2>4
    <3> HIDE DEF b, i, at
    <3>3. i \in Shown /\ (IF gReduce THEN 0 ELSE i) = i
      BY <3>1, <3>2 DEF Shown
    <3>4. From(b, i) = from
      BY <3>1 DEF From
    <3> HIDE DEF from
    <3>5. \A c \in Shades : gMCUBuf[c][at] = PixelOf(c, b, i, mcuBlock - Lumas)
      BY <2>3, <3>1, <3>3 DEF PixelsSoFar
    <3>6. CASE gScanType = "GRAYSCALE"
      <4>1. gMCUBuf["R"][at] = <<Y(b, i)>>
        BY <2>2, <3>5, <3>6 DEF Shades, PixelOf, Pixel
      <4> QED
        BY <3>3, <3>6, <4>1 DEF at, b, i
    <3>7. CASE gScanType # "GRAYSCALE"
      <4>1. mcuBlock - Lumas = 2 /\ Shades = {"R", "G", "B"}
        BY <2>2, <3>7 DEF Shades, Channels
      <4>2. /\ gMCUBuf["R"][at] = <<Y(b, i), Chroma("Cr", from)>>
            /\ gMCUBuf["G"][at] = <<Y(b, i), Chroma("Cb", from), Chroma("Cr", from)>>
            /\ gMCUBuf["B"][at] = <<Y(b, i), Chroma("Cb", from)>>
        BY <3>4, <3>5, <4>1 DEF PixelOf, Pixel
      <4> QED
        BY <3>3, <3>7, <4>2 DEF at, b, i, from
    <3> QED
      BY <3>6, <3>7
  <2> QED
    BY <2>4 DEF PixelsComplete, Across, Down
<1> QED
  BY <1>1, BlockInvariance, PixelsInvariant, PTL
=============================================================================
