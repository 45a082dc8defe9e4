---------------------------- MODULE BlockDecode ----------------------------
(***************************************************************************)
(* The blocks of an MCU in picojpeg's decodeNextMCU: from the run and size *)
(* of each Huffman symbol to the 64 coefficients that transformBlock gets, *)
(* in full and in reduce mode, and on to the MCU's pixels (MCUBuffers).    *)
(* The Huffman decoder is known by what it may return, which is any        *)
(* symbol; a coefficient by its index in the stream, which is also the one *)
(* its quantiser is taken by.                                              *)
(***************************************************************************)
EXTENDS MCUBuffers

CONSTANTS ScanTypes,  \* the scan types of the pictures
          MaxRun      \* the longest run a symbol holds: 15

ASSUME BlockAssumption ==
  /\ ScanTypes \subseteq {"GRAYSCALE", "YH1V1", "YH1V2", "YH2V1", "YH2V2"}
  /\ MaxRun \in Nat

Coeffs == 64
Last == Coeffs - 1

\* Mutant: two neighbours are swapped.
ZAGSwapped(k) == <<
   0,  1,  8, 16,  9,  2,  3, 10,  17, 24, 32, 25, 18, 11,  4,  5,
  12, 19, 26, 33, 40, 48, 41, 34,  27, 20, 13,  6,  7, 14, 21, 28,
  35, 42, 49, 56, 57, 50, 43, 36,  29, 22, 15, 23, 30, 37, 44, 51,
  58, 59, 52, 45, 31, 38, 39, 46,  53, 60, 61, 54, 47, 55, 62, 63>>[k + 1]

ZAG(k) == <<
   0,  1,  8, 16,  9,  2,  3, 10,  17, 24, 32, 25, 18, 11,  4,  5,
  12, 19, 26, 33, 40, 48, 41, 34,  27, 20, 13,  6,  7, 14, 21, 28,
  35, 42, 49, 56, 57, 50, 43, 36,  29, 22, 15, 23, 30, 37, 44, 51,
  58, 59, 52, 45, 38, 31, 39, 46,  53, 60, 61, 54, 47, 55, 62, 63>>[k + 1]

VARIABLES
  gReduce, gScanType,
  pc,         \* "dc", "ac", "transform", "returned", "failed"
  mcuBlock,
  k,          \* the coefficient the next symbol is for
  gCoeffBuf,  \* by place: the index written there for this block, or Stale
  gMCUBuf     \* gMCUBufR, gMCUBufG and gMCUBufB: what makes up each byte

vars == <<gReduce, gScanType, pc, mcuBlock, k, gCoeffBuf, gMCUBuf>>

Stale == -1   \* what an earlier block or picture has left
StaleMCU == [c \in Channels |-> [i \in Places |-> <<Y(Stale, Stale)>>]]

gMaxBlocksPerMCU == CASE gScanType = "GRAYSCALE" -> 1
                      [] gScanType = "YH1V1" -> 3
                      [] gScanType \in {"YH1V2", "YH2V1"} -> 4
                      [] gScanType = "YH2V2" -> 6

Init == /\ gReduce \in BOOLEAN /\ gScanType \in ScanTypes
        /\ gMCUBuf = StaleMCU
        /\ pc = "dc"
        /\ mcuBlock = 0 /\ k = 0
        /\ gCoeffBuf = [p \in 0 .. Last |-> Stale]

\* gCoeffBuf after the coefficients of some indices are written to it.
Written(indices) ==
  [p \in 0 .. Last |-> IF \E j \in indices : j <= Last /\ ZAG(j) = p
                         THEN CHOOSE j \in indices : j <= Last /\ ZAG(j) = p
                         ELSE gCoeffBuf[p]]
-----------------------------------------------------------------------------
(***************************************************************************)
(* What a symbol of run r and size s does to k, in either mode; n is k at  *)
(* the test of the loop that follows.                                      *)
(***************************************************************************)
Error == [outcome |-> "error", n |-> 0]
EndOfBlock == [outcome |-> "end", n |-> 0]
To(j) == [outcome |-> "next", n |-> j]

\* Mutant: > 64 in the test of the run.
SymbolOffByOne(j, r, s) ==
  CASE s # 0 /\ r # 0 /\ j + r > Coeffs -> Error
    [] s # 0 /\ (r = 0 \/ j + r <= Coeffs) -> To(j + r + 1)
    [] s = 0 /\ r = MaxRun /\ j + (MaxRun + 1) > Coeffs -> Error
    [] s = 0 /\ r = MaxRun /\ j + (MaxRun + 1) <= Coeffs -> To(j + MaxRun + 1)
    [] s = 0 /\ r # MaxRun -> EndOfBlock

\* Full mode: every coefficient run over is written as it is passed.
Symbol(j, r, s) ==
  CASE s # 0 /\ r # 0 /\ j + r > Last -> Error
    [] s # 0 /\ (r = 0 \/ j + r <= Last) -> To(j + r + 1)
    [] s = 0 /\ r = MaxRun /\ j + (MaxRun + 1) > Coeffs -> Error
    [] s = 0 /\ r = MaxRun /\ j + (MaxRun + 1) <= Coeffs -> To(j + MaxRun + 1)
    [] s = 0 /\ r # MaxRun -> EndOfBlock

\* Mutant: k += 16, without the - 1 for the loop's own step.
SymbolReducedLong(j, r, s) ==
  CASE s # 0 /\ r # 0 /\ j + r > Last -> Error
    [] s # 0 /\ (r = 0 \/ j + r <= Last) -> To(j + r + 1)
    [] s = 0 /\ r = MaxRun /\ j + (MaxRun + 1) > Coeffs -> Error
    [] s = 0 /\ r = MaxRun /\ j + (MaxRun + 1) <= Coeffs -> To(j + (MaxRun + 1) + 1)
    [] s = 0 /\ r # MaxRun -> EndOfBlock

\* Reduce mode moves k on without writing.
SymbolReduced(j, r, s) ==
  LET skips == IF s = 0 THEN MaxRun ELSE r
      over == IF s = 0 THEN j + (MaxRun + 1) > Coeffs ELSE r # 0 /\ j + r > Last
  IN  IF s = 0 /\ r # MaxRun THEN EndOfBlock
      ELSE IF over THEN Error
      ELSE To((j + skips) + 1)
-----------------------------------------------------------------------------
\* The DC coefficient; gCoeffBuf still holds what was there before.
DecodeDC ==
  /\ pc = "dc"
  /\ gCoeffBuf' = [p \in 0 .. Last |-> IF p = 0 THEN 0 ELSE Stale]
  /\ k' = 1
  /\ pc' = "ac"
  /\ UNCHANGED <<gReduce, gScanType, mcuBlock, gMCUBuf>>

\* One turn of the loop over the AC coefficients.
DecodeAC ==
  /\ pc = "ac" /\ k < Coeffs
  /\ \E r \in 0 .. MaxRun, s \in {0, 1} :
       LET to == IF gReduce THEN SymbolReduced(k, r, s) ELSE Symbol(k, r, s)
       IN  /\ gCoeffBuf' = IF gReduce \/ to.outcome # "next" THEN gCoeffBuf
                          ELSE Written(k .. to.n - 1)
           /\ k' = IF to.outcome = "next" THEN to.n ELSE k
           /\ pc' = CASE to.outcome = "next" -> "ac"
                      [] to.outcome = "end" -> "transform"
                      [] to.outcome = "error" -> "failed"
  /\ UNCHANGED <<gReduce, gScanType, mcuBlock, gMCUBuf>>

BlockFull == /\ pc = "ac" /\ k >= Coeffs
             /\ pc' = "transform"
             /\ UNCHANGED <<gReduce, gScanType, mcuBlock, k, gCoeffBuf, gMCUBuf>>

\* In full mode, what the symbols did not reach is written as zeros.
Rest == IF gReduce THEN gCoeffBuf ELSE Written(k .. Last)

\* transformBlock or transformBlockReduce, and the step to the next block.
Transform ==
  /\ pc = "transform"
  /\ gCoeffBuf' = Rest
  /\ gMCUBuf' = IF gReduce THEN transformBlockReduce(gScanType, mcuBlock, gMCUBuf)
                          ELSE transformBlock(gScanType, mcuBlock, gMCUBuf)
  /\ mcuBlock' = mcuBlock + 1
  /\ pc' = IF mcuBlock' < gMaxBlocksPerMCU THEN "dc" ELSE "returned"
  /\ UNCHANGED <<gReduce, gScanType, k>>

\* The next MCU, of this picture, or after a failure of another one.  What
\* the buffers still hold counts as Stale from here on.
NextMCU ==
  /\ pc \in {"returned", "failed"}
  /\ pc' = "dc"
  /\ mcuBlock' = 0
  /\ gScanType' \in IF pc = "failed" THEN ScanTypes ELSE {gScanType}
  /\ gMCUBuf' = StaleMCU
  /\ UNCHANGED <<gReduce, k, gCoeffBuf>>

Next == DecodeDC \/ DecodeAC \/ BlockFull \/ Transform \/ NextMCU

Spec == Init /\ [][Next]_vars
-----------------------------------------------------------------------------
(***************************************************************************)
(* Properties                                                              *)
(***************************************************************************)

\* Types; k stays within the block, and with it every write to gCoeffBuf,
\* whatever runs the symbols hold (picojpeg.c:2221, 2239).
TypeOK ==
  /\ gReduce \in BOOLEAN /\ gScanType \in ScanTypes
  /\ pc \in {"dc", "ac", "transform", "returned", "failed"}
  /\ mcuBlock \in 0 .. gMaxBlocksPerMCU
  /\ k \in 0 .. Coeffs
  /\ gCoeffBuf \in [0 .. Last -> {Stale} \cup (0 .. Last)]
  /\ DOMAIN gMCUBuf = Channels
  /\ \A c \in Channels : DOMAIN gMCUBuf[c] = Places

\* The zigzag order of a square of 8 by 8: up and right along one diagonal,
\* down and left along the next.
ZigzagNext(p) ==
  LET row == p \div 8
      col == p % 8
      up == (row + col) % 2 = 0
  IN  CASE up /\ col = 7 -> p + 8
        [] up /\ col # 7 /\ row = 0 -> p + 1
        [] up /\ col # 7 /\ row # 0 -> p - 7
        [] ~up /\ row = 7 -> p + 1
        [] ~up /\ row # 7 /\ col = 0 -> p + 8
        [] ~up /\ row # 7 /\ col # 0 -> p + 7

\* A block whose places hold 0 .. 63 in that order.
InZigzag(block) ==
  /\ block[0] = 0
  /\ \A p \in 0 .. Last - 1 : block[ZigzagNext(p)] = block[p] + 1

\* transformBlock gets every one of the 64 coefficients from this block, none
\* that an earlier block or a failed picture left in gCoeffBuf, and each at its
\* place in the zigzag order; transformBlockReduce, which looks at the first
\* only, gets that one.
CoefficientsFresh ==
  [][mcuBlock' = mcuBlock + 1 =>
       IF gReduce THEN gCoeffBuf'[0] = 0
                  ELSE InZigzag(gCoeffBuf')]_vars

\* The two loops, written apart, read the same symbols: what one does with a
\* symbol at any place, error, end or step, the other does.
ModesAgree ==
  \A r \in 0 .. MaxRun, s \in {0, 1} :
    pc = "ac" /\ k < Coeffs => Symbol(k, r, s) = SymbolReduced(k, r, s)

\* The MCU that decodeNextMCU returns is laid out as picojpeg.h says, blocks of
\* 8 by 8 at 0, 64, 128 and 192, and every pixel is put together from its own
\* luma and from the chroma that covers it, each added once and on top of the
\* luma; nothing is left of an earlier MCU.  In reduce mode this holds of the
\* first pixel of each block, with the blocks' first values.
PixelsComplete ==
  pc = "returned" =>
    LET h == IF gScanType \in {"YH2V1", "YH2V2"} THEN 2 ELSE 1
        v == IF gScanType \in {"YH1V2", "YH2V2"} THEN 2 ELSE 1
    IN  \A x \in 0 .. 8 * h - 1, y \in 0 .. 8 * v - 1 :
          (gReduce => x % 8 = 0 /\ y % 8 = 0) =>
            LET at == 64 * (x \div 8) + 128 * (y \div 8) + 8 * (y % 8) + (x % 8)
                luma == Y(h * (y \div 8) + x \div 8,
                          IF gReduce THEN 0 ELSE 8 * (y % 8) + (x % 8))
                from == IF gReduce THEN 0 ELSE 8 * (y \div v) + x \div h
            IN  IF gScanType = "GRAYSCALE" THEN gMCUBuf["R"][at] = <<luma>>
                ELSE /\ gMCUBuf["R"][at] = <<luma, Chroma("Cr", from)>>
                     /\ gMCUBuf["G"][at] = <<luma, Chroma("Cb", from), Chroma("Cr", from)>>
                     /\ gMCUBuf["B"][at] = <<luma, Chroma("Cb", from)>>
=============================================================================
