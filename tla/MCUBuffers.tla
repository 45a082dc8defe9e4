----------------------------- MODULE MCUBuffers -----------------------------
(***************************************************************************)
(* How picojpeg puts the pixels of an MCU together from its blocks         *)
(* (picojpeg.c, from upsampleCb to transformBlockReduce).  A luma block is *)
(* copied to the three buffers, and the blocks of the chroma components    *)
(* that follow are added to them, each value to the one, two or four       *)
(* pixels it covers.                                                       *)
(*                                                                         *)
(* A byte of a buffer is the sequence of what was put into it: the block   *)
(* and place of the luma, the component and place of each chroma value.    *)
(* The weights and the clamping are left out.                              *)
(***************************************************************************)
EXTENDS Integers, Sequences

Channels == {"R", "G", "B"}
BufSize == 256
Places == 0 .. BufSize - 1

Y(block, place) == <<"Y", block, place>>
Chroma(comp, place) == <<comp, place>>

\* Cb goes into green and blue, Cr into red and green.
Affected(comp) == IF comp = "Cb" THEN {"G", "B"} ELSE {"R", "G"}

\* The 64 bytes of a block of the buffers that begins at dst.
BlockAt(dst) == dst .. dst + 63

copyY(dst, block, buf) ==
  [c \in Channels |-> [i \in Places |->
     IF i \in BlockAt(dst) THEN <<Y(block, i - dst)>> ELSE buf[c][i]]]

\* A chroma block whose values cover h by v pixels each is added to the block
\* at dst, from its value at src on.
Accumulate(comp, h, v, src, dst, buf) ==
  [c \in Channels |-> [i \in Places |->
     IF c \in Affected(comp) /\ i \in BlockAt(dst)
       THEN LET row == (i - dst) \div 8
                col == (i - dst) % 8
            IN  Append(buf[c][i], Chroma(comp, src + 8 * (row \div v) + col \div h))
       ELSE buf[c][i]]]

\* Mutant: the destination is stepped on before it is read.
ConvertReadsNext(dst, buf) ==
  [c \in Channels |-> [i \in Places |->
     IF c \in {"G", "B"} /\ i \in BlockAt(dst)
       THEN Append(buf[c][(i + 1) % BufSize], Chroma("Cb", i - dst)) ELSE buf[c][i]]]

\* The order of pDst++ and pDst[0] in these two is left open by C; this is
\* the one that gcc takes.
convertCb(dst, buf) == Accumulate("Cb", 1, 1, 0, dst, buf)
convertCr(dst, buf) == Accumulate("Cr", 1, 1, 0, dst, buf)

upsampleCb(src, dst, buf) == Accumulate("Cb", 2, 2, src, dst, buf)
upsampleCr(src, dst, buf) == Accumulate("Cr", 2, 2, src, dst, buf)
upsampleCbH(src, dst, buf) == Accumulate("Cb", 2, 1, src, dst, buf)
upsampleCrH(src, dst, buf) == Accumulate("Cr", 2, 1, src, dst, buf)
upsampleCbV(src, dst, buf) == Accumulate("Cb", 1, 2, src, dst, buf)
upsampleCrV(src, dst, buf) == Accumulate("Cr", 1, 2, src, dst, buf)

\* What the buffers buf become with the block of an MCU.
transformBlock(scan, block, buf) ==
  CASE block = 0 -> copyY(0, 0, buf)
    [] scan = "YH1V1" /\ block = 1 -> convertCb(0, buf)
    [] scan = "YH1V1" /\ block = 2 -> convertCr(0, buf)
    [] scan = "YH1V2" /\ block = 1 -> copyY(128, block, buf)
    [] scan = "YH1V2" /\ block = 2 -> upsampleCbV(4 * 8, 128, upsampleCbV(0, 0, buf))
    [] scan = "YH1V2" /\ block = 3 -> upsampleCrV(4 * 8, 128, upsampleCrV(0, 0, buf))
    [] scan = "YH2V1" /\ block = 1 -> copyY(64, block, buf)
    [] scan = "YH2V1" /\ block = 2 -> upsampleCbH(4, 64, upsampleCbH(0, 0, buf))
    [] scan = "YH2V1" /\ block = 3 -> upsampleCrH(4, 64, upsampleCrH(0, 0, buf))
    [] scan = "YH2V2" /\ block \in 1 .. 3 -> copyY(64 * block, block, buf)
    [] scan = "YH2V2" /\ block = 4 ->
         upsampleCb(4 + 4 * 8, 192, upsampleCb(4 * 8, 128,
           upsampleCb(4, 64, upsampleCb(0, 0, buf))))
    [] scan = "YH2V2" /\ block = 5 ->
         upsampleCr(4 + 4 * 8, 192, upsampleCr(4 * 8, 128,
           upsampleCr(4, 64, upsampleCr(0, 0, buf))))

\* Where the blocks of an MCU begin, in their order.
BlockOffsets(scan) == CASE scan \in {"GRAYSCALE", "YH1V1"} -> <<0>>
                        [] scan = "YH1V2" -> <<0, 128>>
                        [] scan = "YH2V1" -> <<0, 64>>
                        [] scan = "YH2V2" -> <<0, 64, 128, 192>>

\* Only the first pixel of each block, from the first values.
transformBlockReduce(scan, block, buf) ==
  LET at == BlockOffsets(scan)
      comp == IF block = Len(at) THEN "Cb" ELSE "Cr"
      luma == IF scan = "GRAYSCALE" THEN {"R"} ELSE Channels
  IN  [c \in Channels |-> [i \in Places |->
         CASE block < Len(at) /\ c \in luma /\ i = at[block + 1] -> <<Y(block, 0)>>
           [] /\ block >= Len(at) /\ c \in Affected(comp)
              /\ \E n \in 1 .. Len(at) : i = at[n] -> Append(buf[c][i], Chroma(comp, 0))
           [] OTHER -> buf[c][i]]]
=============================================================================
