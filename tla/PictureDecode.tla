--------------------------- MODULE PictureDecode ---------------------------
(***************************************************************************)
(* One picture of an AVI video: picojpeg's initFrame, the loop of          *)
(* get_frame_avi that asks for MCU after MCU and copies each into the      *)
(* bitmap, and pjpeg_decode_mcu, which counts the MCUs down and takes the  *)
(* restart markers between them.  One action is one turn of that loop up   *)
(* to the copy, or the copy.                                               *)
(*                                                                         *)
(* A pixel is known by where it came from: the number of the MCU and the   *)
(* offset in the MCU buffers.  The three DC predictions are known by how   *)
(* many MCUs they sum up.                                                  *)
(***************************************************************************)
EXTENDS Integers, FiniteSetsExt

CONSTANTS Pictures,         \* the pictures: width, height, comps, and the
                            \* sampling factors of the first component
          RestartIntervals, \* the values of a DRI marker; 0: none
          Side,             \* pixels in a block's side: 8
          RestartNumbers    \* how many RSTn markers there are: 8

ASSUME PictureAssumption ==
  /\ \A p \in Pictures : /\ p.width \in Nat \ {0} /\ p.height \in Nat \ {0}
                         /\ p.comps \in 0 .. 3
                         /\ p.h \in 0 .. 15 /\ p.v \in 0 .. 15
  /\ RestartIntervals \subseteq Nat
  /\ Side \in Nat \ {0} /\ RestartNumbers \in Nat \ {0}

VARIABLES
  picture, gRestartInterval,
  pc,                   \* the place in the loop, or how it ended
  gNumMCUSRemainingX, gNumMCUSRemainingY,
  gRestartsLeft, gNextRestartNum,
  gLastDC,              \* the MCUs the DC predictions sum up
  mcu_x, mcu_y,         \* get_frame_avi's own counters
  mcus,                 \* history: the MCUs decoded
  pImage                \* the bitmap, by offset

vars == <<picture, gRestartInterval, pc, gNumMCUSRemainingX, gNumMCUSRemainingY,
          gRestartsLeft, gNextRestartNum, gLastDC, mcu_x, mcu_y,
          mcus, pImage>>
counters == <<gNumMCUSRemainingX, gNumMCUSRemainingY, gRestartsLeft,
              gNextRestartNum, gLastDC, mcu_x, mcu_y, mcus>>

Goto(l) == pc' = l

\* initFrame: the scan types there are, and what follows from them.
Supported == \/ picture.comps = 1 /\ picture.h = 1 /\ picture.v = 1
             \/ picture.comps = 3 /\ picture.h \in {1, 2} /\ picture.v \in {1, 2}
MCUWidth == Side * picture.h
MCUHeight == Side * picture.v
gMaxMCUSPerRow == (picture.width + MCUWidth - 1) \div MCUWidth
gMaxMCUSPerCol == (picture.height + MCUHeight - 1) \div MCUHeight

\* pImage is malloced with a byte per component of each pixel; the unit here
\* is the pixel.
Offsets == 0 .. picture.width * picture.height - 1
NoPixel == <<-1, -1>>

Init == /\ picture \in Pictures
        /\ gRestartInterval \in RestartIntervals
        /\ pc = "initFrame"
        /\ gNumMCUSRemainingX = 0 /\ gNumMCUSRemainingY = 0
        /\ gRestartsLeft \in RestartIntervals
        /\ gNextRestartNum \in 0 .. RestartNumbers - 1 /\ gLastDC \in 0 .. 1
        /\ mcu_x = 0 /\ mcu_y = 0 /\ mcus = 0
        /\ pImage = [o \in Offsets |-> NoPixel]

\* initFrame, and what initScan resets after it: an earlier picture has left
\* its counts.  A picture that is not supported ends the call of
\* get_frame_avi, with the frame as it was.
initFrame ==
  /\ pc = "initFrame"
  /\ \/ /\ Supported
        /\ gNumMCUSRemainingX' = gMaxMCUSPerRow
        /\ gNumMCUSRemainingY' = gMaxMCUSPerCol
        /\ gLastDC' = 0
        /\ IF gRestartInterval # 0
             THEN gRestartsLeft' = gRestartInterval /\ gNextRestartNum' = 0
             ELSE UNCHANGED <<gRestartsLeft, gNextRestartNum>>
        /\ Goto("decode_mcu")
        /\ UNCHANGED <<mcu_x, mcu_y, mcus>>
     \/ /\ ~Supported
        /\ Goto("refused")
        /\ UNCHANGED counters
  /\ UNCHANGED <<picture, gRestartInterval, pImage>>
-----------------------------------------------------------------------------
(***************************************************************************)
(* pjpeg_decode_mcu.                                                       *)
(***************************************************************************)
\* Mutant: get_frame_avi goes on after PJPG_NO_MORE_BLOCKS.
NoMoreBlocksGoesOn ==
  /\ pc = "decode_mcu"
  /\ gNumMCUSRemainingX = 0 /\ gNumMCUSRemainingY = 0
  /\ UNCHANGED vars

\* All MCUs are there: the loop ends and the bitmap becomes the frame.
NoMoreBlocks ==
  /\ pc = "decode_mcu"
  /\ gNumMCUSRemainingX = 0 /\ gNumMCUSRemainingY = 0
  /\ Goto("complete")
  /\ UNCHANGED <<picture, gRestartInterval, counters, pImage>>

MoreBlocks == gNumMCUSRemainingX # 0 \/ gNumMCUSRemainingY # 0

\* Mutant: no restart is processed.
RestartNotTaken(marker) ==
  /\ gRestartsLeft' = IF gRestartInterval = 0 THEN gRestartsLeft ELSE gRestartsLeft - 1
  /\ gLastDC' = gLastDC + 1
  /\ UNCHANGED gNextRestartNum

\* Mutant: the MCU after a restart does not count.
RestartUncounted(marker) ==
  \/ /\ gRestartInterval = 0
     /\ gLastDC' = gLastDC + 1
     /\ UNCHANGED <<gRestartsLeft, gNextRestartNum>>
  \/ /\ gRestartInterval # 0 /\ gRestartsLeft # 0
     /\ gRestartsLeft' = gRestartsLeft - 1
     /\ gLastDC' = gLastDC + 1
     /\ UNCHANGED gNextRestartNum
  \/ /\ gRestartInterval # 0 /\ gRestartsLeft = 0
     /\ marker = gNextRestartNum
     /\ gRestartsLeft' = gRestartInterval
     /\ gLastDC' = 1
     /\ gNextRestartNum' = (gNextRestartNum + 1) % RestartNumbers

\* The restart counting of decodeNextMCU, with processRestart, which accepts
\* marker only when it is the one that is due.
TakesRestart(marker) ==
  \/ /\ gRestartInterval = 0
     /\ gLastDC' = gLastDC + 1
     /\ UNCHANGED <<gRestartsLeft, gNextRestartNum>>
  \/ /\ gRestartInterval # 0 /\ gRestartsLeft # 0
     /\ gRestartsLeft' = gRestartsLeft - 1
     /\ gLastDC' = gLastDC + 1
     /\ UNCHANGED gNextRestartNum
  \/ /\ gRestartInterval # 0 /\ gRestartsLeft = 0
     /\ marker = gNextRestartNum
     /\ gRestartsLeft' = gRestartInterval - 1
     /\ gLastDC' = 1
     /\ gNextRestartNum' = (gNextRestartNum + 1) % RestartNumbers

\* Mutant: a new row has as many MCUs as a column.
DecodeMCUColumn ==
  /\ pc = "decode_mcu" /\ MoreBlocks
  /\ \E marker \in 0 .. RestartNumbers - 1 : TakesRestart(marker)
  /\ IF gNumMCUSRemainingX = 1
       THEN /\ gNumMCUSRemainingY' = gNumMCUSRemainingY - 1
            /\ gNumMCUSRemainingX' = IF gNumMCUSRemainingY > 1 THEN gMaxMCUSPerCol ELSE 0
       ELSE /\ gNumMCUSRemainingX' = gNumMCUSRemainingX - 1
            /\ UNCHANGED gNumMCUSRemainingY
  /\ mcus' = mcus + 1
  /\ Goto("copy")
  /\ UNCHANGED <<picture, gRestartInterval, mcu_x, mcu_y, pImage>>

\* The marker found is any, and the blocks that follow it decode.
DecodeMCU ==
  /\ pc = "decode_mcu" /\ MoreBlocks
  /\ \E marker \in 0 .. RestartNumbers - 1 : TakesRestart(marker)
  /\ IF gNumMCUSRemainingX = 1
       THEN /\ gNumMCUSRemainingY' = gNumMCUSRemainingY - 1
            /\ gNumMCUSRemainingX' = IF gNumMCUSRemainingY > 1 THEN gMaxMCUSPerRow ELSE 0
       ELSE /\ gNumMCUSRemainingX' = gNumMCUSRemainingX - 1
            /\ UNCHANGED gNumMCUSRemainingY
  /\ mcus' = mcus + 1
  /\ Goto("copy")
  /\ UNCHANGED <<picture, gRestartInterval, mcu_x, mcu_y, pImage>>

\* Another marker, no marker within reach, a run past the block's end or a
\* failed input callback (gCallbackStatus): get_frame_avi frees the bitmap,
\* closes the file and asks for no more.
DecodeFails ==
  /\ pc = "decode_mcu" /\ MoreBlocks
  /\ Goto("failed")
  /\ UNCHANGED <<picture, gRestartInterval, counters, pImage>>
-----------------------------------------------------------------------------
(***************************************************************************)
(* The copy of get_frame_avi, block by block, each cut at the picture's    *)
(* right and lower edges.  The MCU buffers hold at most 2 by 2 blocks.     *)
(***************************************************************************)
\* The pixels of an MCU: their block, and their place in it.
Starts(n) == {Side * b : b \in 0 .. n - 1}
Pixels == [x : Starts(picture.h), y : Starts(picture.v),
           bx : 0 .. Side - 1, by : 0 .. Side - 1]

\* Mutant: the blocks are not cut at the edges.
CopiedUncut == Pixels

Copied ==
  LET bx_limit(x) == Min({Side, picture.width - (mcu_x * MCUWidth + x)})
      by_limit(y) == Min({Side, picture.height - (mcu_y * MCUHeight + y)})
  IN  {p \in Pixels : p.bx < bx_limit(p.x) /\ p.by < by_limit(p.y)}

\* Where a pixel of a block goes, and where it comes from.
Destination(p) == (mcu_y * MCUHeight + p.y + p.by) * picture.width
                    + (mcu_x * MCUWidth + p.x + p.bx)
\* Mutant: the rest of a cut row is not skipped.
SourceUnskipped(p) ==
  p.x * Side + p.y * 2 * Side
    + p.by * Min({Side, picture.width - (mcu_x * MCUWidth + p.x)}) + p.bx

Source(p) == p.x * Side + p.y * 2 * Side + p.by * Side + p.bx

CopyMCU ==
  /\ pc = "copy"
  /\ IF mcu_y >= gMaxMCUSPerCol
       THEN Goto("failed") /\ UNCHANGED <<mcu_x, mcu_y, pImage>>
       ELSE /\ pImage' = [o \in Offsets |->
                 IF \E p \in Copied : Destination(p) = o
                   THEN <<mcus - 1, Source(CHOOSE p \in Copied : Destination(p) = o)>>
                   ELSE pImage[o]]
            /\ IF mcu_x + 1 = gMaxMCUSPerRow
                 THEN mcu_x' = 0 /\ mcu_y' = mcu_y + 1
                 ELSE mcu_x' = mcu_x + 1 /\ UNCHANGED mcu_y
            /\ Goto("decode_mcu")
  /\ UNCHANGED <<picture, gRestartInterval, gNumMCUSRemainingX, gNumMCUSRemainingY,
                 gRestartsLeft, gNextRestartNum, gLastDC, mcus>>

Next == \/ initFrame \/ NoMoreBlocks \/ DecodeMCU
        \/ DecodeFails \/ CopyMCU

Spec == Init /\ [][Next]_vars
FairSpec == Spec /\ WF_vars(Next)
-----------------------------------------------------------------------------
(***************************************************************************)
(* Properties                                                              *)
(***************************************************************************)
TypeOK ==
  /\ picture \in Pictures /\ gRestartInterval \in RestartIntervals
  /\ pc \in {"initFrame", "decode_mcu", "copy", "complete", "failed", "refused"}
  /\ gNumMCUSRemainingX \in Nat /\ gNumMCUSRemainingY \in Nat
  /\ gRestartsLeft \in Nat /\ gNextRestartNum \in 0 .. RestartNumbers - 1
  /\ gLastDC \in Nat
  /\ mcu_x \in Nat /\ mcu_y \in Nat /\ mcus \in Nat
  /\ DOMAIN pImage = Offsets

\* The decoder counts MCUs down and get_frame_avi counts them up, each by its
\* own rule for the end of a row: between calls they are at the same MCU, so
\* the loop's own test for too many rows (avi.c:181) never fires.
CountersAgree ==
  pc \in {"decode_mcu", "complete"} =>
    /\ mcus = mcu_y * gMaxMCUSPerRow + mcu_x
    /\ gNumMCUSRemainingY = gMaxMCUSPerCol - mcu_y
    /\ gNumMCUSRemainingX = IF gNumMCUSRemainingY = 0 THEN 0 ELSE gMaxMCUSPerRow - mcu_x

\* A restart marker is taken after every gRestartInterval MCUs exactly, in
\* the cyclic order of their numbers, and the predictions start again there.
RestartsInStep ==
  gRestartInterval # 0 /\ pc \in {"decode_mcu", "copy"} =>
    LET restarts == IF mcus = 0 THEN 0 ELSE (mcus - 1) \div gRestartInterval IN
      /\ gLastDC = mcus - restarts * gRestartInterval
      /\ gRestartsLeft = gRestartInterval - gLastDC
      /\ gNextRestartNum = restarts % RestartNumbers

\* No copy writes outside the bitmap, or two pixels to one place, whichever
\* edges the picture's size cuts through the MCU.
CopyInBounds ==
  pc = "copy" =>
    /\ \A p \in Copied : Destination(p) \in Offsets
    /\ \A p, q \in Copied : Destination(p) = Destination(q) => p = q

\* A picture that is complete has each of its pixels from the MCU and the
\* place in it that the scan type lays down, and took all the MCUs that
\* picojpeg.h:121 says it must.
PictureComplete ==
  pc = "complete" =>
    /\ mcus = gMaxMCUSPerRow * gMaxMCUSPerCol
    /\ \A x \in 0 .. picture.width - 1, y \in 0 .. picture.height - 1 :
         LET inX == x % MCUWidth
             inY == y % MCUHeight
             block == inX \div Side + 2 * (inY \div Side)
         IN  pImage[y * picture.width + x] =
               <<(y \div MCUHeight) * gMaxMCUSPerRow + x \div MCUWidth,
                 block * Side * Side + (inY % Side) * Side + (inX % Side)>>

\* The loop, which has no bound of its own, ends.
LoopEnds == <>(pc \in {"complete", "failed", "refused"})
=============================================================================
