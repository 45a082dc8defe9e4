------------------------ MODULE PictureDecodeProofs ------------------------
(***************************************************************************)
(* One picture of any size, MCU shape and restart interval: the decoder's  *)
(* counters and get_frame_avi's agree, restarts fall where they are due,   *)
(* no copy leaves the bitmap, and a complete picture has each pixel from   *)
(* where it should.                                                        *)
(*                                                                         *)
(* Both pairs of counters are compared between calls only, so the          *)
(* invariant adds where they stand within one, after the decoder has       *)
(* counted an MCU and before get_frame_avi has.  The history counts        *)
(* restarts by a division; the invariant says the same of the quotient     *)
(* and the remainder, which a step moves on.                               *)
(*                                                                         *)
(* The pixels follow from a second invariant: those of the MCUs copied so  *)
(* far are right.  It needs the inverse of the copy: that the pixels of    *)
(* the MCU at hand are the ones that are copied now, and no others.        *)
(***************************************************************************)
EXTENDS PictureDecode, Arithmetic

Sized == pc \in {"decode_mcu", "copy", "complete"} => Supported

\* Between calls, and when an MCU is decoded that is not copied.
CountersWithin ==
  /\ pc = "initFrame" => mcu_x = 0 /\ mcu_y = 0 /\ mcus = 0
  /\ pc \in {"decode_mcu", "copy", "complete"} =>
       mcu_x \in 0 .. gMaxMCUSPerRow - 1 /\ mcu_y \in 0 .. gMaxMCUSPerCol
  /\ pc = "copy" =>
       /\ mcu_y < gMaxMCUSPerCol
       /\ mcus = mcu_y * gMaxMCUSPerRow + mcu_x + 1
       /\ IF mcu_x + 1 = gMaxMCUSPerRow
            THEN /\ gNumMCUSRemainingY = gMaxMCUSPerCol - mcu_y - 1
                 /\ gNumMCUSRemainingX = IF gNumMCUSRemainingY = 0 THEN 0 ELSE gMaxMCUSPerRow
            ELSE /\ gNumMCUSRemainingY = gMaxMCUSPerCol - mcu_y
                 /\ gNumMCUSRemainingX = gMaxMCUSPerRow - mcu_x - 1

\* The restarts taken, as a quotient.
RestartsTaken ==
  gRestartInterval # 0 /\ pc \in {"decode_mcu", "copy"} =>
    \E q \in Nat :
      /\ mcus = q * gRestartInterval + gLastDC
      /\ gRestartsLeft = gRestartInterval - gLastDC
      /\ gNextRestartNum = q % RestartNumbers
      /\ gLastDC \in 0 .. gRestartInterval
      /\ gLastDC = 0 => q = 0

IInv == TypeOK /\ Sized /\ CountersAgree /\ CountersWithin /\ RestartsTaken

\* A supported picture has MCUs, in rows and in columns.
LEMMA PictureSizes ==
  ASSUME picture \in Pictures, Supported
  PROVE  /\ picture.h \in {1, 2} /\ picture.v \in {1, 2}
         /\ MCUWidth \in Nat \ {0} /\ MCUHeight \in Nat \ {0}
         /\ gMaxMCUSPerRow \in Nat \ {0} /\ gMaxMCUSPerCol \in Nat \ {0}
<1>1. /\ picture.width \in Nat \ {0} /\ picture.height \in Nat \ {0}
      /\ Side \in Nat \ {0}
  BY PictureAssumption
<1>2. picture.h \in {1, 2} /\ picture.v \in {1, 2}
  BY DEF Supported
<1>3. MCUWidth \in Nat \ {0} /\ MCUHeight \in Nat \ {0}
  BY <1>1, <1>2 DEF MCUWidth, MCUHeight
<1>4. \A size, side \in Nat \ {0} : (size + side - 1) \div side \in Nat \ {0}
  <2> TAKE size, side \in Nat \ {0}
  <2>1. size + side - 1 \in Nat /\ size + side - 1 >= side
    OBVIOUS
  <2> QED
    BY <2>1, DivPositive
<1> QED
  BY <1>1, <1>2, <1>3, <1>4 DEF gMaxMCUSPerRow, gMaxMCUSPerCol

LEMMA InitIInv == Init => IInv
<1> SUFFICES ASSUME Init PROVE IInv
  OBVIOUS
<1>1. DOMAIN pImage = Offsets
  BY DEF Init
<1>2. gRestartsLeft \in Nat /\ gNextRestartNum \in 0 .. RestartNumbers - 1 /\ gLastDC \in Nat
  BY PictureAssumption DEF Init
<1>3. TypeOK
  BY <1>1, <1>2 DEF Init, TypeOK
<1> QED
  BY <1>3 DEF Init, IInv, Sized, CountersAgree, CountersWithin, RestartsTaken

\* What depends on the picture alone stays.
LEMMA SamePicture ==
  ASSUME UNCHANGED picture
  PROVE  /\ gMaxMCUSPerRow' = gMaxMCUSPerRow /\ gMaxMCUSPerCol' = gMaxMCUSPerCol
         /\ Supported' = Supported /\ Offsets' = Offsets
BY DEF gMaxMCUSPerRow, gMaxMCUSPerCol, MCUWidth, MCUHeight, Supported, Offsets

LEMMA InitFrameStep == IInv /\ initFrame => IInv'
<1> SUFFICES ASSUME IInv, initFrame PROVE IInv'
  OBVIOUS
<1>1. UNCHANGED <<picture, gRestartInterval, pImage>> /\ picture \in Pictures
  BY DEF initFrame, IInv, TypeOK
<1>2. CASE Supported /\ gNumMCUSRemainingX' = gMaxMCUSPerRow
  <2>1. /\ gMaxMCUSPerRow \in Nat \ {0} /\ gMaxMCUSPerCol \in Nat \ {0}
    BY <1>1, <1>2, PictureSizes
  <2>2. /\ mcu_x' = 0 /\ mcu_y' = 0 /\ mcus' = 0 /\ gLastDC' = 0 /\ pc' = "decode_mcu"
        /\ gNumMCUSRemainingY' = gMaxMCUSPerCol
        /\ gRestartInterval # 0 => gRestartsLeft' = gRestartInterval /\ gNextRestartNum' = 0
        /\ gRestartInterval = 0 => UNCHANGED <<gRestartsLeft, gNextRestartNum>>
    BY <1>2 DEF initFrame, Goto, IInv, CountersWithin
  <2>3. gRestartInterval \in Nat /\ RestartNumbers \in Nat \ {0}
    BY PictureAssumption DEF IInv, TypeOK
  <2>4. TypeOK'
    <3>1. gRestartsLeft' \in Nat /\ gNextRestartNum' \in 0 .. RestartNumbers - 1
      <4>1. gRestartsLeft \in Nat /\ gNextRestartNum \in 0 .. RestartNumbers - 1
        BY DEF IInv, TypeOK
      <4>2. 0 \in 0 .. RestartNumbers - 1
        BY <2>3
      <4> QED
        BY <2>2, <2>3, <4>1, <4>2
    <3>2. DOMAIN pImage' = Offsets /\ gRestartInterval \in RestartIntervals
      BY <1>1 DEF IInv, TypeOK
    <3>3. gNumMCUSRemainingX' \in Nat /\ gNumMCUSRemainingY' \in Nat
      BY <1>2, <2>1, <2>2
    <3> QED
      BY <1>1, <2>2, <3>1, <3>2, <3>3, SamePicture DEF TypeOK
  <2>5. CountersAgree'
    <3>1. 0 = 0 * gMaxMCUSPerRow + 0
      BY <2>1
    <3> QED
      BY <1>1, <1>2, <2>1, <2>2, <3>1, SamePicture DEF CountersAgree
  <2>6. CountersWithin'
    BY <1>1, <2>1, <2>2, SamePicture DEF CountersWithin
  <2>7. RestartsTaken'
    <3>1. ASSUME gRestartInterval # 0
          PROVE  /\ mcus' = 0 * gRestartInterval' + gLastDC'
                 /\ gRestartsLeft' = gRestartInterval' - gLastDC'
                 /\ gNextRestartNum' = 0 % RestartNumbers
                 /\ gLastDC' \in 0 .. gRestartInterval'
      BY <1>1, <2>2, <2>3, <3>1
    <3> QED
      BY <1>1, <3>1 DEF RestartsTaken
  <2>8. Sized'
    BY <1>1, <1>2, SamePicture DEF Sized
  <2> QED
    BY <2>4, <2>5, <2>6, <2>7, <2>8 DEF IInv
<1>3. CASE ~Supported /\ pc' = "refused" /\ UNCHANGED counters
  BY <1>1, <1>3, SamePicture DEF IInv, TypeOK, Sized, CountersAgree, CountersWithin,
     RestartsTaken, counters
<1> QED
  BY <1>2, <1>3 DEF initFrame, Goto

LEMMA LoopEndsStep == IInv /\ (NoMoreBlocks \/ DecodeFails) => IInv'
<1> SUFFICES ASSUME IInv, NoMoreBlocks \/ DecodeFails PROVE IInv'
  OBVIOUS
<1>1. /\ pc = "decode_mcu" /\ pc' \in {"complete", "failed"}
      /\ UNCHANGED <<picture, gRestartInterval, counters, pImage>>
  BY DEF NoMoreBlocks, DecodeFails, Goto
<1> QED
  BY <1>1, SamePicture DEF IInv, TypeOK, Sized, CountersAgree, CountersWithin,
     RestartsTaken, counters

\* The restarts, when an MCU is decoded.
LEMMA RestartStep ==
  ASSUME IInv, pc = "decode_mcu", UNCHANGED gRestartInterval, mcus' = mcus + 1,
         NEW marker \in 0 .. RestartNumbers - 1, TakesRestart(marker)
  PROVE  /\ RestartsTaken'
         /\ gRestartsLeft' \in Nat /\ gLastDC' \in Nat
         /\ gNextRestartNum' \in 0 .. RestartNumbers - 1
<1>1. /\ gRestartInterval \in Nat /\ RestartNumbers \in Nat \ {0}
      /\ gRestartsLeft \in Nat /\ gLastDC \in Nat /\ mcus \in Nat
      /\ gNextRestartNum \in 0 .. RestartNumbers - 1
  BY PictureAssumption DEF IInv, TypeOK
<1>2. CASE gRestartInterval = 0
  BY <1>1, <1>2 DEF TakesRestart, RestartsTaken
<1>3. CASE gRestartInterval # 0
  <2>1. PICK q \in Nat :
          /\ mcus = q * gRestartInterval + gLastDC
          /\ gRestartsLeft = gRestartInterval - gLastDC
          /\ gNextRestartNum = q % RestartNumbers
          /\ gLastDC \in 0 .. gRestartInterval
          /\ gLastDC = 0 => q = 0
    BY <1>3 DEF IInv, RestartsTaken
  <2> DEFINE Taken(n) == /\ mcus' = n * gRestartInterval + gLastDC'
                         /\ gRestartsLeft' = gRestartInterval - gLastDC'
                         /\ gNextRestartNum' = n % RestartNumbers
                         /\ gLastDC' \in 0 .. gRestartInterval
                         /\ gLastDC' = 0 => n = 0
  <2>2. CASE gRestartsLeft # 0
    <3>1. /\ gRestartsLeft' = gRestartsLeft - 1 /\ gLastDC' = gLastDC + 1
          /\ UNCHANGED gNextRestartNum
      BY <1>3, <2>2 DEF TakesRestart
    <3>2. q * gRestartInterval \in Nat
      BY <1>1
    <3>3. Taken(q)
      BY <1>1, <2>1, <2>2, <3>1, <3>2
    <3>4. RestartsTaken'
      BY <3>3 DEF RestartsTaken
    <3>5. gRestartsLeft' \in Nat /\ gLastDC' \in Nat
      BY <1>1, <2>2, <3>1
    <3> QED
      BY <1>1, <3>1, <3>4, <3>5
  <2>3. CASE gRestartsLeft = 0
    <3>1. /\ gRestartsLeft' = gRestartInterval - 1 /\ gLastDC' = 1
          /\ gNextRestartNum' = (gNextRestartNum + 1) % RestartNumbers
      BY <1>1, <1>3, <2>3 DEF TakesRestart
    <3>2. gLastDC = gRestartInterval
      BY <1>1, <2>1, <2>3
    <3>3. (q + 1) * gRestartInterval = q * gRestartInterval + gRestartInterval
      BY <1>1, NextMultiple
    <3>4. gNextRestartNum' = (q + 1) % RestartNumbers
      <4>1. ((q % RestartNumbers) + 1) % RestartNumbers = (q + 1) % RestartNumbers
        <5>1. RestartNumbers \in Nat /\ RestartNumbers > 0 /\ q \in Nat
          BY <1>1
        <5> QED
          BY <5>1, ModNext, Zenon
      <4> QED
        BY <2>1, <3>1, <4>1
    <3>5. q * gRestartInterval \in Nat
      BY <1>1
    <3>6. Taken(q + 1)
      BY <1>1, <1>3, <2>1, <3>1, <3>2, <3>3, <3>4, <3>5
    <3>7. (gNextRestartNum + 1) % RestartNumbers \in 0 .. RestartNumbers - 1
      BY <1>1
    <3>8. RestartsTaken'
      <4>1. q + 1 \in Nat
        OBVIOUS
      <4> QED
        BY <3>6, <4>1 DEF RestartsTaken
    <3>9. gRestartsLeft' \in Nat /\ gLastDC' \in Nat
      BY <1>1, <1>3, <3>1
    <3> QED
      BY <3>1, <3>7, <3>8, <3>9
  <2> QED
    BY <2>2, <2>3
<1> QED
  BY <1>2, <1>3

LEMMA DecodeMCUStep == IInv /\ DecodeMCU => IInv'
<1> SUFFICES ASSUME IInv, DecodeMCU PROVE IInv'
  OBVIOUS
<1>1. /\ pc = "decode_mcu" /\ pc' = "copy" /\ MoreBlocks /\ mcus' = mcus + 1
      /\ UNCHANGED <<picture, gRestartInterval, mcu_x, mcu_y, pImage>>
      /\ IF gNumMCUSRemainingX = 1
           THEN /\ gNumMCUSRemainingY' = gNumMCUSRemainingY - 1
                /\ gNumMCUSRemainingX' = IF gNumMCUSRemainingY > 1 THEN gMaxMCUSPerRow ELSE 0
           ELSE /\ gNumMCUSRemainingX' = gNumMCUSRemainingX - 1
                /\ UNCHANGED gNumMCUSRemainingY
  BY DEF DecodeMCU, Goto
<1>2. gMaxMCUSPerRow \in Nat \ {0} /\ gMaxMCUSPerCol \in Nat \ {0}
  BY <1>1, PictureSizes DEF IInv, TypeOK, Sized
<1>3. /\ mcu_x \in 0 .. gMaxMCUSPerRow - 1 /\ mcu_y \in 0 .. gMaxMCUSPerCol
      /\ mcus = mcu_y * gMaxMCUSPerRow + mcu_x
      /\ gNumMCUSRemainingY = gMaxMCUSPerCol - mcu_y
      /\ gNumMCUSRemainingX = IF gNumMCUSRemainingY = 0 THEN 0 ELSE gMaxMCUSPerRow - mcu_x
  BY <1>1 DEF IInv, CountersAgree, CountersWithin
<1>4. mcu_y < gMaxMCUSPerCol
  BY <1>1, <1>2, <1>3 DEF MoreBlocks
<1>5. CountersWithin'
  BY <1>1, <1>2, <1>3, <1>4, SamePicture DEF CountersWithin
<1>6. PICK marker \in 0 .. RestartNumbers - 1 : TakesRestart(marker)
  BY DEF DecodeMCU
<1>7. /\ RestartsTaken'
      /\ gRestartsLeft' \in Nat /\ gLastDC' \in Nat
      /\ gNextRestartNum' \in 0 .. RestartNumbers - 1
  BY <1>1, <1>6, RestartStep
<1>8. gNumMCUSRemainingX' \in Nat /\ gNumMCUSRemainingY' \in Nat
  BY <1>1, <1>2, <1>3, <1>4
<1>9. TypeOK'
  BY <1>1, <1>7, <1>8, SamePicture DEF IInv, TypeOK
<1> QED
  BY <1>1, <1>5, <1>7, <1>9, SamePicture DEF IInv, Sized, CountersAgree

LEMMA CopyMCUStep == IInv /\ CopyMCU => IInv'
<1> SUFFICES ASSUME IInv, CopyMCU PROVE IInv'
  OBVIOUS
<1>1. /\ pc = "copy"
      /\ UNCHANGED <<picture, gRestartInterval, gNumMCUSRemainingX, gNumMCUSRemainingY,
                     gRestartsLeft, gNextRestartNum, gLastDC, mcus>>
  BY DEF CopyMCU
<1>2. gMaxMCUSPerRow \in Nat \ {0} /\ gMaxMCUSPerCol \in Nat \ {0}
  BY <1>1, PictureSizes DEF IInv, TypeOK, Sized
<1>3. /\ mcu_x \in 0 .. gMaxMCUSPerRow - 1 /\ mcu_y \in 0 .. gMaxMCUSPerCol
      /\ mcu_y < gMaxMCUSPerCol
      /\ mcus = mcu_y * gMaxMCUSPerRow + mcu_x + 1
      /\ IF mcu_x + 1 = gMaxMCUSPerRow
           THEN /\ gNumMCUSRemainingY = gMaxMCUSPerCol - mcu_y - 1
                /\ gNumMCUSRemainingX = IF gNumMCUSRemainingY = 0 THEN 0 ELSE gMaxMCUSPerRow
           ELSE /\ gNumMCUSRemainingY = gMaxMCUSPerCol - mcu_y
                /\ gNumMCUSRemainingX = gMaxMCUSPerRow - mcu_x - 1
  BY <1>1 DEF IInv, CountersWithin
<1>4. /\ pc' = "decode_mcu" /\ DOMAIN pImage' = Offsets
      /\ IF mcu_x + 1 = gMaxMCUSPerRow
           THEN mcu_x' = 0 /\ mcu_y' = mcu_y + 1
           ELSE mcu_x' = mcu_x + 1 /\ UNCHANGED mcu_y
  <2>1. ~ mcu_y >= gMaxMCUSPerCol
    BY <1>2, <1>3
  <2> QED
    BY <2>1 DEF CopyMCU, Goto
<1>5. mcus' = mcu_y' * gMaxMCUSPerRow + mcu_x'
  <2>1. (mcu_y + 1) * gMaxMCUSPerRow = mcu_y * gMaxMCUSPerRow + gMaxMCUSPerRow
    BY <1>2, <1>3, NextMultiple
  <2>2. mcu_y * gMaxMCUSPerRow \in Nat
    BY <1>2, <1>3
  <2> QED
    BY <1>1, <1>2, <1>3, <1>4, <2>1, <2>2
<1>6. CountersAgree'
  BY <1>1, <1>2, <1>3, <1>4, <1>5, SamePicture DEF CountersAgree
<1>7. CountersWithin'
  BY <1>1, <1>2, <1>3, <1>4, SamePicture DEF CountersWithin
<1>8. TypeOK'
  BY <1>1, <1>2, <1>3, <1>4, SamePicture DEF IInv, TypeOK
<1> QED
  BY <1>1, <1>4, <1>6, <1>7, <1>8, SamePicture DEF IInv, Sized, RestartsTaken

LEMMA NextIInv == IInv /\ [Next]_vars => IInv'
<1> SUFFICES ASSUME IInv, [Next]_vars PROVE IInv'
  OBVIOUS
<1>1. ASSUME UNCHANGED vars PROVE IInv'
  BY <1>1, SamePicture DEF IInv, vars, TypeOK, Sized, CountersAgree, CountersWithin,
     RestartsTaken
<1>2. CASE Next
  BY <1>2, InitFrameStep, LoopEndsStep, DecodeMCUStep, CopyMCUStep DEF Next
<1> QED
  BY <1>1, <1>2

THEOREM PictureInvariance == Spec => []IInv
BY InitIInv, NextIInv, PTL DEF Spec

\* Every counter keeps its type, and the bitmap its size.
THEOREM PictureTypeCorrect == Spec => []TypeOK
BY PictureInvariance, PTL DEF IInv

\* The decoder's counters and get_frame_avi's are at the same MCU between calls,
\* for every picture size.
THEOREM CountersStayAgreed == Spec => []CountersAgree
BY PictureInvariance, PTL DEF IInv

\* Restarts are taken when they are due, in the cyclic order of their markers,
\* whatever the restart interval.
THEOREM RestartsStayInStep == Spec => []RestartsInStep
<1>1. IInv => RestartsInStep
  <2> SUFFICES ASSUME IInv, gRestartInterval # 0, pc \in {"decode_mcu", "copy"}
               PROVE  LET restarts == IF mcus = 0 THEN 0
                                        ELSE (mcus - 1) \div gRestartInterval IN
                        /\ gLastDC = mcus - restarts * gRestartInterval
                        /\ gRestartsLeft = gRestartInterval - gLastDC
                        /\ gNextRestartNum = restarts % RestartNumbers
    BY DEF RestartsInStep
  <2>1. gRestartInterval \in Nat \ {0} /\ mcus \in Nat
    BY PictureAssumption DEF IInv, TypeOK
  <2>2. PICK q \in Nat :
          /\ mcus = q * gRestartInterval + gLastDC
          /\ gRestartsLeft = gRestartInterval - gLastDC
          /\ gNextRestartNum = q % RestartNumbers
          /\ gLastDC \in 0 .. gRestartInterval
          /\ gLastDC = 0 => q = 0
    BY DEF IInv, RestartsTaken
  <2>3. q * gRestartInterval \in Nat
    BY <2>1
  <2>4. CASE gLastDC = 0
    <3>1. q = 0 /\ mcus = 0 /\ 0 = 0 - 0 * gRestartInterval
      BY <2>1, <2>2, <2>4
    <3> QED
      BY <2>2, <2>4, <3>1
  <2>5. CASE gLastDC # 0
    <3>1. mcus # 0 /\ gLastDC - 1 \in Nat /\ gLastDC - 1 < gRestartInterval
          /\ mcus - 1 = q * gRestartInterval + (gLastDC - 1)
      BY <2>1, <2>2, <2>3, <2>5
    <3>2. (mcus - 1) \div gRestartInterval = q
      BY <2>1, <3>1, DivUnique
    <3>3. gLastDC = mcus - q * gRestartInterval
      BY <2>1, <2>2, <2>3
    <3> QED
      BY <2>2, <3>1, <3>2, <3>3
  <2> QED
    BY <2>4, <2>5
<1> QED
  BY <1>1, PictureInvariance, PTL
-----------------------------------------------------------------------------
LEMMA MinOfTwo ==
  ASSUME NEW a \in Int, NEW b \in Int
  PROVE  Min({a, b}) \in Int /\ Min({a, b}) <= a /\ Min({a, b}) <= b
<1>1. \E m \in {a, b} : \A n \in {a, b} : m <= n
  OBVIOUS
<1>2. Min({a, b}) \in {a, b} /\ \A n \in {a, b} : Min({a, b}) <= n
  BY <1>1 DEF Min
<1> QED
  BY <1>2

LEMMA MinIsOne ==
  ASSUME NEW a \in Int, NEW b \in Int
  PROVE  Min({a, b}) \in {a, b}
<1>1. \E m \in {a, b} : \A n \in {a, b} : m <= n
  OBVIOUS
<1> QED
  BY <1>1 DEF Min

\* A block starts at the edge of the MCU or a side further on.
LEMMA BlockStarts ==
  ASSUME NEW n \in {1, 2}, NEW s \in Starts(n)
  PROVE  s = 0 \/ s = Side
<1>1. PICK b \in 0 .. n - 1 : s = Side * b
  BY DEF Starts
<1>2. b = 0 \/ b = 1
  BY <1>1
<1> QED
  BY <1>1, <1>2, PictureAssumption

\* A pixel that is copied lies within the picture.
LEMMA CopiedWithin ==
  ASSUME IInv, pc = "copy", NEW p \in Copied
  PROVE  /\ p \in Pixels
         /\ p.x \in {0, Side} /\ p.y \in {0, Side}
         /\ p.bx \in 0 .. Side - 1 /\ p.by \in 0 .. Side - 1
         /\ mcu_x * MCUWidth + p.x + p.bx \in 0 .. picture.width - 1
         /\ mcu_y * MCUHeight + p.y + p.by \in 0 .. picture.height - 1
<1>1. /\ picture \in Pictures /\ picture.h \in {1, 2} /\ picture.v \in {1, 2}
      /\ MCUWidth \in Nat /\ MCUHeight \in Nat /\ mcu_x \in Nat /\ mcu_y \in Nat
  BY PictureSizes DEF IInv, TypeOK, Sized
<1>2. picture.width \in Nat /\ picture.height \in Nat /\ Side \in Nat
  BY <1>1, PictureAssumption
<1>3. p \in Pixels
  BY DEF Copied
<1>4. p.x \in Starts(picture.h) /\ p.y \in Starts(picture.v)
      /\ p.bx \in 0 .. Side - 1 /\ p.by \in 0 .. Side - 1
  BY <1>3 DEF Pixels
<1>5. p.x \in {0, Side} /\ p.y \in {0, Side}
  BY <1>1, <1>4, BlockStarts
<1>6. PICK mx \in Nat, my \in Nat : mx = mcu_x * MCUWidth /\ my = mcu_y * MCUHeight
  BY <1>1
<1>7. /\ p.bx < Min({Side, picture.width - (mx + p.x)})
      /\ p.by < Min({Side, picture.height - (my + p.y)})
  BY <1>6 DEF Copied
<1>8. /\ Min({Side, picture.width - (mx + p.x)}) <= picture.width - (mx + p.x)
      /\ Min({Side, picture.width - (mx + p.x)}) \in Int
  <2>1. Side \in Int /\ picture.width - (mx + p.x) \in Int
    BY <1>2, <1>5
  <2> QED
    BY <2>1, MinOfTwo, Zenon
<1>9. /\ Min({Side, picture.height - (my + p.y)}) <= picture.height - (my + p.y)
      /\ Min({Side, picture.height - (my + p.y)}) \in Int
  <2>1. Side \in Int /\ picture.height - (my + p.y) \in Int
    BY <1>2, <1>5
  <2> QED
    BY <2>1, MinOfTwo, Zenon
<1>10. mx + p.x + p.bx \in 0 .. picture.width - 1
  BY <1>2, <1>4, <1>5, <1>7, <1>8
<1>11. my + p.y + p.by \in 0 .. picture.height - 1
  BY <1>2, <1>4, <1>5, <1>7, <1>9
<1> QED
  BY <1>3, <1>4, <1>5, <1>6, <1>10, <1>11

LEMMA CopyBounded == IInv => CopyInBounds
<1> SUFFICES ASSUME IInv, pc = "copy"
             PROVE  /\ \A p \in Copied : Destination(p) \in Offsets
                    /\ \A p, q \in Copied : Destination(p) = Destination(q) => p = q
  BY DEF CopyInBounds
<1>1. picture.width \in Nat /\ picture.height \in Nat /\ Side \in Nat
  BY PictureAssumption DEF IInv, TypeOK
<1> DEFINE X(p) == mcu_x * MCUWidth + p.x + p.bx
           Y(p) == mcu_y * MCUHeight + p.y + p.by
<1>2. \A p \in Copied : /\ X(p) \in 0 .. picture.width - 1
                        /\ Y(p) \in 0 .. picture.height - 1
                        /\ Destination(p) = Y(p) * picture.width + X(p)
  <2>1. ASSUME NEW p \in Copied
        PROVE  Destination(p) = Y(p) * picture.width + X(p)
    BY DEF Destination
  <2> QED
    BY <2>1, CopiedWithin
<1>3. \A p \in Copied : Destination(p) \in Offsets
  <2> HIDE DEF X, Y
  <2>1. ASSUME NEW p \in Copied PROVE Destination(p) \in Offsets
    <3>1. Y(p) * picture.width + X(p) \in 0 .. picture.width * picture.height - 1
      BY <1>1, <1>2, PlaceInArea
    <3> QED
      BY <1>2, <3>1 DEF Offsets
  <2> QED
    BY <2>1
<1>4. ASSUME NEW p \in Copied, NEW q \in Copied, Destination(p) = Destination(q)
      PROVE  p = q
  <2>1. X(p) = X(q) /\ Y(p) = Y(q)
    <3>1. /\ X(p) \in 0 .. picture.width - 1 /\ X(q) \in 0 .. picture.width - 1
          /\ Y(p) \in Nat /\ Y(q) \in Nat
          /\ Y(p) * picture.width + X(p) = Y(q) * picture.width + X(q)
      BY <1>1, <1>2, <1>4
    <3> HIDE DEF X, Y
    <3> QED
      BY <1>1, <3>1, PlaceOnce
  <2>2. \A r \in {p, q} : /\ r \in Pixels
                          /\ r.x \in {0, Side} /\ r.y \in {0, Side}
                          /\ r.bx \in 0 .. Side - 1 /\ r.by \in 0 .. Side - 1
    BY CopiedWithin
  <2>3. PICK mx \in Nat, my \in Nat : mx = mcu_x * MCUWidth /\ my = mcu_y * MCUHeight
    BY PictureSizes DEF IInv, TypeOK, Sized
  <2>4. mx + p.x + p.bx = mx + q.x + q.bx /\ my + p.y + p.by = my + q.y + q.by
    BY <2>1, <2>3
  <2>5. p.x = q.x /\ p.bx = q.bx /\ p.y = q.y /\ p.by = q.by
    BY <1>1, <2>2, <2>3, <2>4
  <2> QED
    BY <2>2, <2>5 DEF Pixels
<1> QED
  BY <1>3, <1>4

\* No copy writes outside the bitmap or twice to one place, for every picture
\* size, MCU shape and block size.
THEOREM CopyStaysInBounds == Spec => []CopyInBounds
BY CopyBounded, PictureInvariance, PTL
-----------------------------------------------------------------------------
(***************************************************************************)
(* A complete picture is right, pixel for pixel.                           *)
(***************************************************************************)
\* The MCU of a pixel, and what the bitmap gets for it.
MCUOf(x, y) == (y \div MCUHeight) * gMaxMCUSPerRow + x \div MCUWidth
Expected(x, y) ==
  LET inX == x % MCUWidth
      inY == y % MCUHeight
      block == inX \div Side + 2 * (inY \div Side)
  IN  <<MCUOf(x, y), block * Side * Side + (inY % Side) * Side + (inX % Side)>>

CopiedMCUs == IF pc = "copy" THEN mcus - 1 ELSE mcus

PixelsSoFar ==
  pc \in {"decode_mcu", "copy", "complete"} =>
    \A x \in 0 .. picture.width - 1, y \in 0 .. picture.height - 1 :
      MCUOf(x, y) < CopiedMCUs => pImage[y * picture.width + x] = Expected(x, y)

RowEnds == /\ pc \in {"decode_mcu", "complete"} /\ mcu_y = gMaxMCUSPerCol => mcu_x = 0
           /\ pc = "complete" => mcu_y = gMaxMCUSPerCol

PInv == IInv /\ PixelsSoFar /\ RowEnds

LEMMA Decompose ==
  ASSUME NEW n \in Nat \ {0}, NEW a \in Nat
  PROVE  \E q \in Nat : \E r \in 0 .. n - 1 :
           a = q * n + r /\ a \div n = q /\ a % n = r
<1>1. PICK q \in Nat, r \in 0 .. n - 1 : a = q * n + r
  <2>1. n \in Nat /\ n > 0
    OBVIOUS
  <2> QED
    BY <2>1, QuotientRemainder, Zenon
<1>2. a \div n = q /\ a % n = r
  <2>1. n \in Nat /\ r \in Nat /\ r < n
    OBVIOUS
  <2>2. (q * n + r) \div n = q /\ (q * n + r) % n = r
    BY <2>1, DivUnique, Zenon
  <2> QED
    BY <1>1, <2>2, Zenon
<1> QED
  BY <1>1, <1>2, Zenon

LEMMA TimesMonotone ==
  ASSUME NEW d \in Nat, NEW a \in Nat, NEW b \in Nat, a <= b
  PROVE  a * d <= b * d /\ a * d \in Nat /\ b * d \in Nat
BY SMTT(30)

\* As many units as cover a size reach each of its places.
LEMMA CoverReaches ==
  ASSUME NEW d \in Nat \ {0}, NEW size \in Nat \ {0}, NEW q \in Nat, q * d <= size - 1
  PROVE  q < (size + d - 1) \div d
<1>1. PICK c \in Nat, r \in 0 .. d - 1 :
        size + d - 1 = c * d + r /\ (size + d - 1) \div d = c
  <2>1. size + d - 1 \in Nat
    OBVIOUS
  <2> QED
    BY <2>1, Decompose
<1>2. ASSUME c <= q PROVE FALSE
  <2>1. c * d <= q * d /\ c * d \in Nat /\ q * d \in Nat
    BY <1>2, TimesMonotone
  <2> QED
    BY <1>1, <2>1
<1> QED
  BY <1>1, <1>2

\* The place of a pixel in its MCU, as its block and the place in that.
LEMMA BlockOfPlace ==
  ASSUME NEW n \in {1, 2}, Side \in Nat \ {0}, NEW r \in 0 .. Side * n - 1
  PROVE  \E b \in 0 .. n - 1 : \E c \in 0 .. Side - 1 :
           /\ r = Side * b + c /\ r \div Side = b /\ r % Side = c
           /\ b \in {0, 1} /\ Side * b \in Starts(n)
<1>1. PICK b \in Nat, c \in 0 .. Side - 1 : r = b * Side + c /\ r \div Side = b /\ r % Side = c
  <2>1. r \in Nat
    OBVIOUS
  <2> QED
    BY <2>1, Decompose
<1>2. b <= n - 1
  <2> SUFFICES ASSUME n <= b PROVE FALSE
    BY <1>1
  <2>1. n * Side <= b * Side /\ n * Side \in Nat /\ b * Side \in Nat
    BY TimesMonotone
  <2>2. n * Side = Side * n
    OBVIOUS
  <2> QED
    BY <1>1, <2>1, <2>2
<1>3. b \in 0 .. n - 1 /\ b \in {0, 1} /\ b * Side = Side * b
  BY <1>1, <1>2
<1>4. Side * b \in Starts(n)
  BY <1>3 DEF Starts
<1> QED
  BY <1>1, <1>3, <1>4

\* The pixels of the MCU that is being copied, with their places.
LEMMA ExpectedCopied ==
  ASSUME IInv, pc = "copy",
         NEW x \in 0 .. picture.width - 1, NEW y \in 0 .. picture.height - 1,
         MCUOf(x, y) = mcus - 1
  PROVE  \E p \in Copied : /\ Destination(p) = y * picture.width + x
                           /\ <<mcus - 1, Source(p)>> = Expected(x, y)
<1>1. /\ picture.h \in {1, 2} /\ picture.v \in {1, 2}
      /\ MCUWidth \in Nat \ {0} /\ MCUHeight \in Nat \ {0}
      /\ gMaxMCUSPerRow \in Nat \ {0} /\ gMaxMCUSPerCol \in Nat \ {0}
      /\ picture \in Pictures /\ mcu_x \in Nat /\ mcu_y \in Nat
  BY PictureSizes DEF IInv, TypeOK, Sized
<1>2. picture.width \in Nat \ {0} /\ picture.height \in Nat \ {0} /\ Side \in Nat \ {0}
  BY <1>1, PictureAssumption
<1>3. mcu_x \in 0 .. gMaxMCUSPerRow - 1 /\ mcus - 1 = mcu_y * gMaxMCUSPerRow + mcu_x
  <2>1. /\ mcu_x \in 0 .. gMaxMCUSPerRow - 1
        /\ mcus = mcu_y * gMaxMCUSPerRow + mcu_x + 1
    BY DEF IInv, CountersWithin
  <2>2. mcu_y * gMaxMCUSPerRow \in Nat
    BY <1>1, TimesMonotone
  <2> QED
    BY <2>1, <2>2
<1>4. PICK qx \in Nat, rx \in 0 .. MCUWidth - 1 :
        x = qx * MCUWidth + rx /\ x \div MCUWidth = qx /\ x % MCUWidth = rx
  <2>1. x \in Nat
    BY <1>2
  <2> QED
    BY <1>1, <2>1, Decompose, Zenon
<1>5. PICK qy \in Nat, ry \in 0 .. MCUHeight - 1 :
        y = qy * MCUHeight + ry /\ y \div MCUHeight = qy /\ y % MCUHeight = ry
  <2>1. y \in Nat
    BY <1>2
  <2> QED
    BY <1>1, <2>1, Decompose, Zenon
<1>6. qx = mcu_x /\ qy = mcu_y
  <2>1. qx * MCUWidth \in Nat /\ qx * MCUWidth <= picture.width - 1
    BY <1>1, <1>2, <1>4, TimesMonotone
  <2>2. qx \in 0 .. gMaxMCUSPerRow - 1
    BY <1>1, <1>2, <2>1, CoverReaches DEF gMaxMCUSPerRow
  <2>3. qy * gMaxMCUSPerRow + qx = mcu_y * gMaxMCUSPerRow + mcu_x
    BY <1>3, <1>4, <1>5 DEF MCUOf
  <2>4. gMaxMCUSPerRow \in Nat
    BY <1>1
  <2> QED
    BY <1>1, <1>3, <2>2, <2>3, <2>4, PlaceOnce
<1>7. PICK b \in 0 .. picture.h - 1, bx \in 0 .. Side - 1 :
        /\ rx = Side * b + bx /\ rx \div Side = b /\ rx % Side = bx
        /\ b \in {0, 1} /\ Side * b \in Starts(picture.h)
  BY <1>1, <1>2, BlockOfPlace DEF MCUWidth
<1>8. PICK c \in 0 .. picture.v - 1, by \in 0 .. Side - 1 :
        /\ ry = Side * c + by /\ ry \div Side = c /\ ry % Side = by
        /\ c \in {0, 1} /\ Side * c \in Starts(picture.v)
  BY <1>1, <1>2, BlockOfPlace DEF MCUHeight
<1>9. PICK p \in Pixels : p.x = Side * b /\ p.y = Side * c /\ p.bx = bx /\ p.by = by
  <2>1. [x |-> Side * b, y |-> Side * c, bx |-> bx, by |-> by] \in Pixels
    BY <1>7, <1>8 DEF Pixels
  <2> QED
    BY <2>1
<1>10. PICK mx \in Nat, my \in Nat : mx = mcu_x * MCUWidth /\ my = mcu_y * MCUHeight
  BY <1>1, TimesMonotone
<1>11. /\ p.x \in {0, Side} /\ p.y \in {0, Side}
       /\ mx + p.x + p.bx = x /\ my + p.y + p.by = y
  <2>1. p.x \in {0, Side} /\ p.y \in {0, Side}
    BY <1>2, <1>7, <1>8, <1>9
  <2>2. x = mx + rx /\ y = my + ry
    BY <1>4, <1>5, <1>6, <1>10
  <2>3. rx = p.x + p.bx /\ ry = p.y + p.by
    BY <1>7, <1>8, <1>9
  <2>4. p.bx \in Nat /\ p.by \in Nat
    BY <1>2, <1>7, <1>8, <1>9
  <2> QED
    BY <1>2, <1>10, <2>1, <2>2, <2>3, <2>4
<1>12. p \in Copied
  <2>1. p.bx < Min({Side, picture.width - (mx + p.x)})
    <3>1. Side \in Int /\ picture.width - (mx + p.x) \in Int
      BY <1>2, <1>11
    <3>2. Min({Side, picture.width - (mx + p.x)}) \in {Side, picture.width - (mx + p.x)}
      BY <3>1, MinIsOne, Zenon
    <3> QED
      BY <1>2, <1>7, <1>9, <1>11, <3>2
  <2>2. p.by < Min({Side, picture.height - (my + p.y)})
    <3>1. Side \in Int /\ picture.height - (my + p.y) \in Int
      BY <1>2, <1>11
    <3>2. Min({Side, picture.height - (my + p.y)}) \in {Side, picture.height - (my + p.y)}
      BY <3>1, MinIsOne, Zenon
    <3> QED
      BY <1>2, <1>8, <1>9, <1>11, <3>2
  <2> QED
    BY <1>9, <1>10, <2>1, <2>2 DEF Copied
<1>13. Destination(p) = y * picture.width + x
  BY <1>10, <1>11 DEF Destination
<1>14. Expected(x, y) = <<mcus - 1, (b + 2 * c) * Side * Side + by * Side + bx>>
  BY <1>4, <1>5, <1>7, <1>8 DEF Expected
<1>15. Source(p) = (b + 2 * c) * Side * Side + by * Side + bx
  <2>1. PICK n \in Nat : n = Side * Side
    BY <1>2
  <2>2. (Side * b) * Side = b * n /\ (Side * c) * 2 * Side = 2 * c * n
        /\ (b + 2 * c) * Side * Side = (b + 2 * c) * n
    BY <1>2, <1>7, <1>8, <2>1
  <2>3. b * n + 2 * c * n = (b + 2 * c) * n
    BY <1>7, <1>8, <2>1
  <2>4. PICK u \in Nat, v \in Nat, w \in Nat : u = b * n /\ v = 2 * c * n /\ w = by * Side
    BY <1>2, <1>7, <1>8, <2>1
  <2> QED
    BY <1>7, <1>8, <1>9, <2>2, <2>3, <2>4 DEF Source
<1> QED
  BY <1>12, <1>13, <1>14, <1>15

LEMMA CopiedExpected ==
  ASSUME IInv, pc = "copy", NEW p \in Copied,
         NEW x \in 0 .. picture.width - 1, NEW y \in 0 .. picture.height - 1,
         Destination(p) = y * picture.width + x
  PROVE  MCUOf(x, y) = mcus - 1
<1>1. /\ picture.h \in {1, 2} /\ picture.v \in {1, 2}
      /\ MCUWidth \in Nat \ {0} /\ MCUHeight \in Nat \ {0}
      /\ gMaxMCUSPerRow \in Nat \ {0}
      /\ picture \in Pictures /\ mcu_x \in Nat /\ mcu_y \in Nat
  BY PictureSizes DEF IInv, TypeOK, Sized
<1>2. picture.width \in Nat \ {0} /\ picture.height \in Nat \ {0} /\ Side \in Nat \ {0}
  BY <1>1, PictureAssumption
<1>3. mcus - 1 = mcu_y * gMaxMCUSPerRow + mcu_x
  <2>1. mcus = mcu_y * gMaxMCUSPerRow + mcu_x + 1
    BY DEF IInv, CountersWithin
  <2>2. mcu_y * gMaxMCUSPerRow \in Nat
    BY <1>1, TimesMonotone
  <2> QED
    BY <1>1, <2>1, <2>2
<1>4. /\ p \in Pixels
      /\ p.bx \in 0 .. Side - 1 /\ p.by \in 0 .. Side - 1
      /\ mcu_x * MCUWidth + p.x + p.bx \in 0 .. picture.width - 1
      /\ mcu_y * MCUHeight + p.y + p.by \in 0 .. picture.height - 1
  BY CopiedWithin
<1>5. PICK X \in 0 .. picture.width - 1, Y \in 0 .. picture.height - 1 :
        X = mcu_x * MCUWidth + p.x + p.bx /\ Y = mcu_y * MCUHeight + p.y + p.by
  BY <1>4
<1>6. X = x /\ Y = y
  <2>1. Y * picture.width + X = y * picture.width + x
    BY <1>5 DEF Destination
  <2>2. X \in 0 .. picture.width - 1 /\ Y \in Nat /\ y \in Nat /\ picture.width \in Nat
    BY <1>2
  <2> QED
    BY <2>1, <2>2, PlaceOnce
<1>7. p.x + p.bx \in 0 .. MCUWidth - 1 /\ p.y + p.by \in 0 .. MCUHeight - 1
  <2>1. p.x \in Starts(picture.h) /\ p.y \in Starts(picture.v)
    BY <1>4 DEF Pixels
  <2>2. p.x + Side <= MCUWidth /\ p.x \in Nat
    <3>1. PICK b \in 0 .. picture.h - 1 : p.x = Side * b
      BY <2>1 DEF Starts
    <3>2. CASE b = 0
      BY <1>1, <1>2, <3>1, <3>2 DEF MCUWidth
    <3>3. CASE b = 1
      BY <1>1, <1>2, <3>1, <3>3 DEF MCUWidth
    <3> QED
      BY <1>1, <3>2, <3>3
  <2>3. p.y + Side <= MCUHeight /\ p.y \in Nat
    <3>1. PICK b \in 0 .. picture.v - 1 : p.y = Side * b
      BY <2>1 DEF Starts
    <3>2. CASE b = 0
      BY <1>1, <1>2, <3>1, <3>2 DEF MCUHeight
    <3>3. CASE b = 1
      BY <1>1, <1>2, <3>1, <3>3 DEF MCUHeight
    <3> QED
      BY <1>1, <3>2, <3>3
  <2> QED
    BY <1>1, <1>2, <1>4, <2>2, <2>3
<1>8. x \div MCUWidth = mcu_x
  <2>1. PICK r \in 0 .. MCUWidth - 1 : r = p.x + p.bx
    BY <1>7
  <2>2. x = mcu_x * MCUWidth + r
    <3>1. mcu_x * MCUWidth \in Nat
      BY <1>1, TimesMonotone
    <3>2. p.x \in Nat /\ p.bx \in Nat
      BY <1>2, <1>4, CopiedWithin
    <3> QED
      BY <1>5, <1>6, <2>1, <3>1, <3>2
  <2>3. MCUWidth \in Nat /\ r \in Nat /\ r < MCUWidth
    BY <1>1
  <2>4. (mcu_x * MCUWidth + r) \div MCUWidth = mcu_x
    BY <1>1, <2>3, DivUnique, Zenon
  <2> QED
    BY <2>2, <2>4, Zenon
<1>9. y \div MCUHeight = mcu_y
  <2>1. PICK r \in 0 .. MCUHeight - 1 : r = p.y + p.by
    BY <1>7
  <2>2. y = mcu_y * MCUHeight + r
    <3>1. mcu_y * MCUHeight \in Nat
      BY <1>1, TimesMonotone
    <3>2. p.y \in Nat /\ p.by \in Nat
      BY <1>2, <1>4, CopiedWithin
    <3> QED
      BY <1>5, <1>6, <2>1, <3>1, <3>2
  <2>3. MCUHeight \in Nat /\ r \in Nat /\ r < MCUHeight
    BY <1>1
  <2>4. (mcu_y * MCUHeight + r) \div MCUHeight = mcu_y
    BY <1>1, <2>3, DivUnique, Zenon
  <2> QED
    BY <2>2, <2>4, Zenon
<1> QED
  BY <1>3, <1>8, <1>9 DEF MCUOf

\* What depends on the picture and the place alone stays.
LEMMA SamePlaces ==
  ASSUME UNCHANGED picture, NEW x, NEW y
  PROVE  MCUOf(x, y)' = MCUOf(x, y) /\ Expected(x, y)' = Expected(x, y)
BY DEF MCUOf, Expected, MCUWidth, MCUHeight, gMaxMCUSPerRow

\* Every pixel belongs to an MCU of the picture.
LEMMA MCUOfPixel ==
  ASSUME picture \in Pictures, Supported,
         NEW x \in 0 .. picture.width - 1, NEW y \in 0 .. picture.height - 1
  PROVE  MCUOf(x, y) \in 0 .. gMaxMCUSPerRow * gMaxMCUSPerCol - 1
<1>1. /\ MCUWidth \in Nat \ {0} /\ MCUHeight \in Nat \ {0}
      /\ gMaxMCUSPerRow \in Nat \ {0} /\ gMaxMCUSPerCol \in Nat \ {0}
  BY PictureSizes
<1>2. picture.width \in Nat \ {0} /\ picture.height \in Nat \ {0} /\ x \in Nat /\ y \in Nat
  BY PictureAssumption
<1>3. x \div MCUWidth \in 0 .. gMaxMCUSPerRow - 1
  <2>1. PICK q \in Nat, r \in 0 .. MCUWidth - 1 :
          x = q * MCUWidth + r /\ x \div MCUWidth = q /\ x % MCUWidth = r
    BY <1>1, <1>2, Decompose, Zenon
  <2>2. PICK m \in Nat : m = q * MCUWidth
    BY <1>1, TimesMonotone
  <2>3. q * MCUWidth <= picture.width - 1
    BY <1>1, <1>2, <2>1, <2>2
  <2>4. q < gMaxMCUSPerRow
    BY <1>1, <1>2, <2>3, CoverReaches, Zenon DEF gMaxMCUSPerRow
  <2> QED
    BY <1>1, <2>1, <2>4
<1>4. y \div MCUHeight \in 0 .. gMaxMCUSPerCol - 1
  <2>1. PICK q \in Nat, r \in 0 .. MCUHeight - 1 :
          y = q * MCUHeight + r /\ y \div MCUHeight = q /\ y % MCUHeight = r
    BY <1>1, <1>2, Decompose, Zenon
  <2>2. PICK m \in Nat : m = q * MCUHeight
    BY <1>1, TimesMonotone
  <2>3. q * MCUHeight <= picture.height - 1
    BY <1>1, <1>2, <2>1, <2>2
  <2>4. q < gMaxMCUSPerCol
    BY <1>1, <1>2, <2>3, CoverReaches, Zenon DEF gMaxMCUSPerCol
  <2> QED
    BY <1>1, <2>1, <2>4
<1>5. gMaxMCUSPerRow \in Nat /\ gMaxMCUSPerCol \in Nat
  BY <1>1
<1> QED
  BY <1>3, <1>4, <1>5, PlaceInArea, Zenon DEF MCUOf

\* A copy gives the pixels of its MCU what they should have, and leaves the
\* others.
LEMMA CopyPixels ==
  ASSUME PInv, CopyMCU, mcu_y < gMaxMCUSPerCol,
         NEW x \in 0 .. picture.width - 1, NEW y \in 0 .. picture.height - 1,
         MCUOf(x, y) < mcus
  PROVE  pImage'[y * picture.width + x] = Expected(x, y)
<1> DEFINE o == y * picture.width + x
<1>1. IInv /\ pc = "copy" /\ picture \in Pictures /\ Supported
  BY DEF PInv, IInv, Sized, TypeOK, CopyMCU
<1>2. /\ gMaxMCUSPerRow \in Nat /\ gMaxMCUSPerCol \in Nat \ {0}
      /\ mcu_x \in Nat /\ mcu_y \in Nat /\ mcus \in Nat
      /\ picture.width \in Nat /\ picture.height \in Nat
  BY <1>1, PictureSizes, PictureAssumption DEF IInv, TypeOK
<1>3. o \in Offsets
  <2>1. y * picture.width + x \in 0 .. picture.width * picture.height - 1
    BY <1>2, PlaceInArea, Zenon
  <2> QED
    BY <2>1 DEF Offsets
<1>4. pImage'[o] = IF \E p \in Copied : Destination(p) = o
                     THEN <<mcus - 1, Source(CHOOSE p \in Copied : Destination(p) = o)>>
                     ELSE pImage[o]
  <2>1. ~ mcu_y >= gMaxMCUSPerCol
    BY <1>2
  <2> HIDE DEF o
  <2> QED
    BY <1>3, <2>1 DEF CopyMCU
<1>5. MCUOf(x, y) \in Int
  <2>1. MCUOf(x, y) \in 0 .. gMaxMCUSPerRow * gMaxMCUSPerCol - 1
    BY <1>1, MCUOfPixel, Zenon
  <2> QED
    BY <2>1
<1>6. CASE MCUOf(x, y) = mcus - 1
  <2>1. PICK p \in Copied : Destination(p) = o /\ <<mcus - 1, Source(p)>> = Expected(x, y)
    BY <1>1, <1>6, ExpectedCopied, Zenon
  <2>2. PICK q : q = (CHOOSE r \in Copied : Destination(r) = o)
    OBVIOUS
  <2>3. q \in Copied /\ Destination(q) = o
    BY <2>1, <2>2, Zenon
  <2>4. q = p
    BY <1>1, <2>1, <2>3, CopyBounded, Zenon DEF CopyInBounds
  <2> QED
    BY <1>4, <2>1, <2>2, <2>4, Zenon
<1>7. CASE MCUOf(x, y) # mcus - 1
  <2>1. ~ \E p \in Copied : Destination(p) = o
    BY <1>1, <1>7, CopiedExpected, Zenon
  <2>2. MCUOf(x, y) < mcus - 1
    BY <1>2, <1>5, <1>7
  <2>3. pImage[o] = Expected(x, y)
    BY <1>1, <2>2 DEF PInv, PixelsSoFar, CopiedMCUs
  <2> QED
    BY <1>4, <2>1, <2>3, Zenon
<1> QED
  BY <1>6, <1>7

LEMMA NextPInv == PInv /\ [Next]_vars => PInv'
<1> SUFFICES ASSUME PInv, [Next]_vars PROVE PInv'
  OBVIOUS
<1>1. IInv /\ IInv'
  BY NextIInv DEF PInv
<1>2. picture \in Pictures /\ mcu_x \in Nat /\ mcu_y \in Nat /\ mcus \in Nat
  BY <1>1 DEF IInv, TypeOK
<1>3. CASE UNCHANGED vars
  <2>1. UNCHANGED picture /\ UNCHANGED pImage /\ UNCHANGED pc /\ UNCHANGED mcus
        /\ UNCHANGED mcu_x /\ UNCHANGED mcu_y
    BY <1>3 DEF vars
  <2>2. PixelsSoFar'
    BY <2>1, SamePlaces DEF PInv, PixelsSoFar, CopiedMCUs
  <2> QED
    BY <1>1, <2>1, <2>2, SamePicture DEF PInv, RowEnds
<1>4. CASE initFrame
  <2>1. UNCHANGED picture
    BY <1>4 DEF initFrame
  <2>2. CASE ~Supported
    <3>1. pc' = "refused"
      BY <1>4, <2>2 DEF initFrame, Goto
    <3> QED
      BY <1>1, <2>2, <3>1 DEF PInv, PixelsSoFar, RowEnds
  <2>3. CASE Supported
    <3>1. /\ pc' = "decode_mcu" /\ mcus' = 0 /\ mcu_y' = 0
      BY <1>1, <1>4, <2>3 DEF initFrame, Goto, IInv, CountersWithin
    <3>2. gMaxMCUSPerCol \in Nat \ {0}
      BY <1>2, <2>3, PictureSizes
    <3>3. RowEnds'
      BY <2>1, <3>1, <3>2, SamePicture DEF RowEnds
    <3>4. ASSUME NEW x \in 0 .. picture.width - 1, NEW y \in 0 .. picture.height - 1
          PROVE  ~ MCUOf(x, y) < 0
      <4>1. MCUOf(x, y) \in 0 .. gMaxMCUSPerRow * gMaxMCUSPerCol - 1
        BY <1>2, <2>3, MCUOfPixel, Zenon
      <4> QED
        BY <4>1
    <3>5. PixelsSoFar'
      BY <2>1, <3>1, <3>4, SamePlaces DEF PixelsSoFar, CopiedMCUs
    <3> QED
      BY <1>1, <3>3, <3>5 DEF PInv
  <2> QED
    BY <2>2, <2>3
<1>5. CASE NoMoreBlocks
  <2>1. /\ pc = "decode_mcu" /\ pc' = "complete" /\ gNumMCUSRemainingY = 0
        /\ UNCHANGED picture /\ UNCHANGED pImage /\ UNCHANGED mcus
        /\ UNCHANGED mcu_x /\ UNCHANGED mcu_y
    BY <1>5 DEF NoMoreBlocks, Goto, counters
  <2>2. PixelsSoFar'
    BY <2>1, SamePlaces DEF PInv, PixelsSoFar, CopiedMCUs
  <2>3. mcu_y = gMaxMCUSPerCol
    <3>1. gMaxMCUSPerCol \in Nat /\ gNumMCUSRemainingY = gMaxMCUSPerCol - mcu_y
      BY <1>1, <1>2, <2>1, PictureSizes DEF IInv, Sized, CountersAgree
    <3> QED
      BY <1>2, <2>1, <3>1
  <2>4. RowEnds'
    BY <2>1, <2>3, SamePicture DEF PInv, RowEnds
  <2> QED
    BY <1>1, <2>2, <2>4 DEF PInv
<1>6. CASE DecodeFails
  <2>1. pc' = "failed"
    BY <1>6 DEF DecodeFails, Goto
  <2> QED
    BY <1>1, <2>1 DEF PInv, PixelsSoFar, RowEnds
<1>7. CASE DecodeMCU
  <2>1. /\ pc = "decode_mcu" /\ pc' = "copy" /\ mcus' = mcus + 1
        /\ UNCHANGED picture /\ UNCHANGED pImage
    BY <1>7 DEF DecodeMCU, Goto
  <2>2. CopiedMCUs' = CopiedMCUs
    BY <1>2, <2>1 DEF CopiedMCUs
  <2>3. PixelsSoFar'
    BY <2>1, <2>2, SamePlaces DEF PInv, PixelsSoFar
  <2>4. RowEnds'
    BY <2>1 DEF RowEnds
  <2> QED
    BY <1>1, <2>3, <2>4 DEF PInv
<1>8. CASE CopyMCU
  <2>1. pc = "copy" /\ UNCHANGED picture /\ UNCHANGED mcus
    BY <1>8 DEF CopyMCU
  <2>2. mcu_y < gMaxMCUSPerCol /\ gMaxMCUSPerCol \in Nat
    BY <1>1, <1>2, <2>1, PictureSizes DEF IInv, Sized, CountersWithin
  <2>3. /\ pc' = "decode_mcu"
        /\ IF mcu_x + 1 = gMaxMCUSPerRow
             THEN mcu_x' = 0 /\ mcu_y' = mcu_y + 1
             ELSE mcu_x' = mcu_x + 1 /\ UNCHANGED mcu_y
    <3>1. ~ mcu_y >= gMaxMCUSPerCol
      BY <1>2, <2>2
    <3> QED
      BY <1>8, <3>1 DEF CopyMCU, Goto
  <2>4. RowEnds'
    BY <1>2, <2>1, <2>2, <2>3, SamePicture DEF RowEnds
  <2>5. ASSUME NEW x \in 0 .. picture.width - 1, NEW y \in 0 .. picture.height - 1,
               MCUOf(x, y) < mcus
        PROVE  pImage'[y * picture.width + x] = Expected(x, y)
    BY <1>8, <2>2, <2>5, CopyPixels, Zenon
  <2>6. PixelsSoFar'
    BY <2>1, <2>3, <2>5, SamePlaces DEF PixelsSoFar, CopiedMCUs
  <2> QED
    BY <1>1, <2>4, <2>6 DEF PInv
<1> QED
  BY <1>3, <1>4, <1>5, <1>6, <1>7, <1>8 DEF Next

\* A picture that is complete has every MCU, and each pixel from the MCU and
\* the place in it that its scan type lays down: for every picture size, MCU
\* shape and block size.
THEOREM PictureIsComplete == Spec => []PictureComplete
<1>1. Init => PInv
  BY InitIInv DEF Init, PInv, PixelsSoFar, RowEnds
<1>2. PInv => PictureComplete
  <2> SUFFICES ASSUME PInv, pc = "complete"
               PROVE  /\ mcus = gMaxMCUSPerRow * gMaxMCUSPerCol
                      /\ \A x \in 0 .. picture.width - 1, y \in 0 .. picture.height - 1 :
                           pImage[y * picture.width + x] = Expected(x, y)
    BY DEF PictureComplete, Expected, MCUOf
  <2>1. /\ picture \in Pictures /\ Supported
        /\ mcus = mcu_y * gMaxMCUSPerRow + mcu_x
        /\ mcu_y = gMaxMCUSPerCol /\ mcu_x = 0
    BY DEF PInv, IInv, TypeOK, Sized, CountersAgree, RowEnds
  <2>2. gMaxMCUSPerRow \in Nat /\ gMaxMCUSPerCol \in Nat
    BY <2>1, PictureSizes
  <2>3. mcus = gMaxMCUSPerRow * gMaxMCUSPerCol /\ mcus \in Nat
    BY <2>1, <2>2
  <2>4. ASSUME NEW x \in 0 .. picture.width - 1, NEW y \in 0 .. picture.height - 1
        PROVE  pImage[y * picture.width + x] = Expected(x, y)
    <3>1. MCUOf(x, y) \in 0 .. mcus - 1
      BY <2>1, <2>3, MCUOfPixel, Zenon
    <3>2. MCUOf(x, y) < CopiedMCUs
      BY <2>3, <3>1 DEF CopiedMCUs
    <3> QED
      BY <3>2 DEF PInv, PixelsSoFar
  <2> QED
    BY <2>3, <2>4
<1> QED
  BY <1>1, <1>2, NextPInv, PTL DEF Spec
=============================================================================
