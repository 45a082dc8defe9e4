-------------------------- MODULE MCPictureDecode --------------------------
(***************************************************************************)
(* Blocks of 2 by 2 pixels, and pictures whose sizes are and are not       *)
(* multiples of an MCU's; two restart numbers, so that they come round.    *)
(***************************************************************************)
EXTENDS PictureDecode, TLC

MCPictures ==
  [width : {1, 4, 5}, height : {2, 3, 5}, comps : {3}, h : {1, 2}, v : {1, 2}]
    \cup [width : {3}, height : {3}, comps : {1, 2}, h : {1, 3}, v : {1}]
MCRestartIntervals == 0 .. 2
=============================================================================
