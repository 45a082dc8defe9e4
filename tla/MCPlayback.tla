----------------------------- MODULE MCPlayback -----------------------------
(***************************************************************************)
(* The outcomes of the AVI source, which are those of the dummy source and *)
(* more.  Lengths 0 .. 3 fit the static array of the instance; 4 does not, *)
(* and initialisation fails.                                               *)
(***************************************************************************)
EXTENDS Playback, TLC

MCBufferLengths == 0 .. 4
=============================================================================
