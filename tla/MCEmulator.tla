----------------------------- MODULE MCEmulator -----------------------------
(***************************************************************************)
(* Messages of two bytes: a frame of one byte is sent in one datagram, as  *)
(* with the sizes of config.h; of two in two, the last of them empty; of   *)
(* three in two, the last of them short.                                   *)
(***************************************************************************)
EXTENDS Emulator, TLC

MCSizes == 1 .. 3
=============================================================================
