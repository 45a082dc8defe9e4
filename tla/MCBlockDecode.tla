--------------------------- MODULE MCBlockDecode ---------------------------
(***************************************************************************)
(* BlockDecode with its own numbers: 64 coefficients, runs up to 15, MCU   *)
(* buffers of 256 bytes, and all scan types.                               *)
(***************************************************************************)
EXTENDS BlockDecode

MCScanTypes == {"GRAYSCALE", "YH1V1", "YH1V2", "YH2V1", "YH2V2"}
=============================================================================
