---------------------------- MODULE MCRingBuffer ----------------------------
(***************************************************************************)
(* A 2-bit uint16_t: lengths 4 and 5 are cut to 0 and 1 as 65536 and 65537 *)
(* are by the 16-bit field.  Two frame values are enough to tell a FIFO    *)
(* from any reordering, loss or duplication of its entries.                *)
(***************************************************************************)
EXTENDS RingBufferCalls, TLC

MCBufferLengths == 0 .. 5
=============================================================================
