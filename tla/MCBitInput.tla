----------------------------- MODULE MCBitInput -----------------------------
(***************************************************************************)
(* BitInput with bytes of two bits: 3 is FF, 1 is EOI and 2 a restart      *)
(* marker.  gInBuf has two slots more than fillInBuf leaves free, so every *)
(* put-back of two bytes meets a refill.                                   *)
(***************************************************************************)
EXTENDS BitInput

\* Every stream of up to four bytes, and every one of six that starts with a
\* byte of markers and one of data and has a restart marker behind the data.
MCStreams ==
  (UNION {[1 .. n -> 0 .. 3] : n \in 0 .. 4})
    \cup {<<1, d>> \o s \o <<3, 2, 0>> : d \in 0 .. 3, s \in [1 .. 2 -> 0 .. 3]}
=============================================================================
