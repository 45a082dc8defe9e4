------------------------------ MODULE BitInput ------------------------------
(***************************************************************************)
(* The input of picojpeg: the byte buffer gInBuf, which getChar reads,     *)
(* fillInBuf refills through the callback and stuffChar puts bytes back    *)
(* into, and the bit buffer gBitBuf in front of it.  The decoder is known  *)
(* by its calls only: getBits1 while it reads markers, fixInBuffer at the  *)
(* start of the scan, then getBits2, getBit and processRestart.            *)
(*                                                                         *)
(* A byte has Width bits and gInBuf InBufSize slots, to which the uint8    *)
(* offset is cut, as gInBufOfs is to the 256 slots of gInBuf.              *)
(***************************************************************************)
EXTENDS Integers, Sequences, FiniteSetsExt, Powers

CONSTANTS Width,      \* 8
          InBufSize,  \* PJPG_MAX_IN_BUF_SIZE, 256
          Reserve,    \* the slots fillInBuf leaves free for putting back: 4
          EOI, RST,   \* the codes of the markers: M_EOI, and one of M_RSTn
          MaxScan,    \* the fudge factor of processRestart: 1536
          Streams,    \* what the callback may hand out in all
          MaxTaken    \* a bound on the bits taken from one segment

ASSUME InputAssumption ==
  /\ Width \in Nat \ {0} /\ Reserve \in Nat /\ InBufSize \in Nat
  /\ 3 <= Reserve /\ Reserve < InBufSize
  /\ \A s \in Streams : s \in Seq(0 .. Pow2[Width] - 1)
  /\ EOI \in 1 .. Pow2[Width] - 2 /\ RST \in 1 .. Pow2[Width] - 2
  /\ MaxScan \in Nat \ {0} /\ MaxTaken \in Nat

FF == Pow2[Width] - 1

VARIABLES
  stream,  \* \in Streams
  in,      \* the input's fields, and history: see InputType
  phase,   \* what the decoder reads: "markers", "scan"; "failed"
  start,   \* history: the bytes before the current segment: the markers, or
           \* the entropy-coded data up to a restart marker
  taken    \* history: the bits the decoder took from the segment

vars == <<stream, in, phase, start, taken>>

InputType == [gInBuf : [0 .. InBufSize - 1 -> 0 .. FF],
              gInBufOfs : 0 .. InBufSize - 1,
              gInBufLeft : 0 .. InBufSize - 1,
              gTemFlag : BOOLEAN,
              gBitBuf : 0 .. Pow2[2 * Width] - 1,
              gBitsLeft : 0 .. Width,
              served : Nat,   \* the bytes the callback has handed out
              at : Nat]       \* history: the bytes read and not put back
-----------------------------------------------------------------------------
(***************************************************************************)
(* Bytes.  An operator that reads returns the input after it and the value *)
(* read, as a record [in |-> ..., val |-> ...].                            *)
(***************************************************************************)

fillInBuf(i) ==
  LET n == IF Len(stream) - i.served < InBufSize - Reserve
             THEN Len(stream) - i.served ELSE InBufSize - Reserve
  IN  [i EXCEPT !.gInBufOfs = Reserve,
                !.gInBufLeft = n,
                !.served = @ + n,
                !.gInBuf = [k \in DOMAIN @ |-> IF k \in Reserve .. Reserve + n - 1
                                                THEN stream[i.served + k - Reserve + 1]
                                                ELSE @[k]]]

\* Mutant: the count is not tested again after the refill.
GetCharUntested(i) ==
  LET f == IF i.gInBufLeft = 0 THEN fillInBuf(i) ELSE i
  IN  [in |-> [f EXCEPT !.gInBufLeft = @ - 1,
                        !.gInBufOfs = (@ + 1) % InBufSize,
                        !.at = @ + 1],
       val |-> f.gInBuf[f.gInBufOfs]]

\* Past the end, FF and EOI in turn.
getChar(i) ==
  LET f == IF i.gInBufLeft = 0 THEN fillInBuf(i) ELSE i
  IN  IF f.gInBufLeft = 0
        THEN [in |-> [f EXCEPT !.gTemFlag = ~@, !.at = @ + 1],
              val |-> IF f.gTemFlag THEN EOI ELSE FF]
        ELSE [in |-> [f EXCEPT !.gInBufLeft = @ - 1,
                               !.gInBufOfs = (@ + 1) % InBufSize,
                               !.at = @ + 1],
              val |-> f.gInBuf[f.gInBufOfs]]

\* Mutant: the byte put back does not count.
StuffUncounted(i, c) ==
  LET ofs == (i.gInBufOfs - 1) % InBufSize
  IN  [i EXCEPT !.gInBufOfs = ofs, !.gInBuf[ofs] = c, !.at = @ - 1]

stuffChar(i, c) ==
  LET ofs == (i.gInBufOfs - 1) % InBufSize
  IN  [i EXCEPT !.gInBufOfs = ofs, !.gInBuf[ofs] = c,
                !.gInBufLeft = @ + 1, !.at = @ - 1]

\* Mutant: the two bytes go back in the order they came.
OctetBackSwapped(i, FFCheck) ==
  LET c == getChar(i)
      n == getChar(c.in)
  IN  CASE ~FFCheck \/ c.val # FF -> c
        [] FFCheck /\ c.val = FF /\ n.val = 0 -> [in |-> n.in, val |-> FF]
        [] OTHER -> [in |-> stuffChar(stuffChar(n.in, FF), n.val), val |-> FF]

\* Mutant: only the second byte goes back.
OctetBackOne(i, FFCheck) ==
  LET c == getChar(i)
      n == getChar(c.in)
  IN  CASE ~FFCheck \/ c.val # FF -> c
        [] FFCheck /\ c.val = FF /\ n.val = 0 -> [in |-> n.in, val |-> FF]
        [] OTHER -> [in |-> stuffChar(n.in, n.val), val |-> FF]

\* With FFCheck, FF 0 is read as FF, and a marker is put back behind an FF.
getOctet(i, FFCheck) ==
  LET c == getChar(i)
      n == getChar(c.in)
  IN  CASE ~FFCheck \/ c.val # FF -> c
        [] FFCheck /\ c.val = FF /\ n.val = 0 -> [in |-> n.in, val |-> FF]
        [] OTHER -> [in |-> stuffChar(stuffChar(n.in, n.val), FF), val |-> FF]
-----------------------------------------------------------------------------
(***************************************************************************)
(* Bits.  gBitBuf holds the next Width + gBitsLeft bits, at its high end.  *)
(* An octet is or-ed into zero bits, which is adding it: see LowBitsZero.  *)
(***************************************************************************)
Shift(buf, n) == (buf * Pow2[n]) % Pow2[2 * Width]

\* Mutant: the buffer is not shifted on behind the octet.
RefillUnshifted(i, used, gap, FFCheck) ==
  LET c == getOctet(i, FFCheck)
  IN  [c.in EXCEPT !.gBitBuf = Shift(@, used) + c.val]

\* Reads an octet into the buffer, after all but gap of the buffer's last
\* Width bits have been used.
Refill(i, used, gap, FFCheck) ==
  LET c == getOctet(i, FFCheck)
  IN  [c.in EXCEPT !.gBitBuf = Shift(Shift(@, used) + c.val, gap)]

getBits(i, numBits, FFCheck) ==
  LET long == numBits > Width
      n == IF long THEN numBits - Width ELSE numBits
      first == IF long THEN Refill(i, i.gBitsLeft, Width - i.gBitsLeft, FFCheck) ELSE i
      ret == IF long THEN (i.gBitBuf \div Pow2[Width]) * Pow2[Width] + first.gBitBuf \div Pow2[Width]
                     ELSE i.gBitBuf
  IN  [in |-> IF first.gBitsLeft < n
                THEN LET gap == n - first.gBitsLeft IN
                       [Refill(first, first.gBitsLeft, gap, FFCheck)
                          EXCEPT !.gBitsLeft = Width - gap]
                ELSE [first EXCEPT !.gBitsLeft = @ - n, !.gBitBuf = Shift(@, n)],
       val |-> ret \div Pow2[2 * Width - numBits]]

getBit(i) ==
  LET f == IF i.gBitsLeft = 0
             THEN [Refill(i, 0, 0, TRUE) EXCEPT !.gBitsLeft = Width] ELSE i
  IN  [in |-> [f EXCEPT !.gBitsLeft = @ - 1, !.gBitBuf = Shift(@, 1)],
       val |-> i.gBitBuf \div Pow2[2 * Width - 1]]

\* The two calls that get the bit buffer going.
Prime(i, FFCheck) ==
  getBits(getBits([i EXCEPT !.gBitsLeft = Width], Width, FFCheck).in, Width, FFCheck).in

\* The whole bytes in the bit buffer go back into the byte buffer.
PutBack(i) ==
  LET low == i.gBitBuf % Pow2[Width]
      high == i.gBitBuf \div Pow2[Width]
  IN  stuffChar(IF i.gBitsLeft > 0 THEN stuffChar(i, low) ELSE i, high)
-----------------------------------------------------------------------------
(***************************************************************************)
(* The decoder's calls.                                                    *)
(***************************************************************************)
Bits(val, n) == [k \in 1 .. n |-> (val \div Pow2[n - k]) % 2]

Init ==
  /\ stream \in Streams
  /\ in = Prime([gInBuf |-> [k \in 0 .. InBufSize - 1 |-> 0],
                 gInBufOfs |-> 0, gInBufLeft |-> 0, gTemFlag |-> FALSE,
                 gBitBuf |-> 0, gBitsLeft |-> 0, served |-> 0, at |-> 0], FALSE)
  /\ phase = "markers"
  /\ start = 0
  /\ taken = << >>

\* Takes n bits by the call whose result is r.
Take(r, n) ==
  /\ Len(taken) + n <= MaxTaken
  /\ in' = r.in
  /\ taken' = taken \o Bits(r.val, n)
  /\ UNCHANGED <<stream, phase, start>>

\* A marker's fields have half a byte, a byte or two bytes.
getBits1 ==
  /\ phase = "markers"
  /\ \E n \in {Width \div 2, Width, 2 * Width} : Take(getBits(in, n, FALSE), n)

\* The scan header ends on a byte boundary.
fixInBuffer ==
  /\ phase = "markers"
  /\ in.gBitsLeft \in {0, Width}
  /\ LET put == PutBack(in)
     IN  in' = Prime(put, TRUE) /\ start' = put.at
  /\ phase' = "scan"
  /\ taken' = << >>
  /\ UNCHANGED stream

getBits2 ==
  /\ phase = "scan"
  /\ \E n \in 1 .. 2 * Width : Take(getBits(in, n, TRUE), n)

getBit1 ==
  /\ phase = "scan"
  /\ Take(getBit(in), 1)

\* What the bit buffer holds is dropped; the marker is looked for in the bytes
\* after it, as an FF, any number of FFs and the code.
processRestart ==
  /\ phase = "scan"
  /\ LET char[k \in 0 .. MaxScan + 1] ==
           IF k = 0 THEN [in |-> in, val |-> 0] ELSE getChar(char[k - 1].in)
         found == {k \in 2 .. MaxScan + 1 :
                     /\ char[k].val # FF
                     /\ \E j \in 1 .. k - 1 : char[j].val = FF}
         code == Min(found)
     IN  IF found # {} /\ char[code].val = RST
           THEN /\ in' = Prime(char[code].in, TRUE)
                /\ start' = char[code].in.at
                /\ taken' = << >>
                /\ UNCHANGED <<stream, phase>>
           ELSE /\ phase' = "failed"
                /\ in' = IF found # {} THEN char[code].in
                         ELSE IF \E j \in 1 .. MaxScan : char[j].val = FF
                                THEN char[MaxScan + 1].in ELSE char[MaxScan].in
                /\ UNCHANGED <<stream, start, taken>>

Next == getBits1 \/ fixInBuffer \/ getBits2 \/ getBit1 \/ processRestart

Spec == Init /\ [][Next]_vars
-----------------------------------------------------------------------------
(***************************************************************************)
(* Properties                                                              *)
(***************************************************************************)

\* Types of the input's fields: the offset and the count of a refilled buffer
\* fit in it (picojpeg.c, fillInBuf).
TypeOK ==
  /\ stream \in Streams
  /\ in \in InputType
  /\ phase \in {"markers", "scan", "failed"}
  /\ start \in Nat
  /\ taken \in Seq({0, 1})

\* Byte n of what getChar returns: the stream, then FF and EOI in turn.
ByteAt(n) ==
  IF n <= Len(stream) THEN stream[n]
  ELSE IF (n - Len(stream)) % 2 = 1 THEN FF ELSE EOI

\* What stuffChar puts back never overwrites a byte that is still to be read,
\* nor is a byte lost or made up out of turn when the buffer runs out after a
\* put-back: the unread slots of gInBuf and the bytes not yet handed out are
\* the stream from the place that has been read to (picojpeg.c, fillInBuf,
\* stuffChar, getChar).
StreamKept ==
  LET end == in.at + in.gInBufLeft
  IN  /\ \A k \in 1 .. in.gInBufLeft :
            in.gInBuf[(in.gInBufOfs + k - 1) % InBufSize] = ByteAt(in.at + k)
      /\ IF in.served < Len(stream) THEN end = in.served /\ ~in.gTemFlag
         ELSE end >= Len(stream) /\ in.gTemFlag = ((end - Len(stream)) % 2 = 1)

\* The bits of gBitBuf behind the ones it holds are zero between calls, so the
\* next octet is or-ed into zeros (picojpeg.c, getBits and getBit).
LowBitsZero == in.gBitBuf % Pow2[Width - in.gBitsLeft] = 0

\* The octets of a segment behind byte from, by getOctet's rules, each the place
\* of its first byte: an octet of the markers is any byte; in a scan FF 0 is one
\* octet, and at an FF with another byte behind it the octets stay, FF for ever.
OctetAt(from, scan, n) ==
  LET octet[k \in 0 .. n - 1] ==
        IF k = 0 THEN from + 1
        ELSE LET p == octet[k - 1] IN
               CASE ~scan \/ ByteAt(p) # FF -> p + 1
                 [] scan /\ ByteAt(p) = FF /\ ByteAt(p + 1) = 0 -> p + 2
                 [] OTHER -> p
  IN  octet[n - 1]

\* However reads of one bit, of fields and of whole words alternate, across
\* stuffed FFs and refills, the decoder is given the segment's bits in order,
\* none twice and none missing: the bits taken and then the bits that gBitBuf
\* holds are the segment's octets (picojpeg.c, getBits, getBit, getOctet).
BitsInOrder ==
  phase # "failed" =>
    LET ahead == Bits(in.gBitBuf \div Pow2[Width - in.gBitsLeft], Width + in.gBitsLeft)
        bits == taken \o ahead
    IN  /\ Len(bits) % Width = 0
        /\ \A k \in 1 .. Len(bits) \div Width :
              SubSeq(bits, (k - 1) * Width + 1, k * Width)
                = Bits(ByteAt(OctetAt(start, phase = "scan", k)), Width)

\* The last byte of the segment's data, and its marker behind it.
Data(n) == ByteAt(n) # FF \/ ByteAt(n + 1) = 0
LastOf(p) == /\ p = OctetAt(start, TRUE, (Len(taken) + Width - 1) \div Width)
             /\ Data(p)

\* The look-ahead of the bit buffer never eats the marker: when the decoder has
\* used its last bits out of the byte before a restart marker, processRestart
\* finds that marker and the next segment starts right behind it
\* (picojpeg.c, processRestart with getOctet).
RestartKeepsMarker ==
  \A p \in 1 .. Len(stream) + 1 :
    LET marker == IF ByteAt(p) = FF THEN p + 2 ELSE p + 1
    IN  /\ processRestart
        /\ taken # << >> /\ LastOf(p)
        /\ ByteAt(marker) = FF /\ ByteAt(marker + 1) = RST
        => phase' = "scan" /\ start' = marker + 1
RestartFindsMarker == [][RestartKeepsMarker]_vars
=============================================================================
