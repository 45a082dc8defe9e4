---------------------------- MODULE MCAviReader ----------------------------
(***************************************************************************)
(* Small AVI files: a header, the "movi" list of video chunks of 0 .. 2    *)
(* payload bytes "j", and what comes after it.  Size bytes are written "n0",*)
(* "n1" ... by their value.                                                *)
(***************************************************************************)
EXTENDS AviReader, TLC

MCByte == {"m", "o", "v", "i", "0", "d", "c", "x", "1", "j", "n0", "n1", "n2", "n3"}
MCByteValue == [b \in MCByte |->
  CASE b = "n0" -> 0 [] b = "n1" -> 1 [] b = "n2" -> 2 [] b = "n3" -> 3
    [] b = "0" -> 48 [] b = "1" -> 49 [] b = "c" -> 99 [] b = "d" -> 100
    [] b = "i" -> 105 [] b = "j" -> 106 [] b = "m" -> 109 [] b = "o" -> 111
    [] b = "v" -> 118 [] b = "x" -> 120]

Size(n) == <<CASE n = 0 -> "n0" [] n = 1 -> "n1" [] n = 2 -> "n2" [] n = 3 -> "n3",
             "n0", "n0", "n0">>
Payload(n) == [k \in 1 .. n |-> "j"]
Chunk(n) == VideoChunk \o Size(n) \o Payload(n)

\* A file with two chunks, of a and b bytes.
Video(header, a, pad, b, tail) ==
  LET start == Len(header) + 4 IN
    [bytes |-> header \o Movi \o Chunk(a) \o pad \o Chunk(b) \o tail,
     payloads |-> <<start + 8, start + 8 + a + Len(pad) + 8>>]

Headers == {<<>>, <<"m", "o", "j">>}
\* An index of one entry; nothing; a byte of padding; part of the index's tag.
IndexTail == Index \o Size(2) \o VideoChunk \o Size(1)
CleanTails == {IndexTail, <<>>, <<"j">>, <<"i", "d", "j">>}

Clean == {Video(h, a, p, b, t) : h \in Headers, a \in 0 .. 2, b \in 0 .. 2,
                                 p \in {<<>>, <<"j">>}, t \in CleanTails}

\* Cut short: within the last payload, its size field or its tag.
Cut(v, n) == LET size == Len(v.bytes) - n
             IN  [bytes |-> SubSeq(v.bytes, 1, size),
                  payloads |-> [k \in 1 .. 2 |-> Min({v.payloads[k], size})]]
Truncated == {Cut(Video(<<>>, 2, <<>>, 3, <<>>), n) : n \in {1, 3, 5}}

MCVideos == Clean \cup Truncated

\* A chunk that follows a byte "0".
MCVideosZeroBefore == {Video(<<>>, 1, <<"0">>, 1, <<>>)}

\* What the theorems ask of the files is so of these, and not of that one.
ASSUME VideosAreOrderly ==
  /\ \A v \in MCVideos : Orderly(v) /\ EndsOutsideTag(v)
  /\ \A v \in MCVideosZeroBefore : ~Orderly(v)
=============================================================================
