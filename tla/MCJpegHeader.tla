---------------------------- MODULE MCJpegHeader ----------------------------
(***************************************************************************)
(* JpegHeader on small files: codes of at most four bits and tables of two *)
(* quantisers.  Two files, of one component and of three, each as it is,   *)
(* cut at every byte, and with one segment replaced; and a file for every  *)
(* prefix code of up to four bits.                                         *)
(***************************************************************************)
EXTENDS JpegHeader, SequencesExt

Bytes2(n) == <<n \div 256, n % 256>>
Seg(marker, data) == <<255, marker>> \o Bytes2(Len(data) + 2) \o data

\* A segment whose length says n.
SegOf(marker, n, data) == <<255, marker>> \o Bytes2(n) \o data

DHT(index, bits) ==
  LET count == FoldSeq(+, 0, bits)
  IN  <<index>> \o bits \o [i \in 1 .. count |-> 32 + i]
SOF(precision, y, x, comps) ==
  <<precision>> \o Bytes2(y) \o Bytes2(x) \o <<Len(comps)>> \o FlattenSeq(comps)
SOS(comps) == <<Len(comps)>> \o FlattenSeq(comps) \o <<0, 63, 0>>

SOI == <<255, M_SOI>>
Data == <<85, 255, 0, 255, M_EOI>>

\* A part of a file, and what may stand in its place.
Part(default, others) == [default |-> default, others |-> others]

SOIPart == Part(SOI, {
  <<>>, <<0>> \o SOI, <<255, M_EOI, 7>> \o SOI, <<0, 255, M_EOI>> \o SOI, SOI \o <<7>>,
  <<0>> \o SOI \o <<7>>, [i \in 1 .. SOILimit |-> 7] \o SOI, SOI \o SOI})

MiscPart == Part(<<>>, {
  Seg(224, <<1, 255, M_SOS>>), SegOf(254, 1, <<>>), SegOf(254, 2, <<>>), SegOf(254, 65535, <<>>),
  Seg(M_DRI, <<0, 3>>), Seg(M_DRI, <<0, 3, 0>>), Seg(M_DAC, <<0>>), <<255, 1>>, <<255, M_JPG>>,
  <<255, 208>>, <<255, 255>>, <<0, 0>>, <<255, 0>>, <<255, M_EOI>>, Seg(M_SOS, <<>>)})

DQTPart == Part(Seg(M_DQT, <<0, 5, 6>>), {
  <<>>, Seg(M_DQT, <<1, 5, 6>>), Seg(M_DQT, <<16, 0, 5, 1, 6>>),
  Seg(M_DQT, <<0, 5, 6, 1, 7, 8>>), Seg(M_DQT, <<2, 5, 6>>), Seg(M_DQT, <<0, 5>>),
  Seg(M_DQT, <<>>), SegOf(M_DQT, 1, <<>>), Seg(M_DQT, <<16, 5, 6>>)})

Gray == SOF(8, 8, 8, <<<<1, 17, 0>>>>)
SOFPart == Part(Seg(M_SOF0, Gray), {
  Seg(M_SOF2, Gray), Seg(M_SOF9, Gray), Seg(193, Gray), Seg(M_SOF0, Gray \o <<0>>),
  Seg(M_SOF0, SOF(12, 8, 8, <<<<1, 17, 0>>>>)), Seg(M_SOF0, SOF(8, 0, 8, <<<<1, 17, 0>>>>)),
  Seg(M_SOF0, SOF(8, 8, 16385, <<<<1, 17, 0>>>>)), Seg(M_SOF0, SOF(8, 8, 8, <<>>)),
  Seg(M_SOF0, SOF(8, 8, 8, <<<<1, 33, 0>>>>)), Seg(M_SOF0, SOF(8, 8, 8, <<<<1, 17, 2>>>>)),
  Seg(M_SOF0, SOF(8, 8, 8, [i \in 1 .. 4 |-> <<i, 17, 0>>])),
  Seg(M_SOF0, Gray) \o Seg(M_SOF0, Gray)})

DHTPart(index) == Part(Seg(M_DHT, DHT(index, <<1, 1, 0, 0>>)), {
  <<>>, Seg(M_DHT, DHT(2, <<1, 1, 0, 0>>)), Seg(M_DHT, DHT(32, <<1, 1, 0, 0>>)),
  Seg(M_DHT, DHT(index, <<0, 0, 9, 9>>)), SegOf(M_DHT, 6, DHT(index, <<1, 0, 0, 0>>)),
  Seg(M_DHT, DHT(index, <<1, 0, 0, 0>>) \o DHT(index, <<0, 2, 0, 0>>)),
  Seg(M_DHT, DHT(index, <<1, 0, 0, 0>>) \o <<index, 0>>),
  Seg(M_DHT, DHT(16 - index, <<0, 0, 3, 0>>)), SegOf(M_DHT, 1, <<>>)})

SOSPart == Part(Seg(M_SOS, SOS(<<<<1, 0>>>>)), {
  Seg(M_SOS, SOS(<<<<1, 0>>>>) \o <<0>>), Seg(M_SOS, SOS(<<>>)), Seg(M_SOS, SOS(<<<<9, 0>>>>)),
  Seg(M_SOS, SOS(<<<<1, 32>>>>)), Seg(M_SOS, SOS(<<<<1, 16>>>>)), Seg(M_SOS, SOS(<<<<1, 1>>>>)),
  Seg(M_SOS, SOS(<<<<1, 0>>, <<1, 0>>>>)), Seg(M_SOS, SOS([i \in 1 .. 4 |-> <<1, 0>>])),
  SegOf(M_SOS, 1, <<>>), <<255, M_EOI>>, <<>>})

GrayFile == <<SOIPart, MiscPart, DQTPart, SOFPart, DHTPart(0), DHTPart(16), SOSPart,
              Part(Data, {<<>>})>>

Colour(h, v) == SOF(8, 16, 16, <<<<1, 16 * h + v, 0>>, <<2, 17, 1>>, <<3, 17, 1>>>>)
ColourScan(c1, c2) == SOS(<<<<1, c1>>, <<2, c2>>, <<3, c2>>>>)

ColourFile == <<
  Part(SOI, {}),
  Part(Seg(M_DQT, <<0, 5, 6, 1, 7, 8>>), {Seg(M_DQT, <<0, 5, 6>>)}),
  Part(Seg(M_SOF0, Colour(2, 2)), {Seg(M_SOF0, Colour(h, v)) : h \in 1 .. 3, v \in 1 .. 2}
    \cup {Seg(M_SOF0, SOF(8, 16, 16, <<<<1, 34, 0>>, <<1, 17, 1>>, <<3, 17, 1>>>>)),
          Seg(M_SOF0, SOF(8, 16, 16, <<<<1, 34, 0>>, <<2, 33, 1>>, <<3, 17, 1>>>>))}),
  Part(Seg(M_DHT, DHT(0, <<1, 0, 2, 0>>) \o DHT(16, <<0, 2, 0, 1>>)
                    \o DHT(1, <<0, 0, 0, 2>>) \o DHT(17, <<1, 1, 1, 1>>)),
       {Seg(M_DHT, DHT(0, <<1, 0, 2, 0>>) \o DHT(16, <<0, 2, 0, 1>>))}),
  Part(Seg(M_SOS, ColourScan(0, 17)), {Seg(M_SOS, ColourScan(c1, c2)) :
         c1 \in {0, 1, 16, 32}, c2 \in {0, 17, 33, 34}}
    \cup {Seg(M_SOS, SOS(<<<<1, 0>>>>)), Seg(M_SOS, SOS(<<<<1, 0>>, <<2, 17>>>>)),
          Seg(M_SOS, SOS(<<<<1, 0>>, <<2, 0>>, <<2, 17>>>>))}),
  Part(Data, {<<0>>})>>

Whole(file) == FlattenSeq([i \in DOMAIN file |-> file[i].default])
WithOther(file, n, other) ==
  FlattenSeq([i \in DOMAIN file |-> IF i = n THEN other ELSE file[i].default])

FilesOf(file) ==
  {SubSeq(Whole(file), 1, n) : n \in 0 .. Len(Whole(file))}
    \cup UNION {{WithOther(file, n, other) : other \in file[n].others} : n \in DOMAIN file}

\* Codes of at most four bits, twelve of them at most.
PrefixCodes == {bits \in (0 .. 1) \X (0 .. 3) \X (0 .. 7) \X (0 .. 12) :
  8 * bits[1] + 4 * bits[2] + 2 * bits[3] + bits[4] <= 15 /\ FoldSeq(+, 0, bits) <= MaxDC}

MCStreams == FilesOf(GrayFile) \cup FilesOf(ColourFile)
  \cup {WithOther(GrayFile, 5, Seg(M_DHT, DHT(0, bits))) : bits \in PrefixCodes}
=============================================================================
