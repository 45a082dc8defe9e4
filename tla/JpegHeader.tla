----------------------------- MODULE JpegHeader -----------------------------
(***************************************************************************)
(* pjpeg_decode_init: from the start of image through the marker segments  *)
(* to the scan.  The stream is a sequence of bytes; pos is the byte that   *)
(* the next getBits1(8) returns, and this one has been fetched already, as *)
(* BitInput has it.  Past the end getChar returns FF and D9 in turn.       *)
(*                                                                         *)
(* The globals that an earlier picture has left are Stale.  What a call    *)
(* leaves that fails is not looked at: the next one begins at init.        *)
(***************************************************************************)
EXTENDS Huffman, Sequences

CONSTANTS Streams,      \* the files, as sequences of bytes
          QuantSize,    \* entries of a quantisation table: 64
          MaxDC, MaxAC, \* getMaxHuffCodes: 12 and 255
          MaxSize,      \* PJPG_MAX_WIDTH, PJPG_MAX_HEIGHT: 16384
          SOILimit      \* bytesleft: 4096

ASSUME HeaderAssumption ==
  /\ Streams \subseteq Seq(0 .. 255)
  /\ QuantSize \in Nat \ {0} /\ MaxDC \in 0 .. 16 /\ MaxAC \in 0 .. 256
  /\ MaxSize \in Nat /\ SOILimit \in Nat

MaxWord == 65535  \* the greatest uint16

M_SOF0 == 192
M_SOF2 == 194
M_DHT == 196
M_JPG == 200
M_SOF9 == 201
M_DAC == 204
M_SOI == 216
M_EOI == 217
M_SOS == 218
M_DQT == 219
M_DRI == 221

\* The markers that processMarkers returns, and those it refuses.
Returned == ((192 .. 207) \ {M_DHT, M_JPG, M_DAC}) \cup {M_SOI, M_EOI, M_SOS}
Refused == {M_JPG, 1, M_DAC} \cup (208 .. 215)

VARIABLES
  stream, fails,  \* fails: the callback reports an error where stream ends
  pc,             \* "init", "soi", "markers", "dht", "dqt", "frame", "scan", "returned"
  locating,       \* "SOF" or "SOS": which of the two calls processMarkers
  pos, left,
  segment,        \* where the segment being read begins, 0 for none
  status, dropped,\* dropped: the statuses that processMarkers has not looked at
  gValidHuffTables, gHuffTab,
  bitsRead,       \* by table: the numbers of codes huffCreate was given
  gHuffVal,       \* by table: the places this picture has read
  gValidQuantTables, gQuant,
  gImageXSize, gImageYSize,
  gComp,          \* gCompIdent, gCompHSamp, gCompVSamp and gCompQuant
  gCompList, gCompDCTab, gCompACTab,
  gRestartInterval, gScanType

tables == <<gValidHuffTables, gHuffTab, bitsRead, gHuffVal, gValidQuantTables, gQuant>>
frame == <<gImageXSize, gImageYSize, gComp, gScanType>>
scan == <<gCompList, gCompDCTab, gCompACTab>>
input == <<stream, fails>>
vars == <<input, pc, locating, pos, left, segment, status, dropped, tables,
          frame, scan, gRestartInterval>>

\* What an earlier picture has left: of a table, of a number.
Stale == <<>>
StaleNumber == -1
gCompsInFrame == Cardinality(DOMAIN gComp)

\* Mutant: nothing but zeros past the end.
ByteZero(i) == IF i <= Len(stream) THEN stream[i] ELSE 0

Byte(i) == IF i <= Len(stream) THEN stream[i]
           ELSE IF (i - Len(stream)) % 2 = 1 THEN 255 ELSE M_EOI

Word(i) == 256 * Byte(i) + Byte(i + 1)

\* gCallbackStatus, once the bytes up to i have been fetched.
ReadError(i) == fails /\ i > Len(stream)

\* pjpeg_decode_init returns, with all bytes up to fetched read.
Return(st, fetched) ==
  /\ status' = IF ReadError(fetched) THEN "PJPG_STREAM_READ_ERROR" ELSE st
  /\ pc' = "returned"

\* The first check that fails, of a sequence of conditions, each with the status
\* it gives and the place where reading has come to; ok and end if none does.
FirstFailure(checks, end) ==
  LET failing == {i \in DOMAIN checks : checks[i][1]}
  IN  IF failing = {} THEN [status |-> "ok", pos |-> end]
      ELSE [status |-> checks[Min(failing)][2], pos |-> checks[Min(failing)][3]]

Init ==
  /\ stream \in Streams /\ fails \in BOOLEAN
  /\ pc = "init" /\ locating = "SOF"
  /\ pos = 1 /\ left = 0 /\ segment = 0
  /\ status = "ok" /\ dropped = <<>>
  /\ gValidHuffTables = 0 .. 3 /\ gValidQuantTables = {0, 1}
  /\ gHuffTab = [t \in 0 .. 3 |-> Stale] /\ bitsRead = [t \in 0 .. 3 |-> Stale]
  /\ gHuffVal = [t \in 0 .. 3 |-> <<>>]
  /\ gQuant = [n \in {0, 1} |-> Stale]
  /\ gImageXSize = 0 /\ gImageYSize = 0 /\ gScanType = "GRAYSCALE"
  /\ gComp = [ci \in 0 .. 2 |-> Stale]
  /\ gCompList = <<>>
  /\ gCompDCTab = [ci \in 0 .. 2 |-> StaleNumber]
  /\ gCompACTab = [ci \in 0 .. 2 |-> StaleNumber]
  /\ gRestartInterval = 1
-----------------------------------------------------------------------------
\* Mutant: the tables that an earlier picture has defined stay valid.
initKeepsTables ==
  /\ gImageXSize' = 0 /\ gImageYSize' = 0
  /\ gComp' = <<>> /\ gCompList' = <<>>
  /\ gRestartInterval' = 0
  /\ UNCHANGED <<gValidHuffTables, gValidQuantTables>>

init ==
  /\ gImageXSize' = 0 /\ gImageYSize' = 0
  /\ gComp' = <<>> /\ gCompList' = <<>>
  /\ gRestartInterval' = 0
  /\ gValidHuffTables' = {} /\ gValidQuantTables' = {}

CallInit ==
  /\ pc = "init"
  /\ init
  /\ IF ReadError(1) THEN Return("ok", 1) ELSE pc' = "soi" /\ UNCHANGED status
  /\ UNCHANGED <<input, locating, pos, left, segment, dropped, gHuffTab, bitsRead,
                 gHuffVal, gQuant, gScanType, gCompDCTab, gCompACTab>>

\* Where FF is followed by SOI or EOI, from the third byte on, within the limit.
SOIStops == {i \in 3 .. SOILimit + 1 : Byte(i - 1) = 255 /\ Byte(i) \in {M_SOI, M_EOI}}

locateSOIMarker ==
  /\ pc = "soi"
  /\ LET atOnce == Byte(1) = 255 /\ Byte(2) = M_SOI
         last == IF atOnce THEN 2 ELSE IF SOIStops = {} THEN SOILimit + 1 ELSE Min(SOIStops)
         found == atOnce \/ (SOIStops # {} /\ Byte(last) = M_SOI /\ Byte(last + 1) = 255)
     IN  /\ pos' = last + 1
         /\ IF found THEN pc' = "markers" /\ UNCHANGED status
                     ELSE Return("PJPG_NOT_JPEG", last + 1)
  /\ UNCHANGED <<input, locating, left, segment, dropped, tables, frame, scan, gRestartInterval>>
-----------------------------------------------------------------------------
\* Where nextMarker finds its marker: behind an FF, and neither FF nor 0.
Markers == {i \in pos + 1 .. (IF pos > Len(stream) THEN pos ELSE Len(stream)) + 3 :
              Byte(i - 1) = 255 /\ Byte(i) \notin {0, 255}}
MarkerAt == Min(Markers)
Segment == MarkerAt + 1    \* of its length

\* processMarkers comes to a marker of a set.
AtMarker(set) == pc = "markers" /\ Markers # {} /\ Byte(MarkerAt) \in set

\* Back to processMarkers, at byte i, from a reader that returns st.
BackAt(i, st) ==
  /\ pos' = i
  /\ pc' = "markers"
  /\ dropped' = IF st = "ok" THEN dropped ELSE Append(dropped, st)

RefuseMarker ==
  /\ AtMarker(Refused)
  /\ pos' = Segment
  /\ Return(IF Byte(MarkerAt) = M_DAC THEN "PJPG_NO_ARITHMITIC_SUPPORT"
                                       ELSE "PJPG_UNEXPECTED_MARKER", Segment)
  /\ UNCHANGED <<input, locating, left, segment, dropped, tables, frame, scan, gRestartInterval>>

skipVariableMarker ==
  /\ AtMarker((1 .. 254) \ (Returned \cup Refused \cup {M_DHT, M_DQT, M_DRI}))
  /\ segment' = Segment
  /\ IF Word(Segment) < 2 THEN BackAt(Segment + 2, "PJPG_BAD_VARIABLE_MARKER")
                          ELSE BackAt(Segment + Word(Segment), "ok")
  /\ UNCHANGED <<input, locating, left, status, tables, frame, scan, gRestartInterval>>

readDRIMarker ==
  /\ AtMarker({M_DRI})
  /\ segment' = Segment
  /\ IF Word(Segment) # 4
       THEN BackAt(Segment + 2, "PJPG_BAD_DRI_LENGTH") /\ UNCHANGED gRestartInterval
       ELSE BackAt(Segment + 4, "ok") /\ gRestartInterval' = Word(Segment + 2)
  /\ UNCHANGED <<input, locating, left, status, tables, frame, scan>>

\* The first test of readDHTMarker and readDQTMarker.
BeginTables(marker, reader, st) ==
  /\ AtMarker({marker})
  /\ segment' = Segment
  /\ IF Word(Segment) < 2
       THEN BackAt(Segment + 2, st) /\ UNCHANGED left
       ELSE /\ pos' = Segment + 2 /\ left' = Word(Segment) - 2
            /\ pc' = reader /\ UNCHANGED dropped
  /\ UNCHANGED <<input, locating, status, tables, frame, scan, gRestartInterval>>

BeginDHT == BeginTables(M_DHT, "dht", "PJPG_BAD_DHT_MARKER")
BeginDQT == BeginTables(M_DQT, "dqt", "PJPG_BAD_DQT_MARKER")

EndTables ==
  /\ pc \in {"dht", "dqt"} /\ left = 0
  /\ BackAt(pos, "ok")
  /\ UNCHANGED <<input, locating, left, segment, status, tables, frame, scan, gRestartInterval>>
-----------------------------------------------------------------------------
\* Mutant: one limit for all tables.
getMaxHuffCodesAC(index) == MaxAC

getMaxHuffCodes(index) == IF index < 2 THEN MaxDC ELSE MaxAC

\* The tables are those of DC, 0 and 1, and of AC, 2 and 3.
tableIndex(index) == 2 * (index \div 16) + (index % 16)

\* One turn of readDHTMarker.
readHuffTable ==
  /\ pc = "dht" /\ left # 0
  /\ LET index == Byte(pos)
         t == tableIndex(index)
         bits == [i \in Lengths |-> Byte(pos + 1 + i)]
         count == CodesBelow(bits, CodeLengths)
         totalRead == 1 + CodeLengths + count
     IN  IF index \notin {0, 1, 16, 17}
           THEN BackAt(pos + 1, "PJPG_BAD_DHT_INDEX")
                /\ UNCHANGED <<left, gValidHuffTables, gHuffTab, bitsRead, gHuffVal>>
         ELSE IF count > getMaxHuffCodes(t)
           THEN /\ BackAt(pos + 1 + CodeLengths, "PJPG_BAD_DHT_COUNTS")
                /\ gValidHuffTables' = gValidHuffTables \cup {t}
                /\ UNCHANGED <<left, gHuffTab, bitsRead, gHuffVal>>
         ELSE
           /\ gValidHuffTables' = gValidHuffTables \cup {t}
           /\ gHuffVal' = [gHuffVal EXCEPT ![t] =
                [i \in DOMAIN @ \cup (0 .. count - 1) |->
                   IF i < count THEN Byte(pos + 1 + CodeLengths + i) ELSE @[i]]]
           /\ IF left < totalRead
                THEN BackAt(pos + totalRead, "PJPG_BAD_DHT_MARKER")
                     /\ UNCHANGED <<left, gHuffTab, bitsRead>>
                ELSE /\ pos' = pos + totalRead
                     /\ left' = left - totalRead
                     /\ gHuffTab' = [gHuffTab EXCEPT ![t] = huffCreate(bits)]
                     /\ bitsRead' = [bitsRead EXCEPT ![t] = bits]
                     /\ UNCHANGED <<pc, dropped>>
  /\ UNCHANGED <<input, locating, segment, status, gValidQuantTables, gQuant, frame, scan,
                 gRestartInterval>>

\* Mutant: the second bytes of the entries are not counted.
QuantRead8(prec) == QuantSize + 1

\* totalRead, of entries of one byte or of two.
QuantRead(prec) == IF prec = 0 THEN QuantSize + 1 ELSE QuantSize + 1 + QuantSize

\* One turn of readDQTMarker; createWinogradQuant works on the table alone.
readQuantTable ==
  /\ pc = "dqt" /\ left # 0
  /\ LET n == Byte(pos) % 16
         prec == Byte(pos) \div 16
         width == IF prec = 0 THEN 1 ELSE 2
         end == pos + 1 + width * QuantSize
     IN  IF n > 1
           THEN BackAt(pos + 1, "PJPG_BAD_DQT_TABLE")
                /\ UNCHANGED <<left, gValidQuantTables, gQuant>>
           ELSE /\ gValidQuantTables' = gValidQuantTables \cup {n}
                /\ gQuant' = [gQuant EXCEPT ![n] = [i \in 0 .. QuantSize - 1 |->
                     IF prec = 0 THEN Byte(pos + 1 + i) ELSE Word(pos + 1 + 2 * i)]]
                /\ IF left < QuantRead(prec)
                     THEN BackAt(end, "PJPG_BAD_DQT_LENGTH") /\ UNCHANGED left
                     ELSE /\ pos' = end
                          /\ left' = left - QuantRead(prec)
                          /\ UNCHANGED <<pc, dropped>>
  /\ UNCHANGED <<input, locating, segment, status, gValidHuffTables, gHuffTab, bitsRead,
                 gHuffVal, frame, scan, gRestartInterval>>
-----------------------------------------------------------------------------
\* The frame header that begins at p.
CompsAt(p) == [ci \in 0 .. Byte(p + 7) - 1 |->
  [ident |-> Byte(p + 8 + 3 * ci), h |-> Byte(p + 9 + 3 * ci) \div 16,
   v |-> Byte(p + 9 + 3 * ci) % 16, quant |-> Byte(p + 10 + 3 * ci)]]

readSOFMarker(p) ==
  LET bad == {ci \in 0 .. 2 : ci < Byte(p + 7) /\ Byte(p + 10 + 3 * ci) > 1}
  IN  FirstFailure(<<
        <<Byte(p + 2) # 8, "PJPG_BAD_PRECISION", p + 3>>,
        <<Word(p + 3) \notin 1 .. MaxSize, "PJPG_BAD_HEIGHT", p + 5>>,
        <<Word(p + 5) \notin 1 .. MaxSize, "PJPG_BAD_WIDTH", p + 7>>,
        <<Byte(p + 7) > 3, "PJPG_TOO_MANY_COMPONENTS", p + 8>>,
        <<Word(p) # 3 * Byte(p + 7) + 8, "PJPG_BAD_SOF_LENGTH", p + 8>>,
        <<bad # {}, "PJPG_UNSUPPORTED_QUANT_TABLE", p + 11 + 3 * Min(bad \cup {3})>>>>,
        p + 8 + 3 * Byte(p + 7))

\* The end of locateSOFMarker: the marker, and readSOFMarker if it is SOF0.
locateSOFMarker ==
  /\ locating = "SOF" /\ AtMarker(Returned)
  /\ segment' = Segment
  /\ LET c == Byte(MarkerAt)
         read == IF c = M_SOF0 THEN readSOFMarker(Segment)
                 ELSE [status |-> CASE c = M_SOF2 -> "PJPG_UNSUPPORTED_MODE"
                                    [] c = M_SOF9 -> "PJPG_NO_ARITHMITIC_SUPPORT"
                                    [] OTHER -> "PJPG_UNSUPPORTED_MARKER",
                       pos |-> Segment]
     IN  /\ pos' = read.pos
         /\ IF read.status # "ok" \/ ReadError(pos')
              THEN Return(read.status, pos') /\ UNCHANGED <<gImageXSize, gImageYSize, gComp>>
              ELSE /\ pc' = "frame" /\ UNCHANGED status
                   /\ gImageYSize' = Word(Segment + 3) /\ gImageXSize' = Word(Segment + 5)
                   /\ gComp' = CompsAt(Segment)
  /\ UNCHANGED <<input, locating, left, dropped, tables, gScanType, scan, gRestartInterval>>

\* gScanType by the sampling of a frame of three components.
ScanTypeOf(h, v) == CASE h = 1 /\ v = 1 -> "YH1V1" [] h = 1 /\ v = 2 -> "YH1V2"
                      [] h = 2 /\ v = 1 -> "YH2V1" [] h = 2 /\ v = 2 -> "YH2V2"

initFrame ==
  /\ pc = "frame"
  /\ LET plain(ci) == gComp[ci].h = 1 /\ gComp[ci].v = 1
         supported == IF gCompsInFrame = 1 THEN plain(0)
                      ELSE plain(1) /\ plain(2) /\ {gComp[0].h, gComp[0].v} \subseteq {1, 2}
         st == IF gCompsInFrame \notin {1, 3} THEN "PJPG_UNSUPPORTED_COLORSPACE"
               ELSE IF supported THEN "ok" ELSE "PJPG_UNSUPPORTED_SAMP_FACTORS"
     IN  IF st # "ok" THEN Return(st, pos) /\ UNCHANGED <<locating, gScanType>>
         ELSE /\ gScanType' = IF gCompsInFrame = 1 THEN "GRAYSCALE"
                              ELSE ScanTypeOf(gComp[0].h, gComp[0].v)
              /\ pc' = "markers" /\ locating' = "SOS" /\ UNCHANGED status
  /\ UNCHANGED <<input, pos, left, segment, dropped, tables, gImageXSize, gImageYSize,
                 gComp, scan, gRestartInterval>>
-----------------------------------------------------------------------------
\* The component of the frame with an identifier, gCompsInFrame if none has it.
CompOf(cc) == Min({ci \in DOMAIN gComp : gComp[ci].ident = cc} \cup {gCompsInFrame})

readSOSMarker(p) ==
  LET n == Byte(p + 2)
      bad == {i \in 0 .. 2 : i < n /\ CompOf(Byte(p + 3 + 2 * i)) = gCompsInFrame}
  IN  FirstFailure(<<
        <<(Word(p) - 3) % (MaxWord + 1) # n + n + 3 \/ n \notin 1 .. 3, "PJPG_BAD_SOS_LENGTH", p + 3>>,
        <<bad # {}, "PJPG_BAD_SOS_COMP_ID", p + 5 + 2 * Min(bad \cup {3})>>>>,
        p + 3 + 2 * n + 3)

\* The end of locateSOSMarker: the marker, and readSOSMarker if it is SOS.
locateSOSMarker ==
  /\ locating = "SOS" /\ AtMarker(Returned)
  /\ segment' = Segment
  /\ LET n == Byte(Segment + 2)
         read == IF Byte(MarkerAt) = M_SOS THEN readSOSMarker(Segment)
                 ELSE [status |-> "PJPG_UNEXPECTED_MARKER", pos |-> Segment]
         list == [i \in 1 .. n |-> CompOf(Byte(Segment + 1 + 2 * i))]
         listed(ci) == {i \in 1 .. n : list[i] = ci}
         selectors(ci) == Byte(Segment + 2 + 2 * Max(listed(ci)))
     IN  /\ pos' = read.pos
         /\ IF read.status # "ok" THEN Return(read.status, pos') /\ UNCHANGED scan
            ELSE /\ gCompList' = list
                 /\ gCompDCTab' = [ci \in 0 .. 2 |->
                      IF listed(ci) = {} THEN gCompDCTab[ci] ELSE selectors(ci) \div 16]
                 /\ gCompACTab' = [ci \in 0 .. 2 |->
                      IF listed(ci) = {} THEN gCompACTab[ci] ELSE selectors(ci) % 16]
                 /\ pc' = "scan" /\ UNCHANGED status
  /\ UNCHANGED <<input, locating, left, dropped, tables, frame, gRestartInterval>>

checkHuffTables == \A i \in DOMAIN gCompList :
  {gCompDCTab[gCompList[i]], gCompACTab[gCompList[i]] + 2} \subseteq gValidHuffTables

checkQuantTables == \A i \in DOMAIN gCompList :
  gComp[gCompList[i]].quant \in gValidQuantTables

\* The last byte that fixInBuffer fetches: it puts one back and reads it again as
\* an octet, which looks behind an FF.
ScanFetched == IF Byte(pos) = 255 THEN pos + 1 ELSE pos

\* The rest of initScan.  The restart counters and predictions that it sets are
\* those that PictureDecode begins with.
initScan ==
  /\ pc = "scan"
  /\ LET st == IF ~checkHuffTables THEN "PJPG_UNDEFINED_HUFF_TABLE"
               ELSE IF ~checkQuantTables THEN "PJPG_UNDEFINED_QUANT_TABLE" ELSE "ok"
     IN  Return(st, IF st = "ok" THEN ScanFetched ELSE pos)
  /\ UNCHANGED <<input, locating, pos, left, segment, dropped, tables, frame, scan,
                 gRestartInterval>>

Next ==
  \/ CallInit \/ locateSOIMarker
  \/ RefuseMarker \/ skipVariableMarker \/ readDRIMarker
  \/ BeginDHT \/ BeginDQT \/ readHuffTable \/ readQuantTable \/ EndTables
  \/ locateSOFMarker \/ initFrame \/ locateSOSMarker \/ initScan

Spec == Init /\ [][Next]_vars /\ WF_vars(Next)
-----------------------------------------------------------------------------
(***************************************************************************)
(* Properties                                                              *)
(***************************************************************************)

\* Types; the values of a table stay within its array, gHuffVal0 to gHuffVal3,
\* whatever numbers of codes a file has.
TypeOK ==
  /\ pc \in {"init", "soi", "markers", "dht", "dqt", "frame", "scan", "returned"}
  /\ locating \in {"SOF", "SOS"}
  /\ pos \in Nat \ {0} /\ left \in 0 .. MaxWord - 2 /\ segment \in Nat
  /\ gValidHuffTables \subseteq 0 .. 3 /\ gValidQuantTables \subseteq {0, 1}
  /\ \A t \in 0 .. 3 : DOMAIN gHuffVal[t] \subseteq 0 .. (IF t < 2 THEN 15 ELSE 255)
  /\ gImageXSize \in 0 .. MaxSize /\ gImageYSize \in 0 .. MaxSize
  /\ pc # "init" => DOMAIN gComp \subseteq 0 .. 2
  /\ gRestartInterval \in 0 .. MaxWord
  /\ gScanType \in {"GRAYSCALE", "YH1V1", "YH1V2", "YH2V1", "YH2V2"}

\* A reader that reports no error has read its segment to the end that the
\* segment's length says, and not beyond: each counts in its own way, by tables,
\* entries of one byte or two, components or bytes (picojpeg.c:501-727), and the
\* next marker is looked for where it stops.
SegmentsInStep ==
  [][pc' \in {"markers", "frame", "scan"} /\ segment' # 0 /\ dropped' = dropped =>
       pos' = segment' + Word(segment')]_vars

\* The tables that decodeNextMCU takes for a component.
DCTable(ci) == IF gCompDCTab[ci] = 0 THEN 0 ELSE 1
ACTable(ci) == IF gCompACTab[ci] = 0 THEN 2 ELSE 3
QuantTable(ci) == IF gComp[ci].quant = 0 THEN 0 ELSE 1

\* When pjpeg_decode_init succeeds, every table that decodeNextMCU will use was
\* read in this picture, whatever an earlier one has left, of a file that is
\* well formed so far: no segment cut short, all components in the scan, and
\* selectors of 0 and 1.
TablesUsedAreRead ==
  (/\ pc = "returned" /\ status = "ok"
   /\ dropped = <<>>
   /\ DOMAIN gComp \subseteq {gCompList[i] : i \in DOMAIN gCompList}
   /\ \A ci \in DOMAIN gComp : gCompDCTab[ci] \in {0, 1}) =>
  \A ci \in DOMAIN gComp :
    /\ gHuffTab[DCTable(ci)] # Stale /\ gHuffTab[ACTable(ci)] # Stale
    /\ gQuant[QuantTable(ci)] # Stale

\* Of the numbers of codes of any prefix code, huffCreate makes a table by which
\* huffDecode reads from any bits what the canonical code says: the same value,
\* of as many bits, and 0 where there is no code.
HuffmanCanonical ==
  \A t \in 0 .. 3 :
    (/\ pc = "returned" /\ dropped = <<>>
     /\ gHuffTab[t] # Stale /\ IsPrefixCode(bitsRead[t])) =>
      \A x \in 0 .. Codes - 1 :
        huffDecode(gHuffTab[t], gHuffVal[t], x) = canonicalDecode(bitsRead[t], gHuffVal[t], x)

\* pjpeg_decode_init returns, whatever the file and wherever it ends: it relies on
\* getChar to make up an EOI past the end (picojpeg.c:865).
InitReturns == <>(pc = "returned")

\* What picojpeg.h says of pjpeg_decode_init: "Returns 0 on success, or one of the
\* above error codes on failure."  A segment it could not read is a failure.
InitReportsErrors == pc = "returned" /\ status = "ok" => dropped = <<>>
=============================================================================
