-------------------------- MODULE AviReaderProofs --------------------------
(***************************************************************************)
(* The chunk search and the decoder's callback on every file, whatever its *)
(* bytes, its sizes and its length, for every size of the input buffer.    *)
(*                                                                         *)
(* The counter of a search ends at most two past the file's end, since the *)
(* last byte, read again, cannot be three bytes of a tag one after the     *)
(* other.  The invariant adds what a search leaves to the decode that      *)
(* follows: the position is the chunk's start, and nothing of it was read. *)
(*                                                                         *)
(* What the search finds depends on the file.  Where the video chunks are  *)
(* those that the file lists, with no tag in between, the calls take them  *)
(* all in order; where the file does not end within a tag, no call decodes *)
(* without a chunk of its own.                                             *)
(***************************************************************************)
EXTENDS AviReader, SequenceTheorems, TLAPS

\* The lesser of two.
LEMMA MinOfTwo ==
  ASSUME NEW a \in Int, NEW b \in Int
  PROVE  Min({a, b}) = IF a <= b THEN a ELSE b
<1>1. \E x \in {a, b} : \A y \in {a, b} : x <= y
  OBVIOUS
<1>2. Min({a, b}) \in {a, b} /\ \A y \in {a, b} : Min({a, b}) <= y
  BY <1>1 DEF Min
<1> QED
  BY <1>2

\* The first of the numbers 1 to 4 in a set that has the 4.
LEMMA MinUpToFour ==
  ASSUME NEW S \in SUBSET (1 .. 4), 4 \in S
  PROVE  Min(S) \in S /\ \A y \in S : Min(S) <= y
<1>1. \E x \in S : \A y \in S : x <= y
  OBVIOUS
<1> QED
  BY <1>1 DEF Min

FileOK == video.bytes \in Seq(Byte) /\ avi_file_size \in Nat

\* Reading moves the position up to the file's end.
LEMMA AdvanceEffect ==
  ASSUME FileOK, pos \in 0 .. avi_file_size, NEW k \in Nat, Advance(k)
  PROVE  pos' = IF pos + k <= avi_file_size THEN pos + k ELSE avi_file_size
BY MinOfTwo DEF Advance, FileOK

\* The tests of a tag, which all but end with its first three bytes alike, read
\* one byte at least and two past the end at most.
LEMMA ReadsBounded ==
  ASSUME FileOK, pos \in 0 .. avi_file_size, pos < avi_file_size,
         NEW tag \in {VideoChunk, Index}
  PROVE  Reads(tag) \in 1 .. 4 /\ pos + Reads(tag) <= avi_file_size + 2
<1> DEFINE S == {k \in 1 .. 4 : k = 4 \/ NextByte(k) # tag[k]}
<1>1. Reads(tag) \in S /\ \A y \in S : Reads(tag) <= y
  BY MinUpToFour DEF Reads
<1>2. ASSUME pos + 4 > avi_file_size + 2 PROVE Reads(tag) <= 3
  <2>1. avi_file_size = pos + 1
    BY <1>2 DEF FileOK
  <2>2. NextByte(2) = NextByte(3)
    BY <2>1, MinOfTwo DEF NextByte, FileOK
  <2>3. tag[2] # tag[3]
    BY DEF VideoChunk, Index
  <2>4. 2 \in S \/ 3 \in S
    BY <2>2, <2>3
  <2> QED
    BY <1>1, <2>4
<1> QED
  BY <1>1, <1>2 DEF FileOK

\* The number that four bytes make.
LEMMA FourBytes ==
  ASSUME NEW s \in [1 .. 4 -> Byte]
  PROVE  ByteValue[s[1]] + 256 * ByteValue[s[2]] + 65536 * ByteValue[s[3]]
           + 16777216 * ByteValue[s[4]] \in Nat
<1>1. \A k \in 1 .. 4 : ByteValue[s[k]] \in 0 .. 255
  BY AviAssumption
<1>2. PICK a \in 0 .. 255 : ByteValue[s[1]] = a
  BY <1>1
<1>3. PICK b \in 0 .. 255 : ByteValue[s[2]] = b
  BY <1>1
<1>4. PICK c \in 0 .. 255 : ByteValue[s[3]] = c
  BY <1>1
<1>5. PICK d \in 0 .. 255 : ByteValue[s[4]] = d
  BY <1>1
<1>6. a + 256 * b + 65536 * c + 16777216 * d \in Nat
  OBVIOUS
<1> QED
  BY <1>2, <1>3, <1>4, <1>5, <1>6

\* The size field of a chunk is a number.
LEMMA SizeIsNat ==
  ASSUME sizeBytes \in [1 .. 4 -> Byte]
  PROVE  g_nInFileSize \in Nat
BY FourBytes DEF g_nInFileSize, SizeOf
-----------------------------------------------------------------------------
OffsetInChunk == g_nInFileOfs <= g_nInFileSize
NoChunkYet == pc = "search" => chunk = 0
ChunkUnread == pc = "searched" /\ chunk # 0 =>
                 g_nInFileOfs = 0 /\ pos = chunk

IInv == TypeOK /\ SearchInStep /\ CallbackInChunk
          /\ OffsetInChunk /\ NoChunkYet /\ ChunkUnread

LEMMA TypedFile == TypeOK => FileOK /\ g_nInFileSize \in Nat
BY SizeIsNat, AviAssumption DEF TypeOK, FileOK, avi_file_size

\* A file does not change.
LEMMA SameFile ==
  ASSUME TypeOK, UNCHANGED video
  PROVE  avi_file_size' = avi_file_size /\ avi_file_size \in Nat
BY TypedFile DEF avi_file_size, FileOK

LEMMA InitIInv == Init => IInv
<1> SUFFICES ASSUME Init PROVE IInv
  OBVIOUS
<1>1. avi_file_size \in Nat
  BY AviAssumption DEF Init, avi_file_size
<1>2. sizeBytes \in [1 .. 4 -> Byte]
  BY NoByteAssumption DEF Init
<1>3. g_nInFileSize \in Nat
  BY <1>2, SizeIsNat
<1>4. TypeOK
  <2>1. taken \in Seq(0 .. avi_file_size)
    BY DEF Init
  <2>2. /\ pos \in 0 .. avi_file_size /\ it \in 0 .. avi_file_size + 2
        /\ chunk \in 0 .. avi_file_size /\ g_nInFileOfs \in Nat
    BY <1>1 DEF Init
  <2> QED
    BY <1>2, <2>1, <2>2 DEF Init, TypeOK
<1>5. SearchInStep /\ CallbackInChunk /\ OffsetInChunk /\ NoChunkYet /\ ChunkUnread
  BY <1>3 DEF Init, SearchInStep, CallbackInChunk, OffsetInChunk, NoChunkYet, ChunkUnread,
              Decoding
<1> QED
  BY <1>4, <1>5 DEF IInv

\* The parts of the invariant that a step leaves which keeps the chunk, its
\* size and what was read of it.
LEMMA SameChunk ==
  ASSUME OffsetInChunk, UNCHANGED <<sizeBytes, g_nInFileOfs>>
  PROVE  OffsetInChunk'
BY DEF OffsetInChunk, g_nInFileSize, SizeOf

LEMMA SearchMoviStep == IInv /\ SearchMovi => IInv'
<1> SUFFICES ASSUME IInv, SearchMovi PROVE IInv'
  OBVIOUS
<1> USE DEF IInv
<1>0. FileOK /\ avi_file_size' = avi_file_size /\ UNCHANGED <<fileVars, history>>
  BY TypedFile, SameFile DEF SearchMovi, fileVars
<1>1. pos' \in 0 .. avi_file_size /\ it' \in 0 .. avi_file_size + 2
  <2>1. CASE it < avi_file_size /\ ~Matches(Movi) /\ Advance(Reads(Movi)) /\ it' = it + 1
    <3>1. Reads(Movi) \in Nat
      <4> DEFINE S == {k \in 1 .. 4 : k = 4 \/ NextByte(k) # Movi[k]}
      <4>1. Min(S) \in S
        BY MinUpToFour
      <4> QED
        BY <4>1 DEF Reads
    <3> QED
      BY <1>0, <2>1, <3>1, AdvanceEffect DEF TypeOK, FileOK
  <2>2. CASE Advance(4) /\ UNCHANGED it
    BY <1>0, <2>2, AdvanceEffect DEF TypeOK, FileOK
  <2>3. CASE UNCHANGED <<pos, it>>
    BY <2>3 DEF TypeOK
  <2> QED
    BY <2>1, <2>2, <2>3 DEF SearchMovi
<1>2. pc' \in {"init_file_avi", "caller"}
  BY DEF SearchMovi, Goto
<1>3. TypeOK'
  BY <1>0, <1>1, <1>2 DEF TypeOK, fileVars, history, image
<1> QED
  BY <1>0, <1>2, <1>3, SameChunk DEF SearchInStep, CallbackInChunk, NoChunkYet, ChunkUnread,
     Decoding, fileVars

LEMMA CallGetFrameStep == IInv /\ CallGetFrame => IInv'
<1> SUFFICES ASSUME IInv, CallGetFrame PROVE IInv'
  OBVIOUS
<1> USE DEF IInv, CallGetFrame
<1>1. pc' \in {"undefined", "search"}
  BY DEF Goto
<1>0. avi_file_size' = avi_file_size /\ avi_file_size \in Nat
  BY SameFile
<1>2. TypeOK'
  BY <1>0, <1>1 DEF TypeOK
<1>3. SearchInStep'
  BY <1>0, MinOfTwo DEF SearchInStep, TypeOK
<1> QED
  BY <1>1, <1>2, <1>3, SameChunk DEF CallbackInChunk, NoChunkYet, ChunkUnread, Decoding

LEMMA FindChunkStep == IInv /\ FindChunk => IInv'
<1> SUFFICES ASSUME IInv, FindChunk PROVE IInv'
  OBVIOUS
<1> USE DEF IInv, FindChunk
<1>1. FileOK /\ avi_file_size' = avi_file_size
  BY TypedFile, SameFile
<1>2. pos' \in 0 .. avi_file_size /\ it' \in 0 .. avi_file_size + 2
  BY <1>1, AdvanceEffect DEF TypeOK, FileOK
<1>3. sizeBytes' \in [1 .. 4 -> Byte]
  <2>1. ASSUME NEW k \in 1 .. 4, pos + 4 + k <= avi_file_size
        PROVE  video.bytes[pos + 4 + k] \in Byte
    <3>1. pos + 4 + k \in 1 .. Len(video.bytes)
      BY <1>1, <2>1 DEF TypeOK, avi_file_size
    <3> QED
      BY <1>1, <3>1, ElementOfSeq DEF FileOK
  <2> QED
    BY <2>1 DEF TypeOK
<1>4. TypeOK'
  BY <1>1, <1>2, <1>3 DEF TypeOK, Goto, image
<1>5. OffsetInChunk'
  <2>1. g_nInFileSize' \in Nat
    <3> HIDE DEF FindChunk
    <3> QED
      BY <1>3, FourBytes DEF g_nInFileSize, SizeOf
  <2> QED
    BY <2>1 DEF OffsetInChunk
<1> QED
  BY <1>4, <1>5 DEF SearchInStep, CallbackInChunk, NoChunkYet, ChunkUnread, Decoding, Goto

LEMMA FindIndexStep == IInv /\ FindIndex => IInv'
<1> SUFFICES ASSUME IInv, FindIndex PROVE IInv'
  OBVIOUS
<1> USE DEF IInv, FindIndex
<1>1. FileOK /\ pc' = "caller" /\ avi_file_size' = avi_file_size
  BY TypedFile, SameFile DEF ReturnEnd, Goto, fileVars
<1>2. pos' \in 0 .. avi_file_size
  BY <1>1, AdvanceEffect DEF TypeOK, FileOK
<1>3. TypeOK'
  BY <1>1, <1>2 DEF TypeOK, ReturnEnd, fileVars, image
<1> QED
  BY <1>1, <1>3, SameChunk DEF SearchInStep, CallbackInChunk, NoChunkYet, ChunkUnread,
     Decoding, ReturnEnd, fileVars

LEMMA SkipBytesStep == IInv /\ SkipBytes => IInv'
<1> SUFFICES ASSUME IInv, SkipBytes PROVE IInv'
  OBVIOUS
<1> USE DEF IInv
<1>1. /\ FileOK /\ pc = "search" /\ it < avi_file_size
      /\ avi_file_size' = avi_file_size /\ UNCHANGED <<pc, fileVars, history>>
  BY TypedFile, SameFile DEF SkipBytes, fileVars
<1>2. pos = it /\ pos \in 0 .. avi_file_size
  BY <1>1, MinOfTwo DEF SearchInStep, TypeOK, FileOK
<1>3. PICK k \in 1 .. 4 : /\ Advance(k) /\ it' = it + k
                          /\ pos + k <= avi_file_size + 2
  BY <1>1, <1>2, ReadsBounded DEF SkipBytes
<1>4. pos' = IF it' <= avi_file_size THEN it' ELSE avi_file_size
  BY <1>1, <1>2, <1>3, AdvanceEffect
<1>5. pos' \in 0 .. avi_file_size /\ it' \in 0 .. avi_file_size + 2
  BY <1>1, <1>2, <1>3, <1>4 DEF FileOK
<1>6. TypeOK'
  BY <1>1, <1>5 DEF TypeOK, fileVars, history, image
<1>7. SearchInStep'
  BY <1>1, <1>4, <1>5, MinOfTwo DEF SearchInStep, FileOK, fileVars
<1> QED
  BY <1>1, <1>6, <1>7, SameChunk DEF CallbackInChunk, NoChunkYet, ChunkUnread, Decoding,
     fileVars, history

LEMMA SearchedStep == IInv /\ (SearchEnds \/ TestFound) => IInv'
<1> SUFFICES ASSUME IInv, SearchEnds \/ TestFound PROVE IInv'
  OBVIOUS
<1> USE DEF IInv
<1>1. CASE SearchEnds
  <2>1. pc' = "searched" /\ chunk' = 0 /\ UNCHANGED <<pos, it, fileVars, history>>
    BY <1>1 DEF SearchEnds, Goto, NoChunkYet, history
  <2>2. TypeOK'
    BY <2>1, SameFile DEF TypeOK, fileVars, history, image
  <2> QED
    BY <2>1, <2>2, SameChunk DEF SearchInStep, CallbackInChunk, NoChunkYet, ChunkUnread,
       Decoding, fileVars
<1>2. CASE TestFound
  <2>1. /\ pc = "searched" /\ pc' \in {"caller", "decode"}
        /\ UNCHANGED <<pos, it, video, sizeBytes, g_nInFileOfs, image, closed, chunk>>
        /\ pc' = "decode" => stream_error' = FALSE
    BY <1>2 DEF TestFound, ReturnEnd, Goto, fileVars
  <2>2. TypeOK'
    <3>1. taken' \in Seq(0 .. avi_file_size)
      <4>1. taken' = taken \/ taken' = Append(taken, chunk)
        BY <1>2 DEF TestFound, ReturnEnd
      <4> DEFINE S == 0 .. avi_file_size
      <4>2. taken \in Seq(S) /\ chunk \in S
        BY DEF TypeOK
      <4>3. taken' \in Seq(S)
        <5> HIDE DEF S
        <5> QED
          BY <4>1, <4>2, AppendProperties
      <4> QED
        BY <4>3
    <3>2. ended' \in BOOLEAN /\ stream_error' \in BOOLEAN
      BY <1>2 DEF TestFound, ReturnEnd, TypeOK, fileVars
    <3> QED
      BY <2>1, <3>1, <3>2, SameFile DEF TypeOK, image
  <2>3. OffsetInChunk'
    BY <2>1, SameChunk
  <2>4. CallbackInChunk'
    BY <2>1, <2>3 DEF CallbackInChunk, ChunkUnread, OffsetInChunk, Decoding, TypeOK
  <2> QED
    BY <2>1, <2>2, <2>3, <2>4 DEF SearchInStep, NoChunkYet, ChunkUnread
<1> QED
  BY <1>1, <1>2

LEMMA CallbackStep == IInv /\ pjpeg_need_bytes_callback => IInv'
<1> SUFFICES ASSUME IInv, pjpeg_need_bytes_callback PROVE IInv'
  OBVIOUS
<1> USE DEF IInv
<1> DEFINE n == Min({g_nInFileSize - g_nInFileOfs, InBuf})
<1>1. /\ FileOK /\ Decoding /\ g_nInFileSize \in Nat
      /\ UNCHANGED <<video, pc, it, sizeBytes, image, closed, history>>
  BY TypedFile DEF pjpeg_need_bytes_callback
<1>2. n \in Nat /\ n <= g_nInFileSize - g_nInFileOfs
  <2>1. g_nInFileSize - g_nInFileOfs \in Nat
    BY <1>1 DEF OffsetInChunk, TypeOK
  <2>2. InBuf \in Nat
    BY AviAssumption
  <2> QED
    BY <2>1, <2>2, MinOfTwo
<1>3. pos' = IF pos + n <= avi_file_size THEN pos + n ELSE avi_file_size
  <2>1. Advance(n)
    BY DEF pjpeg_need_bytes_callback
  <2> HIDE DEF n
  <2> QED
    BY <1>1, <1>2, <2>1, AdvanceEffect DEF TypeOK
<1>4. \/ /\ pos + n <= avi_file_size
         /\ g_nInFileOfs' = g_nInFileOfs + n
         /\ UNCHANGED stream_error
      \/ /\ pos + n > avi_file_size
         /\ stream_error' = TRUE
         /\ UNCHANGED g_nInFileOfs
  BY DEF pjpeg_need_bytes_callback
<1>5. g_nInFileSize' = g_nInFileSize /\ avi_file_size' = avi_file_size
  BY <1>1, SameFile DEF g_nInFileSize
<1> HIDE DEF n
<1>6. pos' \in 0 .. avi_file_size /\ g_nInFileOfs' \in Nat /\ stream_error' \in BOOLEAN
  <2>1. /\ pos \in 0 .. avi_file_size /\ avi_file_size \in Nat
        /\ g_nInFileOfs \in Nat /\ stream_error \in BOOLEAN
    BY <1>1 DEF TypeOK, FileOK
  <2>2. pos' \in 0 .. avi_file_size
    BY <1>2, <1>3, <2>1
  <2>3. g_nInFileOfs' \in Nat
    BY <1>2, <1>4, <2>1
  <2>4. stream_error' \in BOOLEAN
    BY <1>4, <2>1
  <2> QED
    BY <2>2, <2>3, <2>4
<1>7. TypeOK'
  BY <1>1, <1>5, <1>6 DEF TypeOK, image, history
<1>8. OffsetInChunk'
  BY <1>1, <1>2, <1>4, <1>5 DEF OffsetInChunk, TypeOK
<1>9. CallbackInChunk'
  <2> SUFFICES ASSUME chunk # 0
               PROVE  pos' = IF stream_error' THEN avi_file_size ELSE chunk + g_nInFileOfs'
    BY <1>1, <1>5, <1>8 DEF CallbackInChunk, OffsetInChunk, history
  <2>1. pos = IF stream_error THEN avi_file_size ELSE chunk + g_nInFileOfs
    BY <1>1 DEF CallbackInChunk
  <2> QED
    BY <1>1, <1>2, <1>3, <1>4, <2>1 DEF TypeOK, FileOK
<1> QED
  BY <1>1, <1>7, <1>8, <1>9 DEF SearchInStep, NoChunkYet, ChunkUnread, Decoding

\* The decode's beginning, its end, and the bitmap.
LEMMA DecodeStep ==
  ASSUME IInv, DecodeInitFails \/ AllocateBitmap \/ KeepBitmap \/ DecodeMCUFails \/ DecodeEnds
  PROVE  IInv'
<1> USE DEF IInv
<1>1. UNCHANGED stays /\ pc' \in {"caller", "mcus", "undefined"}
  BY DEF DecodeInitFails, AllocateBitmap, KeepBitmap, DecodeMCUFails, DecodeEnds, Goto
<1>2. /\ allocated' \in BOOLEAN /\ closed' \in BOOLEAN
      /\ pImage' \in {"bitmap", "other"} /\ bitmap' \in {"none", "live", "freed"}
  BY DEF DecodeInitFails, AllocateBitmap, KeepBitmap, DecodeMCUFails, DecodeEnds, image, TypeOK
<1>3. Decoding
  BY DEF DecodeInitFails, AllocateBitmap, KeepBitmap, DecodeMCUFails, DecodeEnds, HeaderRead,
         Decoding
<1>4. TypeOK'
  BY <1>1, <1>2, SameFile DEF TypeOK, stays, history
<1>5. CallbackInChunk'
  BY <1>1, <1>3, SameFile DEF CallbackInChunk, Decoding, stays, history, g_nInFileSize
<1> QED
  BY <1>1, <1>4, <1>5, SameChunk DEF SearchInStep, NoChunkYet, ChunkUnread, stays

THEOREM AviInvariance == Spec => []IInv
<1>1. IInv /\ [Next]_vars => IInv'
  <2> SUFFICES ASSUME IInv, [Next]_vars PROVE IInv'
    OBVIOUS
  <2>1. ASSUME UNCHANGED vars PROVE IInv'
    BY <2>1 DEF IInv, vars, TypeOK, SearchInStep, CallbackInChunk, OffsetInChunk, NoChunkYet,
                ChunkUnread, Decoding, g_nInFileSize, avi_file_size
  <2>2. CASE Next
    BY <2>2, SearchMoviStep, CallGetFrameStep, FindChunkStep, FindIndexStep, SkipBytesStep,
       SearchedStep, CallbackStep, DecodeStep DEF Next, get_frame_avi
  <2> QED
    BY <2>1, <2>2
<1> QED
  BY <1>1, InitIInv, PTL DEF Spec

\* Every field keeps its type, and the counter of a search stays within two of
\* the file's end (avi.c:87).
THEOREM AviTypeCorrect == Spec => []TypeOK
BY AviInvariance, PTL DEF IInv

\* In a search the counter and the file's position agree, on every file.
THEOREM SearchKeepsStep == Spec => []SearchInStep
BY AviInvariance, PTL DEF IInv

\* The callback reads the chunk that was found and never beyond it, whatever
\* picojpeg asks for and whatever size the chunk says it has (avi.c:24).
THEOREM CallbackStaysInChunk == Spec => []CallbackInChunk
BY AviInvariance, PTL DEF IInv
-----------------------------------------------------------------------------
(***************************************************************************)
(* What the search finds of an orderly file.                               *)
(***************************************************************************)
Tags == {Movi, VideoChunk, Index}

\* The nested tests of a tag see just the tag: its last bytes differ, so the
\* file's last byte, read again, does not complete one.
LEMMA MatchesBegins ==
  ASSUME FileOK, pos \in 0 .. avi_file_size, NEW tag \in Tags
  PROVE  Matches(tag) <=> Begins(video.bytes, tag, pos)
<1>1. ASSUME NEW k \in 1 .. 4, pos + k <= avi_file_size PROVE NextByte(k) = video.bytes[pos + k]
  BY <1>1, MinOfTwo DEF NextByte, FileOK
<1>2. CASE pos + 4 <= avi_file_size
  <2>1. \A k \in 1 .. 4 : NextByte(k) = video.bytes[pos + k]
    BY <1>1, <1>2 DEF FileOK
  <2> QED
    BY <1>2, <2>1 DEF Matches, Begins, avi_file_size
<1>3. CASE pos + 4 > avi_file_size
  <2>1. NextByte(3) = NextByte(4)
    BY <1>3, MinOfTwo DEF NextByte, FileOK
  <2>2. tag[3] # tag[4]
    BY DEF Tags, Movi, VideoChunk, Index
  <2> QED
    BY <1>3, <2>1, <2>2 DEF Matches, Begins, avi_file_size
<1> QED
  BY <1>2, <1>3 DEF FileOK

\* In front of a place that has no tag before it, a turn of the search finds
\* none and does not read beyond that place.
LEMMA PassesOn ==
  ASSUME FileOK, pos \in 0 .. avi_file_size, NEW tags \in SUBSET Tags, NEW tag \in tags,
         NEW from \in Nat, NEW t \in 0 .. avi_file_size,
         Passes(video.bytes, tags, from, t), from <= pos, pos < t
  PROVE  /\ ~Matches(tag)
         /\ Reads(tag) \in 1 .. 4 /\ pos + Reads(tag) <= t
<1>1. PICK k \in 1 .. 4 : pos + k <= t /\ video.bytes[pos + k] # tag[k]
  <2>1. pos \in from .. t - 1
    BY DEF FileOK
  <2> QED
    BY <2>1 DEF Passes
<1>2. NextByte(k) # tag[k]
  <2>1. NextByte(k) = video.bytes[pos + k]
    BY <1>1, MinOfTwo DEF NextByte, FileOK
  <2> QED
    BY <1>1, <2>1
<1>3. ~Matches(tag)
  BY <1>2 DEF Matches
<1>4. Reads(tag) \in 1 .. 4 /\ Reads(tag) <= k
  <2> DEFINE S == {j \in 1 .. 4 : j = 4 \/ NextByte(j) # tag[j]}
  <2>1. Min(S) \in S /\ \A y \in S : Min(S) <= y
    <3>1. S \in SUBSET (1 .. 4) /\ 4 \in S
      OBVIOUS
    <3> HIDE DEF S
    <3> QED
      BY <3>1, MinUpToFour
  <2>2. k \in S
    BY <1>2
  <2> QED
    BY <2>1, <2>2 DEF Reads
<1> QED
  BY <1>1, <1>3, <1>4 DEF FileOK

\* Where "movi" is, where each search begins and where it ends.
MoviAt == CHOOSE m \in 0 .. avi_file_size : OrderlyFrom(video, m)
From(n) == IF n = 1 THEN MoviAt + 4 ELSE video.payloads[n - 1]
Stop(n) == CHOOSE t \in 0 .. avi_file_size : FoundAt(video, MoviAt, n, t)
Chunks == Len(video.payloads)

\* The chunk before the n-th search ends before that search's tag.
SizeFits(n) ==
  n # 1 /\ Stop(n) # avi_file_size =>
    From(n) + SizeOf([k \in 1 .. 4 |-> video.bytes[From(n) - 4 + k]]) <= Stop(n)

LEMMA OrderlyMovi ==
  ASSUME TypeOK, Orderly(video)
  PROVE  /\ MoviAt \in 0 .. avi_file_size /\ OrderlyFrom(video, MoviAt)
         /\ MoviAt + 4 <= avi_file_size /\ Chunks \in Nat
<1>1. MoviAt \in 0 .. avi_file_size /\ OrderlyFrom(video, MoviAt)
  BY DEF Orderly, MoviAt, avi_file_size
<1>2. Chunks \in Nat
  BY AviAssumption DEF TypeOK, Chunks
<1> QED
  BY <1>1, <1>2 DEF OrderlyFrom, Begins, avi_file_size

LEMMA OrderlyStop ==
  ASSUME TypeOK, Orderly(video), NEW n \in 1 .. Chunks + 1
  PROVE  /\ Stop(n) \in 0 .. avi_file_size /\ From(n) \in Nat /\ From(n) <= Stop(n)
         /\ Passes(video.bytes, {VideoChunk, Index}, From(n), Stop(n))
         /\ n <= Chunks => /\ Begins(video.bytes, VideoChunk, Stop(n))
                           /\ video.payloads[n] = Min({Stop(n) + 8, avi_file_size})
         /\ n > Chunks => Stop(n) = avi_file_size \/ Begins(video.bytes, Index, Stop(n))
         /\ SizeFits(n)
<1>1. OrderlyFrom(video, MoviAt) /\ MoviAt \in Nat /\ Chunks \in Nat /\ avi_file_size \in Nat
  BY OrderlyMovi, TypedFile DEF FileOK
<1>2. Stop(n) \in 0 .. avi_file_size /\ FoundAt(video, MoviAt, n, Stop(n))
  <2>1. \E t \in 0 .. avi_file_size : FoundAt(video, MoviAt, n, t)
    BY <1>1 DEF OrderlyFrom, Chunks, avi_file_size
  <2> QED
    BY <2>1 DEF Stop
<1>3. From(n) \in Nat
  <2>1. CASE n = 1
    BY <1>1, <2>1 DEF From
  <2>2. CASE n # 1
    <3>1. n - 1 \in 1 .. Len(video.payloads) /\ video.payloads \in Seq(Nat)
      BY <1>1, <2>2, AviAssumption DEF Chunks, TypeOK
    <3> QED
      BY <2>2, <3>1, ElementOfSeq DEF From
  <2> QED
    BY <2>1, <2>2
<1>4. n \in DOMAIN video.payloads <=> n <= Chunks
  <2>1. video.payloads \in Seq(Nat)
    BY AviAssumption DEF TypeOK
  <2> QED
    BY <1>1, <2>1 DEF Chunks
<1> QED
  BY <1>1, <1>2, <1>3, <1>4 DEF FoundAt, From, SizeFits, avi_file_size
-----------------------------------------------------------------------------
(***************************************************************************)
(* The order of the chunks, while the end has not been reported: the next  *)
(* search begins between the last chunk taken and its own tag.             *)
(***************************************************************************)
Next1 == Len(taken) + 1

InGap == From(Next1) <= pos /\ pos <= Stop(Next1)

\* The chunk found is the n-th; its size field is that of the file unless the
\* file's end cuts one of the two.
IsChunk(n) == /\ n \in 1 .. Chunks /\ chunk = video.payloads[n] /\ chunk # 0
              /\ Stop(n + 1) # avi_file_size => chunk + g_nInFileSize <= Stop(n + 1)

ToMovi == pc = "init_file_avi" => /\ pos <= MoviAt /\ it <= pos
                                  /\ taken = << >> /\ ~ended
Taken == ~ended => /\ Len(taken) <= Chunks
                   /\ \A n \in 1 .. Len(taken) : taken[n] = video.payloads[n]
AllTaken == ended => Len(taken) >= Chunks
Between == ~ended /\ pc \in {"caller", "search"} => InGap /\ (pc = "search" => it = pos)
Found == ~ended /\ pc = "searched" =>
           IF it = avi_file_size THEN Len(taken) = Chunks ELSE IsChunk(Next1)
InDecode == ~ended /\ Decoding =>
              /\ IsChunk(Len(taken))
              /\ stream_error => chunk + g_nInFileSize > avi_file_size

OInv == ToMovi /\ Taken /\ AllTaken /\ Between /\ Found /\ InDecode

\* The file's places stay where they are.
LEMMA SamePlaces ==
  ASSUME UNCHANGED video
  PROVE  /\ avi_file_size' = avi_file_size /\ Chunks' = Chunks /\ MoviAt' = MoviAt
         /\ \A n : From(n)' = From(n) /\ Stop(n)' = Stop(n)
<1>1. avi_file_size' = avi_file_size /\ Chunks' = Chunks /\ MoviAt' = MoviAt
  BY DEF avi_file_size, Chunks, MoviAt
<1> QED
  BY <1>1 DEF From, Stop

LEMMA LenTaken == TypeOK => Len(taken) \in Nat
BY DEF TypeOK

LEMMA OrderInit == ASSUME Init, \A v \in Videos : Orderly(v) PROVE OInv
<1>1. TypeOK /\ Orderly(video)
  BY InitIInv DEF Init, IInv
<1>2. MoviAt \in Nat /\ Chunks \in Nat
  BY <1>1, OrderlyMovi DEF avi_file_size
<1> QED
  BY <1>2 DEF Init, OInv, ToMovi, Taken, AllTaken, Between, Found, InDecode, Decoding

LEMMA OrderSearchMovi ==
  ASSUME IInv, OInv, Orderly(video), SearchMovi PROVE OInv'
<1>1. /\ FileOK /\ TypeOK /\ pc = "init_file_avi" /\ UNCHANGED <<fileVars, history>>
      /\ pos \in 0 .. avi_file_size /\ pos <= MoviAt /\ it <= pos /\ it \in Nat
      /\ taken = << >> /\ ~ended
  BY TypedFile DEF IInv, OInv, ToMovi, SearchMovi, TypeOK
<1>2. /\ MoviAt \in 0 .. avi_file_size /\ MoviAt + 4 <= avi_file_size /\ Chunks \in Nat
      /\ Begins(video.bytes, Movi, MoviAt) /\ Passes(video.bytes, {Movi}, 0, MoviAt)
  BY <1>1, OrderlyMovi DEF OrderlyFrom
<1>3. UNCHANGED <<video, taken, ended>>
  BY <1>1 DEF fileVars, history
<1>4. it < avi_file_size
  BY <1>1, <1>2 DEF FileOK
<1>5. CASE ~Matches(Movi) /\ Advance(Reads(Movi)) /\ it' = it + 1 /\ UNCHANGED pc
  <2>1. pos # MoviAt
    BY <1>1, <1>2, <1>5, MatchesBegins DEF Tags
  <2>2. Reads(Movi) \in 1 .. 4 /\ pos + Reads(Movi) <= MoviAt
    BY <1>1, <1>2, <2>1, PassesOn DEF Tags
  <2>3. pos' = pos + Reads(Movi)
    BY <1>1, <1>2, <1>5, <2>2, AdvanceEffect DEF FileOK
  <2> QED
    BY <1>1, <1>2, <1>3, <1>5, <2>2, <2>3, SamePlaces
       DEF OInv, ToMovi, Taken, AllTaken, Between, Found, InDecode, Decoding
<1>6. CASE Matches(Movi) /\ Advance(4) /\ Goto("caller") /\ UNCHANGED it
  <2>1. pos = MoviAt
    <3>1. ~(pos < MoviAt)
      BY <1>1, <1>2, <1>6, PassesOn DEF Tags
    <3> QED
      BY <1>1, <1>2, <3>1
  <2>2. pos' = MoviAt + 4
    BY <1>1, <1>2, <1>6, <2>1, AdvanceEffect DEF FileOK
  <2>3. From(1) = MoviAt + 4 /\ From(1) <= Stop(1)
    <3>1. 1 \in 1 .. Chunks + 1
      BY <1>2
    <3> QED
      BY <1>1, <3>1, OrderlyStop DEF From
  <2>4. Next1' = 1 /\ Len(taken) = 0
    BY <1>1, <1>3 DEF Next1
  <2>5. Taken' /\ AllTaken'
    BY <1>1, <1>2, <1>3, <2>4, SamePlaces DEF Taken, AllTaken
  <2>6. Between'
    BY <1>3, <1>6, <2>2, <2>3, <2>4, SamePlaces DEF Between, InGap, Goto
  <2> QED
    <3>1. pc' = "caller"
      BY <1>6 DEF Goto
    <3>2. ToMovi'
      BY <3>1 DEF ToMovi
    <3>3. Found' /\ InDecode'
      BY <3>1 DEF Found, InDecode, Decoding
    <3> QED
      BY <2>5, <2>6, <3>2, <3>3 DEF OInv
<1> QED
  BY <1>1, <1>4, <1>5, <1>6 DEF SearchMovi, FileOK

LEMMA OrderCallGetFrame ==
  ASSUME IInv, OInv, Orderly(video), CallGetFrame PROVE OInv'
<1>1. /\ pc = "caller" /\ pc' \in {"undefined", "search"} /\ it' = pos
      /\ UNCHANGED <<video, pos, taken, ended>>
  BY DEF CallGetFrame, Goto
<1>2. Next1' = Next1
  BY <1>1 DEF Next1
<1>3. Taken' /\ AllTaken'
  BY <1>1, SamePlaces DEF OInv, Taken, AllTaken
<1>4. Between'
  BY <1>1, <1>2, SamePlaces DEF OInv, Between, InGap
<1> QED
  BY <1>1, <1>3, <1>4 DEF OInv, ToMovi, Found, InDecode, Decoding

\* Where a search of an orderly file stands.
LEMMA SearchPlace ==
  ASSUME IInv, OInv, Orderly(video), ~ended, pc = "search"
  PROVE  /\ FileOK /\ TypeOK /\ pos \in 0 .. avi_file_size /\ it = pos
         /\ Next1 \in 1 .. Chunks + 1 /\ Chunks \in Nat /\ Len(taken) \in Nat
         /\ Stop(Next1) \in 0 .. avi_file_size /\ From(Next1) \in Nat
         /\ From(Next1) <= pos /\ pos <= Stop(Next1)
<1>1. TypeOK /\ FileOK /\ pos \in 0 .. avi_file_size /\ it = pos /\ InGap
  BY TypedFile DEF IInv, OInv, Between, TypeOK
<1>2. Next1 \in 1 .. Chunks + 1 /\ Chunks \in Nat /\ Len(taken) \in Nat
  BY <1>1, LenTaken, OrderlyMovi DEF OInv, Taken, Next1
<1> QED
  BY <1>1, <1>2, OrderlyStop DEF InGap

\* A turn that finds a tag stands where it was to be found.
LEMMA TagIsStop ==
  ASSUME IInv, OInv, Orderly(video), ~ended, pc = "search",
         NEW tag \in {VideoChunk, Index}, Matches(tag)
  PROVE  pos = Stop(Next1) /\ Begins(video.bytes, tag, pos)
<1>1. /\ FileOK /\ TypeOK /\ pos \in 0 .. avi_file_size
      /\ Next1 \in 1 .. Chunks + 1 /\ Stop(Next1) \in 0 .. avi_file_size
      /\ From(Next1) \in Nat /\ From(Next1) <= pos /\ pos <= Stop(Next1)
  BY SearchPlace
<1>2. Passes(video.bytes, {VideoChunk, Index}, From(Next1), Stop(Next1))
  BY <1>1, OrderlyStop
<1>3. ~(pos < Stop(Next1))
  <2> DEFINE tags == {VideoChunk, Index}
  <2>1. tags \in SUBSET Tags /\ tag \in tags
    BY DEF Tags
  <2>2. Passes(video.bytes, tags, From(Next1), Stop(Next1))
    BY <1>2
  <2> HIDE DEF tags
  <2> QED
    BY <1>1, <2>1, <2>2, PassesOn
<1>4. tag \in Tags
  BY DEF Tags
<1> QED
  BY <1>1, <1>3, <1>4, MatchesBegins DEF FileOK

LEMMA OrderFindChunk ==
  ASSUME IInv, OInv, Orderly(video), FindChunk PROVE OInv'
<1>1. /\ pc = "search" /\ it < avi_file_size /\ pc' = "searched" /\ it' = it + 3
      /\ chunk' = pos' /\ Advance(8) /\ Matches(VideoChunk)
      /\ sizeBytes' = [k \in 1 .. 4 |-> IF pos + 4 + k <= avi_file_size
                                      THEN video.bytes[pos + 4 + k] ELSE sizeBytes[k]]
      /\ UNCHANGED <<video, taken, ended>>
  BY DEF FindChunk, Goto
<1>2. Next1' = Next1 /\ Taken' /\ AllTaken'
  BY <1>1, SamePlaces DEF OInv, Next1, Taken, AllTaken
<1>3. ASSUME ~ended PROVE it' # avi_file_size /\ IsChunk(Next1)'
  <2>1. /\ FileOK /\ TypeOK /\ pos \in 0 .. avi_file_size /\ it = pos
        /\ Next1 \in 1 .. Chunks + 1 /\ Chunks \in Nat
    BY <1>1, <1>3, SearchPlace
  <2>2. pos = Stop(Next1) /\ Begins(video.bytes, VideoChunk, pos)
    BY <1>1, <1>3, TagIsStop
  <2>3. pos + 4 <= avi_file_size
    BY <2>2 DEF Begins, avi_file_size
  <2>4. Next1 <= Chunks
    <3>1. ASSUME Next1 > Chunks PROVE FALSE
      <4>1. Stop(Next1) = avi_file_size \/ Begins(video.bytes, Index, Stop(Next1))
        BY <2>1, <3>1, OrderlyStop
      <4>2. Stop(Next1) # avi_file_size
        BY <2>1, <2>2, <2>3 DEF FileOK
      <4> QED
        BY <2>2, <4>1, <4>2 DEF Begins, VideoChunk, Index
    <3> QED
      BY <2>1, <3>1
  <2>5. pos' = IF pos + 8 <= avi_file_size THEN pos + 8 ELSE avi_file_size
    BY <1>1, <2>1, AdvanceEffect
  <2>6. pos' = video.payloads[Next1]
    <3>1. video.payloads[Next1] = Min({pos + 8, avi_file_size})
      BY <2>1, <2>2, <2>4, OrderlyStop
    <3> QED
      BY <2>1, <2>5, <3>1, MinOfTwo DEF FileOK
  <2>7. ASSUME Stop(Next1 + 1) # avi_file_size
        PROVE  chunk' + g_nInFileSize' <= Stop(Next1 + 1)
    <3>1. /\ Next1 + 1 \in 1 .. Chunks + 1 /\ Next1 + 1 # 1
          /\ From(Next1 + 1) = video.payloads[Next1]
      BY <2>1, <2>4 DEF From
    <3>2. /\ Stop(Next1 + 1) \in 0 .. avi_file_size /\ From(Next1 + 1) <= Stop(Next1 + 1)
          /\ SizeFits(Next1 + 1)
      BY <2>1, <3>1, OrderlyStop
    <3>3. pos + 8 <= avi_file_size /\ From(Next1 + 1) = pos + 8
      BY <2>1, <2>5, <2>6, <2>7, <3>1, <3>2 DEF FileOK
    <3>4. sizeBytes' = [k \in 1 .. 4 |-> video.bytes[From(Next1 + 1) - 4 + k]]
      <4>1. ASSUME NEW k \in 1 .. 4
            PROVE  pos + 4 + k <= avi_file_size /\ From(Next1 + 1) - 4 + k = pos + 4 + k
        BY <2>1, <3>3 DEF FileOK
      <4> QED
        BY <1>1, <4>1
    <3>5. From(Next1 + 1) + SizeOf(sizeBytes') <= Stop(Next1 + 1)
      BY <2>7, <3>1, <3>2, <3>4 DEF SizeFits
    <3>6. g_nInFileSize' = SizeOf(sizeBytes')
      BY DEF g_nInFileSize, SizeOf
    <3> QED
      BY <1>1, <2>6, <3>1, <3>5, <3>6
  <2>8. chunk' # 0 /\ it' # avi_file_size
    BY <1>1, <2>1, <2>3, <2>5 DEF FileOK
  <2> QED
    BY <1>1, <1>2, <2>1, <2>4, <2>6, <2>7, <2>8, SamePlaces DEF IsChunk
<1>4. Found'
  BY <1>1, <1>3, SamePlaces DEF Found
<1> QED
  BY <1>1, <1>2, <1>4 DEF OInv, ToMovi, Between, InDecode, Decoding

LEMMA OrderFindIndex ==
  ASSUME IInv, OInv, Orderly(video), FindIndex PROVE OInv'
<1>1. /\ pc = "search" /\ pc' = "caller" /\ ended' /\ it < avi_file_size /\ Matches(Index)
      /\ UNCHANGED <<video, taken>>
  BY DEF FindIndex, ReturnEnd, Goto, fileVars
<1>2. Len(taken) >= Chunks
  <2>1. CASE ended
    BY <2>1 DEF OInv, AllTaken
  <2>2. CASE ~ended
    <3>1. /\ TypeOK /\ Next1 \in 1 .. Chunks + 1 /\ Chunks \in Nat /\ Len(taken) \in Nat
      BY <1>1, <2>2, SearchPlace
    <3>2. pos = Stop(Next1) /\ Begins(video.bytes, Index, pos)
      BY <1>1, <2>2, TagIsStop
    <3>3. ~(Next1 <= Chunks)
      <4>1. SUFFICES ASSUME Next1 <= Chunks PROVE FALSE
        OBVIOUS
      <4>2. Begins(video.bytes, VideoChunk, Stop(Next1))
        BY <3>1, <4>1, OrderlyStop
      <4> QED
        BY <3>2, <4>2 DEF Begins, VideoChunk, Index
    <3> QED
      BY <3>1, <3>3 DEF Next1
  <2> QED
    BY <2>1, <2>2
<1> QED
  BY <1>1, <1>2, SamePlaces
     DEF OInv, ToMovi, Taken, AllTaken, Between, Found, InDecode, Decoding

LEMMA OrderSkipBytes ==
  ASSUME IInv, OInv, Orderly(video), SkipBytes PROVE OInv'
<1> DEFINE tag == IF NextByte(1) = "i" THEN Index ELSE VideoChunk
<1>1. /\ pc = "search" /\ pc' = "search" /\ it < avi_file_size
      /\ ~Matches(VideoChunk) /\ ~Matches(Index)
      /\ Advance(Reads(tag)) /\ it' = it + Reads(tag)
      /\ UNCHANGED <<video, taken, ended>>
  BY DEF SkipBytes, fileVars, history
<1>2. tag \in {VideoChunk, Index}
  OBVIOUS
<1> HIDE DEF tag
<1>3. Next1' = Next1 /\ Taken' /\ AllTaken'
  BY <1>1, SamePlaces DEF OInv, Next1, Taken, AllTaken
<1>4. ASSUME ~ended PROVE InGap' /\ it' = pos'
  <2>1. /\ FileOK /\ TypeOK /\ pos \in 0 .. avi_file_size /\ it = pos
        /\ Next1 \in 1 .. Chunks + 1 /\ Chunks \in Nat
        /\ Stop(Next1) \in 0 .. avi_file_size /\ From(Next1) \in Nat
        /\ From(Next1) <= pos /\ pos <= Stop(Next1)
    BY <1>1, <1>4, SearchPlace
  <2>2. pos # Stop(Next1)
    <3>1. ASSUME pos = Stop(Next1) PROVE FALSE
      <4>1. pos # avi_file_size
        BY <1>1, <2>1 DEF FileOK
      <4>2. Begins(video.bytes, VideoChunk, pos) \/ Begins(video.bytes, Index, pos)
        <5>1. CASE Next1 <= Chunks
          BY <2>1, <3>1, <5>1, OrderlyStop
        <5>2. CASE Next1 > Chunks
          BY <2>1, <3>1, <4>1, <5>2, OrderlyStop
        <5> QED
          BY <2>1, <5>1, <5>2
      <4>3. Matches(VideoChunk) \/ Matches(Index)
        BY <2>1, <4>2, MatchesBegins DEF Tags
      <4> QED
        BY <1>1, <4>3
    <3> QED
      BY <3>1
  <2>3. Reads(tag) \in 1 .. 4 /\ pos + Reads(tag) <= Stop(Next1)
    <3> DEFINE tags == {VideoChunk, Index}
    <3>1. tags \in SUBSET Tags /\ tag \in tags
      BY <1>2 DEF Tags
    <3>2. Passes(video.bytes, tags, From(Next1), Stop(Next1))
      BY <2>1, OrderlyStop
    <3>3. pos < Stop(Next1)
      BY <2>1, <2>2
    <3> HIDE DEF tags
    <3> QED
      BY <2>1, <3>1, <3>2, <3>3, PassesOn
  <2>4. pos' = pos + Reads(tag)
    BY <1>1, <2>1, <2>3, AdvanceEffect DEF FileOK
  <2> QED
    BY <1>1, <1>3, <2>1, <2>3, <2>4, SamePlaces DEF InGap
<1>5. Between'
  BY <1>1, <1>4 DEF Between
<1> QED
  BY <1>1, <1>3, <1>5 DEF OInv, ToMovi, Found, InDecode, Decoding

\* A search that runs to the file's end has no chunk left to find.
LEMMA OrderSearchEnds ==
  ASSUME IInv, OInv, Orderly(video), SearchEnds PROVE OInv'
<1>1. /\ pc = "search" /\ pc' = "searched" /\ it >= avi_file_size
      /\ UNCHANGED <<video, pos, it, taken, ended>>
  BY DEF SearchEnds, Goto, fileVars, history
<1>2. Taken' /\ AllTaken'
  BY <1>1, SamePlaces DEF OInv, Taken, AllTaken
<1>3. ASSUME ~ended PROVE it = avi_file_size /\ Len(taken) = Chunks
  <2>1. /\ FileOK /\ TypeOK /\ pos \in 0 .. avi_file_size /\ it = pos
        /\ Next1 \in 1 .. Chunks + 1 /\ Chunks \in Nat /\ Len(taken) \in Nat
        /\ Stop(Next1) \in 0 .. avi_file_size /\ pos <= Stop(Next1)
    BY <1>1, <1>3, SearchPlace
  <2>2. it = avi_file_size /\ Stop(Next1) = avi_file_size
    BY <1>1, <2>1 DEF FileOK
  <2>3. ~(Next1 <= Chunks)
    <3>1. ASSUME Next1 <= Chunks PROVE FALSE
      <4>1. Begins(video.bytes, VideoChunk, avi_file_size)
        BY <2>1, <2>2, <3>1, OrderlyStop
      <4>2. avi_file_size + 4 <= avi_file_size
        BY <4>1 DEF Begins, avi_file_size
      <4> QED
        BY <2>1, <4>2 DEF FileOK
    <3> QED
      BY <3>1
  <2>4. Len(taken) = Chunks
    BY <2>1, <2>3 DEF Next1
  <2> QED
    BY <2>2, <2>4
<1>4. Found'
  BY <1>1, <1>3, SamePlaces DEF Found
<1> QED
  BY <1>1, <1>2, <1>4 DEF OInv, ToMovi, Between, InDecode, Decoding

LEMMA OrderTestFound ==
  ASSUME IInv, OInv, Orderly(video), TestFound PROVE OInv'
<1>1. /\ pc = "searched" /\ TypeOK /\ Chunks \in Nat /\ Len(taken) \in Nat
      /\ UNCHANGED <<video, sizeBytes, chunk>>
  BY LenTaken, OrderlyMovi DEF TestFound, ReturnEnd, fileVars, IInv
<1>2. CASE it = avi_file_size
  <2>1. pc' = "caller" /\ ended' /\ taken' = taken
    BY <1>2 DEF TestFound, ReturnEnd, Goto
  <2>2. Len(taken) >= Chunks
    BY <1>1, <1>2 DEF OInv, AllTaken, Found
  <2> QED
    BY <1>1, <2>1, <2>2, SamePlaces
       DEF OInv, ToMovi, Taken, AllTaken, Between, Found, InDecode, Decoding
<1>3. CASE it # avi_file_size
  <2>1. /\ pc' = "decode" /\ stream_error' = FALSE /\ ended' = ended
        /\ taken' = Append(taken, chunk)
    BY <1>3 DEF TestFound, Goto
  <2>2. /\ Len(taken') = Next1 /\ taken'[Next1] = chunk
        /\ \A n \in 1 .. Len(taken) : taken'[n] = taken[n]
    BY <1>1, <2>1, AppendProperties DEF Next1, TypeOK
  <2>3. AllTaken'
    BY <1>1, <2>1, <2>2, SamePlaces DEF OInv, AllTaken, Next1
  <2>4. ASSUME ~ended
        PROVE  IsChunk(Next1) /\ \A n \in 1 .. Len(taken) : taken[n] = video.payloads[n]
    BY <1>1, <1>3, <2>4 DEF OInv, Found, Taken
  <2>5. Taken'
    <3> SUFFICES ASSUME ~ended
                 PROVE  /\ Next1 <= Chunks
                        /\ \A n \in 1 .. Next1 : taken'[n] = video.payloads[n]
      BY <1>1, <2>1, <2>2, SamePlaces DEF Taken
    <3>1. Next1 \in 1 .. Chunks /\ chunk = video.payloads[Next1]
      BY <2>4 DEF IsChunk
    <3>2. ASSUME NEW n \in 1 .. Next1 PROVE taken'[n] = video.payloads[n]
      <4>1. CASE n = Next1
        BY <2>2, <3>1, <4>1
      <4>2. CASE n \in 1 .. Len(taken)
        BY <2>2, <2>4, <4>2
      <4> QED
        BY <1>1, <4>1, <4>2 DEF Next1
    <3> QED
      BY <1>1, <3>1, <3>2
  <2>6. InDecode'
    <3>1. g_nInFileSize' = g_nInFileSize
      BY <1>1 DEF g_nInFileSize, SizeOf
    <3>2. ASSUME ~ended PROVE IsChunk(Len(taken))'
      BY <1>1, <2>2, <2>4, <3>1, <3>2, SamePlaces DEF IsChunk
    <3> QED
      BY <2>1, <3>2 DEF InDecode
  <2> QED
    BY <2>1, <2>3, <2>5, <2>6 DEF OInv, ToMovi, Between, Found
<1> QED
  BY <1>2, <1>3

\* What a callback that runs into the file's end had yet to read of the chunk
\* is more than the file has.
LEMMA OrderCallback ==
  ASSUME IInv, OInv, Orderly(video), pjpeg_need_bytes_callback PROVE OInv'
<1> DEFINE n == Min({g_nInFileSize - g_nInFileOfs, InBuf})
<1>1. /\ FileOK /\ TypeOK /\ Decoding /\ g_nInFileSize \in Nat
      /\ UNCHANGED <<video, pc, sizeBytes, chunk, taken, ended>>
  BY TypedFile DEF pjpeg_need_bytes_callback, IInv, history
<1>2. g_nInFileSize' = g_nInFileSize
  BY <1>1 DEF g_nInFileSize, SizeOf
<1>3. Taken' /\ AllTaken'
  BY <1>1, SamePlaces DEF OInv, Taken, AllTaken
<1>4. n <= g_nInFileSize - g_nInFileOfs
  <2>1. g_nInFileSize - g_nInFileOfs \in Int /\ InBuf \in Nat
    BY <1>1, AviAssumption DEF TypeOK
  <2> QED
    BY <2>1, MinOfTwo
<1>5. n \in Int
  <2>1. g_nInFileSize - g_nInFileOfs \in Int /\ InBuf \in Nat
    BY <1>1, AviAssumption DEF TypeOK
  <2> QED
    BY <2>1, MinOfTwo
<1>6. stream_error' = stream_error \/ pos + n > avi_file_size
  BY DEF pjpeg_need_bytes_callback
<1> HIDE DEF n
<1>7. ASSUME ~ended
      PROVE  IsChunk(Len(taken)) /\ (stream_error' => chunk + g_nInFileSize > avi_file_size)
  <2>1. IsChunk(Len(taken)) /\ (stream_error => chunk + g_nInFileSize > avi_file_size)
    BY <1>1, <1>7 DEF OInv, InDecode
  <2>2. ASSUME ~stream_error, stream_error' PROVE chunk + g_nInFileSize > avi_file_size
    <3>1. pos = chunk + g_nInFileOfs
      BY <1>1, <2>1, <2>2 DEF IInv, CallbackInChunk, IsChunk
    <3>2. pos + n > avi_file_size
      BY <1>6, <2>2
    <3> QED
      BY <1>1, <1>4, <1>5, <3>1, <3>2 DEF TypeOK, FileOK
  <2> QED
    BY <1>1, <2>1, <2>2
<1>8. InDecode'
  <2>1. ASSUME ~ended PROVE IsChunk(Len(taken))'
    BY <1>1, <1>2, <1>7, <2>1, SamePlaces DEF IsChunk
  <2> QED
    BY <1>1, <1>2, <1>7, <2>1, SamePlaces DEF InDecode
<1> QED
  BY <1>1, <1>3, <1>8 DEF OInv, ToMovi, Between, Found, Decoding

\* However little of a chunk was decoded, the next search begins in it.
LEMMA OrderDecode ==
  ASSUME IInv, OInv, Orderly(video),
         DecodeInitFails \/ AllocateBitmap \/ KeepBitmap \/ DecodeMCUFails \/ DecodeEnds
  PROVE  OInv'
<1>1. UNCHANGED stays /\ pc' \in {"caller", "mcus", "undefined"} /\ Decoding
  BY DEF DecodeInitFails, AllocateBitmap, KeepBitmap, DecodeMCUFails, DecodeEnds, Goto,
         HeaderRead, Decoding
<1>2. /\ FileOK /\ TypeOK /\ g_nInFileSize \in Nat /\ Len(taken) \in Nat
      /\ UNCHANGED <<video, pos, sizeBytes, stream_error, chunk, taken, ended>>
  BY <1>1, TypedFile, LenTaken DEF IInv, stays, history
<1>3. g_nInFileSize' = g_nInFileSize /\ Next1' = Next1
  BY <1>2 DEF g_nInFileSize, SizeOf, Next1
<1>4. Taken' /\ AllTaken'
  BY <1>2, SamePlaces DEF OInv, Taken, AllTaken
<1>5. ASSUME ~ended PROVE IsChunk(Len(taken)) /\ InGap
  <2> DEFINE c == Len(taken)
  <2>1. IsChunk(c) /\ (stream_error => chunk + g_nInFileSize > avi_file_size)
    BY <1>1, <1>5 DEF OInv, InDecode
  <2>2. /\ c \in 1 .. Chunks /\ chunk = video.payloads[c] /\ chunk # 0
        /\ Stop(Next1) # avi_file_size => chunk + g_nInFileSize <= Stop(Next1)
    BY <2>1 DEF IsChunk, Next1
  <2>3. Next1 \in 1 .. Chunks + 1 /\ Next1 # 1 /\ Next1 - 1 = c
    BY <1>2, <2>2, OrderlyMovi DEF Next1
  <2>4. /\ Stop(Next1) \in 0 .. avi_file_size /\ From(Next1) <= Stop(Next1)
        /\ From(Next1) = chunk
    BY <1>2, <2>2, <2>3, OrderlyStop DEF From
  <2>5. pos = (IF stream_error THEN avi_file_size ELSE chunk + g_nInFileOfs)
        /\ g_nInFileOfs <= g_nInFileSize
    BY <1>1, <2>2 DEF IInv, CallbackInChunk
  <2>6. /\ pos \in 0 .. avi_file_size /\ chunk \in Nat /\ g_nInFileOfs \in Nat
        /\ avi_file_size \in Nat
    BY <1>2 DEF TypeOK, FileOK
  <2>7. chunk <= pos /\ pos <= Stop(Next1)
    BY <1>2, <2>1, <2>2, <2>4, <2>5, <2>6
  <2> QED
    BY <2>1, <2>4, <2>7 DEF InGap
<1>6. Between'
  BY <1>1, <1>2, <1>3, <1>5, SamePlaces DEF Between, InGap
<1>7. InDecode'
  <2>1. ASSUME ~ended PROVE IsChunk(Len(taken))'
    BY <1>2, <1>3, <1>5, <2>1, SamePlaces DEF IsChunk
  <2> QED
    BY <1>1, <1>2, <1>3, <2>1, SamePlaces DEF OInv, InDecode
<1> QED
  BY <1>1, <1>4, <1>6, <1>7 DEF OInv, ToMovi, Found

LEMMA OrderStutter ==
  ASSUME OInv, UNCHANGED vars PROVE OInv'
<1>1. /\ UNCHANGED <<video, pc, pos, it, sizeBytes, stream_error, chunk, taken, ended>>
      /\ g_nInFileSize' = g_nInFileSize /\ Next1' = Next1
  BY DEF vars, g_nInFileSize, SizeOf, Next1
<1>2. \A n : IsChunk(n)' = IsChunk(n)
  BY <1>1, SamePlaces DEF IsChunk
<1> QED
  BY <1>1, <1>2, SamePlaces
     DEF OInv, ToMovi, Taken, AllTaken, Between, InGap, Found, InDecode, Decoding

\* Where every file's chunks are as listed, the calls find them in that order.
THEOREM OrderInvariance ==
  ASSUME \A v \in Videos : Orderly(v) PROVE Spec => []OInv
<1>1. IInv /\ OInv /\ [Next]_vars => OInv'
  <2> SUFFICES ASSUME IInv, OInv, [Next]_vars PROVE OInv'
    OBVIOUS
  <2>1. Orderly(video)
    BY DEF IInv, TypeOK
  <2>2. CASE Next
    BY <2>1, <2>2, OrderSearchMovi, OrderCallGetFrame, OrderFindChunk, OrderFindIndex,
       OrderSkipBytes, OrderSearchEnds, OrderTestFound, OrderCallback, OrderDecode
       DEF Next, get_frame_avi
  <2> QED
    BY <2>2, OrderStutter
<1> QED
  BY <1>1, OrderInit, AviInvariance, PTL DEF Spec

\* Until the end of the video is reported, the calls take the file's video
\* chunks in file order, none left out and none twice, however little of each
\* was decoded (avi.c:84).
THEOREM ChunksTakenInOrder ==
  ASSUME \A v \in Videos : Orderly(v) PROVE Spec => []ChunksInOrder
<1>1. TypeOK /\ OInv => ChunksInOrder
  <2> SUFFICES ASSUME TypeOK, OInv, ~ended, NEW n \in DOMAIN taken
               PROVE  n \in DOMAIN video.payloads /\ taken[n] = video.payloads[n]
    BY DEF ChunksInOrder
  <2>1. n \in 1 .. Len(taken) /\ Len(taken) \in Nat
    BY LenTaken DEF TypeOK
  <2>2. video.payloads \in Seq(Nat)
    BY AviAssumption DEF TypeOK
  <2> QED
    BY <2>1, <2>2 DEF OInv, Taken, Chunks
<1> QED
  BY <1>1, OrderInvariance, AviTypeCorrect, PTL

\* The end of the video is not reported while a chunk has not been taken
\* (avi.c:124).
THEOREM EndIsNotEarly ==
  ASSUME \A v \in Videos : Orderly(v) PROVE Spec => []EndNotEarly
<1>1. OInv => EndNotEarly
  BY DEF OInv, AllTaken, EndNotEarly, Chunks
<1> QED
  BY <1>1, OrderInvariance, PTL
-----------------------------------------------------------------------------
(***************************************************************************)
(* The end of a file that does not end within a tag: the counter of a      *)
(* search stops there.                                                     *)
(***************************************************************************)
NInv == /\ pc = "search" => it <= avi_file_size
        /\ pc = "searched" /\ chunk = 0 => it = avi_file_size
        /\ NoFrameNoDecode

\* A turn that finds no tag reads no byte that the file does not have.
LEMMA ReadsWithinFile ==
  ASSUME FileOK, pos \in 0 .. avi_file_size, pos < avi_file_size, EndsOutsideTag(video),
         NEW tag \in {VideoChunk, Index}
  PROVE  Reads(tag) \in 1 .. 4 /\ pos + Reads(tag) <= avi_file_size
<1> DEFINE from == Max({0, avi_file_size - 3})
           tags == {VideoChunk, Index}
<1>1. Reads(tag) \in 1 .. 4
  BY ReadsBounded
<1>2. from = IF avi_file_size >= 3 THEN avi_file_size - 3 ELSE 0
  <2>1. \E x \in {0, avi_file_size - 3} : \A y \in {0, avi_file_size - 3} : x >= y
    BY DEF FileOK
  <2>2. from \in {0, avi_file_size - 3} /\ \A y \in {0, avi_file_size - 3} : from >= y
    BY <2>1 DEF Max
  <2> QED
    BY <2>2 DEF FileOK
<1>3. CASE pos < from
  BY <1>1, <1>2, <1>3 DEF FileOK
<1>4. CASE from <= pos
  <2>1. Passes(video.bytes, tags, from, avi_file_size)
    BY DEF EndsOutsideTag, avi_file_size
  <2>2. from \in Nat /\ avi_file_size \in 0 .. avi_file_size
    BY <1>2 DEF FileOK
  <2>3. tags \in SUBSET Tags /\ tag \in tags
    BY DEF Tags
  <2> HIDE DEF from, tags
  <2> QED
    BY <1>4, <2>1, <2>2, <2>3, PassesOn
<1> QED
  BY <1>2, <1>3, <1>4 DEF FileOK

LEMMA FrameFindChunk ==
  ASSUME IInv, FindChunk PROVE NInv'
<1>1. pc' = "searched" /\ chunk' = pos' /\ Advance(8) /\ pc = "search" /\ it < avi_file_size
  BY DEF FindChunk, Goto
<1>2. FileOK /\ pos \in 0 .. avi_file_size /\ it \in Nat
  BY TypedFile DEF IInv, TypeOK
<1>3. pos < avi_file_size
  BY <1>1, <1>2, MinOfTwo DEF IInv, SearchInStep, FileOK
<1>4. pos' # 0
  BY <1>1, <1>2, <1>3, AdvanceEffect DEF FileOK
<1> QED
  BY <1>1, <1>4 DEF NInv, NoFrameNoDecode, Decoding

LEMMA FrameSkipBytes ==
  ASSUME IInv, NInv, EndsOutsideTag(video), SkipBytes PROVE NInv'
<1> DEFINE tag == IF NextByte(1) = "i" THEN Index ELSE VideoChunk
<1>1. /\ pc = "search" /\ pc' = "search" /\ it < avi_file_size
      /\ it' = it + Reads(tag) /\ avi_file_size' = avi_file_size
  BY DEF SkipBytes, fileVars, avi_file_size
<1>2. tag \in {VideoChunk, Index}
  OBVIOUS
<1> HIDE DEF tag
<1>3. FileOK /\ pos \in 0 .. avi_file_size /\ it \in Nat
  BY TypedFile DEF IInv, TypeOK
<1>4. it = pos /\ pos < avi_file_size
  BY <1>1, <1>3, MinOfTwo DEF IInv, SearchInStep, FileOK
<1>5. it' <= avi_file_size
  BY <1>1, <1>2, <1>3, <1>4, ReadsWithinFile
<1> QED
  BY <1>1, <1>5 DEF NInv, NoFrameNoDecode, Decoding

LEMMA FrameSearched ==
  ASSUME IInv, NInv, SearchEnds \/ TestFound PROVE NInv'
<1>1. avi_file_size' = avi_file_size /\ avi_file_size \in Nat /\ it \in Nat
  <2>1. UNCHANGED video
    BY DEF SearchEnds, TestFound, ReturnEnd, fileVars
  <2> QED
    BY <2>1, SameFile DEF IInv, TypeOK
<1>2. CASE SearchEnds
  <2>1. pc' = "searched" /\ pc = "search" /\ it >= avi_file_size /\ it' = it
    BY <1>2 DEF SearchEnds, Goto
  <2>2. it = avi_file_size
    BY <1>1, <2>1 DEF NInv
  <2> QED
    BY <1>1, <2>1, <2>2 DEF NInv, NoFrameNoDecode, Decoding
<1>3. CASE TestFound
  <2>1. pc = "searched" /\ pc' \in {"caller", "decode"} /\ chunk' = chunk
    BY <1>3 DEF TestFound, ReturnEnd, Goto
  <2>2. pc' = "decode" => it # avi_file_size
    BY <1>3 DEF TestFound, ReturnEnd, Goto
  <2> QED
    BY <2>1, <2>2 DEF NInv, NoFrameNoDecode, Decoding
<1> QED
  BY <1>2, <1>3

\* Where no file ends within a tag, a call decodes only what its own search
\* found: "If no frame has been read" (avi.c:124) sees every search that found
\* none.
THEOREM NoFrameIsNoDecode ==
  ASSUME \A v \in Videos : EndsOutsideTag(v) PROVE Spec => []NoFrameNoDecode
<1>1. Init => NInv
  BY DEF Init, NInv, NoFrameNoDecode, Decoding
<1>2. IInv /\ NInv /\ [Next]_vars => NInv'
  <2> SUFFICES ASSUME IInv, NInv, [Next]_vars PROVE NInv'
    OBVIOUS
  <2>1. EndsOutsideTag(video)
    BY DEF IInv, TypeOK
  <2>2. CASE SearchMovi \/ FindIndex
    <3>1. pc' \in {"init_file_avi", "caller"}
      BY <2>2 DEF SearchMovi, FindIndex, ReturnEnd, Goto
    <3> QED
      BY <3>1 DEF NInv, NoFrameNoDecode, Decoding
  <2>3. CASE CallGetFrame
    <3>1. pc' \in {"undefined", "search"} /\ it' = pos /\ pos \in 0 .. avi_file_size
          /\ avi_file_size' = avi_file_size /\ avi_file_size \in Nat
      BY <2>3, SameFile DEF CallGetFrame, Goto, IInv, TypeOK
    <3> QED
      BY <3>1 DEF NInv, NoFrameNoDecode, Decoding
  <2>4. CASE pjpeg_need_bytes_callback
    <3>1. Decoding /\ UNCHANGED <<pc, chunk>>
      BY <2>4 DEF pjpeg_need_bytes_callback, history
    <3> QED
      BY <3>1 DEF NInv, NoFrameNoDecode, Decoding
  <2>5. CASE DecodeInitFails \/ AllocateBitmap \/ KeepBitmap \/ DecodeMCUFails \/ DecodeEnds
    <3>1. Decoding /\ pc' \in {"caller", "mcus", "undefined"} /\ chunk' = chunk
      BY <2>5 DEF DecodeInitFails, AllocateBitmap, KeepBitmap, DecodeMCUFails, DecodeEnds,
                  HeaderRead, Decoding, Goto, stays, history
    <3> QED
      BY <3>1 DEF NInv, NoFrameNoDecode, Decoding
  <2>6. CASE UNCHANGED vars
    BY <2>6 DEF vars, avi_file_size, NInv, NoFrameNoDecode, Decoding
  <2> QED
    BY <2>1, <2>2, <2>3, <2>4, <2>5, <2>6, FrameFindChunk, FrameSkipBytes, FrameSearched
       DEF Next, get_frame_avi
<1>3. NInv => NoFrameNoDecode
  BY DEF NInv
<1> QED
  BY <1>1, <1>2, <1>3, AviInvariance, PTL DEF Spec
=============================================================================
