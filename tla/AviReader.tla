----------------------------- MODULE AviReader -----------------------------
(***************************************************************************)
(* The AVI source of core/src/avi.c: init_file_avi looks for the "movi"    *)
(* list, and each call of get_frame_avi looks for the next "00dc" chunk,   *)
(* or the "idx1" index that ends the video, and has picojpeg decode it     *)
(* through pjpeg_need_bytes_callback.  One action is one turn of a search  *)
(* loop or one call of the callback.                                       *)
(*                                                                         *)
(* fread at the end of the file leaves its target as it was, so a search   *)
(* that runs into the end compares the file's last byte again and again.   *)
(***************************************************************************)
EXTENDS Integers, Sequences, FiniteSetsExt

CONSTANTS Byte,      \* the bytes the files are made of
          ByteValue, \* their values, which only size fields use
          Videos,    \* the files: their bytes, and where the payloads of their
                     \* video chunks begin (how many bytes precede each)
          InBuf      \* what one callback may fill: PJPG_MAX_IN_BUF_SIZE - 4

ASSUME AviAssumption ==
  /\ {"m", "o", "v", "i", "0", "d", "c", "x", "1"} \subseteq Byte
  /\ ByteValue \in [Byte -> 0 .. 255]
  /\ \A v \in Videos : v.bytes \in Seq(Byte) /\ v.payloads \in Seq(Nat)
  /\ InBuf \in Nat \ {0}

VARIABLES
  video,         \* the file, \in Videos
  pc,            \* where init_file_avi, get_frame_avi or their caller is
  pos,           \* the stdio position of g_pInFile
  it,            \* the search loop's counter: i, it
  sizeBytes,     \* the four bytes of g_nInFileSize, lowest first
  g_nInFileOfs,
  stream_error,  \* the callback has reported PJPG_STREAM_READ_ERROR
  allocated,
  pImage,        \* get_frame_avi's own: "bitmap", what malloc gave, or "other"
  bitmap,        \* that block of the heap: "none", "live" or "freed"
  closed,        \* fclose(g_pInFile) has been called
  chunk,         \* history: where the payload this call found begins; 0: none
  taken,         \* history: chunk, for each call that decoded
  ended          \* history: a call has returned -1, the end of the video

vars == <<video, pc, pos, it, sizeBytes, g_nInFileOfs, stream_error, allocated,
          pImage, bitmap, closed, chunk, taken, ended>>
image == <<allocated, pImage, bitmap>>
fileVars == <<video, sizeBytes, g_nInFileOfs, stream_error, image, closed>>
history == <<chunk, taken, ended>>

Movi == <<"m", "o", "v", "i">>
VideoChunk == <<"0", "0", "d", "c">>
Index == <<"i", "d", "x", "1">>

avi_file_size == Len(video.bytes)
Goto(l) == pc' = l

\* What the k-th fread of a byte from here leaves in chr.
NextByte(k) == video.bytes[Min({pos + k, avi_file_size})]
\* Mutant: fread moves past the end.
AdvancePastEnd(k) == pos' = pos + k

Advance(k) == pos' = Min({pos + k, avi_file_size})

\* The nested tests read a byte each, up to the first that differs.
Matches(tag) == \A k \in 1 .. 4 : NextByte(k) = tag[k]
Reads(tag) == Min({k \in 1 .. 4 : k = 4 \/ NextByte(k) # tag[k]})

SizeOf(b) == ByteValue[b[1]] + 256 * ByteValue[b[2]]
               + 65536 * ByteValue[b[3]] + 16777216 * ByteValue[b[4]]
g_nInFileSize == SizeOf(sizeBytes)

\* g_nInFileSize starts at 0; NoByte stands for the zero byte.
CONSTANT NoByte
ASSUME NoByteAssumption == NoByte \in Byte /\ ByteValue[NoByte] = 0

Init == /\ video \in Videos
        /\ pc = "init_file_avi"
        /\ pos = 0 /\ it = 0
        /\ sizeBytes = [k \in 1 .. 4 |-> NoByte]
        /\ g_nInFileOfs = 0
        /\ stream_error = FALSE /\ closed = FALSE
        /\ allocated = FALSE /\ pImage = "other" /\ bitmap = "none"
        /\ chunk = 0 /\ taken = <<>> /\ ended = FALSE
-----------------------------------------------------------------------------
(***************************************************************************)
(* init_file_avi.  The nested reads do not count in i.                     *)
(***************************************************************************)
SearchMovi ==
  /\ pc = "init_file_avi"
  /\ \/ /\ it < avi_file_size /\ ~Matches(Movi)
        /\ Advance(Reads(Movi))
        /\ it' = it + 1
        /\ UNCHANGED pc
     \/ /\ it < avi_file_size /\ Matches(Movi)
        /\ Advance(4)
        /\ Goto("caller")
        /\ UNCHANGED it
     \/ /\ it >= avi_file_size
        /\ Goto("caller")
        /\ UNCHANGED <<pos, it>>
  /\ UNCHANGED <<fileVars, history>>
-----------------------------------------------------------------------------
(***************************************************************************)
(* get_frame_avi.                                                          *)
(***************************************************************************)
\* A call with the file closed by an earlier one is undefined: no step more.
\* pImage is what the place on the stack holds: what the last call left there,
\* or what a function called since has written over it.
CallGetFrame ==
  /\ pc = "caller"
  /\ IF closed THEN Goto("undefined") ELSE Goto("search")
  /\ it' = pos
  /\ pImage' \in {pImage, "other"}
  /\ chunk' = 0
  /\ UNCHANGED <<video, pos, sizeBytes, g_nInFileOfs, stream_error, allocated, bitmap,
                 closed, taken, ended>>

\* The size field follows the tag; the file may end within it.
FindChunk ==
  /\ pc = "search" /\ it < avi_file_size
  /\ Matches(VideoChunk)
  /\ Advance(8)
  /\ it' = it + 3
  /\ sizeBytes' = [k \in 1 .. 4 |-> IF pos + 4 + k <= avi_file_size
                                      THEN video.bytes[pos + 4 + k] ELSE sizeBytes[k]]
  /\ g_nInFileOfs' = 0
  /\ chunk' = pos'
  /\ Goto("searched")
  /\ UNCHANGED <<video, stream_error, image, closed, taken, ended>>

ReturnEnd == /\ Goto("caller")
             /\ ended' = TRUE
             /\ UNCHANGED <<fileVars, chunk, taken>>

FindIndex == /\ pc = "search" /\ it < avi_file_size
             /\ Matches(Index)
             /\ Advance(4)
             /\ UNCHANGED it
             /\ ReturnEnd

\* Mutant: the nested reads do not count.
SkipCountsOne ==
  /\ pc = "search" /\ it < avi_file_size
  /\ ~Matches(VideoChunk) /\ ~Matches(Index)
  /\ Advance(Reads(IF NextByte(1) = "i" THEN Index ELSE VideoChunk))
  /\ it' = it + 1
  /\ UNCHANGED <<pc, fileVars, history>>

\* Mutant: the loop runs on the position alone.
SkipUncounted ==
  /\ pc = "search" /\ it < avi_file_size
  /\ ~Matches(VideoChunk) /\ ~Matches(Index)
  /\ Advance(Reads(IF NextByte(1) = "i" THEN Index ELSE VideoChunk))
  /\ UNCHANGED <<it, pc, fileVars, history>>

\* Bytes that start neither tag in full are skipped, it counting each read.
SkipBytes ==
  /\ pc = "search" /\ it < avi_file_size
  /\ ~Matches(VideoChunk) /\ ~Matches(Index)
  /\ LET k == Reads(IF NextByte(1) = "i" THEN Index ELSE VideoChunk)
     IN  Advance(k) /\ it' = it + k
  /\ UNCHANGED <<pc, fileVars, history>>

SearchEnds == /\ pc = "search" /\ it >= avi_file_size
              /\ Goto("searched")
              /\ UNCHANGED <<pos, it, fileVars, history>>

\* Mutant: <= for ==.
TestFoundBelow ==
  /\ pc = "searched" /\ it <= avi_file_size
  /\ ReturnEnd
  /\ UNCHANGED <<pos, it>>

\* Mutant: > for ==.
TestFoundOver ==
  /\ pc = "searched"
  /\ \/ /\ it > avi_file_size
        /\ ReturnEnd
     \/ /\ it <= avi_file_size
        /\ Goto("decode")
        /\ stream_error' = FALSE
        /\ taken' = Append(taken, chunk)
        /\ UNCHANGED <<video, sizeBytes, g_nInFileOfs, image, closed, chunk, ended>>
  /\ UNCHANGED <<pos, it>>

\* Only a counter that stopped right at the end counts as "no frame read".
TestFound ==
  /\ pc = "searched"
  /\ \/ /\ it = avi_file_size
        /\ ReturnEnd
     \/ /\ it # avi_file_size
        /\ Goto("decode")
        /\ stream_error' = FALSE
        /\ taken' = Append(taken, chunk)
        /\ UNCHANGED <<video, sizeBytes, g_nInFileOfs, image, closed, chunk, ended>>
  /\ UNCHANGED <<pos, it>>

Decoding == pc \in {"decode", "mcus"}

\* Mutant: the callback fills the buffer whatever the chunk has left.
CallbackReadsOn ==
  /\ Decoding
  /\ Advance(InBuf)
  /\ stream_error' = (pos + InBuf > avi_file_size)
  /\ g_nInFileOfs' = IF stream_error' THEN g_nInFileOfs ELSE g_nInFileOfs + InBuf
  /\ UNCHANGED <<video, pc, it, sizeBytes, image, closed, history>>

\* picojpeg asks for bytes whenever its buffer is empty, as often as it likes.
pjpeg_need_bytes_callback ==
  /\ Decoding
  /\ LET n == Min({g_nInFileSize - g_nInFileOfs, InBuf}) IN
       /\ Advance(n)
       /\ \/ /\ pos + n <= avi_file_size
             /\ g_nInFileOfs' = g_nInFileOfs + n
             /\ UNCHANGED stream_error
          \/ /\ pos + n > avi_file_size
             /\ stream_error' = TRUE
             /\ UNCHANGED g_nInFileOfs
  /\ UNCHANGED <<video, pc, it, sizeBytes, image, closed, history>>

stays == <<video, pos, it, sizeBytes, g_nInFileOfs, stream_error, history>>

\* pjpeg_decode_init fails, as it does after a read error; the call returns 0.
DecodeInitFails == /\ pc = "decode"
                   /\ Goto("caller")
                   /\ UNCHANGED <<stays, image, closed>>

\* pjpeg_decode_init succeeds, of a chunk that holds something.
HeaderRead == pc = "decode" /\ ~stream_error /\ g_nInFileOfs > 0

\* The bitmap of the first picture is allocated, or cannot be.
AllocateBitmap ==
  /\ HeaderRead /\ ~allocated
  /\ \/ /\ allocated' = TRUE /\ pImage' = "bitmap" /\ bitmap' = "live"
        /\ Goto("mcus")
        /\ UNCHANGED closed
     \/ /\ closed' = TRUE
        /\ Goto("caller")
        /\ UNCHANGED image
  /\ UNCHANGED stays

\* Later ones have pImage as it is.
KeepBitmap == /\ HeaderRead /\ allocated
              /\ Goto("mcus")
              /\ UNCHANGED <<stays, image, closed>>

\* pjpeg_decode_mcu fails, as it does after a read error; what free does to
\* another pointer than malloc's is undefined.
DecodeMCUFails ==
  /\ pc = "mcus"
  /\ bitmap' = IF pImage = "bitmap" THEN "freed" ELSE bitmap
  /\ closed' = TRUE
  /\ Goto(IF pImage = "bitmap" THEN "caller" ELSE "undefined")
  /\ UNCHANGED <<stays, allocated, pImage>>

\* No more blocks: the picture is copied to the frame.
DecodeEnds == /\ pc = "mcus" /\ ~stream_error
              /\ Goto("caller")
              /\ UNCHANGED <<stays, image, closed>>

get_frame_avi == \/ CallGetFrame \/ FindChunk \/ FindIndex \/ SkipBytes
                 \/ SearchEnds \/ TestFound \/ DecodeInitFails
                 \/ AllocateBitmap \/ KeepBitmap \/ DecodeMCUFails \/ DecodeEnds

Next == SearchMovi \/ get_frame_avi \/ pjpeg_need_bytes_callback

Spec == Init /\ [][Next]_vars

\* The code of a call runs on; only how long the decoder takes is its own.
Fairness == /\ WF_vars(SearchMovi) /\ WF_vars(FindChunk) /\ WF_vars(FindIndex)
            /\ WF_vars(SkipBytes) /\ WF_vars(SearchEnds) /\ WF_vars(TestFound)
FairSpec == Spec /\ Fairness
-----------------------------------------------------------------------------
(***************************************************************************)
(* Properties                                                              *)
(***************************************************************************)
TypeOK ==
  /\ video \in Videos
  /\ pc \in {"init_file_avi", "caller", "search", "searched", "decode", "mcus", "undefined"}
  /\ pos \in 0 .. avi_file_size /\ it \in 0 .. avi_file_size + 2
  /\ sizeBytes \in [1 .. 4 -> Byte]
  /\ g_nInFileOfs \in Nat
  /\ stream_error \in BOOLEAN /\ allocated \in BOOLEAN /\ closed \in BOOLEAN
  /\ pImage \in {"bitmap", "other"} /\ bitmap \in {"none", "live", "freed"}
  /\ chunk \in 0 .. avi_file_size
  /\ taken \in Seq(0 .. avi_file_size) /\ ended \in BOOLEAN

\* it, which counts the reads of a search, and the file's own position, moved
\* by the same reads, agree until the file ends, and only then may it go past.
SearchInStep == pc = "search" => pos = Min({it, avi_file_size})

\* Whatever picojpeg asks for, it gets the bytes of the chunk that was found,
\* in order, none after its end: the chunk's size less what was read never
\* wraps, and the position is the chunk's start plus what was read, save
\* after a read that the file's end cut short.
CallbackInChunk ==
  Decoding =>
    /\ g_nInFileOfs <= g_nInFileSize
    /\ chunk # 0 =>
         pos = IF stream_error THEN avi_file_size ELSE chunk + g_nInFileOfs

\* What the search asks of a file.  A tag is p bytes into it.
Begins(bytes, tag, p) == p + 4 <= Len(bytes) /\ \A k \in 1 .. 4 : bytes[p + k] = tag[k]

\* No tag begins at from or later, before t, not even one that the bytes at t
\* would have to break off.
Passes(bytes, tags, from, t) ==
  \A p \in from .. t - 1, tag \in tags :
    \E k \in 1 .. 4 : p + k <= t /\ bytes[p + k] # tag[k]

\* The n-th search, the last one for no more chunk, from anywhere in the chunk
\* before or right behind movi, finds its tag at t.  No size but that of a chunk
\* which the file's end cuts is too great.
FoundAt(v, movi, n, t) ==
  LET from == IF n = 1 THEN movi + 4 ELSE v.payloads[n - 1]
      declared == SizeOf([k \in 1 .. 4 |-> v.bytes[from - 4 + k]])
  IN  /\ t \in from .. Len(v.bytes)
      /\ Passes(v.bytes, {VideoChunk, Index}, from, t)
      /\ IF n \in DOMAIN v.payloads
           THEN /\ Begins(v.bytes, VideoChunk, t)
                /\ v.payloads[n] = Min({t + 8, Len(v.bytes)})
           ELSE t = Len(v.bytes) \/ Begins(v.bytes, Index, t)
      /\ n # 1 /\ t # Len(v.bytes) => from + declared <= t

OrderlyFrom(v, movi) ==
  /\ Begins(v.bytes, Movi, movi) /\ Passes(v.bytes, {Movi}, 0, movi)
  /\ \A n \in 1 .. Len(v.payloads) + 1 : \E t \in 0 .. Len(v.bytes) : FoundAt(v, movi, n, t)

\* The file's video chunks are those that are listed, and the bytes between them
\* hold no tag, in whole or in part before another.
Orderly(v) == \E movi \in 0 .. Len(v.bytes) : OrderlyFrom(v, movi)

\* The file does not end within a tag.
EndsOutsideTag(v) == LET size == Len(v.bytes)
                     IN  Passes(v.bytes, {VideoChunk, Index}, Max({0, size - 3}), size)

\* Until the end of the video is reported, the calls take the file's video
\* chunks one by one, in file order, however little of each was decoded.
ChunksInOrder ==
  ~ended => \A n \in DOMAIN taken : /\ n \in DOMAIN video.payloads
                                    /\ taken[n] = video.payloads[n]

\* "Go to next video frame chunk" (avi.c:84): the end is not reported while
\* the file has a chunk that was not taken.
EndNotEarly == ended => Len(taken) >= Len(video.payloads)

\* A search comes to an end, with a frame or without.
SearchReturns == pc \in {"init_file_avi", "search"} ~> pc \in {"caller", "decode"}

\* "If no frame has been read" (avi.c:124) the call returns: it never has
\* picojpeg decode what an earlier call left.
NoFrameNoDecode == Decoding => chunk # 0

\* "Copy MCU's pixel blocks into the destination bitmap." (avi.c:209): the MCUs
\* of every picture go to the block that malloc gave, before it is freed.
PixelsInBitmap == pc = "mcus" => pImage = "bitmap" /\ bitmap = "live"

\* "Should be: return NO_MORE_FRAMES" (avi.c:117): once a call has said so, no
\* later one delivers a frame.
NoMoreFrames == [][ended => taken' = taken]_vars
=============================================================================
