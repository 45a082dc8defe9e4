# Verification of vid2led

vid2led plays a video on a matrix of LEDs: a C library reads frames from a
source (random pixels, or an AVI file of JPEG pictures), keeps them in a ring,
and a timer signal takes one out at a time and sends it to the display. On
Linux the display is an emulator, a second program that draws the frames it
receives from a socket. This directory holds TLA+ models of that code, what TLC
checks of them, and the theorems TLAPS proves about them.

## 1. Inventory

| Component | Code | State it keeps | Operations |
|---|---|---|---|
| frame buffer | `core/src/buffer.c` | `written`, `len`, two cursors (16 bits each), the slots | init (a static and a dynamic build), read, write, is_full |
| service, example program | `core/src/vid2led.c`, `examples/linux/main.c` | `initialized`, the global `video_frame` | init, service, deinit, main's loop |
| display, timer, signal | `core/src/display.c` | the socket, the timer, the signal mask | socket_init, the SIGALRM handler, enable/disable_interrupts, display_frame, deinit, msleep |
| video source | `core/src/video.c` | `frames`, `frames_buffered`, `frames_displayed` | init_video, get_frame (dummy, AVI) |
| AVI reader | `core/src/avi.c` | the file and its position, the size and the bytes read of the chunk, the bitmap | init_file_avi, get_frame_avi, the decoder's callback |
| picojpeg | `core/src/picojpeg.c` | byte and bit buffers, tables, MCU and restart counters, coefficients | pjpeg_decode_init, pjpeg_decode_mcu |
| emulator | `emulator/vid2led_emulator.cpp` | `temp_arr`, `arr`, a mutex | receiver thread, render loop, stop |
| debug messages, configuration, build files, driver stub | | none | |

How they interact. `main` calls `vid2led_service` over and over; it fills the
ring with `get_frame` and `rgb_buffer_write` while SIGALRM is masked. The timer's
signal interrupts it anywhere else, and the handler reads the ring and sends the
frame. Both use the same global `video_frame` and the same counters. `get_frame`
of an AVI runs the chunk search and then picojpeg, which calls back for bytes of
the chunk. The player and the emulator share a datagram socket, the emulator's
two threads an array under a mutex.

What is hard here, and what makes each part correct:

* *Service and handler* (interleaving, stale tests, shutdown order): no frame is
  lost, repeated, overtaken or overwritten on its way; the counters agree with
  the ring; after `display_deinit` the handler does no more; playback ends.
* *Frame buffer* (two cursors wrapping apart, lengths cut to 16 bits): it is a
  bounded FIFO queue.
* *AVI reader* (a search that ends at the file's end by a counter that is not
  the position, unsigned sizes): chunks one by one and in order, reads within
  the chunk, an end that is reported once and for good.
* *picojpeg's headers* (tables and selectors that outlive a picture, segments
  that say one length and hold another, statuses nobody looks at): the call
  returns, each segment is read to its end, and a picture is decoded with its own
  tables only.
* *Huffman codes* (numbered across lengths, at 16 bits, with 0xFFFF for none):
  bits are read as the canonical code says.
* *picojpeg's input* (put-backs across refills, reading ahead of a marker): the
  bits of the stream in order, and the marker still there.
* *MCU loop* (two programs counting the same MCUs, restart intervals across
  rows, edges): every pixel from its place, nothing outside the bitmap.
* *Blocks* (runs from the data, a buffer shared by all blocks, chroma added in
  place): all 64 coefficients written, none past the end, and each pixel made of
  its own luma and chroma values.
* *Emulator* (two threads, processes that die): whole frames, the last one too.

`PROJECT.json` lists every hazard at its line, with the properties that cover it.

## 2. Modules

| Module | Models | Used by |
|---|---|---|
| `FrameQueue` | abstract: a bounded FIFO queue that refuses calls | `RingBufferCalls` |
| `RingBuffer` | the operations of buffer.c, as actions that return 0 or -1 | `RingBufferCalls`, `Playback` |
| `RingBufferCalls` | any sequence of those calls | |
| `FramePipe` | abstract: frames delivered are shown, in order, not far behind | `Playback` |
| `Playback` | main, vid2led.c, the handler and mask of display.c, the sources' outcomes | |
| `AviReader` | init_file_avi, the search of get_frame_avi, the callback, the bitmap from call to call | |
| `Huffman` | huffCreate and huffDecode, and the canonical code as reference | `JpegHeader` |
| `JpegHeader` | pjpeg_decode_init: markers, segments, tables, checks, statuses | |
| `PictureDecode` | initFrame, the MCU loop and copy of get_frame_avi, pjpeg_decode_mcu, restarts | |
| `MCUBuffers` | upsampling, colour conversion and transformBlock, by what goes where | `BlockDecode` |
| `BlockDecode` | the coefficient loops of decodeNextMCU and the MCU they make | |
| `BitInput` | gInBuf, gBitBuf and what reads them, fixInBuffer, processRestart | |
| `Emulator` | display_frame and connecting, run_server, the render loop | |
| `Powers` | 1 << n, as a recursive function | `Huffman`, `BitInput` |
| `Arithmetic` | lemmas: induction, recursive functions, division, digits, powers of two | the proofs of picojpeg's modules |
| `PlaybackProofs` (with the ring's), `AviReaderProofs`, `JpegHeaderProofs` (with Huffman's), `BitInputProofs`, `PictureDecodeProofs`, `BlockDecodeProofs`, `EmulatorProofs` | lemmas and theorems | |
| `MC...` | constants for TLC | |

Definitions have the names of the functions and fields they stand for; `map` in
`PROJECT.json` gives the lines. A definition under a comment `Mutant:` is no part
of any model. It is a plausible bug in the definition that follows, and putting
it in that one's place makes the property violated that `mutants` names with it.

**RingBuffer.** One action per function, with the value it returns as a
parameter. `matrix_array` is a function from slots to frames; the dynamic build
gets any content from malloc, the static build keeps what was there. All
counters are cut to `U16` values. `RingBufferCalls` adds the caller's frame and
the last result, and maps to `FrameQueue`: the queue is the slots from the read
cursor on, as many as `written` says.

**Playback.** The main program is a program counter; each action is a statement
or a call that a signal cannot be told to fall into. The handler is one step: it
runs with its signal masked, and main does not run meanwhile. A signal may fall
between any two steps of main while `masked` is false; a second expiry while one
is pending adds nothing. The fill loop is three actions (test and get_frame,
write, enable) so that a signal could fall between `get_frame` and
`rgb_buffer_write`: only the mask prevents it, and the mutant without the mask
loses frames. `get_frame` has the outcomes of both sources: a frame, no change
with success (a JPEG that is not decoded), the end. A failure in `vid2led_init`
leads to the service loop, as main does not look. `delivered` and `shown` are
histories; the model maps to `FramePipe` with them.

**AviReader.** A file is a sequence of bytes; `fread` at its end leaves the byte
variable as it was, so the last byte is seen again. One action is one turn of
the search with its nested reads, or one call of the callback. How the decoder
ends is a choice among the ways of the code, two of which close the file; a call
with the file closed is undefined and the model stops there. `pImage` is a local
variable without an initial value: at each call it holds what the last call left
in its place on the stack, or something else. A picture is decoded only from a
chunk that has at least a byte.

**JpegHeader.** A stream is a sequence of bytes, and past its end FF and D9 in
turn, as getChar makes them up. `pos` is the byte that the next `getBits1(8)`
returns; the decoder has fetched that one too, so an error of the callback shows
when the byte after the ones used is past the end. One action is one turn of
processMarkers, one table of a segment, or one of the functions pjpeg_decode_init
calls. Globals that init does not reset begin as `Stale`, what an earlier picture
left. `dropped` collects the statuses that processMarkers does not look at;
`segment` and `bitsRead` are histories. Beside the model-checking, the model's
results were compared with those of the compiled picojpeg.c, on 1318 files with
the real sizes: status, tables, components and place in the stream agreed.

**Huffman.** Tables are functions from lengths to records of mMinCode, mMaxCode
and mValPtr, with numbers cut to the longest code's width. `canonicalDecode` is
the definition of the canonical code, by how many streams begin with each code.

**PictureDecode.** A pixel is where it comes from (MCU and offset). The decoder's
counters, get_frame_avi's counters and the bitmap are state; which marker is
found and whether a block decodes is a choice.

**BlockDecode.** The Huffman decoder may return any symbol. The coefficient
buffer holds, by place, the index written there for the block at hand, or `Stale`.
At each block's end `transformBlock` of `MCUBuffers` puts it into the MCU's three
buffers, where a byte is the list of the values that went into it: the luma first,
then each chroma value, by block and place.

**BitInput.** The byte and bit buffers as numbers, with the shifts of the code.
The decoder is known by its calls: field reads in the markers, `fixInBuffer` at a
byte boundary, reads of any 1 to 16 bits in the scan, `processRestart` anywhere.

**Emulator.** Bytes are (frame, place) pairs, so that mixtures show. Sending,
receiving, copying and drawing are by datagram or byte; players and emulator stop
and start anywhere.

## 3. What TLC checks

| Run | Bounds | Distinct states | Shows |
|---|---|---|---|
| `ring_buffer` | 2-bit counters, lengths 0..5 (two of them cut), 2 frame values | 768 | the ring is a bounded FIFO queue; counters in range and in step |
| `playback` | lengths 0..4, static array of 3, U16 = 4, 4 frames, the AVI source | 6390 | FramesAccounted, NoFrameDropped, OvershootBounded, DeinitIsFinal, the pipe with its liveness, PlaybackEnds |
| `avi_reader` | two chunks of 0..2 bytes, four tails, padding, files cut short; the callback gives one byte | 12672 | chunks in order, reads within the chunk, no early end on such files, no decode without a chunk, every search returns |
| `avi_chunk_missed`, `avi_frames_after_end`, `avi_bitmap` | one file, or the files above | | findings 1 to 3 |
| `jpeg_header` | codes to 4 bits, 2 quantisers, 12 bytes for SOI; some 800 files | 11087 | the call returns, segments read to their end, canonical tables, tables of this picture only |
| `header_status` | the same files | | finding 4 |
| `picture_decode` | blocks of 2 by 2, 3 by 3 sizes, all scan types and refused ones, intervals 0..2, 2 restart numbers | 4636 | counters agree, restarts in step, copies in bounds, complete pictures right, the loop ends |
| `block_decode` | none: 64 coefficients, runs to 15, all five layouts, both modes | 8177 | all coefficients fresh and in place, nothing past the block, both modes alike, pixels from their own values |
| `bit_input` | bytes of 2 bits, chunks of 2 bytes, every stream to 4 bytes and longer ones with a restart, 10 bits per segment | 54992 | bits in order, put-backs safe, restart markers found |
| `emulator` | messages of 2 bytes, frames of 1, 2 and 3 bytes, 3 frames, 2 starts, a queue of 2 | 21391 | whole frames, the last one shown |

Why the bounds are enough. In the ring and in playback, data is only copied, so
two values tell any reordering or loss; lengths to 3 give wrapping with a
partial, a full and an empty ring, and 4 and 5 the cut of the 16-bit field; four
frames pass a ring of one, two and three slots more than once. The AVI source has
every outcome of the dummy source and more, so one run serves both. The proofs
below remove these bounds. `jpeg_header` has a gray and a colour file, each whole,
cut at every byte, with every way of refusing each segment, and a file for every
prefix code of up to four bits; of the three places where a number of the code
matters more than its being small (255 AC codes, 12 DC codes, 16384 pixels) it
keeps the number. In `bit_input` a refill holds two bytes, so that each pair of
bytes put back meets one, and four byte values are all the code tells apart (FF,
0, a marker, data). `picture_decode` has sizes below, at and above a multiple of
each MCU's. `emulator` has the one-datagram frames of `config.h` as well as frames
whose last datagram is short and empty. `block_decode` is not scaled down.

Deadlock is checked except where the system stops: the AVI reader at an
undefined call, the header when the call has returned, the picture when its loop
ended, the bit input and the emulator at their bounds.

**Fairness.** *Playback*: weak fairness of the main program, as the process is
scheduled; this has `connect`, which the code repeats for ever (display.c:70),
succeed in the end, so an emulator is assumed. Weak fairness of the timer, which is periodic. Strong fairness of the handler: a
signal that is pending when it is unmasked is delivered before sigprocmask
returns, and main unmasks it again and again. *AviReader*: weak fairness of each
search step; none of the callback or the decoder. *PictureDecode*, *JpegHeader*:
weak fairness of the sequential code. *Emulator*: weak fairness of both threads'
steps and strong fairness of taking the mutex; the renderer sleeps ten
milliseconds in waitKey without it and the receiver waits for datagrams without
it. Nothing is assumed of players.

PlaybackEnds says that a program that got through vid2led_init ends, or its source
reports its end for ever. The second can happen: an AVI of fewer frames than the
fixed five (video.c:46) keeps `main` waiting, and the dummy source never does.

**Findings.** (1) A chunk that follows the byte `0` is missed and the end reported
with it unread (avi.c:92). (2) After `idx1` reported the end, the next call reads
the index entries as chunks (avi.c:117 only wishes for NO_MORE_FRAMES), and
vid2led_service does call again. (3) From the second picture on, the pixels are
copied through a pointer the call has not set (avi.c:151). (4) pjpeg_decode_init
returns success though the reader of a DHT, DQT or DRI segment failed
(picojpeg.c:793), where picojpeg.h:114 promises an error code.

A stated limit: of a file that ends in the first byte of a tag, the search's
counter ends past the file's length, which avi.c:124 does not take for the end, and
the last chunk's leavings are decoded. NoFrameNoDecode is checked on files that do
not end so.

## 4. What is proved

All theorems hold for every value of the constants that the named assumptions
allow. `RingAssumption`, `PlaybackAssumption`: any frame set, any set of lengths,
any counter width, both builds, any frame count, both sources. `AviAssumption`: any
files. `PictureAssumption`: any picture sizes, sampling factors, block side and
restart intervals. `BlockAssumption`: any longest run and any of the scan types.
`LinkAssumption`: any sizes of frame, datagram and queue, and any bounds on frames
and starts. `CodeAssumption`, `HeaderAssumption`: any length of code and any files.
`InputAssumption`: any width of a byte, any streams, any size of the buffer with at
least three slots in reserve; the code has four. No unread byte comes to lie below slot
`Reserve - 2`, and one in slot 0 would let the next put-back wrap to the other end.

* `PlaybackProofs`, first part: what each call of the ring does to `Contents` and to the
  counters: a read takes the head, a write appends, a refusal changes nothing. It
  rests on four facts about remainders: the code's `(x + 1) % len` is the next slot.
  Then `RingInvariance` (BufferTypeOK and RingInv are inductive), hence
  `RingTypeCorrect` and `RingCursorsAgree`; and `RingIsFrameQueue`, that every call maps
  to a step of `FrameQueue`. RingInv is needed: types alone do not say that the slot a
  write fills is the one behind the last that is read.
* `PlaybackProofs`, second part: the inductive invariant `IInv` joins TypeOK and FramesAccounted
  with `Control`, which says what the program counter implies: the mask is set
  exactly within the fill loop, a write follows a test that found room, the
  timer and the frames exist only after initialisation, and after the service
  loop either nothing was initialised or all frames were displayed. Without the
  part on the mask, FramesAccounted is not inductive: a handler step between
  get_frame and the write would overwrite `video_frame`. Without the last part
  DeinitIsFinal is not implied. One step lemma per action; then `TypeCorrect`,
  `AccountsForFrames`, `DropsNoFrame`, `BoundsOvershoot`, `DeinitFinal`, and
  `ImplementsPipe`: each step of the program is a step of `FramePipe` or changes
  nothing there.

* `AviReaderProofs`: SearchInStep is inductive with TypeOK once it is known how far
  a search may run past the end: two bytes, because the last byte, read again, is
  never three bytes of a tag (`ReadsBounded`). CallbackInChunk needs in addition what
  the search leaves to the decode: the position is the start of the chunk, nothing
  was read of it, and no offset exceeds the size. Theorems `AviTypeCorrect`,
  `SearchKeepsStep`, `CallbackStaysInChunk`.
  What the search finds depends on the file, so the rest is proved of files that two
  definitions of `AviReader` describe. Of an `Orderly` file, the chunks listed are those
  the bytes hold, no tag begins in the bytes between, in whole or in part before
  another, and no size reaches beyond the next tag; the file may be cut anywhere in its last
  chunk, or have no index. The invariant (`OInv`) says that, while the end was not reported, the
  next search begins between the last chunk taken and its own tag (`InGap`), also when
  a decode stopped early or the file's end cut its reads, and that a turn of the search never
  reads beyond that tag (`PassesOn`). Theorems `ChunksTakenInOrder`, `EndIsNotEarly`. Of
  a file that ends not within a tag (`EndsOutsideTag`) a search ends right at the file's
  end: `NoFrameIsNoDecode`. Both conditions are needed: the run `avi_chunk_missed` has a
  file with a byte `0` before a tag (finding 1), and the limit stated in section 3 is a
  file that ends within one. TLC evaluates the two on the files of the passing run, and
  that the file of the other run is not `Orderly` (`VideosAreOrderly`).
* `PictureDecodeProofs`: CountersAgree speaks of the places between calls; the
  invariant adds where both pairs of counters stand after the decoder has counted an
  MCU and get_frame_avi has not (`CountersWithin`). RestartsInStep divides by the
  interval; the invariant says the same with a quotient that a step moves on
  (`RestartsTaken`). CopyInBounds follows from the types: a pixel that is not cut lies
  within the picture (`CopiedWithin`), and rows of a width put each place once
  (`PlaceInArea`, `PlaceOnce`). PictureComplete needs a second invariant (`PInv`): the
  pixels of the MCUs copied so far have what they should (`PixelsSoFar`), and the
  last row ends with the picture (`RowEnds`). Its step is the copy: a pixel is of the
  MCU at hand exactly when it is copied now (`ExpectedCopied`, `CopiedExpected`), and
  every pixel is of some MCU (`MCUOfPixel`). Theorems `PictureTypeCorrect`,
  `CountersStayAgreed`, `RestartsStayInStep`, `CopyStaysInBounds`, `PictureIsComplete`.
* `BlockDecodeProofs`: the invariant says that all places before `k`, in zigzag order,
  hold this block's coefficients and that the places to come are not among them, for
  which ZAG has to come to no place twice (`ZAGOnce`). Theorems `BlockTypeCorrect`,
  `BlockModesAgree`, `BlockFresh`.
* `EmulatorProofs`: ShowsWholeFrame is about the image alone and far from inductive.
  The invariant follows a frame back to its player: what lies in the queue is a walk
  of places, each a frame and the number of its next datagram, from where run_server
  is (`received`, and the filled part of `temp_arr`) to where the player is (`i`,
  `frame`); sending lengthens the walk, receiving shortens it, and a player may come
  or go only at a place between frames, unless it is cut, from when on nothing is
  claimed. `Layout` says that the datagrams of a frame lie one behind the other and
  fill it; `Locks` which of the two copies of `arr` is under way. Theorems
  `LinkTypeCorrect`, `LinkShowsWholeFrame`.

* `BlockDecodeProofs`, second part: PixelsComplete needs what the three buffers hold
  between the blocks of an MCU (`PixelsSoFar`): the luma of the blocks decoded, and the
  chroma values only of the chroma blocks decoded. A luma block replaces the 64 bytes of
  its own block and no other; a chroma block is added by one call for each luma block,
  or one in all, and the calls' parts neither overlap nor leave a byte out, by cases of
  the five layouts and of the two ways of going through a block.
* `JpegHeaderProofs`: the codes of each length are an interval of the numbers of
  `CodeLengths` bits, and the intervals are disjoint (`Room`, `RoomBelow`): a stream lies in
  the interval of one length, and that is the length at which huffDecode stops. Hence
  `TableIsCanonical`, which is about any numbers of codes, and `HuffmanIsCanonical` of the
  header. `IInv` adds to the types what is left of a segment (`SegmentLeft`), that a
  table is valid only if it was read, unless a reader failed (`ValidAreRead`), what
  huffCreate was given (`TablesHold`) and what initScan has looked at (`Selected`).
  ReadersStayInStep is a property of steps: `InStep` says what a step does that ends a
  segment. Theorems `HeaderTypeCorrect`, `ReadersStayInStep`, `UsedTablesWereRead`,
  `TableIsCanonical`, `HuffmanIsCanonical`.
* `BitInputProofs`: from the inside out. The bit buffer is a number whose first
  `Width + gBitsLeft` binary digits are the bits it holds (`Held`), with zeros behind; a
  refill puts eight digits behind (`RefillHeld`). `Sound` is the invariant of the byte
  buffer: the unread slots and the end of the stream (`Kept`), and that the unread slots
  lie above slot `lo` (`Room`), which is `Reserve` in the markers and `Reserve - 2` in the
  scan; getChar, stuffChar and getOctet keep it. `InStep` joins the two: the bits taken
  and the bits held are the segment's first N octets, and getOctet is at the next. A call
  of getBits for more than a byte is two short ones (`LongIsTwo`), getBit is getBits
  of 1 (`BitIsBits`), so there is one step to prove (`ReadBits`). `IInv` is InStep, or
  `Stopped` after a failure. BitsInOrder alone is not inductive: it does not say that
  getOctet goes on where the bits held end, nor that there is room for what it puts
  back. For RestartFindsMarker: if the last bits came from the byte before a marker, all
  octets read ahead are the FF of that marker, which getOctet put back each time, so the
  reader stands in front of it (`BeforeMarker`) and the search finds it at once.
  Theorems `FieldsInRange`, `StreamIsKept`, `LowBitsAreZero`, `BitsComeInOrder`,
  `MarkerIsFound`.
* `Arithmetic`: what these proofs keep needing. The library's induction theorems take an
  operator and cannot be used, so induction is stated for sets (`SetInduction`): a set
  that holds 0, and n + 1 with n, has all numbers. `FiniteRecursion` and `RecursiveOnNat`
  give a recursive function its equation. Hence powers of two, sums, quotients and
  digits.

Model-checked only: liveness (PlaybackEnds, the fairness of FramePipe,
SearchReturns, LoopEnds, InitReturns, LastFrameShown), which is out of the prover's
reach.

## 5. What is not modelled, and limits

* The arithmetic of the inverse transform, of dequantisation and of colour: which
  values are combined is modelled, what they sum up to is not.
* In JpegHeader, two preconditions of TablesUsedAreRead: DC selectors of 0 and 1
  (checkHuffTables tests the bits of AC tables for 2 and 3) and a scan of all
  components (the code does not refuse another).
* The final memcpy of get_frame_avi, and the size of matrix_t: nothing in the code
  compares it with the picture's.
* File descriptors, terminal output, `deinit_video` and `findEOI`, which nothing
  calls, and the reduce branch of the copy, which `reduce = 0` leaves dead.
* malloc of the ring failing: the code does not test it.
* In Emulator, that `stop` destroys the mutex with the receiver running.
* debug_msg: it formats and prints, and nothing depends on it.

## 6. Plan

Done: the ring and playback, with their refinements, proved; the AVI reader with its
bitmap; header, Huffman tables, bit input, blocks, MCU buffers and picture of
picojpeg; the emulator link; proofs of every invariant and
action property that a passing run checks.

Next, in this order:

1. JpegHeader without the two preconditions above, as runs of their own.
2. A composition of AviReader with Playback in place of the abstract source.
