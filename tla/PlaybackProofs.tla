--------------------------- MODULE PlaybackProofs ---------------------------
(***************************************************************************)
(* Proofs about the frame buffer and its two users, for every video,       *)
(* source, set of frames, buffer length, integer width and build.          *)
(*                                                                         *)
(* First, what the three operations of RingBuffer do to the frames in the  *)
(* ring; the proofs that follow cite these lemmas and never open the       *)
(* operations.  Then, that the buffer under any sequence of calls          *)
(* implements the bounded FIFO queue of FrameQueue: the invariant adds to  *)
(* the type and the cursors' agreement that the static build's array keeps *)
(* its size.  Last, Playback: the properties that the runs check become    *)
(* inductive with Control, which says what each place of the main program  *)
(* knows of the signal mask, the timer and the counters.                   *)
(***************************************************************************)
EXTENDS Playback, RingBufferCalls, SequenceTheorems, TLAPS

\* The remainder of a number below the divisor, and of the divisor itself.
LEMMA ModBelow == \A a, n \in Nat : a < n => a % n = a
BY SMT

LEMMA ModSelf == \A n \in Nat : n > 0 => n % n = 0
BY SMT

LEMMA ModRange == \A a, n \in Nat : n > 0 => a % n \in 0 .. n - 1 /\ a % n <= a
BY SMT

\* The two assignments that move a cursor (buffer.c:46-47, 59-60) take it to
\* the next slot, and from the last slot to the first: the 16-bit increment
\* never wraps on its way.
LEMMA NextSlot ==
  ASSUME len \in 0 .. U16 - 1, NEW c \in 0 .. len - 1
  PROVE  ((c + 1) % U16) % len = IF c + 1 < len THEN c + 1 ELSE 0
<1>1. U16 \in Nat /\ len \in Nat /\ len > 0 /\ c \in Nat
  BY RingAssumption
<1>2. c + 1 \in Nat /\ c + 1 < U16 /\ c + 1 <= len
  BY <1>1
<1>3. (c + 1) % U16 = c + 1
  BY <1>1, <1>2, ModBelow
<1>4. CASE c + 1 < len
  BY <1>1, <1>2, <1>3, <1>4, ModBelow
<1>5. CASE c + 1 = len
  BY <1>1, <1>3, <1>5, ModSelf
<1> QED
  BY <1>1, <1>2, <1>4, <1>5

\* A successful read hands out the oldest frame and leaves the others, each
\* one place further to the front.
LEMMA ReadEffect ==
  ASSUME BufferTypeOK, RingInv, rgb_buffer_read(0)
  PROVE  /\ BufferTypeOK' /\ RingInv'
         /\ len' = len /\ written > 0 /\ written' = written - 1
         /\ FrameToRead \in Frame
         /\ FrameToRead = Contents[1]
         /\ \A i \in 1 .. written' : Contents'[i] = Contents[i + 1]
<1> USE RingAssumption DEF Slots
<1>1. /\ written # 0
      /\ cursor_read' = ((cursor_read + 1) % U16) % len
      /\ written' = written - 1
      /\ UNCHANGED <<len, cursor_write, matrix_array>>
  BY DEF rgb_buffer_read
<1>2. /\ len \in Nat /\ written \in 1 .. len /\ cursor_read \in 0 .. len - 1
      /\ len \in 0 .. U16 - 1
  BY <1>1 DEF BufferTypeOK, RingInv
<1>3. cursor_read' = IF cursor_read + 1 < len THEN cursor_read + 1 ELSE 0
  BY <1>1, <1>2, NextSlot
<1>4. \A i \in 0 .. written - 1 : SlotAfter(i)' = SlotAfter(i + 1)
  BY <1>1, <1>2, <1>3 DEF SlotAfter
<1>5. BufferTypeOK'
  BY <1>1, <1>2, <1>3 DEF BufferTypeOK
<1>6. RingInv'
  <2>1. cursor_write = SlotAfter(written)
    BY DEF RingInv
  <2>2. cursor_write' = SlotAfter(written)'
    BY <1>1, <1>2, <1>3, <2>1 DEF SlotAfter
  <2> QED
    BY <1>1, <1>2, <1>3, <2>2 DEF RingInv
<1>7. FrameToRead \in Frame /\ FrameToRead = Contents[1]
  BY <1>2 DEF FrameToRead, Contents, SlotAfter, BufferTypeOK
<1>8. ASSUME NEW i \in 1 .. written'
      PROVE  Contents'[i] = Contents[i + 1]
  <2>1. i - 1 \in 0 .. written - 1 /\ i + 1 \in 1 .. written
    BY <1>1, <1>2
  <2>2. Contents'[i] = matrix_array[SlotAfter(i - 1)']
    BY <1>1, <1>8 DEF Contents
  <2>3. Contents[i + 1] = matrix_array[SlotAfter(i)]
    BY <2>1 DEF Contents
  <2> QED
    BY <1>4, <2>1, <2>2, <2>3
<1> QED
  BY <1>1, <1>2, <1>5, <1>6, <1>7, <1>8

\* A successful write puts its frame behind the others, which stay where they
\* were.
LEMMA WriteEffect ==
  ASSUME BufferTypeOK, RingInv, NEW f \in Frame, rgb_buffer_write(f, 0)
  PROVE  /\ BufferTypeOK' /\ RingInv'
         /\ len' = len /\ written < len /\ written' = written + 1
         /\ \A i \in 1 .. written : Contents'[i] = Contents[i]
         /\ Contents'[written + 1] = f
<1> USE RingAssumption DEF Slots
<1>1. /\ written < len
      /\ matrix_array' = [matrix_array EXCEPT ![cursor_write] = f]
      /\ cursor_write' = ((cursor_write + 1) % U16) % len
      /\ written' = (written + 1) % U16
      /\ UNCHANGED <<len, cursor_read>>
  BY DEF rgb_buffer_write
<1>2. /\ len \in Nat /\ len > 0 /\ written \in 0 .. len - 1 /\ cursor_read \in 0 .. len - 1
      /\ len \in 0 .. U16 - 1 /\ U16 \in Nat
  BY <1>1 DEF BufferTypeOK, RingInv
<1>3. cursor_write = SlotAfter(written) /\ cursor_write \in 0 .. len - 1
  BY <1>2 DEF RingInv, SlotAfter
<1>4. written' = written + 1
  BY <1>1, <1>2, ModBelow
<1>5. cursor_write' = IF cursor_write + 1 < len THEN cursor_write + 1 ELSE 0
  BY <1>1, <1>2, <1>3, NextSlot
<1>6. matrix_array' \in [DOMAIN matrix_array -> Frame] /\ cursor_write \in DOMAIN matrix_array
  BY <1>1, <1>3 DEF BufferTypeOK
<1>7. BufferTypeOK'
  <2>1. DOMAIN matrix_array' = DOMAIN matrix_array
    BY <1>6
  <2> QED
    BY <1>1, <1>2, <1>4, <1>5, <1>6, <2>1, <1>3 DEF BufferTypeOK
<1>8. RingInv'
  <2>1. cursor_write' = SlotAfter(written)'
    BY <1>1, <1>2, <1>3, <1>4, <1>5 DEF SlotAfter
  <2> QED
    BY <1>1, <1>2, <2>1 DEF RingInv
<1>9. \A i \in 1 .. written + 1 : Contents'[i] = matrix_array'[SlotAfter(i - 1)]
  BY <1>1, <1>2, <1>4 DEF Contents, SlotAfter
<1>10. \A i \in 1 .. written : SlotAfter(i - 1) # cursor_write
  BY <1>2, <1>3 DEF SlotAfter
<1>11. ASSUME NEW i \in 1 .. written
       PROVE  Contents'[i] = Contents[i]
  <2>1. SlotAfter(i - 1) \in DOMAIN matrix_array
    BY <1>2 DEF SlotAfter, BufferTypeOK
  <2>2. matrix_array'[SlotAfter(i - 1)] = matrix_array[SlotAfter(i - 1)]
    BY <1>1, <1>10, <2>1 DEF BufferTypeOK
  <2>3. Contents[i] = matrix_array[SlotAfter(i - 1)]
    BY DEF Contents
  <2>4. i \in 1 .. written + 1
    BY <1>2
  <2> QED
    BY <1>9, <2>2, <2>3, <2>4
<1>12. Contents'[written + 1] = f
  <2>1. Contents'[written + 1] = matrix_array'[SlotAfter(written)]
    BY <1>2, <1>9
  <2> QED
    BY <1>1, <1>3, <1>6, <2>1
<1> QED
  BY <1>1, <1>4, <1>7, <1>8, <1>11, <1>12

\* A successful initialisation leaves an empty ring, of the length asked for
\* as 16 bits hold it, whose slots the array has.
LEMMA InitEffect ==
  ASSUME StaticBuffer => matrix_array \in [Slots(StaticLength) -> Frame],
         NEW n \in BufferLengths, rgb_buffer_init(n, 0)
  PROVE  /\ BufferTypeOK' /\ RingInv'
         /\ len' = n % U16 /\ written' = 0
         /\ StaticBuffer => UNCHANGED matrix_array
<1> USE RingAssumption DEF Slots
<1>1. /\ StaticBuffer => n <= StaticLength
      /\ len' = n % U16
      /\ written' = 0 /\ cursor_read' = 0 /\ cursor_write' = 0
      /\ IF StaticBuffer THEN UNCHANGED matrix_array
                         ELSE matrix_array' \in [0 .. n - 1 -> Frame]
  BY DEF rgb_buffer_init
<1>2. n \in Nat /\ len' \in 0 .. U16 - 1 /\ len' <= n
  BY <1>1, ModRange
<1>3. /\ matrix_array' \in [DOMAIN matrix_array' -> Frame]
      /\ 0 .. len' - 1 \subseteq DOMAIN matrix_array'
  <2>1. CASE StaticBuffer
    BY <1>1, <1>2, <2>1
  <2>2. CASE ~StaticBuffer
    BY <1>1, <1>2, <2>2
  <2> QED
    BY <2>1, <2>2
<1> QED
  BY <1>1, <1>2, <1>3 DEF BufferTypeOK, RingInv, SlotAfter

\* A call that is refused changes nothing.
LEMMA RefusedEffect ==
  ASSUME NEW n, NEW f,
         \/ rgb_buffer_init(n, -1) \/ rgb_buffer_read(-1) \/ rgb_buffer_write(f, -1)
  PROVE  UNCHANGED bufVars
BY DEF rgb_buffer_init, rgb_buffer_read, rgb_buffer_write

\* What leaves the five fields alone leaves all that is said of them alone.
LEMMA BufferStutter ==
  ASSUME UNCHANGED bufVars
  PROVE  /\ UNCHANGED <<len, written, cursor_read, cursor_write, matrix_array>>
         /\ BufferTypeOK' <=> BufferTypeOK
         /\ RingInv' <=> RingInv
         /\ Contents' = Contents
BY DEF bufVars, BufferTypeOK, RingInv, Contents, SlotAfter, Slots
-----------------------------------------------------------------------------
(***************************************************************************)
(* The buffer under any sequence of calls.                                 *)
(***************************************************************************)
StaticArray == StaticBuffer => matrix_array \in [Slots(StaticLength) -> Frame]

RInv == CallsTypeOK /\ RingInv /\ StaticArray

\* The ring's frames are a sequence, written long.
LEMMA ContentsSeq ==
  ASSUME BufferTypeOK, RingInv
  PROVE  /\ Contents \in Seq(Frame) /\ Len(Contents) = written
         /\ DOMAIN Contents = 1 .. written
<1> USE RingAssumption DEF Slots
<1>1. written \in Nat /\ len \in Nat /\ written \in 0 .. len
  BY DEF BufferTypeOK
<1>2. ASSUME NEW i \in 1 .. written PROVE matrix_array[SlotAfter(i - 1)] \in Frame
  <2>1. SlotAfter(i - 1) \in 0 .. len - 1
    BY <1>1, <1>2 DEF BufferTypeOK, RingInv, SlotAfter
  <2> QED
    BY <2>1 DEF BufferTypeOK
<1>3. Contents \in [1 .. written -> Frame]
  BY <1>2 DEF Contents
<1> QED
  BY <1>1, <1>3

\* A write appends to the queue.
LEMMA WriteAppends ==
  ASSUME BufferTypeOK, RingInv, NEW f \in Frame, rgb_buffer_write(f, 0)
  PROVE  Contents' = Append(Contents, f)
<1>1. /\ BufferTypeOK' /\ RingInv' /\ written' = written + 1
      /\ \A i \in 1 .. written : Contents'[i] = Contents[i]
      /\ Contents'[written + 1] = f
  BY WriteEffect
<1>2. Contents \in Seq(Frame) /\ Len(Contents) = written
  BY ContentsSeq
<1>3. Contents' = [i \in 1 .. written' |-> Contents'[i]]
  BY DEF Contents
<1>4. written \in Nat
  BY RingAssumption DEF BufferTypeOK
<1>5. \A i \in 1 .. written + 1 : Contents'[i] = Append(Contents, f)[i]
  BY <1>1, <1>2, <1>4, AppendProperties
<1>6. /\ Append(Contents, f) \in Seq(Frame)
      /\ Len(Append(Contents, f)) = written + 1
  BY <1>2, AppendProperties
<1>7. Contents' \in Seq(Frame) /\ Len(Contents') = written + 1
  <2>1. \A i \in 1 .. written + 1 : Contents'[i] \in Frame
    BY <1>5, <1>6
  <2> QED
    BY <1>1, <1>3, <1>4, <2>1
<1> QED
  BY <1>5, <1>6, <1>7, SeqEqual

\* A read removes the queue's head.
LEMMA ReadRemoves ==
  ASSUME BufferTypeOK, RingInv, rgb_buffer_read(0)
  PROVE  Contents # <<>> /\ FrameToRead = Head(Contents) /\ Contents' = Tail(Contents)
<1>1. /\ BufferTypeOK' /\ RingInv'
      /\ written > 0 /\ written' = written - 1
      /\ FrameToRead = Contents[1]
      /\ \A i \in 1 .. written' : Contents'[i] = Contents[i + 1]
  BY ReadEffect
<1>2. Contents \in Seq(Frame) /\ Len(Contents) = written
  BY ContentsSeq
<1>3. written \in Nat
  BY RingAssumption DEF BufferTypeOK
<1>4. Contents # <<>>
  BY <1>1, <1>2
<1>5. Contents' = [i \in 1 .. written - 1 |-> Contents'[i]]
  BY <1>1 DEF Contents
<1>6. /\ Tail(Contents) \in Seq(Frame) /\ Len(Tail(Contents)) = written - 1
      /\ \A i \in 1 .. written - 1 : Tail(Contents)[i] = Contents[i + 1]
  BY <1>2, <1>4, HeadTailProperties
<1>7. Contents' \in Seq(Frame) /\ Len(Contents') = written - 1
  <2>1. \A i \in 1 .. written - 1 : Contents'[i] \in Frame
    BY <1>1, <1>6
  <2> QED
    BY <1>1, <1>3, <1>5, <2>1
<1>8. Contents' = Tail(Contents)
  BY <1>1, <1>6, <1>7, SeqEqual
<1> QED
  BY <1>1, <1>4, <1>8

LEMMA InitRInv == CallsInit => RInv
<1> SUFFICES ASSUME CallsInit PROVE RInv
  OBVIOUS
<1> USE RingAssumption DEF Slots
<1>1. PICK n \in BufferLengths :
        /\ StaticBuffer => n <= StaticLength
        /\ len = n % U16
        /\ written = 0 /\ cursor_read = 0 /\ cursor_write = 0
        /\ IF StaticBuffer
             THEN matrix_array = [s \in 0 .. StaticLength - 1 |-> ZeroFrame]
             ELSE matrix_array \in [0 .. n - 1 -> Frame]
        /\ result = <<"init", 0>>
        /\ frame = ZeroFrame
  BY DEF CallsInit
<1>2. n \in Nat /\ len \in 0 .. U16 - 1 /\ len <= n
  BY <1>1, ModRange
<1>3. /\ StaticArray
      /\ matrix_array \in [DOMAIN matrix_array -> Frame]
      /\ 0 .. len - 1 \subseteq DOMAIN matrix_array
  <2>1. CASE StaticBuffer
    BY <1>1, <1>2, <2>1 DEF StaticArray
  <2>2. CASE ~StaticBuffer
    BY <1>1, <1>2, <2>2 DEF StaticArray
  <2> QED
    BY <2>1, <2>2
<1> QED
  BY <1>1, <1>2, <1>3 DEF RInv, CallsTypeOK, BufferTypeOK, RingInv, SlotAfter

\* Each call is a step of the queue, and keeps the invariant.
LEMMA CallStep ==
  ASSUME RInv, CallsNext
  PROVE  RInv' /\ Queue!Next
<1> USE DEF RInv
<1>1. CallsTypeOK /\ BufferTypeOK /\ RingInv /\ StaticArray /\ frame \in Frame
  BY DEF CallsTypeOK
<1>2. Len(Contents) = written /\ Contents \in Seq(Frame)
  BY <1>1, ContentsSeq
<1>3. written \in Nat /\ len \in Nat /\ written <= len
  BY <1>1, RingAssumption DEF BufferTypeOK
<1>4. CASE \E n \in BufferLengths : CallInit(n)
  <2>1. PICK n \in BufferLengths, r \in {0, -1} :
          rgb_buffer_init(n, r) /\ result' = <<"init", r>> /\ UNCHANGED frame
    BY <1>4 DEF CallInit
  <2>2. CASE r = 0
    <3>1. /\ BufferTypeOK' /\ RingInv' /\ len' = n % U16 /\ written' = 0
          /\ StaticBuffer => UNCHANGED matrix_array
      BY <1>1, <2>1, <2>2, InitEffect DEF StaticArray
    <3>2. Contents' = <<>>
      BY <3>1 DEF Contents
    <3>3. Queue!Create(n % U16)
      BY <2>1, <2>2, <3>1, <3>2 DEF Queue!Create
    <3> QED
      BY <1>1, <2>1, <2>2, <3>1, <3>3 DEF CallsTypeOK, StaticArray, Queue!Next
  <2>3. CASE r = -1
    <3>1. UNCHANGED bufVars
      BY <2>1, <2>3, RefusedEffect
    <3>2. BufferTypeOK' /\ RingInv' /\ Contents' = Contents /\ UNCHANGED <<len, matrix_array>>
      BY <1>1, <3>1, BufferStutter
    <3> QED
      BY <1>1, <2>1, <2>3, <3>2 DEF CallsTypeOK, StaticArray, Queue!Next, Queue!Refuse
  <2> QED
    BY <2>2, <2>3
<1>5. CASE \E f \in Frame : CallWrite(f)
  <2>1. PICK f \in Frame, r \in {0, -1} :
          rgb_buffer_write(f, r) /\ result' = <<"write", r>> /\ UNCHANGED frame
    BY <1>5 DEF CallWrite
  <2>2. CASE r = 0
    <3>1. BufferTypeOK' /\ RingInv' /\ len' = len /\ written < len
      BY <1>1, <2>1, <2>2, WriteEffect
    <3>2. StaticArray'
      BY <1>1, <2>1, <2>2 DEF StaticArray, rgb_buffer_write
    <3>3. Contents' = Append(Contents, f)
      BY <1>1, <2>1, <2>2, WriteAppends
    <3>4. Queue!Put(f)
      BY <1>2, <2>1, <2>2, <3>1, <3>3 DEF Queue!Put
    <3> QED
      BY <1>1, <2>1, <2>2, <3>1, <3>2, <3>4 DEF CallsTypeOK, Queue!Next
  <2>3. CASE r = -1
    <3>1. UNCHANGED bufVars /\ written = len
      BY <1>3, <2>1, <2>3, RefusedEffect DEF rgb_buffer_write
    <3>2. BufferTypeOK' /\ RingInv' /\ Contents' = Contents /\ UNCHANGED <<len, matrix_array>>
      BY <1>1, <3>1, BufferStutter
    <3> QED
      BY <1>1, <1>2, <2>1, <2>3, <3>1, <3>2 DEF CallsTypeOK, StaticArray, Queue!Next, Queue!Refuse
  <2> QED
    BY <2>2, <2>3
<1>6. CASE CallRead
  <2>1. PICK r \in {0, -1} :
          /\ rgb_buffer_read(r) /\ result' = <<"read", r>>
          /\ frame' = IF r = 0 THEN FrameToRead ELSE frame
    BY <1>6 DEF CallRead
  <2>2. CASE r = 0
    <3>1. BufferTypeOK' /\ RingInv' /\ len' = len /\ FrameToRead \in Frame
      BY <1>1, <2>1, <2>2, ReadEffect
    <3>2. StaticArray'
      BY <1>1, <2>1, <2>2 DEF StaticArray, rgb_buffer_read
    <3>3. Contents # <<>> /\ FrameToRead = Head(Contents) /\ Contents' = Tail(Contents)
      BY <1>1, <2>1, <2>2, ReadRemoves
    <3>4. Queue!Get
      BY <2>1, <2>2, <3>1, <3>3 DEF Queue!Get
    <3> QED
      BY <1>1, <2>1, <2>2, <3>1, <3>2, <3>4 DEF CallsTypeOK, Queue!Next
  <2>3. CASE r = -1
    <3>1. UNCHANGED bufVars /\ written = 0
      BY <2>1, <2>3, RefusedEffect DEF rgb_buffer_read
    <3>2. BufferTypeOK' /\ RingInv' /\ Contents' = Contents /\ UNCHANGED <<len, matrix_array>>
      BY <1>1, <3>1, BufferStutter
    <3>3. Contents = <<>>
      BY <1>2, <3>1
    <3> QED
      BY <1>1, <2>1, <2>3, <3>2, <3>3 DEF CallsTypeOK, StaticArray, Queue!Next, Queue!Refuse
  <2> QED
    BY <2>2, <2>3
<1> QED
  BY <1>4, <1>5, <1>6 DEF CallsNext

THEOREM RingInvariance == CallsSpec => []RInv
<1>1. RInv /\ [CallsNext]_callsVars => RInv'
  <2>1. ASSUME RInv, UNCHANGED callsVars PROVE RInv'
    <3>1. UNCHANGED <<bufVars, result, frame>> /\ UNCHANGED matrix_array
      BY <2>1 DEF callsVars, bufVars
    <3>2. BufferTypeOK' /\ RingInv'
      BY <2>1, <3>1, BufferStutter DEF RInv, CallsTypeOK
    <3> QED
      BY <2>1, <3>1, <3>2 DEF RInv, CallsTypeOK, StaticArray
  <2> QED
    BY <2>1, CallStep
<1> QED
  BY <1>1, InitRInv, PTL DEF CallsSpec

\* Every field of the buffer stays in its range.
THEOREM RingTypeCorrect == CallsSpec => []CallsTypeOK
BY RingInvariance, PTL DEF RInv

\* The two cursors and the fill count always agree.
THEOREM RingCursorsAgree == CallsSpec => []CursorsAgree
BY RingInvariance, PTL DEF RInv, CursorsAgree

\* The ring buffer is a bounded FIFO queue.
THEOREM RingIsFrameQueue == CallsSpec => IsFrameQueue
<1>1. CallsInit => Queue!Init
  <2> SUFFICES ASSUME CallsInit PROVE Queue!Init
    OBVIOUS
  <2>1. written = 0 /\ result = <<"init", 0>> /\ frame = ZeroFrame
    BY DEF CallsInit
  <2>2. len \in {n % U16 : n \in BufferLengths}
    BY DEF CallsInit
  <2>3. Contents = <<>>
    BY <2>1 DEF Contents
  <2> QED
    BY <2>1, <2>2, <2>3, RingAssumption DEF Queue!Init
<1>2. RInv /\ [CallsNext]_callsVars => [Queue!Next]_(Queue!vars)
  <2>1. ASSUME UNCHANGED callsVars PROVE UNCHANGED Queue!vars
    BY <2>1 DEF callsVars, Queue!vars, Contents, SlotAfter
  <2> QED
    BY <2>1, CallStep
<1> QED
  BY <1>1, <1>2, RingInvariance, PTL DEF CallsSpec, IsFrameQueue, Queue!Spec
-----------------------------------------------------------------------------
(***************************************************************************)
(* The buffer filled by vid2led_service and drained by the signal handler. *)
(***************************************************************************)
Uninitialized == {"rgb_buffer_init", "init_video", "socket_init", "set_timer"}
Filling == {"fill", "rgb_buffer_write", "enable_interrupts"}

\* The length the ring has once rgb_buffer_init has succeeded.
LengthSet == len = buffer_length % U16

Control ==
  /\ At("rgb_buffer_init") =>
       /\ written = 0 /\ frames_buffered = 0
       /\ StaticBuffer => matrix_array \in [Slots(StaticLength) -> Frame]
  /\ pc \in {"init_video", "socket_init", "set_timer", "set_initialized"} => LengthSet
  /\ initialized => LengthSet
  /\ pc \in Filling \cup {"disable_interrupts", "msleep"} => initialized
  /\ pc \in Uninitialized => ~timer /\ ~initialized
  /\ pending => timer
  /\ masked <=> pc \in Filling
  /\ At("disable_interrupts") => frames_buffered < FrameCount
  /\ masked => frames_displayed < FrameCount
  /\ At("service") /\ ~initialized => ~timer
  /\ pc \in {"display_deinit", "free", "clear_initialized", "exited"} =>
       ~timer \/ frames_displayed >= FrameCount

IInv == TypeOK /\ FramesAccounted /\ NoFrameDropped /\ OvershootBounded /\ Control

\* A step that touches neither the ring, the counters, the frames nor their
\* history, and is not about to write, keeps what is said of them.
LEMMA QuietStep ==
  ASSUME IInv, UNCHANGED bufVars,
         UNCHANGED <<buffer_length, frames_buffered, frames_displayed, video_frame,
                     delivered, shown>>,
         ~At("rgb_buffer_write"), pc' # "rgb_buffer_write",
         pc' \in Steps, initialized' \in BOOLEAN, freed' \in BOOLEAN,
         masked' \in BOOLEAN, timer' \in BOOLEAN, pending' \in BOOLEAN
  PROVE  TypeOK' /\ FramesAccounted' /\ NoFrameDropped' /\ OvershootBounded'
<1>1. /\ UNCHANGED <<len, written, cursor_read, cursor_write, matrix_array>>
      /\ BufferTypeOK' /\ RingInv' /\ Contents' = Contents
  BY BufferStutter DEF IInv, TypeOK
<1>2. TypeOK'
  BY <1>1 DEF IInv, TypeOK
<1>3. FramesAccounted'
  BY <1>1 DEF IInv, FramesAccounted, InFlight, At
<1> QED
  BY <1>1, <1>2, <1>3 DEF IInv, NoFrameDropped, OvershootBounded, At

\* The program starts with nothing delivered, shown or in the ring.
LEMMA InitIInv == Init => IInv
<1> SUFFICES ASSUME Init PROVE IInv
  OBVIOUS
<1> USE RingAssumption, PlaybackAssumption DEF Init
<1>1. matrix_array \in [DOMAIN matrix_array -> Frame]
  OBVIOUS
<1>2. BufferTypeOK /\ RingInv
  BY <1>1 DEF BufferTypeOK, RingInv, SlotAfter, Slots
<1>3. TypeOK
  <2>1. <<>> \in Seq(Frame)
    OBVIOUS
  <2>2. delivered \in Seq(Frame) /\ shown \in Seq(Frame)
    BY <2>1
  <2>3. frames_buffered \in Nat /\ frames_displayed \in 0 .. FrameCount
    OBVIOUS
  <2> QED
    BY <1>2, <2>2, <2>3 DEF TypeOK, Steps
<1>4. FramesAccounted
  BY DEF FramesAccounted, InFlight, At
<1>5. NoFrameDropped /\ OvershootBounded
  BY DEF NoFrameDropped, OvershootBounded, At
<1>6. Control
  BY DEF Control, At, Filling, Uninitialized
<1> QED
  BY <1>3, <1>4, <1>5, <1>6 DEF IInv

\* Every step of vid2led_init other than the buffer's, and of main's loop and
\* vid2led_deinit, that is quiet in the sense of QuietStep.
QuietMain == \/ InitVideo \/ SocketInit \/ SetTimer \/ SetInitialized
             \/ ServiceTests \/ disable_interrupts \/ enable_interrupts \/ Sleep
             \/ Deinit

LEMMA QuietMainStep == IInv /\ QuietMain => IInv'
<1> SUFFICES ASSUME IInv, QuietMain PROVE IInv'
  OBVIOUS
<1> USE DEF At, Goto
<1>1. /\ UNCHANGED bufVars
      /\ UNCHANGED <<buffer_length, frames_buffered, frames_displayed, video_frame,
                     delivered, shown>>
      /\ pc # "rgb_buffer_write" /\ pc' # "rgb_buffer_write" /\ pc' \in Steps
      /\ initialized' \in BOOLEAN /\ freed' \in BOOLEAN
      /\ masked' \in BOOLEAN /\ timer' \in BOOLEAN /\ pending' \in BOOLEAN
  <2> USE DEF IInv, TypeOK, Steps, mainVars, signalVars, frameVars
  <2>1. CASE InitVideo
    BY <2>1 DEF InitVideo
  <2>2. CASE SocketInit
    BY <2>2 DEF SocketInit
  <2>3. CASE SetTimer
    BY <2>3 DEF SetTimer
  <2>4. CASE SetInitialized
    BY <2>4 DEF SetInitialized
  <2>5. CASE ServiceTests
    BY <2>5 DEF ServiceTests
  <2>6. CASE disable_interrupts
    BY <2>6 DEF disable_interrupts
  <2>7. CASE enable_interrupts
    BY <2>7 DEF enable_interrupts
  <2>8. CASE Sleep
    BY <2>8 DEF Sleep
  <2>9. CASE DisplayDeinit
    BY <2>9 DEF DisplayDeinit
  <2>10. CASE FreeBuffer
    BY <2>10, RingAssumption DEF FreeBuffer
  <2>11. CASE ClearInitialized
    BY <2>11 DEF ClearInitialized
  <2> QED
    BY <2>1, <2>2, <2>3, <2>4, <2>5, <2>6, <2>7, <2>8, <2>9, <2>10, <2>11
       DEF QuietMain, Deinit
<1>2. TypeOK' /\ FramesAccounted' /\ NoFrameDropped' /\ OvershootBounded'
  BY <1>1, QuietStep
<1>3. Control'
  <2>1. UNCHANGED <<len, written, matrix_array>>
    BY <1>1 DEF bufVars
  <2>2. /\ frames_buffered \in Nat /\ frames_displayed \in Nat /\ FrameCount \in Nat
        /\ written \in Nat /\ Control /\ FramesAccounted
        /\ initialized \in BOOLEAN /\ timer \in BOOLEAN /\ masked \in BOOLEAN
    BY PlaybackAssumption, RingAssumption DEF IInv, TypeOK, BufferTypeOK
  <2> USE <1>1, <2>1, <2>2
      DEF Control, LengthSet, Filling, Uninitialized, mainVars, signalVars, frameVars
  <2>3. CASE InitVideo
    BY <2>3 DEF InitVideo
  <2>4. CASE SocketInit
    BY <2>4 DEF SocketInit
  <2>5. CASE SetTimer
    BY <2>5 DEF SetTimer
  <2>6. CASE SetInitialized
    BY <2>6 DEF SetInitialized
  <2>7. CASE ServiceTests
    BY <2>7 DEF ServiceTests
  <2>8. CASE disable_interrupts
    <3>1. frames_displayed < FrameCount
      BY <2>8 DEF disable_interrupts, FramesAccounted, InFlight
    <3> QED
      BY <2>8, <3>1 DEF disable_interrupts
  <2>9. CASE enable_interrupts
    BY <2>9 DEF enable_interrupts
  <2>10. CASE Sleep
    BY <2>10 DEF Sleep
  <2>11. CASE DisplayDeinit
    BY <2>11 DEF DisplayDeinit
  <2>12. CASE FreeBuffer
    BY <2>12 DEF FreeBuffer
  <2>13. CASE ClearInitialized
    BY <2>13 DEF ClearInitialized
  <2> QED
    BY <2>3, <2>4, <2>5, <2>6, <2>7, <2>8, <2>9, <2>10, <2>11, <2>12, <2>13
       DEF QuietMain, Deinit
<1> QED
  BY <1>2, <1>3 DEF IInv

\* rgb_buffer_init: on success the ring is empty, as are the counters.
LEMMA InitBufferStep == IInv /\ InitBuffer => IInv'
<1> SUFFICES ASSUME IInv, InitBuffer PROVE IInv'
  OBVIOUS
<1> USE DEF At, Goto
<1>1. /\ pc = "rgb_buffer_init"
      /\ UNCHANGED <<buffer_length, initialized, frames_buffered, freed, delivered,
                     masked, timer, pending, frames_displayed, video_frame, shown>>
  BY DEF InitBuffer, mainVars, signalVars, frameVars
<1>2. /\ TypeOK /\ FramesAccounted /\ Control /\ NoFrameDropped /\ OvershootBounded
      /\ written = 0 /\ frames_buffered = 0 /\ frames_displayed = 0
      /\ ~timer /\ ~pending /\ ~masked /\ ~initialized
  <2>1. /\ written = 0 /\ frames_buffered = 0 /\ ~timer /\ ~pending
        /\ ~masked /\ ~initialized
    BY <1>1 DEF IInv, TypeOK, Control, Filling, Uninitialized
  <2>2. frames_displayed \in 0 .. FrameCount
    BY DEF IInv, TypeOK
  <2> QED
    BY <1>1, <2>1, <2>2, PlaybackAssumption DEF IInv, FramesAccounted, InFlight
<1>3. CASE rgb_buffer_init(buffer_length, 0) /\ pc' = "init_video"
  <2>1. BufferTypeOK' /\ RingInv' /\ len' = buffer_length % U16 /\ written' = 0
    BY <1>1, <1>2, <1>3, InitEffect DEF Control, TypeOK
  <2>2. TypeOK'
    BY <1>1, <1>2, <1>3, <2>1 DEF TypeOK, Steps
  <2>3. FramesAccounted'
    BY <1>1, <1>2, <1>3, <2>1 DEF FramesAccounted, InFlight
  <2>4. Control'
    BY <1>1, <1>2, <1>3, <2>1 DEF Control, LengthSet, Filling, Uninitialized
  <2> QED
    BY <1>1, <1>2, <1>3, <2>2, <2>3, <2>4 DEF IInv, NoFrameDropped, OvershootBounded
<1>4. CASE rgb_buffer_init(buffer_length, -1) /\ pc' = "service"
  <2>1. UNCHANGED bufVars
    BY <1>4, RefusedEffect
  <2>2. TypeOK' /\ FramesAccounted' /\ NoFrameDropped' /\ OvershootBounded'
    BY <1>1, <1>2, <1>4, <2>1, QuietStep DEF TypeOK, Steps
  <2>3. Control'
    BY <1>1, <1>2, <1>4, <2>1 DEF Control, LengthSet, Filling, Uninitialized
  <2> QED
    BY <2>2, <2>3 DEF IInv
<1> QED
  BY <1>3, <1>4 DEF InitBuffer

\* A frame taken from the source: SIGALRM is masked, so what the ring and the
\* counters were when the loop began still holds, and there is room.
LEMMA FillFrameStep == IInv /\ FillFrame => IInv'
<1> SUFFICES ASSUME IInv, FillFrame PROVE IInv'
  OBVIOUS
<1> USE DEF At, Goto
<1>1. /\ pc = "fill"
      /\ UNCHANGED bufVars
      /\ UNCHANGED <<len, written, matrix_array>>
      /\ UNCHANGED <<buffer_length, initialized, freed, masked, timer, pending,
                     frames_displayed, shown>>
      /\ BufferTypeOK' /\ RingInv' /\ Contents' = Contents
  BY BufferStutter DEF FillFrame, signalVars, bufVars, IInv, TypeOK
<1>2. /\ TypeOK /\ FramesAccounted /\ Control /\ OvershootBounded
      /\ len \in Nat /\ written \in 0 .. len
      /\ frames_displayed \in Nat /\ frames_buffered \in Nat /\ FrameCount \in Nat
      /\ frames_displayed < FrameCount
      /\ masked /\ initialized /\ LengthSet
      /\ delivered \in Seq(Frame) /\ shown \in Seq(Frame)
  BY <1>1, RingAssumption, PlaybackAssumption
     DEF IInv, TypeOK, BufferTypeOK, Control, Filling
<1>3. CASE rgb_buffer_is_full /\ pc' = "enable_interrupts"
           /\ UNCHANGED <<video_frame, frames_buffered, delivered>>
  <2>1. TypeOK' /\ FramesAccounted' /\ NoFrameDropped' /\ OvershootBounded'
    BY <1>1, <1>3, QuietStep DEF IInv, TypeOK, Steps
  <2>2. Control'
    BY <1>1, <1>2, <1>3 DEF Control, LengthSet, Filling, Uninitialized
  <2> QED
    BY <2>1, <2>2 DEF IInv
<1>4. CASE get_frame(-1) /\ pc' = "enable_interrupts"
           /\ UNCHANGED <<frames_buffered, delivered>>
  <2>1. UNCHANGED video_frame
    BY <1>4 DEF get_frame
  <2>2. TypeOK' /\ FramesAccounted' /\ NoFrameDropped' /\ OvershootBounded'
    BY <1>1, <1>4, <2>1, QuietStep DEF IInv, TypeOK, Steps
  <2>3. Control'
    BY <1>1, <1>2, <1>4 DEF Control, LengthSet, Filling, Uninitialized
  <2> QED
    BY <2>2, <2>3 DEF IInv
<1>5. CASE /\ ~rgb_buffer_is_full /\ get_frame(0)
           /\ frames_buffered' = frames_buffered + 1
           /\ delivered' = Append(delivered, video_frame')
           /\ pc' = "rgb_buffer_write"
  <2>1. written < len
    BY <1>2, <1>5 DEF rgb_buffer_is_full
  <2>2. video_frame' \in Frame
    BY <1>2, <1>5 DEF get_frame, TypeOK
  <2>3. /\ delivered' \in Seq(Frame) /\ Len(delivered') = Len(delivered) + 1
        /\ \A i \in 1 .. Len(delivered) : delivered'[i] = delivered[i]
        /\ delivered'[Len(delivered) + 1] = video_frame'
    BY <1>2, <1>5, <2>2, AppendProperties
  <2>4. /\ Len(delivered) = frames_buffered /\ Len(shown) = frames_displayed
        /\ frames_buffered = frames_displayed + written
        /\ \A i \in 1 .. frames_displayed : shown[i] = delivered[i]
        /\ \A i \in 1 .. written : Contents[i] = delivered[frames_displayed + i]
    BY <1>1, <1>2 DEF FramesAccounted, InFlight
  <2>5. TypeOK'
    BY <1>1, <1>2, <1>5, <2>2, <2>3 DEF TypeOK, Steps
  <2>6. FramesAccounted'
    <3>1. /\ Len(delivered') = frames_buffered' /\ Len(shown') = frames_displayed'
          /\ frames_buffered' = frames_displayed' + written' + InFlight'
      BY <1>1, <1>2, <1>5, <2>3, <2>4 DEF InFlight
    <3>2. \A i \in 1 .. frames_displayed' : shown'[i] = delivered'[i]
      BY <1>1, <1>2, <2>3, <2>4
    <3>3. \A i \in 1 .. written' : Contents'[i] = delivered'[frames_displayed' + i]
      BY <1>1, <1>2, <2>3, <2>4
    <3>4. video_frame' = delivered'[frames_buffered']
      BY <1>5, <2>3, <2>4
    <3> QED
      BY <3>1, <3>2, <3>3, <3>4 DEF FramesAccounted
  <2>7. NoFrameDropped' /\ OvershootBounded'
    BY <1>1, <1>2, <1>5, <2>1, <2>4 DEF NoFrameDropped, OvershootBounded
  <2>8. Control'
    BY <1>1, <1>2, <1>5 DEF Control, LengthSet, Filling, Uninitialized
  <2> QED
    BY <2>5, <2>6, <2>7, <2>8 DEF IInv
<1> QED
  BY <1>3, <1>4, <1>5 DEF FillFrame

\* The frame in video_frame goes behind those in the ring.
LEMMA WriteFrameStep == IInv /\ WriteFrame => IInv'
<1> SUFFICES ASSUME IInv, WriteFrame PROVE IInv'
  OBVIOUS
<1> USE DEF At, Goto
<1>1. /\ pc = "rgb_buffer_write"
      /\ UNCHANGED <<buffer_length, initialized, frames_buffered, freed, delivered,
                     masked, timer, pending, frames_displayed, video_frame, shown>>
  BY DEF WriteFrame, mainVars, signalVars, frameVars
<1>2. /\ TypeOK /\ BufferTypeOK /\ RingInv /\ FramesAccounted /\ Control
      /\ OvershootBounded
      /\ len \in Nat /\ written \in 0 .. len /\ written < len
      /\ frames_displayed \in Nat /\ frames_buffered \in Nat /\ FrameCount \in Nat
      /\ video_frame \in Frame
  BY <1>1, RingAssumption, PlaybackAssumption
     DEF IInv, TypeOK, BufferTypeOK, NoFrameDropped
<1>3. rgb_buffer_write(video_frame, 0) /\ pc' = "fill"
  BY <1>2 DEF WriteFrame, rgb_buffer_write
<1>4. /\ BufferTypeOK' /\ RingInv' /\ len' = len /\ written' = written + 1
      /\ \A i \in 1 .. written : Contents'[i] = Contents[i]
      /\ Contents'[written + 1] = video_frame
  BY <1>2, <1>3, WriteEffect
<1>5. TypeOK'
  BY <1>1, <1>2, <1>3, <1>4 DEF TypeOK, Steps
<1>6. FramesAccounted'
  <2>1. /\ Len(delivered) = frames_buffered /\ Len(shown) = frames_displayed
        /\ frames_buffered = frames_displayed + written + 1
        /\ \A i \in 1 .. frames_displayed : shown[i] = delivered[i]
        /\ \A i \in 1 .. written : Contents[i] = delivered[frames_displayed + i]
        /\ video_frame = delivered[frames_buffered]
    BY <1>1, <1>2 DEF FramesAccounted, InFlight
  <2>2. ASSUME NEW i \in 1 .. written'
        PROVE  Contents'[i] = delivered'[frames_displayed' + i]
    <3>1. CASE i \in 1 .. written
      BY <1>1, <1>4, <2>1, <3>1
    <3>2. CASE i = written + 1
      BY <1>1, <1>2, <1>4, <2>1, <3>2
    <3> QED
      BY <1>2, <1>4, <3>1, <3>2
  <2> QED
    BY <1>1, <1>2, <1>3, <1>4, <2>1, <2>2 DEF FramesAccounted, InFlight
<1>7. NoFrameDropped' /\ OvershootBounded'
  BY <1>1, <1>2, <1>3, <1>4 DEF NoFrameDropped, OvershootBounded
<1>8. Control'
  BY <1>1, <1>2, <1>3, <1>4 DEF Control, LengthSet, Filling, Uninitialized
<1> QED
  BY <1>5, <1>6, <1>7, <1>8 DEF IInv

\* What a step of the handler that shows a frame does: the oldest frame of the
\* ring, the next one the source delivered, reaches the display.
LEMMA HandlerShows ==
  ASSUME IInv, display_interrupt_handler, frames_displayed' # frames_displayed
  PROVE  /\ BufferTypeOK' /\ RingInv' /\ len' = len
         /\ written > 0 /\ written' = written - 1
         /\ \A i \in 1 .. written' : Contents'[i] = Contents[i + 1]
         /\ frames_displayed < FrameCount /\ frames_displayed' = frames_displayed + 1
         /\ video_frame' = delivered[frames_displayed + 1] /\ video_frame' \in Frame
         /\ shown' = Append(shown, video_frame')
<1>1. /\ frames_displayed < FrameCount
      /\ rgb_buffer_read(0)
      /\ video_frame' = FrameToRead
      /\ shown' = Append(shown, video_frame')
      /\ frames_displayed' = frames_displayed + 1
  BY DEF display_interrupt_handler, frameVars
<1>2. /\ BufferTypeOK' /\ RingInv' /\ len' = len
      /\ written > 0 /\ written' = written - 1
      /\ FrameToRead \in Frame /\ FrameToRead = Contents[1]
      /\ \A i \in 1 .. written' : Contents'[i] = Contents[i + 1]
  BY <1>1, ReadEffect DEF IInv, TypeOK
<1>3. Contents[1] = delivered[frames_displayed + 1]
  <2>1. written \in Nat /\ 1 \in 1 .. written
    BY <1>2, RingAssumption DEF IInv, TypeOK, BufferTypeOK
  <2>2. \A i \in 1 .. written : Contents[i] = delivered[frames_displayed + i]
    BY DEF IInv, FramesAccounted
  <2> QED
    BY <2>1, <2>2
<1> QED
  BY <1>1, <1>2, <1>3

LEMMA HandlerStep == IInv /\ display_interrupt_handler => IInv'
<1> SUFFICES ASSUME IInv, display_interrupt_handler PROVE IInv'
  OBVIOUS
<1> USE DEF At
<1>1. /\ pending /\ pending' = FALSE /\ ~masked /\ pc # "exited"
      /\ UNCHANGED <<pc, masked, timer, buffer_length, initialized, frames_buffered,
                     freed, delivered>>
  BY DEF display_interrupt_handler, mainVars
<1>2. /\ TypeOK /\ FramesAccounted /\ Control /\ NoFrameDropped /\ OvershootBounded
      /\ len \in Nat /\ written \in 0 .. len
      /\ frames_displayed \in 0 .. FrameCount /\ frames_buffered \in Nat
      /\ FrameCount \in Nat
      /\ timer /\ pc \notin Filling
      /\ delivered \in Seq(Frame) /\ shown \in Seq(Frame)
  BY <1>1, RingAssumption, PlaybackAssumption
     DEF IInv, TypeOK, BufferTypeOK, Control
<1>3. CASE frames_displayed' = frames_displayed
  <2>1. UNCHANGED bufVars /\ UNCHANGED <<frames_displayed, video_frame, shown>>
    <3>1. frames_displayed' # frames_displayed + 1
      BY <1>2, <1>3
    <3> QED
      BY <3>1, RefusedEffect DEF display_interrupt_handler, frameVars
  <2>2. TypeOK' /\ FramesAccounted' /\ NoFrameDropped' /\ OvershootBounded'
    BY <1>1, <1>2, <2>1, QuietStep DEF TypeOK, Filling
  <2>3. Control'
    BY <1>1, <1>2, <2>1 DEF Control, LengthSet, Filling, bufVars, Uninitialized
  <2> QED
    BY <2>2, <2>3 DEF IInv
<1>4. CASE frames_displayed' # frames_displayed
  <2>1. /\ BufferTypeOK' /\ RingInv' /\ len' = len
        /\ written > 0 /\ written' = written - 1
        /\ \A i \in 1 .. written' : Contents'[i] = Contents[i + 1]
        /\ frames_displayed < FrameCount /\ frames_displayed' = frames_displayed + 1
        /\ video_frame' = delivered[frames_displayed + 1] /\ video_frame' \in Frame
        /\ shown' = Append(shown, video_frame')
    BY <1>4, HandlerShows
  <2>2. /\ Len(delivered) = frames_buffered /\ Len(shown) = frames_displayed
        /\ frames_buffered = frames_displayed + written
        /\ \A i \in 1 .. frames_displayed : shown[i] = delivered[i]
        /\ \A i \in 1 .. written : Contents[i] = delivered[frames_displayed + i]
    BY <1>2 DEF FramesAccounted, InFlight, Filling
  <2>3. /\ shown' \in Seq(Frame) /\ Len(shown') = Len(shown) + 1
        /\ \A i \in 1 .. Len(shown) : shown'[i] = shown[i]
        /\ shown'[Len(shown) + 1] = video_frame'
    BY <1>2, <2>1, AppendProperties
  <2>4. TypeOK'
    <3>1. frames_displayed' \in 0 .. FrameCount
      BY <1>2, <2>1
    <3> QED
      BY <1>1, <1>2, <2>1, <2>3, <3>1 DEF TypeOK
  <2>5. FramesAccounted'
    <3>1. ASSUME NEW i \in 1 .. frames_displayed'
          PROVE  shown'[i] = delivered'[i]
      <4>1. CASE i \in 1 .. frames_displayed
        BY <1>1, <2>2, <2>3, <4>1
      <4>2. CASE i = frames_displayed + 1
        <5>1. shown'[i] = video_frame'
          BY <2>2, <2>3, <4>2
        <5> QED
          BY <1>1, <2>1, <4>2, <5>1
      <4>3. i \in 1 .. frames_displayed \/ i = frames_displayed + 1
        <5>1. frames_displayed \in Nat /\ frames_displayed' = frames_displayed + 1
          BY <1>2, <2>1
        <5> QED
          BY <5>1
      <4> QED
        BY <4>1, <4>2, <4>3
    <3>2. ASSUME NEW i \in 1 .. written'
          PROVE  Contents'[i] = delivered'[frames_displayed' + i]
      <4>1. i + 1 \in 1 .. written /\ frames_displayed + (i + 1) = frames_displayed' + i
        BY <1>2, <2>1
      <4> QED
        BY <1>1, <2>1, <2>2, <4>1
    <3> QED
      BY <1>1, <1>2, <2>1, <2>2, <2>3, <3>1, <3>2 DEF FramesAccounted, InFlight, Filling
  <2>6. NoFrameDropped' /\ OvershootBounded'
    BY <1>1, <1>2, <2>1 DEF NoFrameDropped, OvershootBounded, Filling
  <2>7. Control'
    <3>1. pc # "rgb_buffer_init"
      BY <1>2 DEF Control, Uninitialized
    <3>2. ~(pc \in {"display_deinit", "free", "clear_initialized"})
      BY <1>1, <1>2, <2>1 DEF Control
    <3> QED
      BY <1>1, <1>2, <2>1, <3>1, <3>2 DEF Control, LengthSet, Filling, Uninitialized
  <2> QED
    BY <2>4, <2>5, <2>6, <2>7 DEF IInv
<1> QED
  BY <1>3, <1>4

LEMMA TimerStep == IInv /\ TimerExpires => IInv'
<1> SUFFICES ASSUME IInv, TimerExpires PROVE IInv'
  OBVIOUS
<1>1. /\ timer /\ pending' = TRUE
      /\ UNCHANGED <<len, written, cursor_read, cursor_write, matrix_array, pc,
                     buffer_length, initialized, frames_buffered, frames_displayed,
                     video_frame, masked, timer, freed, delivered, shown>>
  BY DEF TimerExpires, mainVars, frameVars, bufVars
<1>2. BufferTypeOK' /\ RingInv' /\ Contents' = Contents
  BY <1>1, BufferStutter DEF bufVars, IInv, TypeOK
<1>3. TypeOK' /\ FramesAccounted' /\ NoFrameDropped' /\ OvershootBounded'
  BY <1>1, <1>2 DEF IInv, TypeOK, FramesAccounted, NoFrameDropped,
                    OvershootBounded, InFlight, At
<1>4. Control'
  BY <1>1 DEF IInv, TypeOK, Control, LengthSet, At
<1> QED
  BY <1>3, <1>4 DEF IInv

LEMMA StutterStep == IInv /\ UNCHANGED vars => IInv'
<1> SUFFICES ASSUME IInv, UNCHANGED vars PROVE IInv'
  OBVIOUS
<1>1. UNCHANGED <<len, written, cursor_read, cursor_write, matrix_array, pc,
                  buffer_length, initialized, frames_buffered, frames_displayed,
                  video_frame, masked, timer, pending, freed, delivered, shown>>
  BY DEF vars
<1>2. BufferTypeOK' /\ RingInv' /\ Contents' = Contents
  BY <1>1, BufferStutter DEF bufVars, IInv, TypeOK
<1>3. TypeOK' /\ FramesAccounted' /\ NoFrameDropped' /\ OvershootBounded'
  BY <1>1, <1>2 DEF IInv, TypeOK, FramesAccounted, NoFrameDropped,
                    OvershootBounded, InFlight, At
<1>4. Control'
  BY <1>1 DEF IInv, Control, LengthSet, At
<1> QED
  BY <1>3, <1>4 DEF IInv

\* The invariant holds however the handler falls between the program's steps.
THEOREM Invariance == Spec => []IInv
<1>1. Init => IInv
  BY InitIInv
<1>2. IInv /\ [Next]_vars => IInv'
  <2> SUFFICES ASSUME IInv, [Next]_vars PROVE IInv'
    OBVIOUS
  <2>1. CASE InitBuffer
    BY <2>1, InitBufferStep
  <2>2. CASE QuietMain
    BY <2>2, QuietMainStep
  <2>3. CASE FillFrame
    BY <2>3, FillFrameStep
  <2>4. CASE WriteFrame
    BY <2>4, WriteFrameStep
  <2>5. CASE TimerExpires
    BY <2>5, TimerStep
  <2>6. CASE display_interrupt_handler
    BY <2>6, HandlerStep
  <2>7. CASE UNCHANGED vars
    BY <2>7, StutterStep
  <2> QED
    BY <2>1, <2>2, <2>3, <2>4, <2>5, <2>6, <2>7
       DEF Next, Main, Setup, Service, QuietMain, Exited
<1> QED
  BY <1>1, <1>2, PTL DEF Spec

\* Every variable of a playback keeps its type, the ring's counters agree.
THEOREM TypeCorrect == Spec => []TypeOK
BY Invariance, PTL DEF IInv

\* Every frame the source delivers is in exactly one place, in order, whatever
\* the interleaving of the service and the handler.
THEOREM AccountsForFrames == Spec => []FramesAccounted
BY Invariance, PTL DEF IInv

\* The service's write is never refused: no frame is lost for want of room.
THEOREM DropsNoFrame == Spec => []NoFrameDropped
BY Invariance, PTL DEF IInv

\* The service overshoots the video's frames by less than the ring's length.
THEOREM BoundsOvershoot == Spec => []OvershootBounded
BY Invariance, PTL DEF IInv

\* Once display_deinit has run, no step reads the ring or shows a frame.
THEOREM DeinitFinal == Spec => DeinitIsFinal
<1>1. IInv /\ [Next]_vars => [DisplayGone => UNCHANGED <<bufVars, frameVars>>]_vars
  <2> SUFFICES ASSUME IInv, Next, DisplayGone
               PROVE  UNCHANGED <<bufVars, frameVars>>
    OBVIOUS
  <2> USE DEF DisplayGone, At
  <2>1. CASE InitBuffer
    BY <2>1 DEF InitBuffer
  <2>2. CASE QuietMain
    BY <2>2 DEF QuietMain, Deinit, InitVideo, SocketInit, SetTimer, SetInitialized,
                ServiceTests, disable_interrupts, enable_interrupts, Sleep,
                DisplayDeinit, FreeBuffer, ClearInitialized
  <2>3. CASE FillFrame \/ WriteFrame
    BY <2>3 DEF FillFrame, WriteFrame
  <2>4. CASE TimerExpires
    BY <2>4 DEF TimerExpires
  <2>5. CASE display_interrupt_handler
    <3>1. timer /\ frames_displayed >= FrameCount
      BY <2>5 DEF display_interrupt_handler, IInv, TypeOK, Control
    <3>2. ~(frames_displayed < FrameCount)
      BY <3>1, PlaybackAssumption DEF IInv, TypeOK
    <3> QED
      BY <2>5, <3>2 DEF display_interrupt_handler
  <2>6. CASE Exited
    BY <2>6 DEF Exited, vars, bufVars, frameVars
  <2> QED
    BY <2>1, <2>2, <2>3, <2>4, <2>5, <2>6 DEF Next, Main, Setup, Service, QuietMain
<1> QED
  BY <1>1, Invariance, PTL DEF Spec, DeinitIsFinal

\* A step of the program is a step of the pipe: the source's frame enters it
\* where get_frame returns 0, and leaves it where the handler shows it.
LEMMA PipeStep == IInv /\ [Next]_vars => [Pipe!Next]_(Pipe!vars)
<1> SUFFICES ASSUME IInv, [Next]_vars PROVE [Pipe!Next]_(Pipe!vars)
  OBVIOUS
<1> USE DEF Pipe!vars
<1>1. CASE FillFrame /\ frames_buffered' # frames_buffered
  <2>1. /\ pc = "fill" /\ ~rgb_buffer_is_full /\ get_frame(0)
        /\ delivered' = Append(delivered, video_frame')
        /\ UNCHANGED <<buffer_length, shown>>
    BY <1>1 DEF FillFrame, At
  <2>2. video_frame' \in Frame
    BY <2>1 DEF get_frame, IInv, TypeOK
  <2>3. Len(shown) < FrameCount /\ Len(delivered) - Len(shown) < buffer_length % U16
    <3>1. masked /\ initialized
      BY <2>1 DEF IInv, Control, Filling, At
    <3>2. frames_displayed < FrameCount /\ len = buffer_length % U16
      BY <3>1 DEF IInv, Control, LengthSet
    <3>3. /\ len \in Nat /\ written \in 0 .. len
          /\ frames_displayed \in Nat /\ frames_buffered \in Nat
      BY RingAssumption, PlaybackAssumption DEF IInv, TypeOK, BufferTypeOK
    <3>4. /\ Len(delivered) = frames_buffered /\ Len(shown) = frames_displayed
          /\ frames_buffered = frames_displayed + written
      BY <2>1, <3>3 DEF IInv, FramesAccounted, InFlight, At
    <3>5. written < len
      BY <2>1, <3>3 DEF rgb_buffer_is_full
    <3> QED
      BY <3>2, <3>3, <3>4, <3>5
  <2>4. Pipe!Deliver(video_frame')
    BY <2>1, <2>3 DEF Pipe!Deliver
  <2> QED
    BY <2>2, <2>4 DEF Pipe!Next
<1>2. CASE display_interrupt_handler /\ frames_displayed' # frames_displayed
  <2>1. /\ written > 0 /\ frames_displayed < FrameCount
        /\ video_frame' = delivered[frames_displayed + 1]
        /\ shown' = Append(shown, video_frame')
    BY <1>2, HandlerShows
  <2>2. UNCHANGED <<delivered, buffer_length>>
    BY <1>2 DEF display_interrupt_handler, mainVars
  <2>3. Len(shown) = frames_displayed /\ frames_displayed < Len(delivered)
    <3>1. /\ len \in Nat /\ written \in 0 .. len
          /\ frames_displayed \in Nat /\ frames_buffered \in Nat
      BY RingAssumption, PlaybackAssumption DEF IInv, TypeOK, BufferTypeOK
    <3>2. /\ Len(delivered) = frames_buffered /\ Len(shown) = frames_displayed
          /\ frames_buffered = frames_displayed + written + InFlight
      BY DEF IInv, FramesAccounted
    <3> QED
      BY <2>1, <3>1, <3>2 DEF InFlight
  <2>4. Pipe!Show
    BY <2>1, <2>2, <2>3 DEF Pipe!Show
  <2> QED
    BY <2>4 DEF Pipe!Next
<1>3. CASE FillFrame /\ frames_buffered' = frames_buffered
  <2>1. frames_buffered' # frames_buffered + 1
    BY <1>3 DEF IInv, TypeOK
  <2> QED
    BY <1>3, <2>1 DEF FillFrame
<1>4. CASE display_interrupt_handler /\ frames_displayed' = frames_displayed
  <2>1. frames_displayed' # frames_displayed + 1
    BY <1>4, PlaybackAssumption DEF IInv, TypeOK
  <2> QED
    BY <1>4, <2>1 DEF display_interrupt_handler, mainVars, frameVars
<1>5. CASE InitBuffer \/ WriteFrame \/ TimerExpires \/ Exited \/ UNCHANGED vars
  BY <1>5 DEF InitBuffer, WriteFrame, TimerExpires, Exited, vars, mainVars, frameVars
<1>6. CASE QuietMain
  BY <1>6 DEF QuietMain, Deinit, InitVideo, SocketInit, SetTimer, SetInitialized,
              ServiceTests, disable_interrupts, enable_interrupts, Sleep,
              DisplayDeinit, FreeBuffer, ClearInitialized, mainVars, frameVars
<1> QED
  BY <1>1, <1>2, <1>3, <1>4, <1>5, <1>6 DEF Next, Main, Setup, Service, QuietMain

\* The display is shown the source's frames in order, once each, never more
\* than a ring behind it, and none beyond the video's count.
THEOREM ImplementsPipe == Spec => Pipe!Spec
<1>1. Init => Pipe!Init
  BY ModRange, RingAssumption DEF Init, Pipe!Init
<1>2. IInv /\ [Next]_vars => [Pipe!Next]_(Pipe!vars)
  BY PipeStep
<1> QED
  BY <1>1, <1>2, Invariance, PTL DEF Spec, Pipe!Spec
=============================================================================
