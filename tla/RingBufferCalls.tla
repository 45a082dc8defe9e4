--------------------------- MODULE RingBufferCalls ---------------------------
(***************************************************************************)
(* The frame buffer under any sequence of calls its interface allows,      *)
(* shown to implement the bounded FIFO queue of FrameQueue.  It starts     *)
(* just after a first rgb_buffer_init that succeeded.                      *)
(***************************************************************************)
EXTENDS RingBuffer

VARIABLES result,  \* the last call made and the value it returned
          frame    \* the caller's matrix_t, the target of reads

callsVars == <<len, written, cursor_read, cursor_write, matrix_array, result, frame>>

CallsInit == \E n \in BufferLengths :
  /\ StaticBuffer => n <= StaticLength
  /\ len = n % U16
  /\ written = 0 /\ cursor_read = 0 /\ cursor_write = 0
  /\ IF StaticBuffer
       THEN matrix_array = [s \in Slots(StaticLength) |-> ZeroFrame]
       ELSE matrix_array \in [Slots(n) -> Frame]
  /\ result = <<"init", 0>>
  /\ frame = ZeroFrame

CallInit(n) == \E r \in {0, -1} :
  /\ rgb_buffer_init(n, r)
  /\ result' = <<"init", r>>
  /\ UNCHANGED frame

CallWrite(f) == \E r \in {0, -1} :
  /\ rgb_buffer_write(f, r)
  /\ result' = <<"write", r>>
  /\ UNCHANGED frame

CallRead == \E r \in {0, -1} :
  /\ rgb_buffer_read(r)
  /\ result' = <<"read", r>>
  /\ frame' = IF r = 0 THEN FrameToRead ELSE frame

CallsNext ==
  \/ \E n \in BufferLengths : CallInit(n)
  \/ \E f \in Frame : CallWrite(f)
  \/ CallRead

CallsSpec == CallsInit /\ [][CallsNext]_callsVars
-----------------------------------------------------------------------------
(***************************************************************************)
(* Properties                                                              *)
(***************************************************************************)

\* Every field stays in its range, and the array is never shorter than len:
\* cursor arithmetic on uint16_t (buffer.c:45-48, 58-61) never leaves it.
CallsTypeOK ==
  /\ BufferTypeOK
  /\ result \in {"init", "read", "write"} \X {0, -1}
  /\ frame \in Frame

\* The counters that reads and writes move separately always agree: the write
\* cursor is the read cursor plus the fill count, modulo len.
CursorsAgree == RingInv

Queue == INSTANCE FrameQueue
           WITH Capacities <- {n % U16 : n \in BufferLengths},
                queue <- Contents, capacity <- len, out <- frame

\* The buffer of buffer.c is a bounded FIFO queue: every frame written comes
\* out once and in order, whatever wraps around, and a call is refused only
\* when the queue is full or empty.
IsFrameQueue == Queue!Spec
=============================================================================
