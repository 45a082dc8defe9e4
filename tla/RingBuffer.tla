----------------------------- MODULE RingBuffer -----------------------------
(***************************************************************************)
(* The frame buffer of core/src/buffer.c: a ring of matrix_t slots with a  *)
(* fill count and two cursors, all uint16_t.  Each operation takes the     *)
(* value it returns as a parameter, so that a caller can branch on it:     *)
(* op(0) is the call that succeeds, op(-1) the call that is refused.       *)
(*                                                                         *)
(* Both builds of rgb_buffer_init are modelled: StaticBuffer is            *)
(* VID2LEN_USE_STATIC_BUFFER # 0, StaticLength VID2LEN_STATIC_BUFFER_LENGTH.*)
(***************************************************************************)
EXTENDS Integers, Sequences

CONSTANTS Frame,          \* the values a matrix_t can hold
          BufferLengths,  \* the buf_len values (uint32_t) a caller asks for
          U16,            \* the number of values of a uint16_t (2^16)
          StaticBuffer,   \* which of the two builds
          StaticLength,   \* the slots of the static build's matrix_array
          ZeroFrame       \* an all-zero matrix_t, a static object's first value

ASSUME RingAssumption ==
  /\ BufferLengths \subseteq Nat
  /\ U16 \in Nat \ {0}
  /\ StaticBuffer \in BOOLEAN
  /\ StaticLength \in Nat
  /\ ZeroFrame \in Frame

VARIABLES len, written, cursor_read, cursor_write, matrix_array

bufVars == <<len, written, cursor_read, cursor_write, matrix_array>>

Slots(n) == 0 .. n - 1

\* rgb_buffer_init: the static build refuses a length its array cannot hold
\* and keeps the array's content; the dynamic build mallocs a block whose
\* content is not determined.  buf_len is cut to the 16 bits of buf->len.

rgb_buffer_init(buf_len, ret) ==
  \/ /\ ret = 0
     /\ StaticBuffer => buf_len <= StaticLength
     /\ len' = buf_len % U16
     /\ written' = 0
     /\ cursor_read' = 0
     /\ cursor_write' = 0
     /\ IF StaticBuffer THEN UNCHANGED matrix_array
                        ELSE matrix_array' \in [Slots(buf_len) -> Frame]
  \/ /\ ret = -1
     /\ StaticBuffer /\ buf_len > StaticLength
     /\ UNCHANGED bufVars

\* Mutant: the cursor is advanced before the copy.
FrameToReadAdvanced == matrix_array[(cursor_read + 1) % len]

\* The frame a successful read copies to its caller.
FrameToRead == matrix_array[cursor_read]

rgb_buffer_read(ret) ==
  \/ /\ ret = 0
     /\ written # 0
     /\ cursor_read' = ((cursor_read + 1) % U16) % len
     /\ written' = written - 1
     /\ UNCHANGED <<len, cursor_write, matrix_array>>
  \/ /\ ret = -1
     /\ written = 0
     /\ UNCHANGED bufVars

\* Mutant: <= in the test for room.
WriteWhenFull(frame, ret) ==
  \/ /\ ret = 0
     /\ written <= len /\ len # 0
     /\ matrix_array' = [matrix_array EXCEPT ![cursor_write] = frame]
     /\ cursor_write' = ((cursor_write + 1) % U16) % len
     /\ written' = (written + 1) % U16
     /\ UNCHANGED <<len, cursor_read>>
  \/ ret = -1 /\ written > len /\ UNCHANGED bufVars

\* Mutant: the write cursor is not wrapped round.
WriteUnwrapped(frame, ret) ==
  \/ /\ ret = 0
     /\ written < len
     /\ matrix_array' = [matrix_array EXCEPT ![cursor_write] = frame]
     /\ cursor_write' = (cursor_write + 1) % U16
     /\ written' = (written + 1) % U16
     /\ UNCHANGED <<len, cursor_read>>
  \/ ret = -1 /\ written >= len /\ UNCHANGED bufVars

rgb_buffer_write(frame, ret) ==
  \/ /\ ret = 0
     /\ written < len
     /\ matrix_array' = [matrix_array EXCEPT ![cursor_write] = frame]
     /\ cursor_write' = ((cursor_write + 1) % U16) % len
     /\ written' = (written + 1) % U16
     /\ UNCHANGED <<len, cursor_read>>
  \/ /\ ret = -1
     /\ written >= len
     /\ UNCHANGED bufVars

\* Mutant: > for =.
FullWhenOver == written > len

rgb_buffer_is_full == written = len
-----------------------------------------------------------------------------
(***************************************************************************)
(* The ring in use: the slots between the cursors, in reading order.       *)
(***************************************************************************)

\* The slot i places after the read cursor.
SlotAfter(i) == IF cursor_read + i < len THEN cursor_read + i
                                         ELSE cursor_read + i - len

\* The frames a reader will get, oldest first.
Contents == [i \in 1 .. written |-> matrix_array[SlotAfter(i - 1)]]

\* The counters are in range, written never passes len, and the array has at
\* least the len slots that are used.
BufferTypeOK ==
  /\ len \in 0 .. U16 - 1
  /\ written \in 0 .. len
  /\ cursor_read \in Nat /\ cursor_write \in Nat
  /\ Slots(len) \subseteq DOMAIN matrix_array
  /\ matrix_array \in [DOMAIN matrix_array -> Frame]

\* The write cursor is always written places ahead of the read cursor, which
\* is what makes the three counters, moved by two actors, agree.
RingInv ==
  /\ len = 0 => cursor_read = 0
  /\ len # 0 => cursor_read < len
  /\ cursor_write = SlotAfter(written)
=============================================================================
