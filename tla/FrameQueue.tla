----------------------------- MODULE FrameQueue -----------------------------
(***************************************************************************)
(* What the frame buffer promises its two callers, vid2led_service (the    *)
(* writer) and display_interrupt_handler (the reader): a bounded FIFO      *)
(* queue that refuses a frame exactly when it is full, refuses a read      *)
(* exactly when it is empty, and otherwise hands each frame out once, in   *)
(* the order of the writes.  RingBuffer is shown to implement it.          *)
(***************************************************************************)
EXTENDS Integers, Sequences

CONSTANTS Frame,      \* what a matrix_t can hold
          Capacities  \* the capacities a queue can be created with

VARIABLES queue,      \* the frames written and not yet read, oldest first
          capacity,   \* how many frames it can hold
          result,     \* the last call and what it returned, 0 or -1
          out         \* the frame the last successful Get copied out

vars == <<queue, capacity, result, out>>

Init == /\ queue = <<>>
        /\ capacity \in Capacities
        /\ result = <<"init", 0>>
        /\ out \in Frame

Create(n) == /\ queue' = <<>>
             /\ capacity' = n
             /\ result' = <<"init", 0>>
             /\ UNCHANGED out

Put(f) == /\ Len(queue) < capacity
          /\ queue' = Append(queue, f)
          /\ result' = <<"write", 0>>
          /\ UNCHANGED <<capacity, out>>

Get == /\ queue # <<>>
       /\ out' = Head(queue)
       /\ queue' = Tail(queue)
       /\ result' = <<"read", 0>>
       /\ UNCHANGED capacity

\* A refused call reports it and changes nothing else.
Refuse(op) == /\ result' = <<op, -1>>
              /\ UNCHANGED <<queue, capacity, out>>

Next == \/ \E n \in Capacities : Create(n)
        \/ \E f \in Frame : Put(f)
        \/ Get
        \/ Refuse("init")
        \/ Len(queue) = capacity /\ Refuse("write")
        \/ queue = <<>> /\ Refuse("read")

Spec == Init /\ [][Next]_vars
=============================================================================
