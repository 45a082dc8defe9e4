------------------------------ MODULE FramePipe ------------------------------
(***************************************************************************)
(* What playback as a whole promises: the display is shown the frames the  *)
(* video source delivered, once each and in the order of delivery, never   *)
(* more than capacity frames behind the source, and stops at the video's   *)
(* FrameCount frames; the source may run ahead of that, by what fits.      *)
(* Nothing here knows of rings, signals or masks.                          *)
(***************************************************************************)
EXTENDS Integers, Sequences

CONSTANTS Frame,      \* what a matrix_t can hold
          FrameCount  \* the frames of the video

VARIABLES delivered,  \* the frames the source delivered, in order
          shown,      \* the frames given to the display, in order
          capacity    \* how far the display may fall behind

vars == <<delivered, shown, capacity>>

Init == /\ delivered = <<>>
        /\ shown = <<>>
        /\ capacity \in Nat

Deliver(f) == /\ Len(shown) < FrameCount
              /\ Len(delivered) - Len(shown) < capacity
              /\ delivered' = Append(delivered, f)
              /\ UNCHANGED <<shown, capacity>>

Show == /\ Len(shown) < Len(delivered)
        /\ Len(shown) < FrameCount
        /\ shown' = Append(shown, delivered[Len(shown) + 1])
        /\ UNCHANGED <<delivered, capacity>>

Next == (\E f \in Frame : Deliver(f)) \/ Show

Spec == Init /\ [][Next]_vars
FairSpec == Spec /\ WF_vars(Show)
=============================================================================
