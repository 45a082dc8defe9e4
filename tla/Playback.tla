------------------------------ MODULE Playback ------------------------------
(***************************************************************************)
(* One run of examples/linux/main.c on the core library: vid2led_init, the *)
(* vid2led_service loop that fills the frame buffer with SIGALRM masked,   *)
(* and vid2led_deinit (vid2led.c); the SIGALRM handler that drains it      *)
(* (display.c); the video source (video.c).  One process: the main program *)
(* is a program counter pc, and the handler is one atomic step that may    *)
(* fall between any two of its steps while the signal is not masked.       *)
(*                                                                         *)
(* The frame buffer is the one of RingBuffer.  A source is known here only *)
(* by the outcomes of its get_frame; display_frame by the frame it is      *)
(* given (the handler ignores what it returns).                            *)
(***************************************************************************)
EXTENDS RingBuffer

CONSTANTS FrameCount,  \* vid->frames: 120 (dummy) or 5 (AVI)
          Source       \* vid->type: "dummy" or "avi"

ASSUME PlaybackAssumption ==
  /\ FrameCount \in Nat
  /\ Source \in {"dummy", "avi"}

VARIABLES
  pc,               \* the statement the main program is about to execute
  buffer_length,    \* vid2led_obj->buffer_length, set by main
  initialized,      \* vid2led_obj->initialized
  frames_buffered,  \* vid->frames_buffered
  frames_displayed, \* vid->frames_displayed
  video_frame,      \* the global that both the service and the handler use
  masked,           \* SIGALRM is in the process's signal mask
  timer,            \* the interval timer is armed
  pending,          \* a SIGALRM waits to be delivered (they do not queue)
  freed,            \* the matrix_array block has been freed
  delivered,        \* history: the frames get_frame delivered, in order
  shown             \* history: the frames given to display_frame, in order

mainVars == <<buffer_length, initialized, frames_buffered, freed, delivered>>
signalVars == <<masked, timer, pending>>
frameVars == <<frames_displayed, video_frame, shown>>
vars == <<len, written, cursor_read, cursor_write, matrix_array, pc,
          buffer_length, initialized, frames_buffered, frames_displayed,
          video_frame, masked, timer, pending, freed, delivered, shown>>

\* The fields rgb_buffer_init and init_video are yet to set hold garbage in
\* the program, which reads none of them before; here they start at zero.
Init == /\ pc = "rgb_buffer_init"
        /\ buffer_length \in BufferLengths
        /\ len = 0 /\ written = 0 /\ cursor_read = 0 /\ cursor_write = 0
        /\ matrix_array = [s \in Slots(IF StaticBuffer THEN StaticLength ELSE 0)
                             |-> ZeroFrame]
        /\ initialized = FALSE
        /\ frames_buffered = 0 /\ frames_displayed = 0
        /\ video_frame = ZeroFrame
        /\ masked = FALSE /\ timer = FALSE /\ pending = FALSE
        /\ freed = FALSE
        /\ delivered = <<>> /\ shown = <<>>

At(l) == pc = l
Goto(l) == pc' = l
-----------------------------------------------------------------------------
(***************************************************************************)
(* vid2led_init.  main ignores what it returns: a failed step leaves       *)
(* initialized at 0 and the service loop finds that out.                   *)
(***************************************************************************)
InitBuffer == /\ At("rgb_buffer_init")
              /\ \/ rgb_buffer_init(buffer_length, 0) /\ Goto("init_video")
                 \/ rgb_buffer_init(buffer_length, -1) /\ Goto("service")
              /\ UNCHANGED <<mainVars, signalVars, frameVars>>

\* fopen, for the AVI source, may fail; both counters are zero already.
InitVideo == /\ At("init_video")
             /\ \/ Goto("socket_init")
                \/ Source = "avi" /\ Goto("service")
             /\ UNCHANGED <<bufVars, mainVars, signalVars, frameVars>>

\* The connect loop ends when the emulator answers, or is skipped when the
\* socket could not be made; display_init goes on to the timer either way.
SocketInit == /\ At("socket_init")
              /\ Goto("set_timer")
              /\ UNCHANGED <<bufVars, mainVars, signalVars, frameVars>>

\* The framerate of both sources is a positive constant, so the timer is set
\* whatever the source; it runs from here on, before initialized is.
SetTimer == /\ At("set_timer")
            /\ timer' = TRUE
            /\ Goto("set_initialized")
            /\ UNCHANGED <<bufVars, mainVars, masked, pending, frameVars>>

SetInitialized == /\ At("set_initialized")
                  /\ initialized' = TRUE
                  /\ Goto("service")
                  /\ UNCHANGED <<bufVars, buffer_length, frames_buffered, freed,
                                 delivered, signalVars, frameVars>>
-----------------------------------------------------------------------------
(***************************************************************************)
(* vid2led_service, and main's loop around it.                             *)
(***************************************************************************)
\* Mutant: the second test is of frames_displayed as well.
ServiceTestsDisplayed ==
  /\ At("service")
  /\ \/ /\ ~initialized \/ frames_displayed >= FrameCount
        /\ Goto("display_deinit")
     \/ /\ initialized /\ frames_displayed < FrameCount
        /\ Goto("disable_interrupts")
  /\ UNCHANGED <<bufVars, mainVars, signalVars, frameVars>>

\* Mutant: > for >= in the test for the end.
ServiceTestsPast ==
  /\ At("service")
  /\ \/ /\ ~initialized \/ frames_displayed > FrameCount
        /\ Goto("display_deinit")
     \/ /\ initialized /\ frames_displayed <= FrameCount
        /\ frames_buffered >= FrameCount
        /\ Goto("msleep")
     \/ /\ initialized /\ frames_displayed <= FrameCount
        /\ frames_buffered < FrameCount
        /\ Goto("disable_interrupts")
  /\ UNCHANGED <<bufVars, mainVars, signalVars, frameVars>>

\* Returns -1, which ends main's loop, when not initialized or when all is
\* displayed; does nothing more when all is buffered.
ServiceTests ==
  /\ At("service")
  /\ \/ /\ ~initialized \/ frames_displayed >= FrameCount
        /\ Goto("display_deinit")
     \/ /\ initialized /\ frames_displayed < FrameCount
        /\ frames_buffered >= FrameCount
        /\ Goto("msleep")
     \/ /\ initialized /\ frames_displayed < FrameCount
        /\ frames_buffered < FrameCount
        /\ Goto("disable_interrupts")
  /\ UNCHANGED <<bufVars, mainVars, signalVars, frameVars>>

\* Mutant: the loop runs with SIGALRM unmasked.
UnmaskedLoop == /\ At("disable_interrupts")
                /\ Goto("fill")
                /\ UNCHANGED <<bufVars, mainVars, signalVars, frameVars>>

disable_interrupts == /\ At("disable_interrupts")
                      /\ masked' = TRUE
                      /\ Goto("fill")
                      /\ UNCHANGED <<bufVars, mainVars, timer, pending, frameVars>>

\* The ways a call of get_frame returns: 0 with a new frame in video_frame;
\* 0 with video_frame as it was (get_frame_avi when the JPEG is not decoded);
\* -1 at the end of the AVI file.
get_frame(ret) ==
  \/ ret = 0 /\ \E f \in Frame : video_frame' = f
  \/ ret = 0 /\ Source = "avi" /\ UNCHANGED video_frame
  \/ ret = -1 /\ Source = "avi" /\ UNCHANGED video_frame

\* One turn of the do loop up to the write: the loop is not bounded by
\* vid->frames, only by a full buffer, the source's end or a refused write.
FillFrame ==
  /\ At("fill")
  /\ \/ /\ rgb_buffer_is_full
        /\ Goto("enable_interrupts")
        /\ UNCHANGED <<video_frame, frames_buffered, delivered>>
     \/ /\ ~rgb_buffer_is_full
        /\ get_frame(-1)
        /\ Goto("enable_interrupts")
        /\ UNCHANGED <<frames_buffered, delivered>>
     \/ /\ ~rgb_buffer_is_full
        /\ get_frame(0)
        /\ frames_buffered' = frames_buffered + 1
        /\ delivered' = Append(delivered, video_frame')
        /\ Goto("rgb_buffer_write")
  /\ UNCHANGED <<bufVars, buffer_length, initialized, freed, signalVars,
                 frames_displayed, shown>>

WriteFrame ==
  /\ At("rgb_buffer_write")
  /\ \E ret \in {0, -1} :
       /\ rgb_buffer_write(video_frame, ret)
       /\ Goto(IF ret = 0 THEN "fill" ELSE "enable_interrupts")
  /\ UNCHANGED <<mainVars, signalVars, frameVars>>

enable_interrupts == /\ At("enable_interrupts")
                     /\ masked' = FALSE
                     /\ Goto("msleep")
                     /\ UNCHANGED <<bufVars, mainVars, timer, pending, frameVars>>

\* A signal interrupts the sleep and msleep resumes it (EINTR).
Sleep == /\ At("msleep")
         /\ Goto("service")
         /\ UNCHANGED <<bufVars, mainVars, signalVars, frameVars>>
-----------------------------------------------------------------------------
(***************************************************************************)
(* vid2led_deinit.  The timer is not deleted and the handler stays         *)
(* installed: a signal may still fall between these steps.                 *)
(***************************************************************************)
DisplayDeinit == /\ At("display_deinit")
                 /\ Goto("free")
                 /\ UNCHANGED <<bufVars, mainVars, signalVars, frameVars>>

FreeBuffer == /\ At("free")
              /\ freed' = ~StaticBuffer
              /\ Goto("clear_initialized")
              /\ UNCHANGED <<bufVars, buffer_length, initialized, frames_buffered,
                             delivered, signalVars, frameVars>>

ClearInitialized == /\ At("clear_initialized")
                    /\ initialized' = FALSE
                    /\ Goto("exited")
                    /\ UNCHANGED <<bufVars, buffer_length, frames_buffered, freed,
                                   delivered, signalVars, frameVars>>
-----------------------------------------------------------------------------
(***************************************************************************)
(* The timer and its signal.  A second expiry while a signal is pending    *)
(* adds nothing, and a handler runs with the signal masked.                *)
(***************************************************************************)
TimerExpires == /\ timer /\ ~pending /\ ~At("exited")
                /\ pending' = TRUE
                /\ UNCHANGED <<bufVars, mainVars, pc, masked, timer, frameVars>>

\* Mutant: the handler does not test frames_displayed.
HandlerUntested ==
  /\ pending /\ ~masked /\ ~At("exited")
  /\ pending' = FALSE
  /\ \/ /\ rgb_buffer_read(0)
        /\ video_frame' = FrameToRead
        /\ shown' = Append(shown, video_frame')
        /\ frames_displayed' = frames_displayed + 1
     \/ /\ rgb_buffer_read(-1)
        /\ UNCHANGED frameVars
  /\ UNCHANGED <<mainVars, pc, masked, timer>>

\* Mutant: a stutter counts as a frame displayed.
HandlerCountsStutter ==
  /\ pending /\ ~masked /\ ~At("exited")
  /\ pending' = FALSE
  /\ \/ /\ frames_displayed < FrameCount
        /\ rgb_buffer_read(0)
        /\ video_frame' = FrameToRead
        /\ shown' = Append(shown, video_frame')
        /\ frames_displayed' = frames_displayed + 1
     \/ /\ frames_displayed < FrameCount
        /\ rgb_buffer_read(-1)
        /\ frames_displayed' = frames_displayed + 1
        /\ UNCHANGED <<video_frame, shown>>
     \/ /\ frames_displayed >= FrameCount
        /\ UNCHANGED <<bufVars, frameVars>>
  /\ UNCHANGED <<mainVars, pc, masked, timer>>

display_interrupt_handler ==
  /\ pending /\ ~masked /\ ~At("exited")
  /\ pending' = FALSE
  /\ \/ /\ frames_displayed < FrameCount
        /\ rgb_buffer_read(0)
        /\ video_frame' = FrameToRead
        /\ shown' = Append(shown, video_frame')
        /\ frames_displayed' = frames_displayed + 1
     \/ /\ frames_displayed < FrameCount
        /\ rgb_buffer_read(-1)
        /\ UNCHANGED frameVars
     \/ /\ frames_displayed >= FrameCount
        /\ UNCHANGED <<bufVars, frameVars>>
  /\ UNCHANGED <<mainVars, pc, masked, timer>>
-----------------------------------------------------------------------------
Setup == \/ InitBuffer \/ InitVideo \/ SocketInit \/ SetTimer \/ SetInitialized
Service == \/ ServiceTests \/ disable_interrupts \/ FillFrame \/ WriteFrame
           \/ enable_interrupts \/ Sleep
Deinit == DisplayDeinit \/ FreeBuffer \/ ClearInitialized

\* The main program: its pc says which one step is next.
Main == Setup \/ Service \/ Deinit

\* After main returns the process is gone, and its timer with it.
Exited == At("exited") /\ UNCHANGED vars

Next == Main \/ TimerExpires \/ display_interrupt_handler \/ Exited

Spec == Init /\ [][Next]_vars

\* The main program runs on, the timer keeps expiring, and a pending signal
\* that is let through again and again is delivered at last: sigprocmask
\* delivers one before it returns.  WF(Main) has connect succeed in the end.
Fairness == /\ WF_vars(Main)
            /\ WF_vars(TimerExpires)
            /\ SF_vars(display_interrupt_handler)

FairSpec == Spec /\ Fairness
-----------------------------------------------------------------------------
(***************************************************************************)
(* Properties                                                              *)
(***************************************************************************)
Steps == {"rgb_buffer_init", "init_video", "socket_init", "set_timer",
          "set_initialized", "service", "disable_interrupts", "fill",
          "rgb_buffer_write", "enable_interrupts", "msleep",
          "display_deinit", "free", "clear_initialized", "exited"}

\* The ring's counters, moved by the service and by the handler, stay in
\* range and agree (BufferTypeOK, RingInv), and every other field has its type.
TypeOK ==
  /\ BufferTypeOK /\ RingInv
  /\ pc \in Steps
  /\ buffer_length \in BufferLengths
  /\ initialized \in BOOLEAN /\ freed \in BOOLEAN
  /\ frames_buffered \in Nat /\ frames_displayed \in 0 .. FrameCount
  /\ video_frame \in Frame
  /\ masked \in BOOLEAN /\ timer \in BOOLEAN /\ pending \in BOOLEAN
  /\ delivered \in Seq(Frame) /\ shown \in Seq(Frame)

\* The frames taken from the source whose write to the ring is still to come.
InFlight == IF At("rgb_buffer_write") THEN 1 ELSE 0

\* Every frame the source delivered is exactly one of shown, in the ring or
\* in video_frame on its way there, in that order: the handler reading into
\* the same global (display.c:88) never overwrites one that the service is
\* about to write, and the two counters never lose count of the ring.
FramesAccounted ==
  /\ Len(delivered) = frames_buffered /\ Len(shown) = frames_displayed
  /\ frames_buffered = frames_displayed + written + InFlight
  /\ \A i \in 1 .. frames_displayed : shown[i] = delivered[i]
  /\ \A i \in 1 .. written : Contents[i] = delivered[frames_displayed + i]
  /\ At("rgb_buffer_write") => video_frame = delivered[frames_buffered]

\* A frame once taken from the source finds room: the write that follows it
\* (vid2led.c:64) is never refused, so its refusal loses no frame.
NoFrameDropped == At("rgb_buffer_write") => written < len

\* The service tests frames_buffered against frames before its loop and not
\* in it (vid2led.c:56), so it takes more frames than the video has; never
\* more than a ring holds beyond the last but one.
OvershootBounded == frames_buffered < FrameCount + len \/ frames_buffered = 0

\* display_deinit has closed the socket.
DisplayGone == pc \in {"free", "clear_initialized", "exited"}

\* From display_deinit on, with the socket closed and the array freed while
\* the timer still runs, the handler neither reads the ring nor sends.
DeinitIsFinal ==
  [][DisplayGone => UNCHANGED <<bufVars, frameVars>>]_vars

Pipe == INSTANCE FramePipe WITH capacity <- buffer_length % U16

\* The program implements the pipe: in order, once each, never more than a
\* ring behind, and a frame among the first FrameCount, once delivered, is
\* shown in the end.
IsFramePipe == Pipe!FairSpec

\* The source tells the service that it has no more frames.
SourceEnds == At("fill") /\ ~rgb_buffer_is_full /\ get_frame(-1) /\ Goto("enable_interrupts")

\* A program that got through vid2led_init with a ring that holds a frame ends,
\* or its source keeps reporting its end: main's loop (main.c:12) waits for
\* frames_displayed, which only frames move, so an AVI file with fewer frames
\* than the fixed vid->frames (video.c:46) is all that keeps it running.  The
\* dummy source never ends.
PlaybackEnds == \/ initialized /\ len # 0 ~> At("exited")
                \/ []<><<SourceEnds>>_vars
=============================================================================
