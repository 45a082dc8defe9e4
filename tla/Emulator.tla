------------------------------ MODULE Emulator ------------------------------
(***************************************************************************)
(* The display link: display_frame (display.c), which a player's SIGALRM   *)
(* handler calls to send a frame in datagrams of at most MaxMessage bytes, *)
(* and the emulator's two threads (vid2led_emulator.cpp): run_server, which*)
(* puts frames together from datagrams and copies them to arr, and main's  *)
(* loop, which draws arr; both hold mutex_ meanwhile.  A player or the     *)
(* emulator may be stopped anywhere and started again.                     *)
(*                                                                         *)
(* A byte of a frame is known as <<frame, its place>>; frame 0 is zeros.   *)
(***************************************************************************)
EXTENDS Integers, Sequences

CONSTANTS Sizes,       \* values of sizeof(matrix_t)
          MaxMessage,  \* MAX_SOCK_MESSAGE_LEN
          QueueLen,    \* how many datagrams the kernel keeps for a socket
          MaxFrames,   \* a bound on the frames all players send
          MaxStarts    \* a bound on the starts of the emulator

ASSUME LinkAssumption ==
  /\ Sizes \subseteq Nat \ {0}
  /\ MaxMessage \in Nat \ {0} /\ QueueLen \in Nat \ {0}
  /\ MaxFrames \in Nat /\ MaxStarts \in Nat \ {0}

VARIABLES
  size,
  player,    \* "none"; "connected"; "refused": its emulator is gone
  frame,     \* the last frame a player has begun to send
  i,         \* the datagrams of it that are sent, 0 between frames
  queue,     \* the datagrams in the emulator's socket
  starts,    \* how often the emulator was started
  running,
  ok,        \* run_server could make and bind its socket
  server,    \* run_server's place: "recvfrom", "mutex_lock", "memcpy"
  received,  \* its i
  temp_arr, arr,
  copied,    \* the bytes memcpy has copied
  mutex,     \* its owner, or "free"
  render,    \* main's place: "mutex_lock", "rectangle", "imshow"
  drawn,     \* the bytes drawn
  image,
  cut        \* history: a player stopped within a frame sent to this emulator

playerVars == <<player, frame, i>>
serverVars == <<server, received, temp_arr, arr, copied>>
renderVars == <<render, drawn, image>>
lifeVars == <<size, starts, running, ok>>
vars == <<lifeVars, playerVars, queue, serverVars, mutex, renderVars, cut>>

\* Both ends count the datagrams of a frame alike; the last one may be empty.
Datagrams == size \div MaxMessage + 1
Length(k) == IF k < Datagrams - 1 THEN MaxMessage ELSE size - k * MaxMessage

Zeros(n) == [b \in 0 .. n - 1 |-> <<0, b>>]

Init == /\ size \in Sizes
        /\ player = "none" /\ frame = 0 /\ i = 0
        /\ queue = << >>
        /\ starts = 1 /\ running = TRUE /\ ok \in BOOLEAN
        /\ server = "recvfrom" /\ received = 0 /\ copied = 0
        /\ temp_arr = Zeros(size) /\ arr = Zeros(size)
        /\ mutex = "free"
        /\ render = "mutex_lock" /\ drawn = 0 /\ image = Zeros(size)
        /\ cut = FALSE
-----------------------------------------------------------------------------
(***************************************************************************)
(* A player.  send blocks while the queue is full and fails when the       *)
(* emulator it was connected to is gone, which ends that frame.            *)
(***************************************************************************)
Connect == /\ player = "none" /\ running /\ ok
           /\ player' = "connected"
           /\ UNCHANGED <<lifeVars, frame, i, queue, serverVars, mutex, renderVars, cut>>

\* Mutant: the datagram is as long as a message, whatever is left to send.
SendFullLength ==
  /\ i # 0 \/ frame < MaxFrames
  /\ LET f == IF i = 0 THEN frame + 1 ELSE frame IN
       /\ frame' = f
       /\ \/ /\ player = "connected" /\ Len(queue) < QueueLen
             /\ queue' = Append(queue, [b \in 0 .. MaxMessage - 1 |-> <<f, i * MaxMessage + b>>])
             /\ i' = (i + 1) % Datagrams
          \/ /\ player = "refused"
             /\ i' = 0
             /\ UNCHANGED queue
  /\ UNCHANGED <<lifeVars, player, serverVars, mutex, renderVars, cut>>

\* Mutant: an empty datagram is not sent.
SendNoEmpty ==
  /\ i # 0 \/ frame < MaxFrames
  /\ LET f == IF i = 0 THEN frame + 1 ELSE frame IN
       /\ frame' = f
       /\ \/ /\ player = "connected" /\ Len(queue) < QueueLen
             /\ queue' = IF Length(i) = 0 THEN queue
                         ELSE Append(queue, [b \in 0 .. Length(i) - 1 |-> <<f, i * MaxMessage + b>>])
             /\ i' = (i + 1) % Datagrams
          \/ /\ player = "refused"
             /\ i' = 0
             /\ UNCHANGED queue
  /\ UNCHANGED <<lifeVars, player, serverVars, mutex, renderVars, cut>>

display_frame ==
  /\ i # 0 \/ frame < MaxFrames
  /\ LET f == IF i = 0 THEN frame + 1 ELSE frame IN
       /\ frame' = f
       /\ \/ /\ player = "connected" /\ Len(queue) < QueueLen
             /\ queue' = Append(queue, [b \in 0 .. Length(i) - 1 |-> <<f, i * MaxMessage + b>>])
             /\ i' = (i + 1) % Datagrams
          \/ /\ player = "refused"
             /\ i' = 0
             /\ UNCHANGED queue
  /\ UNCHANGED <<lifeVars, player, serverVars, mutex, renderVars, cut>>

\* The player's process ends, maybe within display_frame.
PlayerStops == /\ player # "none"
               /\ player' = "none"
               /\ i' = 0
               /\ cut' = (cut \/ (player = "connected" /\ i # 0))
               /\ UNCHANGED <<lifeVars, frame, queue, serverVars, mutex, renderVars>>
-----------------------------------------------------------------------------
(***************************************************************************)
(* run_server.  What recvfrom returns is not looked at; what does not fit  *)
(* into the length asked for is dropped.                                   *)
(***************************************************************************)
recvfrom ==
  /\ running /\ server = "recvfrom"
  /\ \/ /\ ok /\ queue # << >>
        /\ temp_arr' = [b \in DOMAIN temp_arr |->
             LET k == b - received * MaxMessage
             IN  IF k < Length(received) /\ k \in DOMAIN Head(queue)
                   THEN Head(queue)[k] ELSE temp_arr[b]]
        /\ queue' = Tail(queue)
     \/ ~ok /\ UNCHANGED <<temp_arr, queue>>
  /\ received' = (received + 1) % Datagrams
  /\ server' = IF received' = 0 THEN "mutex_lock" ELSE "recvfrom"
  /\ UNCHANGED <<lifeVars, playerVars, arr, copied, mutex, renderVars, cut>>

\* Mutant: run_server does not take mutex_.
ServerUnlocked == /\ running /\ server = "mutex_lock"
                  /\ server' = "memcpy"
                  /\ copied' = 0
                  /\ UNCHANGED <<lifeVars, playerVars, queue, received, temp_arr, arr,
                                 mutex, renderVars, cut>>

ServerLocks == /\ running /\ server = "mutex_lock"
               /\ mutex = "free"
               /\ mutex' = "run_server"
               /\ server' = "memcpy"
               /\ copied' = 0
               /\ UNCHANGED <<lifeVars, playerVars, queue, received, temp_arr, arr,
                              renderVars, cut>>

\* Copies a byte, or unlocks after the last.
memcpy ==
  /\ running /\ server = "memcpy"
  /\ \/ /\ copied < size
        /\ arr' = [arr EXCEPT ![copied] = temp_arr[copied]]
        /\ copied' = copied + 1
        /\ UNCHANGED <<server, mutex>>
     \/ /\ copied = size
        /\ mutex' = "free"
        /\ server' = "recvfrom"
        /\ UNCHANGED <<arr, copied>>
  /\ UNCHANGED <<lifeVars, playerVars, queue, received, temp_arr, renderVars, cut>>
-----------------------------------------------------------------------------
(***************************************************************************)
(* main's loop.                                                            *)
(***************************************************************************)
RenderLocks == /\ running /\ render = "mutex_lock"
               /\ mutex = "free"
               /\ mutex' = "main"
               /\ render' = "rectangle"
               /\ drawn' = 0
               /\ UNCHANGED <<lifeVars, playerVars, queue, serverVars, image, cut>>

rectangle ==
  /\ running /\ render = "rectangle"
  /\ \/ /\ drawn < size
        /\ image' = [image EXCEPT ![drawn] = arr[drawn]]
        /\ drawn' = drawn + 1
        /\ UNCHANGED <<render, mutex>>
     \/ /\ drawn = size
        /\ mutex' = "free"
        /\ render' = "imshow"
        /\ UNCHANGED <<image, drawn>>
  /\ UNCHANGED <<lifeVars, playerVars, queue, serverVars, cut>>

\* imshow, and waitKey without Escape.
imshow == /\ running /\ render = "imshow"
          /\ render' = "mutex_lock"
          /\ UNCHANGED <<lifeVars, playerVars, queue, serverVars, mutex, drawn, image, cut>>

\* Escape, SIGINT or SIGTERM: stop, then the process ends, its socket with it.
\* That stop destroys mutex_ before the other thread is gone is not modelled.
stop ==
  /\ running
  /\ running' = FALSE
  /\ queue' = << >>
  /\ player' = IF player = "connected" THEN "refused" ELSE player
  /\ UNCHANGED <<size, starts, ok, frame, i, serverVars, mutex, renderVars, cut>>

start ==
  /\ ~running /\ starts < MaxStarts
  /\ starts' = starts + 1
  /\ running' = TRUE
  /\ ok' \in BOOLEAN
  /\ server' = "recvfrom" /\ received' = 0 /\ copied' = 0
  /\ temp_arr' = Zeros(size) /\ arr' = Zeros(size)
  /\ mutex' = "free"
  /\ render' = "mutex_lock" /\ drawn' = 0 /\ image' = Zeros(size)
  /\ cut' = FALSE
  /\ UNCHANGED <<size, playerVars, queue>>

Next == \/ Connect \/ display_frame \/ PlayerStops
        \/ recvfrom \/ ServerLocks \/ memcpy
        \/ RenderLocks \/ rectangle \/ imshow
        \/ stop \/ start

Spec == Init /\ [][Next]_vars

\* Both threads run on.  A thread that waits for the mutex gets it in the end:
\* main sleeps in waitKey without it, for ten milliseconds each time, and
\* run_server waits for the next datagram without it.
Fairness == /\ WF_vars(recvfrom) /\ SF_vars(ServerLocks) /\ WF_vars(memcpy)
            /\ SF_vars(RenderLocks) /\ WF_vars(rectangle) /\ WF_vars(imshow)
FairSpec == Spec /\ Fairness
-----------------------------------------------------------------------------
(***************************************************************************)
(* Properties                                                              *)
(***************************************************************************)
Cells == (0 .. MaxFrames) \X (0 .. size - 1)

TypeOK ==
  /\ size \in Sizes
  /\ player \in {"none", "connected", "refused"}
  /\ frame \in 0 .. MaxFrames /\ i \in 0 .. Datagrams - 1
  /\ Len(queue) <= QueueLen
  /\ \A k \in DOMAIN queue : /\ DOMAIN queue[k] \subseteq 0 .. MaxMessage - 1
                             /\ \A b \in DOMAIN queue[k] : queue[k][b] \in Cells
  /\ starts \in 1 .. MaxStarts /\ running \in BOOLEAN /\ ok \in BOOLEAN
  /\ server \in {"recvfrom", "mutex_lock", "memcpy"}
  /\ received \in 0 .. Datagrams - 1
  /\ temp_arr \in [0 .. size - 1 -> Cells] /\ arr \in [0 .. size - 1 -> Cells]
  /\ copied \in 0 .. size
  /\ mutex \in {"free", "run_server", "main"}
  /\ render \in {"mutex_lock", "rectangle", "imshow"}
  /\ drawn \in 0 .. size /\ image \in [0 .. size - 1 -> Cells]
  /\ cut \in BOOLEAN

IsFrame(a, f) == \A b \in DOMAIN a : a[b] = <<f, b>>

\* What main shows is one whole frame, each byte in its place, never parts of
\* two: whatever the size leaves for the last datagram, while the threads take
\* turns, players follow each other and the emulator restarts; as long as no
\* player stopped within a frame, after which the two ends count the datagrams
\* differently for good.
ShowsWholeFrame ==
  render = "imshow" /\ ~cut => \E f \in 0 .. MaxFrames : IsFrame(image, f)

\* Bytes of a frame are with the emulator's kernel.
Queued(f) == \E k \in DOMAIN queue : \E b \in DOMAIN queue[k] : queue[k][b][1] = f

\* The last frame that is sent is shown in the end, unless the emulator is
\* stopped: neither thread keeps the other from mutex_, and no datagram is
\* waited for that display_frame does not send.
LastFrameShown ==
  i = 0 /\ Queued(MaxFrames) /\ ~cut /\ running
    ~> ~running \/ (render = "imshow" /\ IsFrame(image, MaxFrames))
=============================================================================
