--------------------------- MODULE EmulatorProofs ---------------------------
(***************************************************************************)
(* The display link, for any size of a frame and of a datagram, any queue  *)
(* and any number of frames and restarts: what the emulator shows is one   *)
(* whole frame.                                                            *)
(*                                                                         *)
(* The property is about the image alone; the invariant follows a frame    *)
(* back to its player.  What lies in the queue is a walk: at each place of *)
(* it the two ends agree on a frame and on the number of the next datagram,*)
(* from where run_server has got to (received, and the part of temp_arr    *)
(* that is filled) to where the player is (i and frame).  The locks say    *)
(* which copy of arr is under way.                                         *)
(***************************************************************************)
EXTENDS Emulator, TLAPS

LEMMA QuotientBounds ==
  ASSUME NEW n \in Nat \ {0}, NEW a \in Nat
  PROVE  a \div n \in Nat /\ (a \div n) * n \in Nat
         /\ (a \div n) * n <= a /\ a < (a \div n) * n + n
<1>1. a \div n \in Nat
  BY SMTT(30)
<1>2. n * (a \div n) <= a /\ a < n * (a \div n) + n
  BY SMTT(30)
<1>3. PICK q \in Nat : q = a \div n
  BY <1>1
<1>4. PICK m \in Nat : m = q * n /\ m = n * q
  OBVIOUS
<1> QED
  BY <1>2, <1>3, <1>4

LEMMA Cyclic ==
  ASSUME NEW n \in Nat \ {0}, NEW a \in 0 .. n - 1
  PROVE  (a + 1) % n = IF a + 1 = n THEN 0 ELSE a + 1
BY SMTT(30)

LEMMA Ordered ==
  ASSUME NEW n \in Nat, NEW a \in Nat, NEW b \in Nat, a < b
  PROVE  a * n + n <= b * n
BY SMTT(30)

LEMMA NextMultiple ==
  ASSUME NEW n \in Nat, NEW q \in Nat
  PROVE  (q + 1) * n = q * n + n /\ q * n \in Nat
BY SMTT(30)

\* The datagrams of a frame lie one behind the other and fill it.
LEMMA Layout ==
  ASSUME size \in Sizes
  PROVE  /\ size \in Nat \ {0} /\ MaxMessage \in Nat \ {0} /\ Datagrams \in Nat \ {0}
         /\ \A k \in 0 .. Datagrams - 1 :
              /\ k * MaxMessage \in Nat
              /\ Length(k) \in 0 .. MaxMessage
              /\ k * MaxMessage + Length(k) <= size
              /\ k < Datagrams - 1 => (k + 1) * MaxMessage = k * MaxMessage + Length(k)
              /\ k = Datagrams - 1 => k * MaxMessage + Length(k) = size
<1>1. size \in Nat \ {0} /\ MaxMessage \in Nat \ {0}
  BY LinkAssumption
<1>2. PICK q \in Nat : q = size \div MaxMessage
  BY <1>1, QuotientBounds
<1>3. Datagrams = q + 1
  BY <1>2 DEF Datagrams
<1>4. q * MaxMessage \in Nat /\ q * MaxMessage <= size
      /\ size < q * MaxMessage + MaxMessage
  BY <1>1, <1>2, QuotientBounds
<1>5. ASSUME NEW k \in 0 .. Datagrams - 1
      PROVE  /\ k * MaxMessage \in Nat
             /\ Length(k) \in 0 .. MaxMessage
             /\ k * MaxMessage + Length(k) <= size
             /\ k < Datagrams - 1 => (k + 1) * MaxMessage = k * MaxMessage + Length(k)
             /\ k = Datagrams - 1 => k * MaxMessage + Length(k) = size
  <2>1. k \in Nat /\ k <= q
    BY <1>3
  <2>2. PICK m \in Nat : m = k * MaxMessage
    BY <1>1, <2>1, NextMultiple
  <2>3. CASE k < q
    <3>1. m + MaxMessage <= q * MaxMessage
      BY <1>1, <2>1, <2>2, <2>3, Ordered
    <3>2. Length(k) = MaxMessage
      BY <1>3, <2>3 DEF Length
    <3>3. (k + 1) * MaxMessage = m + MaxMessage
      BY <1>1, <2>1, <2>2, NextMultiple
    <3> QED
      BY <1>1, <1>3, <1>4, <2>1, <2>2, <2>3, <3>1, <3>2, <3>3
  <2>4. CASE k = q
    <3>1. Length(k) = size - m
      BY <1>3, <2>2, <2>4 DEF Length
    <3>2. m <= size /\ size < m + MaxMessage
      BY <1>4, <2>2, <2>4
    <3> QED
      BY <1>1, <1>3, <2>1, <2>2, <2>4, <3>1, <3>2
  <2> QED
    BY <2>1, <2>3, <2>4
<1> QED
  BY <1>1, <1>3, <1>5
-----------------------------------------------------------------------------
\* Datagram d of frame f, and the places of the walk: at a place, d is the
\* number of the next datagram and f the frame it goes on with, unless d is 0.
Datagram(f, d) == [b \in 0 .. Length(d) - 1 |-> <<f, d * MaxMessage + b>>]
Places == [f : 0 .. MaxFrames, d : 0 .. Datagrams - 1]

Walks(place) ==
  /\ place[0].d = received
  /\ \A b \in 0 .. received * MaxMessage - 1 : temp_arr[b] = <<place[0].f, b>>
  /\ \A k \in 1 .. Len(queue) :
       /\ queue[k] = Datagram(place[k].f, place[k - 1].d)
       /\ place[k].d = (place[k - 1].d + 1) % Datagrams
       /\ place[k - 1].d # 0 => place[k].f = place[k - 1].f
  /\ place[Len(queue)].d = IF player = "connected" THEN i ELSE 0
  /\ player = "connected" /\ i # 0 => place[Len(queue)].f = frame

InStep == ~cut /\ running /\ ok =>
  \E place \in [0 .. Len(queue) -> Places] : Walks(place)

Bytes == UNION {[0 .. n - 1 -> Cells] : n \in 0 .. MaxMessage}
Stopped == ~running \/ ~ok => queue = << >> /\ player # "connected"
Locks == /\ mutex = "run_server" <=> server = "memcpy"
         /\ mutex = "main" <=> render = "rectangle"

Whole(a) == \E f \in 0 .. MaxFrames : IsFrame(a, f)
TempWhole == ~cut /\ (server # "recvfrom" \/ ~ok) => Whole(temp_arr)
ArrWhole == ~cut => IF server = "memcpy"
                      THEN \A b \in 0 .. copied - 1 : arr[b] = temp_arr[b]
                      ELSE Whole(arr)
ImageWhole == ~cut => /\ render = "rectangle" => \A b \in 0 .. drawn - 1 : image[b] = arr[b]
                      /\ render = "imshow" => Whole(image)

IInv == /\ TypeOK /\ queue \in Seq(Bytes)
        /\ player = "none" => i = 0
        /\ server # "recvfrom" => received = 0
        /\ InStep /\ Stopped /\ Locks /\ TempWhole /\ ArrWhole /\ ImageWhole

\* The emulator as it starts.
LEMMA Starting ==
  ASSUME size \in Sizes, MaxFrames \in Nat
  PROVE  /\ Zeros(size) \in [0 .. size - 1 -> Cells] /\ Whole(Zeros(size))
         /\ [k \in 0 .. 0 |-> [f |-> 0, d |-> 0]] \in [0 .. 0 -> Places]
<1>1. size \in Nat \ {0} /\ Datagrams \in Nat \ {0}
  BY Layout
<1>2. Zeros(size) \in [0 .. size - 1 -> Cells]
  BY <1>1 DEF Zeros, Cells
<1>3. IsFrame(Zeros(size), 0)
  BY <1>1 DEF Zeros, IsFrame
<1>4. 0 \in 0 .. MaxFrames /\ 0 \in 0 .. Datagrams - 1
  BY <1>1
<1> QED
  BY <1>2, <1>3, <1>4 DEF Whole, Places

LEMMA InitIInv == Init => IInv
<1> SUFFICES ASSUME Init PROVE IInv
  OBVIOUS
<1>1. /\ size \in Sizes /\ size \in Nat \ {0} /\ Datagrams \in Nat \ {0}
      /\ MaxFrames \in Nat /\ MaxStarts \in Nat \ {0} /\ QueueLen \in Nat
  BY Layout, LinkAssumption DEF Init
<1>2. Zeros(size) \in [0 .. size - 1 -> Cells] /\ Whole(Zeros(size))
  BY <1>1, Starting
<1>3. queue = << >> /\ queue \in Seq(Bytes) /\ Len(queue) = 0
  BY DEF Init
<1>4. TypeOK
  BY <1>1, <1>2, <1>3 DEF Init, TypeOK
<1>5. InStep
  <2> DEFINE place == [k \in 0 .. 0 |-> [f |-> 0, d |-> 0]]
  <2>1. place \in [0 .. 0 -> Places] /\ place[0] = [f |-> 0, d |-> 0]
    BY <1>1, Starting
  <2>2. 0 * MaxMessage = 0
    BY LinkAssumption
  <2>3. player # "connected" /\ received = 0
    BY DEF Init
  <2>4. Walks(place)
    <3> HIDE DEF place
    <3> QED
      BY <1>3, <2>1, <2>2, <2>3 DEF Walks
  <2> QED
    BY <1>3, <2>1, <2>4 DEF InStep
<1>6. Stopped /\ Locks /\ TempWhole /\ ArrWhole /\ ImageWhole
  BY <1>2, <1>3 DEF Init, Stopped, Locks, TempWhole, ArrWhole, ImageWhole
<1>7. (player = "none" => i = 0) /\ (server # "recvfrom" => received = 0)
  BY DEF Init
<1> QED
  BY <1>3, <1>4, <1>5, <1>6, <1>7 DEF IInv
-----------------------------------------------------------------------------
\* What depends on the size alone stays.
LEMMA SameSize ==
  ASSUME UNCHANGED size
  PROVE  Datagrams' = Datagrams /\ Cells' = Cells /\ Bytes' = Bytes /\ Places' = Places
BY DEF Datagrams, Cells, Bytes, Places

LEMMA NextWalks ==
  ASSUME NEW place, UNCHANGED size
  PROVE  Walks(place)' <=>
           /\ place[0].d = received'
           /\ \A b \in 0 .. received' * MaxMessage - 1 : temp_arr'[b] = <<place[0].f, b>>
           /\ \A k \in 1 .. Len(queue') :
                /\ queue'[k] = Datagram(place[k].f, place[k - 1].d)
                /\ place[k].d = (place[k - 1].d + 1) % Datagrams
                /\ place[k - 1].d # 0 => place[k].f = place[k - 1].f
           /\ place[Len(queue')].d = IF player' = "connected" THEN i' ELSE 0
           /\ player' = "connected" /\ i' # 0 => place[Len(queue')].f = frame'
BY DEF Walks, Datagram, Length, Datagrams

\* The walk stays when neither end moves.
LEMMA WalkStays ==
  ASSUME InStep, UNCHANGED <<size, running, ok, queue, received, temp_arr>>,
         ~cut' => ~cut /\
           \/ UNCHANGED playerVars
           \/ i = 0 /\ i' = 0
           \/ player # "connected" /\ player' # "connected"
  PROVE  InStep'
<1> SUFFICES ASSUME ~cut', running', ok' PROVE InStep'
  BY DEF InStep
<1>1. PICK place \in [0 .. Len(queue) -> Places] : Walks(place)
  BY DEF InStep
<1>2. Walks(place)'
  <2>1. /\ place[Len(queue)].d = IF player' = "connected" THEN i' ELSE 0
        /\ player' = "connected" /\ i' # 0 => place[Len(queue)].f = frame'
    BY <1>1 DEF Walks, playerVars
  <2>2. /\ place[0].d = received
        /\ \A b \in 0 .. received * MaxMessage - 1 : temp_arr[b] = <<place[0].f, b>>
        /\ \A k \in 1 .. Len(queue) :
             /\ queue[k] = Datagram(place[k].f, place[k - 1].d)
             /\ place[k].d = (place[k - 1].d + 1) % Datagrams
             /\ place[k - 1].d # 0 => place[k].f = place[k - 1].f
    BY <1>1 DEF Walks
  <2>3. queue' = queue /\ received' = received /\ temp_arr' = temp_arr
    OBVIOUS
  <2> QED
    BY <2>1, <2>2, <2>3, NextWalks, Zenon
<1> QED
  BY <1>1, <1>2, SameSize DEF InStep

LEMMA ConnectStep == IInv /\ Connect => IInv'
<1> SUFFICES ASSUME IInv, Connect PROVE IInv'
  OBVIOUS
<1>1. /\ player = "none" /\ player' = "connected" /\ running /\ ok /\ i = 0
      /\ UNCHANGED <<lifeVars, frame, i, queue, serverVars, mutex, renderVars, cut>>
  BY DEF Connect, IInv
<1>2. InStep'
  BY <1>1, WalkStays DEF IInv, lifeVars, serverVars
<1>3. TypeOK'
  BY <1>1, SameSize DEF IInv, TypeOK, lifeVars, serverVars, renderVars
<1> QED
  BY <1>1, <1>2, <1>3, SameSize DEF IInv, Stopped, Locks, TempWhole, ArrWhole, ImageWhole,
     lifeVars, serverVars, renderVars

LEMMA PlayerStopsStep == IInv /\ PlayerStops => IInv'
<1> SUFFICES ASSUME IInv, PlayerStops PROVE IInv'
  OBVIOUS
<1>1. /\ player' = "none" /\ i' = 0
      /\ cut' = (cut \/ (player = "connected" /\ i # 0))
      /\ UNCHANGED <<lifeVars, frame, queue, serverVars, mutex, renderVars>>
  BY DEF PlayerStops
<1>2. InStep'
  BY <1>1, WalkStays DEF IInv, lifeVars, serverVars
<1>3. TypeOK'
  <2>1. 0 \in 0 .. Datagrams - 1
    BY Layout DEF IInv, TypeOK
  <2>2. cut' \in BOOLEAN
    BY <1>1 DEF IInv, TypeOK
  <2> QED
    BY <1>1, <2>1, <2>2, SameSize DEF IInv, TypeOK, lifeVars, serverVars, renderVars
<1> QED
  BY <1>1, <1>2, <1>3, SameSize DEF IInv, Stopped, Locks, TempWhole, ArrWhole, ImageWhole,
     lifeVars, serverVars, renderVars

\* A datagram is bytes of its frame.
LEMMA DatagramBytes ==
  ASSUME size \in Sizes, NEW f \in 0 .. MaxFrames, NEW d \in 0 .. Datagrams - 1
  PROVE  /\ Datagram(f, d) \in Bytes
         /\ DOMAIN Datagram(f, d) \subseteq 0 .. MaxMessage - 1
         /\ \A b \in DOMAIN Datagram(f, d) : Datagram(f, d)[b] \in Cells
<1>1. /\ size \in Nat /\ MaxMessage \in Nat /\ Length(d) \in 0 .. MaxMessage
      /\ d * MaxMessage \in Nat /\ d * MaxMessage + Length(d) <= size
  BY Layout
<1>2. PICK m \in Nat : m = d * MaxMessage
  BY <1>1
<1>3. \A b \in 0 .. Length(d) - 1 : <<f, m + b>> \in Cells
  BY <1>1, <1>2 DEF Cells
<1>4. Datagram(f, d) \in [0 .. Length(d) - 1 -> Cells]
  BY <1>2, <1>3 DEF Datagram
<1>5. Datagram(f, d) \in Bytes
  BY <1>1, <1>4 DEF Bytes
<1> QED
  BY <1>1, <1>4, <1>5

\* A frame's next datagram lengthens the walk.
LEMMA SentWalks ==
  ASSUME IInv, player = "connected", UNCHANGED <<lifeVars, player, serverVars, cut>>,
         NEW f \in 0 .. MaxFrames, i # 0 => f = frame,
         queue' = Append(queue, Datagram(f, i)),
         i' = (i + 1) % Datagrams, frame' = f
  PROVE  InStep'
<1> SUFFICES ASSUME ~cut', running', ok' PROVE InStep'
  BY DEF InStep
<1>1. PICK place \in [0 .. Len(queue) -> Places] : Walks(place)
  BY DEF IInv, InStep, lifeVars
<1>2. /\ size \in Sizes /\ i \in 0 .. Datagrams - 1 /\ Datagrams \in Nat \ {0}
      /\ queue \in Seq(Bytes) /\ UNCHANGED <<size, received, temp_arr>>
  BY Layout DEF IInv, TypeOK, lifeVars, serverVars
<1>3. i' \in 0 .. Datagrams - 1
  BY <1>2, Cyclic
<1>4. Datagram(f, i) \in Bytes
  BY <1>2, DatagramBytes
<1> DEFINE n == Len(queue)
           last == [f |-> f, d |-> i']
           longer == [k \in 0 .. n + 1 |-> IF k = n + 1 THEN last ELSE place[k]]
<1>5. /\ n \in Nat /\ Len(queue') = n + 1
      /\ queue'[n + 1] = Datagram(f, i)
      /\ \A k \in 1 .. n : queue'[k] = queue[k]
  BY <1>2, <1>4
<1>6. last \in Places /\ longer \in [0 .. n + 1 -> Places]
  BY <1>3, <1>5 DEF Places
<1>7. PICK next \in [0 .. n + 1 -> Places] :
        /\ next[n + 1].f = f /\ next[n + 1].d = i'
        /\ \A k \in 0 .. n : next[k] = place[k]
  <2>1. /\ longer[n + 1].f = f /\ longer[n + 1].d = i'
        /\ \A k \in 0 .. n : longer[k] = place[k]
    BY <1>5
  <2> HIDE DEF longer
  <2> QED
    BY <1>6, <2>1
<1> HIDE DEF n, last, longer
<1>8. /\ place[0].d = received
      /\ \A b \in 0 .. received * MaxMessage - 1 : temp_arr[b] = <<place[0].f, b>>
      /\ \A k \in 1 .. n : /\ queue[k] = Datagram(place[k].f, place[k - 1].d)
                           /\ place[k].d = (place[k - 1].d + 1) % Datagrams
                           /\ place[k - 1].d # 0 => place[k].f = place[k - 1].f
      /\ place[n].d = i
      /\ i # 0 => place[n].f = frame
  BY <1>1 DEF Walks, n
<1>9. \A k \in 1 .. n + 1 :
        /\ queue'[k] = Datagram(next[k].f, next[k - 1].d)
        /\ next[k].d = (next[k - 1].d + 1) % Datagrams
        /\ next[k - 1].d # 0 => next[k].f = next[k - 1].f
  <2> TAKE k \in 1 .. n + 1
  <2>1. CASE k = n + 1
    <3>1. next[k - 1] = place[n] /\ next[k] = next[n + 1] /\ queue'[k] = queue'[n + 1]
      BY <1>5, <1>7, <2>1
    <3> QED
      BY <1>5, <1>7, <1>8, <3>1
  <2>2. CASE k \in 1 .. n
    <3>1. k \in 0 .. n /\ k - 1 \in 0 .. n
      BY <1>5, <2>2
    <3>2. next[k] = place[k] /\ next[k - 1] = place[k - 1] /\ queue'[k] = queue[k]
      BY <1>5, <1>7, <2>2, <3>1
    <3> QED
      BY <1>8, <2>2, <3>2
  <2> QED
    BY <1>5, <2>1, <2>2
<1>10. next[0] = place[0]
  BY <1>5, <1>7
<1>11. /\ next[0].d = received'
       /\ \A b \in 0 .. received' * MaxMessage - 1 : temp_arr'[b] = <<next[0].f, b>>
  BY <1>2, <1>8, <1>10
<1>12. \A k \in 1 .. Len(queue') :
         /\ queue'[k] = Datagram(next[k].f, next[k - 1].d)
         /\ next[k].d = (next[k - 1].d + 1) % Datagrams
         /\ next[k - 1].d # 0 => next[k].f = next[k - 1].f
  BY <1>5, <1>9
<1>13. /\ next[Len(queue')].d = IF player' = "connected" THEN i' ELSE 0
       /\ player' = "connected" /\ i' # 0 => next[Len(queue')].f = frame'
  BY <1>5, <1>7
<1>14. Walks(next)'
  <2>1. UNCHANGED size
    BY <1>2
  <2> QED
    BY <1>11, <1>12, <1>13, <2>1, NextWalks, Zenon
<1>15. next \in [0 .. Len(queue') -> Places']
  BY <1>2, <1>5, SameSize
<1> QED
  BY <1>14, <1>15 DEF InStep

LEMMA DisplayFrameStep == IInv /\ display_frame => IInv'
<1> SUFFICES ASSUME IInv, display_frame PROVE IInv'
  OBVIOUS
<1> DEFINE f == IF i = 0 THEN frame + 1 ELSE frame
<1>1. /\ frame' = f /\ (i # 0 \/ frame < MaxFrames)
      /\ UNCHANGED <<lifeVars, player, serverVars, mutex, renderVars, cut>>
  BY DEF display_frame
<1>2. f \in 0 .. MaxFrames /\ (i # 0 => f = frame)
  BY <1>1, LinkAssumption DEF IInv, TypeOK
<1>3. UNCHANGED size /\ size \in Sizes /\ i \in 0 .. Datagrams - 1 /\ Datagrams \in Nat \ {0}
  BY <1>1, Layout DEF IInv, TypeOK, lifeVars
<1>4. CASE /\ player = "connected" /\ Len(queue) < QueueLen
           /\ queue' = Append(queue, [b \in 0 .. Length(i) - 1 |-> <<f, i * MaxMessage + b>>])
           /\ i' = (i + 1) % Datagrams
  <2>1. queue' = Append(queue, Datagram(f, i))
    BY <1>4 DEF Datagram
  <2>2. InStep'
    BY <1>1, <1>2, <1>4, <2>1, SentWalks
  <2>3. i' \in 0 .. Datagrams - 1
    BY <1>3, <1>4, Cyclic
  <2>4. /\ Datagram(f, i) \in Bytes
        /\ DOMAIN Datagram(f, i) \subseteq 0 .. MaxMessage - 1
        /\ \A b \in DOMAIN Datagram(f, i) : Datagram(f, i)[b] \in Cells
    BY <1>2, <1>3, DatagramBytes
  <2> HIDE DEF f
  <2>5. /\ Len(queue') <= QueueLen /\ queue' \in Seq(Bytes)
        /\ \A k \in DOMAIN queue' : /\ DOMAIN queue'[k] \subseteq 0 .. MaxMessage - 1
                                    /\ \A b \in DOMAIN queue'[k] : queue'[k][b] \in Cells
    <3>1. queue \in Seq(Bytes) /\ QueueLen \in Nat
      BY LinkAssumption DEF IInv
    <3>2. /\ queue' \in Seq(Bytes) /\ Len(queue') = Len(queue) + 1
          /\ DOMAIN queue' = 1 .. Len(queue) + 1
          /\ queue'[Len(queue) + 1] = Datagram(f, i)
          /\ \A k \in 1 .. Len(queue) : queue'[k] = queue[k]
      BY <2>1, <2>4, <3>1
    <3>3. \A k \in 1 .. Len(queue) : /\ DOMAIN queue[k] \subseteq 0 .. MaxMessage - 1
                                     /\ \A b \in DOMAIN queue[k] : queue[k][b] \in Cells
      BY <3>1 DEF IInv, TypeOK
    <3>4. ASSUME NEW k \in DOMAIN queue'
          PROVE  /\ DOMAIN queue'[k] \subseteq 0 .. MaxMessage - 1
                 /\ \A b \in DOMAIN queue'[k] : queue'[k][b] \in Cells
      <4>1. k \in 1 .. Len(queue) \/ k = Len(queue) + 1
        BY <3>1, <3>2
      <4> QED
        BY <2>4, <3>2, <3>3, <4>1
    <3>5. Len(queue') <= QueueLen
      BY <1>4, <3>1, <3>2
    <3> QED
      BY <3>2, <3>4, <3>5
  <2>6. TypeOK'
    BY <1>1, <1>2, <1>3, <2>3, <2>5, SameSize DEF IInv, TypeOK, lifeVars, serverVars, renderVars
  <2>7. queue' \in Seq(Bytes')
    BY <1>3, <2>5, SameSize
  <2> QED
    BY <1>1, <1>4, <2>2, <2>6, <2>7 DEF IInv, Stopped, Locks, TempWhole, ArrWhole,
       ImageWhole, lifeVars, serverVars, renderVars
<1>5. CASE player = "refused" /\ i' = 0 /\ UNCHANGED queue
  <2>1. InStep'
    BY <1>1, <1>5, WalkStays DEF IInv, lifeVars, serverVars
  <2>2. TypeOK'
    <3>1. 0 \in 0 .. Datagrams - 1
      BY <1>3
    <3> QED
      BY <1>1, <1>2, <1>3, <1>5, <3>1, SameSize DEF IInv, TypeOK, lifeVars, serverVars, renderVars
  <2> QED
    BY <1>1, <1>3, <1>5, <2>1, <2>2, SameSize DEF IInv, Stopped, Locks, TempWhole, ArrWhole,
       ImageWhole, lifeVars, serverVars, renderVars
<1> QED
  BY <1>4, <1>5 DEF display_frame

\* A datagram received moves run_server on along the walk, and the last of a
\* frame completes it.
LEMMA ReceivedWalks ==
  ASSUME IInv, recvfrom, ok, ~cut
  PROVE  InStep' /\ (received' = 0 => Whole(temp_arr'))
<1>1. /\ size \in Sizes /\ size \in Nat \ {0} /\ MaxMessage \in Nat \ {0}
      /\ received \in 0 .. Datagrams - 1 /\ Datagrams \in Nat \ {0}
      /\ queue \in Seq(Bytes) /\ queue # << >> /\ DOMAIN temp_arr = 0 .. size - 1
      /\ UNCHANGED <<size, player, i, frame, cut, ok>>
  BY Layout DEF IInv, TypeOK, recvfrom, lifeVars, playerVars
<1>2. PICK place \in [0 .. Len(queue) -> Places] : Walks(place)
  BY DEF IInv, InStep, recvfrom
<1>3. PICK m \in Nat : m = received * MaxMessage
  BY <1>1, Layout
<1>4. /\ Length(received) \in 0 .. MaxMessage /\ m + Length(received) <= size
      /\ received < Datagrams - 1 => (received + 1) * MaxMessage = m + Length(received)
      /\ received = Datagrams - 1 => m + Length(received) = size
  BY <1>1, <1>3, Layout
<1> DEFINE n == Len(queue)
<1>5. /\ n \in Nat \ {0} /\ queue' = Tail(queue) /\ Len(queue') = n - 1
      /\ \A k \in 1 .. n - 1 : queue'[k] = queue[k + 1]
      /\ Head(queue) = queue[1]
  BY <1>1 DEF recvfrom
<1> HIDE DEF n
<1>6. /\ place[0].d = received
      /\ \A b \in 0 .. m - 1 : temp_arr[b] = <<place[0].f, b>>
      /\ \A k \in 1 .. n : /\ queue[k] = Datagram(place[k].f, place[k - 1].d)
                           /\ place[k].d = (place[k - 1].d + 1) % Datagrams
                           /\ place[k - 1].d # 0 => place[k].f = place[k - 1].f
      /\ place[n].d = IF player = "connected" THEN i ELSE 0
      /\ player = "connected" /\ i # 0 => place[n].f = frame
  BY <1>2, <1>3 DEF Walks, n
<1>7. /\ Head(queue) = Datagram(place[1].f, received)
      /\ place[1].d = (received + 1) % Datagrams
      /\ received # 0 => place[1].f = place[0].f
  BY <1>5, <1>6
<1>8. received' = (received + 1) % Datagrams
  BY DEF recvfrom
<1>9. \A b \in 0 .. m + Length(received) - 1 : temp_arr'[b] = <<place[1].f, b>>
  <2> TAKE b \in 0 .. m + Length(received) - 1
  <2>1. temp_arr'[b] = IF b - m < Length(received) /\ b - m \in DOMAIN Head(queue)
                         THEN Head(queue)[b - m] ELSE temp_arr[b]
    <3>1. temp_arr' = [c \in DOMAIN temp_arr |->
             LET k == c - received * MaxMessage
             IN  IF k < Length(received) /\ k \in DOMAIN Head(queue)
                   THEN Head(queue)[k] ELSE temp_arr[c]]
      BY <1>1 DEF recvfrom
    <3>2. b \in DOMAIN temp_arr
      BY <1>1, <1>4
    <3> QED
      BY <1>3, <3>1, <3>2
  <2>2. /\ DOMAIN Head(queue) = 0 .. Length(received) - 1
        /\ \A k \in 0 .. Length(received) - 1 : Head(queue)[k] = <<place[1].f, m + k>>
    BY <1>3, <1>7 DEF Datagram
  <2>3. CASE b < m
    <3>1. received # 0
      BY <1>1, <1>3, <2>3
    <3>2. b \in 0 .. m - 1 /\ b - m \notin 0 .. Length(received) - 1
      BY <2>3
    <3> QED
      BY <1>6, <1>7, <2>1, <2>2, <3>1, <3>2
  <2>4. CASE b >= m
    <3>1. b - m \in 0 .. Length(received) - 1 /\ m + (b - m) = b /\ b - m < Length(received)
      BY <1>4, <2>4
    <3>2. Head(queue)[b - m] = <<place[1].f, b>>
      BY <2>2, <3>1
    <3> QED
      BY <2>1, <2>2, <3>1, <3>2
  <2> QED
    BY <2>3, <2>4
<1>10. received' = 0 => Whole(temp_arr')
  <2> SUFFICES ASSUME received' = 0 PROVE Whole(temp_arr')
    OBVIOUS
  <2>1. received = Datagrams - 1
    <3>1. (received + 1) % Datagrams = IF received + 1 = Datagrams THEN 0 ELSE received + 1
      BY <1>1, Cyclic, Zenon
    <3> QED
      BY <1>1, <1>8, <3>1
  <2>2. DOMAIN temp_arr' = 0 .. size - 1
    BY <1>1 DEF recvfrom
  <2>3. place[1].f \in 0 .. MaxFrames
    BY <1>5 DEF n, Places
  <2>4. IsFrame(temp_arr', place[1].f)
    BY <1>4, <1>9, <2>1, <2>2 DEF IsFrame
  <2> QED
    BY <2>3, <2>4 DEF Whole
<1>11. PICK next \in [0 .. n - 1 -> Places] : \A k \in 0 .. n - 1 : next[k] = place[k + 1]
  <2>1. [k \in 0 .. n - 1 |-> place[k + 1]] \in [0 .. n - 1 -> Places]
    BY <1>5 DEF n
  <2> QED
    BY <2>1
<1>12. /\ next[0].d = received'
       /\ \A b \in 0 .. received' * MaxMessage - 1 : temp_arr'[b] = <<next[0].f, b>>
  <2>1. next[0] = place[1]
    BY <1>5, <1>11
  <2>2. CASE received < Datagrams - 1
    <3>1. received' = received + 1
      <4>1. (received + 1) % Datagrams = IF received + 1 = Datagrams THEN 0 ELSE received + 1
        BY <1>1, Cyclic, Zenon
      <4> QED
        BY <1>1, <1>8, <2>2, <4>1
    <3> QED
      BY <1>4, <1>7, <1>8, <1>9, <2>1, <2>2, <3>1
  <2>3. CASE received = Datagrams - 1
    <3>1. received' = 0 /\ 0 * MaxMessage = 0
      BY <1>1, <1>8, <2>3, Cyclic
    <3> QED
      BY <1>7, <1>8, <2>1, <3>1
  <2> QED
    BY <1>1, <2>2, <2>3
<1>13. \A k \in 1 .. Len(queue') :
         /\ queue'[k] = Datagram(next[k].f, next[k - 1].d)
         /\ next[k].d = (next[k - 1].d + 1) % Datagrams
         /\ next[k - 1].d # 0 => next[k].f = next[k - 1].f
  <2> TAKE k \in 1 .. Len(queue')
  <2>1. k \in 1 .. n - 1 /\ k \in 0 .. n - 1 /\ k - 1 \in 0 .. n - 1 /\ k + 1 \in 1 .. n
        /\ (k + 1) - 1 = k /\ (k - 1) + 1 = k
    BY <1>5
  <2>2. next[k] = place[k + 1] /\ next[k - 1] = place[k] /\ queue'[k] = queue[k + 1]
    BY <1>5, <1>11, <2>1
  <2>3. /\ queue[k + 1] = Datagram(place[k + 1].f, place[(k + 1) - 1].d)
        /\ place[k + 1].d = (place[(k + 1) - 1].d + 1) % Datagrams
        /\ place[(k + 1) - 1].d # 0 => place[k + 1].f = place[(k + 1) - 1].f
    BY <1>6, <2>1
  <2> QED
    BY <2>1, <2>2, <2>3
<1>14. /\ next[Len(queue')].d = IF player' = "connected" THEN i' ELSE 0
       /\ player' = "connected" /\ i' # 0 => next[Len(queue')].f = frame'
  <2>1. next[Len(queue')] = place[n]
    BY <1>5, <1>11
  <2> QED
    BY <1>1, <1>6, <2>1
<1>15. Walks(next)'
  <2>1. UNCHANGED size
    BY <1>1
  <2> QED
    BY <1>12, <1>13, <1>14, <2>1, NextWalks, Zenon
<1>16. next \in [0 .. Len(queue') -> Places']
  BY <1>1, <1>5, SameSize
<1> QED
  BY <1>10, <1>15, <1>16 DEF InStep

LEMMA RecvfromStep == IInv /\ recvfrom => IInv'
<1> SUFFICES ASSUME IInv, recvfrom PROVE IInv'
  OBVIOUS
<1>1. /\ running /\ server = "recvfrom"
      /\ received' = (received + 1) % Datagrams
      /\ server' = IF received' = 0 THEN "mutex_lock" ELSE "recvfrom"
      /\ UNCHANGED <<lifeVars, playerVars, arr, copied, mutex, renderVars, cut>>
      /\ UNCHANGED size
  BY DEF recvfrom, lifeVars
<1>2. /\ size \in Sizes /\ size \in Nat \ {0} /\ received \in 0 .. Datagrams - 1
      /\ Datagrams \in Nat \ {0} /\ queue \in Seq(Bytes) /\ MaxMessage \in Nat
  BY Layout DEF IInv, TypeOK
<1>3. received' \in 0 .. Datagrams - 1
  BY <1>1, <1>2, Cyclic
<1>4. /\ temp_arr' \in [0 .. size - 1 -> Cells] /\ Len(queue') <= QueueLen
      /\ queue' \in Seq(Bytes)
      /\ \A k \in DOMAIN queue' : /\ DOMAIN queue'[k] \subseteq 0 .. MaxMessage - 1
                                  /\ \A b \in DOMAIN queue'[k] : queue'[k][b] \in Cells
  <2>1. /\ temp_arr \in [0 .. size - 1 -> Cells] /\ Len(queue) <= QueueLen
        /\ \A k \in DOMAIN queue : /\ DOMAIN queue[k] \subseteq 0 .. MaxMessage - 1
                                   /\ \A b \in DOMAIN queue[k] : queue[k][b] \in Cells
    BY DEF IInv, TypeOK
  <2>2. CASE UNCHANGED <<temp_arr, queue>>
    BY <1>2, <2>1, <2>2
  <2>3. CASE /\ queue # << >> /\ queue' = Tail(queue)
             /\ temp_arr' = [b \in DOMAIN temp_arr |->
                  LET k == b - received * MaxMessage
                  IN  IF k < Length(received) /\ k \in DOMAIN Head(queue)
                        THEN Head(queue)[k] ELSE temp_arr[b]]
    <3>1. /\ Len(queue) \in Nat \ {0} /\ Head(queue) = queue[1] /\ 1 \in DOMAIN queue
          /\ queue' \in Seq(Bytes) /\ Len(queue') = Len(queue) - 1
          /\ \A k \in DOMAIN queue' : k + 1 \in DOMAIN queue /\ queue'[k] = queue[k + 1]
      BY <1>2, <2>3
    <3>2. \A k \in DOMAIN Head(queue) : Head(queue)[k] \in Cells
      BY <2>1, <3>1
    <3>3. temp_arr' \in [0 .. size - 1 -> Cells]
      BY <2>1, <2>3, <3>2
    <3>4. Len(queue') <= QueueLen
      BY <2>1, <3>1, LinkAssumption
    <3> QED
      BY <2>1, <3>1, <3>3, <3>4
  <2> QED
    BY <2>2, <2>3 DEF recvfrom
<1>5. TypeOK'
  BY <1>1, <1>2, <1>3, <1>4, SameSize
     DEF IInv, TypeOK, lifeVars, playerVars, serverVars, renderVars
<1>6. /\ InStep'
      /\ ~cut' /\ (server' # "recvfrom" \/ ~ok') => Whole(temp_arr')
  <2>1. CASE cut
    BY <1>1, <2>1 DEF InStep
  <2>2. CASE ~cut /\ ok
    <3>1. InStep' /\ (received' = 0 => Whole(temp_arr'))
      BY <2>2, ReceivedWalks
    <3> QED
      BY <1>1, <2>2, <3>1 DEF lifeVars
  <2>3. CASE ~cut /\ ~ok
    <3>1. UNCHANGED <<temp_arr, ok>>
      BY <1>1, <2>3 DEF recvfrom, lifeVars
    <3> QED
      BY <2>3, <3>1 DEF InStep, IInv, TempWhole
  <2> QED
    BY <2>1, <2>2, <2>3
<1>7. Stopped'
  <2>1. ok \/ UNCHANGED queue
    BY DEF recvfrom
  <2> QED
    BY <1>1, <2>1 DEF IInv, Stopped, lifeVars, playerVars
<1>8. Locks' /\ ArrWhole' /\ ImageWhole'
  BY <1>1 DEF IInv, Locks, ArrWhole, ImageWhole, renderVars
<1>9. queue' \in Seq(Bytes') /\ (player' = "none" => i' = 0)
      /\ (server' # "recvfrom" => received' = 0)
  BY <1>1, <1>4, SameSize DEF IInv, playerVars
<1> QED
  BY <1>5, <1>6, <1>7, <1>8, <1>9 DEF IInv, TempWhole
-----------------------------------------------------------------------------
\* The threads' other steps leave the link alone.
LinkAlone == UNCHANGED <<lifeVars, playerVars, queue, received, temp_arr, cut>>

LEMMA LinkStays ==
  ASSUME IInv, LinkAlone
  PROVE  /\ InStep' /\ Stopped' /\ queue' \in Seq(Bytes') /\ (player' = "none" => i' = 0)
         /\ UNCHANGED <<size, cut, ok, received>>
<1>1. UNCHANGED <<size, running, ok, queue, received, temp_arr, cut, playerVars>>
  BY DEF LinkAlone, lifeVars
<1>2. InStep'
  BY <1>1, WalkStays DEF IInv
<1> QED
  BY <1>1, <1>2, SameSize DEF IInv, Stopped, playerVars

LEMMA ServerLocksStep == IInv /\ ServerLocks => IInv'
<1> SUFFICES ASSUME IInv, ServerLocks PROVE IInv'
  OBVIOUS
<1>1. /\ server = "mutex_lock" /\ mutex = "free"
      /\ mutex' = "run_server" /\ server' = "memcpy" /\ copied' = 0
      /\ LinkAlone /\ UNCHANGED <<arr, renderVars>>
  BY DEF ServerLocks, LinkAlone, serverVars
<1>2. 0 \in 0 .. size
  BY Layout DEF IInv, TypeOK
<1>3. TypeOK'
  BY <1>1, <1>2, SameSize DEF IInv, TypeOK, LinkAlone, lifeVars, playerVars, renderVars
<1>4. TempWhole' /\ ArrWhole' /\ ImageWhole' /\ Locks'
  BY <1>1 DEF IInv, TempWhole, ArrWhole, ImageWhole, Locks, LinkAlone, lifeVars, renderVars
<1> QED
  BY <1>1, <1>3, <1>4, LinkStays DEF IInv

LEMMA MemcpyStep == IInv /\ memcpy => IInv'
<1> SUFFICES ASSUME IInv, memcpy PROVE IInv'
  OBVIOUS
<1>1. /\ server = "memcpy" /\ mutex = "run_server" /\ render # "rectangle"
      /\ LinkAlone /\ UNCHANGED renderVars
  BY DEF memcpy, LinkAlone, IInv, Locks
<1>2. /\ size \in Nat \ {0} /\ temp_arr \in [0 .. size - 1 -> Cells]
      /\ arr \in [0 .. size - 1 -> Cells] /\ copied \in 0 .. size
  BY Layout DEF IInv, TypeOK
<1>3. CASE /\ copied < size
           /\ arr' = [arr EXCEPT ![copied] = temp_arr[copied]]
           /\ copied' = copied + 1
           /\ UNCHANGED <<server, mutex>>
  <2>1. arr' \in [0 .. size - 1 -> Cells] /\ copied' \in 0 .. size
    BY <1>2, <1>3
  <2>2. TypeOK'
    BY <1>1, <1>3, <2>1, SameSize DEF IInv, TypeOK, LinkAlone, lifeVars, playerVars, renderVars
  <2>3. ArrWhole'
    <3> SUFFICES ASSUME ~cut, NEW b \in 0 .. copied PROVE arr'[b] = temp_arr[b]
      BY <1>1, <1>2, <1>3 DEF ArrWhole, LinkAlone
    <3>1. \A c \in 0 .. copied - 1 : arr[c] = temp_arr[c]
      BY <1>1 DEF IInv, ArrWhole
    <3>2. b \in 0 .. copied - 1 \/ b = copied
      BY <1>2
    <3> QED
      BY <1>2, <1>3, <3>1, <3>2
  <2>4. TempWhole' /\ ImageWhole' /\ Locks'
    BY <1>1, <1>3 DEF IInv, TempWhole, ImageWhole, Locks, LinkAlone, lifeVars, renderVars
  <2> QED
    BY <1>1, <1>3, <2>2, <2>3, <2>4, LinkStays DEF IInv
<1>4. CASE /\ copied = size /\ mutex' = "free" /\ server' = "recvfrom"
           /\ UNCHANGED <<arr, copied>>
  <2>1. TypeOK'
    BY <1>1, <1>4, SameSize DEF IInv, TypeOK, LinkAlone, lifeVars, playerVars, renderVars
  <2>2. ~cut => Whole(arr)
    <3> SUFFICES ASSUME ~cut PROVE Whole(arr)
      OBVIOUS
    <3>1. PICK f \in 0 .. MaxFrames : IsFrame(temp_arr, f)
      BY <1>1 DEF IInv, TempWhole, Whole
    <3>2. \A b \in 0 .. size - 1 : arr[b] = temp_arr[b]
      BY <1>1, <1>4 DEF IInv, ArrWhole
    <3>3. IsFrame(arr, f)
      BY <1>2, <3>1, <3>2 DEF IsFrame
    <3> QED
      BY <3>3 DEF Whole
  <2>3. TempWhole' /\ ArrWhole' /\ ImageWhole' /\ Locks'
    BY <1>1, <1>4, <2>2
       DEF IInv, TempWhole, ArrWhole, ImageWhole, Locks, LinkAlone, lifeVars, renderVars
  <2> QED
    BY <1>1, <1>4, <2>1, <2>3, LinkStays DEF IInv
<1> QED
  BY <1>3, <1>4 DEF memcpy

LEMMA RenderLocksStep == IInv /\ RenderLocks => IInv'
<1> SUFFICES ASSUME IInv, RenderLocks PROVE IInv'
  OBVIOUS
<1>1. /\ render = "mutex_lock" /\ mutex = "free"
      /\ mutex' = "main" /\ render' = "rectangle" /\ drawn' = 0
      /\ LinkAlone /\ UNCHANGED <<server, arr, copied, image>>
  BY DEF RenderLocks, LinkAlone, serverVars
<1>2. 0 \in 0 .. size
  BY Layout DEF IInv, TypeOK
<1>3. TypeOK'
  BY <1>1, <1>2, SameSize DEF IInv, TypeOK, LinkAlone, lifeVars, playerVars
<1>4. TempWhole' /\ ArrWhole' /\ ImageWhole' /\ Locks'
  BY <1>1 DEF IInv, TempWhole, ArrWhole, ImageWhole, Locks, LinkAlone, lifeVars
<1> QED
  BY <1>1, <1>3, <1>4, LinkStays DEF IInv

LEMMA RectangleStep == IInv /\ rectangle => IInv'
<1> SUFFICES ASSUME IInv, rectangle PROVE IInv'
  OBVIOUS
<1>1. /\ render = "rectangle" /\ mutex = "main" /\ server # "memcpy"
      /\ LinkAlone /\ UNCHANGED <<server, arr, copied>>
  BY DEF rectangle, LinkAlone, IInv, Locks, serverVars
<1>2. /\ size \in Nat \ {0} /\ image \in [0 .. size - 1 -> Cells]
      /\ arr \in [0 .. size - 1 -> Cells] /\ drawn \in 0 .. size
  BY Layout DEF IInv, TypeOK
<1>3. CASE /\ drawn < size
           /\ image' = [image EXCEPT ![drawn] = arr[drawn]]
           /\ drawn' = drawn + 1
           /\ UNCHANGED <<render, mutex>>
  <2>1. image' \in [0 .. size - 1 -> Cells] /\ drawn' \in 0 .. size
    BY <1>2, <1>3
  <2>2. TypeOK'
    BY <1>1, <1>3, <2>1, SameSize DEF IInv, TypeOK, LinkAlone, lifeVars, playerVars
  <2>3. ImageWhole'
    <3> SUFFICES ASSUME ~cut, NEW b \in 0 .. drawn PROVE image'[b] = arr[b]
      BY <1>1, <1>2, <1>3 DEF ImageWhole, LinkAlone
    <3>1. \A c \in 0 .. drawn - 1 : image[c] = arr[c]
      BY <1>1 DEF IInv, ImageWhole
    <3>2. b \in 0 .. drawn - 1 \/ b = drawn
      BY <1>2
    <3> QED
      BY <1>2, <1>3, <3>1, <3>2
  <2>4. TempWhole' /\ ArrWhole' /\ Locks'
    BY <1>1, <1>3 DEF IInv, TempWhole, ArrWhole, Locks, LinkAlone, lifeVars
  <2> QED
    BY <1>1, <1>3, <2>2, <2>3, <2>4, LinkStays DEF IInv
<1>4. CASE /\ drawn = size /\ mutex' = "free" /\ render' = "imshow"
           /\ UNCHANGED <<image, drawn>>
  <2>1. TypeOK'
    BY <1>1, <1>4, SameSize DEF IInv, TypeOK, LinkAlone, lifeVars, playerVars
  <2>2. ~cut => Whole(image)
    <3> SUFFICES ASSUME ~cut PROVE Whole(image)
      OBVIOUS
    <3>1. PICK f \in 0 .. MaxFrames : IsFrame(arr, f)
      BY <1>1 DEF IInv, ArrWhole, Whole
    <3>2. \A b \in 0 .. size - 1 : image[b] = arr[b]
      BY <1>1, <1>4 DEF IInv, ImageWhole
    <3>3. IsFrame(image, f)
      BY <1>2, <3>1, <3>2 DEF IsFrame
    <3> QED
      BY <3>3 DEF Whole
  <2>3. TempWhole' /\ ArrWhole' /\ ImageWhole' /\ Locks'
    BY <1>1, <1>4, <2>2
       DEF IInv, TempWhole, ArrWhole, ImageWhole, Locks, LinkAlone, lifeVars
  <2> QED
    BY <1>1, <1>4, <2>1, <2>3, LinkStays DEF IInv
<1> QED
  BY <1>3, <1>4 DEF rectangle

LEMMA ImshowStep == IInv /\ imshow => IInv'
<1> SUFFICES ASSUME IInv, imshow PROVE IInv'
  OBVIOUS
<1>1. /\ render = "imshow" /\ render' = "mutex_lock"
      /\ LinkAlone /\ UNCHANGED <<server, arr, copied, mutex, drawn, image>>
  BY DEF imshow, LinkAlone, serverVars
<1>2. TypeOK'
  BY <1>1, SameSize DEF IInv, TypeOK, LinkAlone, lifeVars, playerVars
<1>3. TempWhole' /\ ArrWhole' /\ ImageWhole' /\ Locks'
  BY <1>1 DEF IInv, TempWhole, ArrWhole, ImageWhole, Locks, LinkAlone, lifeVars
<1> QED
  BY <1>1, <1>2, <1>3, LinkStays DEF IInv

LEMMA StopStep == IInv /\ stop => IInv'
<1> SUFFICES ASSUME IInv, stop PROVE IInv'
  OBVIOUS
<1>1. /\ running' = FALSE /\ queue' = << >>
      /\ player' = IF player = "connected" THEN "refused" ELSE player
      /\ UNCHANGED <<size, starts, ok, frame, i, serverVars, mutex, renderVars, cut>>
  BY DEF stop
<1>2. TypeOK'
  <2>1. /\ Len(queue') <= QueueLen
        /\ \A k \in DOMAIN queue' : /\ DOMAIN queue'[k] \subseteq 0 .. MaxMessage - 1
                                    /\ \A b \in DOMAIN queue'[k] : queue'[k][b] \in Cells
    <3>1. QueueLen \in Nat /\ Len(queue') = 0 /\ DOMAIN queue' = {}
      BY <1>1, LinkAssumption
    <3> QED
      BY <3>1
  <2>2. player' \in {"none", "connected", "refused"}
    BY <1>1 DEF IInv, TypeOK
  <2>3. UNCHANGED <<size, starts, ok, frame, i, server, received, temp_arr, arr, copied,
                    mutex, render, drawn, image, cut>>
    BY <1>1 DEF serverVars, renderVars
  <2>4. running' \in BOOLEAN
    BY <1>1
  <2> QED
    BY <2>1, <2>2, <2>3, <2>4, SameSize DEF IInv, TypeOK
<1>3. InStep' /\ Stopped' /\ queue' \in Seq(Bytes') /\ (player' = "none" => i' = 0)
  BY <1>1 DEF IInv, InStep, Stopped
<1>4. TempWhole' /\ ArrWhole' /\ ImageWhole' /\ Locks' /\ (server' # "recvfrom" => received' = 0)
  BY <1>1 DEF IInv, TempWhole, ArrWhole, ImageWhole, Locks, serverVars, renderVars
<1> QED
  BY <1>2, <1>3, <1>4 DEF IInv

LEMMA StartStep == IInv /\ start => IInv'
<1> SUFFICES ASSUME IInv, start PROVE IInv'
  OBVIOUS
<1>1. /\ ~running /\ running' = TRUE /\ starts < MaxStarts /\ starts' = starts + 1
      /\ ok' \in BOOLEAN
      /\ server' = "recvfrom" /\ received' = 0 /\ copied' = 0
      /\ temp_arr' = Zeros(size) /\ arr' = Zeros(size)
      /\ mutex' = "free"
      /\ render' = "mutex_lock" /\ drawn' = 0 /\ image' = Zeros(size)
      /\ cut' = FALSE
      /\ UNCHANGED <<size, playerVars, queue>>
  BY DEF start
<1>2. /\ queue = << >> /\ player # "connected"
  BY <1>1 DEF IInv, Stopped
<1>3. /\ Zeros(size) \in [0 .. size - 1 -> Cells] /\ Whole(Zeros(size))
      /\ size \in Nat \ {0} /\ Datagrams \in Nat \ {0}
      /\ [k \in 0 .. 0 |-> [f |-> 0, d |-> 0]] \in [0 .. 0 -> Places]
  BY Starting, Layout, LinkAssumption DEF IInv, TypeOK
<1>4. TypeOK'
  <2>1. starts' \in 1 .. MaxStarts
    BY <1>1, LinkAssumption DEF IInv, TypeOK
  <2>2. 0 \in 0 .. Datagrams - 1 /\ 0 \in 0 .. size
    BY <1>3
  <2> QED
    BY <1>1, <1>3, <2>1, <2>2, SameSize DEF IInv, TypeOK, playerVars
<1>5. InStep'
  <2>1. PICK place \in [0 .. 0 -> Places] : place[0] = [f |-> 0, d |-> 0]
    <3> DEFINE p == [k \in 0 .. 0 |-> [f |-> 0, d |-> 0]]
    <3>1. p \in [0 .. 0 -> Places] /\ p[0] = [f |-> 0, d |-> 0]
      BY <1>3
    <3> HIDE DEF p
    <3> QED
      BY <3>1
  <2>2. /\ place[0].d = received'
        /\ \A b \in 0 .. received' * MaxMessage - 1 : temp_arr'[b] = <<place[0].f, b>>
    <3>1. 0 * MaxMessage = 0
      BY LinkAssumption
    <3> QED
      BY <1>1, <2>1, <3>1
  <2>3. Len(queue') = 0 /\ player' # "connected"
    BY <1>1, <1>2 DEF playerVars
  <2>4. \A k \in 1 .. Len(queue') :
          /\ queue'[k] = Datagram(place[k].f, place[k - 1].d)
          /\ place[k].d = (place[k - 1].d + 1) % Datagrams
          /\ place[k - 1].d # 0 => place[k].f = place[k - 1].f
    BY <2>3
  <2>5. /\ place[Len(queue')].d = IF player' = "connected" THEN i' ELSE 0
        /\ player' = "connected" /\ i' # 0 => place[Len(queue')].f = frame'
    BY <2>1, <2>3
  <2>6. Walks(place)'
    <3>1. UNCHANGED size
      BY <1>1
    <3> QED
      BY <2>2, <2>4, <2>5, <3>1, NextWalks, Zenon
  <2>7. place \in [0 .. Len(queue') -> Places']
    BY <1>1, <2>3, SameSize
  <2> QED
    BY <2>6, <2>7 DEF InStep
<1>6. Stopped' /\ queue' \in Seq(Bytes') /\ (player' = "none" => i' = 0)
  BY <1>1, <1>2 DEF IInv, Stopped, playerVars
<1>7. TempWhole' /\ ArrWhole' /\ ImageWhole' /\ Locks' /\ (server' # "recvfrom" => received' = 0)
  BY <1>1, <1>3 DEF TempWhole, ArrWhole, ImageWhole, Locks
<1> QED
  BY <1>4, <1>5, <1>6, <1>7 DEF IInv

THEOREM EmulatorInvariance == Spec => []IInv
<1>1. IInv /\ [Next]_vars => IInv'
  <2> SUFFICES ASSUME IInv, [Next]_vars PROVE IInv'
    OBVIOUS
  <2>1. ASSUME UNCHANGED vars PROVE IInv'
    <3>1. LinkAlone /\ UNCHANGED <<serverVars, mutex, renderVars>>
      BY <2>1 DEF vars, LinkAlone, serverVars
    <3>2. TypeOK'
      BY <3>1, SameSize DEF IInv, TypeOK, LinkAlone, lifeVars, playerVars, serverVars, renderVars
    <3> QED
      BY <3>1, <3>2, LinkStays DEF IInv, TempWhole, ArrWhole, ImageWhole, Locks, LinkAlone,
         lifeVars, serverVars, renderVars
  <2>2. CASE Next
    BY <2>2, ConnectStep, DisplayFrameStep, PlayerStopsStep, RecvfromStep, ServerLocksStep,
       MemcpyStep, RenderLocksStep, RectangleStep, ImshowStep, StopStep, StartStep DEF Next
  <2> QED
    BY <2>1, <2>2
<1> QED
  BY <1>1, InitIInv, PTL DEF Spec

\* Every variable of the link keeps its type, the counters of both ends within
\* a frame's datagrams.
THEOREM LinkTypeCorrect == Spec => []TypeOK
BY EmulatorInvariance, PTL DEF IInv

\* The emulator shows whole frames, whatever a frame's size leaves for the last
\* datagram, for any number of frames, players and restarts.
THEOREM LinkShowsWholeFrame == Spec => []ShowsWholeFrame
<1>1. IInv => ShowsWholeFrame
  BY DEF IInv, ImageWhole, ShowsWholeFrame, Whole
<1> QED
  BY <1>1, EmulatorInvariance, PTL
=============================================================================
