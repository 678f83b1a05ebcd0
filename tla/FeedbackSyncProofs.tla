------------------------- MODULE FeedbackSyncProofs -------------------------
(***************************************************************************)
(* Two safety properties of the feedback path, for every window, every     *)
(* capture and any speed of the tasks and the host.                        *)
(***************************************************************************)
EXTENDS FeedbackSync, DataFacts, TLAPS

\* The endpoint task works only between a read of the host and its next load:
\* from the notification to the load the endpoint is empty, or off.
\* No second notification comes in between, since only a load makes another
\* read possible.
NotFullWhileServed ==
    /\ fb_notified \/ fb_pc # "take" => ep_state # "full"
    /\ fb_pc # "take" => ~fb_notified

\* While the mailbox holds the newest average an older one may be on its way
\* to the endpoint; once the mailbox is empty the newest one is.
IInv == NewestIsNext /\ NotFullWhileServed

LEMMA InitIInv == Init => IInv
BY DEF Init, IInv, NewestIsNext, NotFullWhileServed

\* No step breaks the invariant: one step of the proof per action.
LEMMA StepIInv == IInv /\ [Next]_vars => IInv'
<1> SUFFICES ASSUME IInv, [Next]_vars PROVE IInv'
  OBVIOUS
<1> USE DEF IInv, NewestIsNext, NotFullWhileServed, syncVars, fbVars
<1>1. ASSUME NEW c \in Captures, Capture(c) PROVE IInv'
  BY <1>1 DEF Capture
<1>2. CASE SyncTake
  BY <1>2 DEF SyncTake
<1>3. CASE SyncRead
  BY <1>3 DEF SyncRead
<1>4. CASE SyncAverage
  BY <1>4 DEF SyncAverage
<1>5. CASE SyncSend
  <2>1. <<rolling_average>> # <<>>
    OBVIOUS
  <2>2. QED
    BY <1>5, <2>1 DEF SyncSend
<1>6. CASE StartStreaming
  BY <1>6 DEF StartStreaming
<1>7a. CASE StopStreaming
  BY <1>7a DEF StopStreaming
<1>7. CASE HostRead
  BY <1>7 DEF HostRead
<1>8. CASE FbTake
  BY <1>8 DEF FbTake
<1>9. CASE FbReceive
  BY <1>9 DEF FbReceive
<1>10. CASE FbUnpack
  BY <1>10 DEF FbUnpack
<1>11. CASE FbLoad
  BY <1>11 DEF FbLoad
<1>12. CASE UNCHANGED vars
  BY <1>12 DEF vars
<1>13. QED
  BY <1>1, <1>2, <1>3, <1>4, <1>5, <1>6, <1>7, <1>7a, <1>8, <1>9, <1>10, <1>11, <1>12
  DEF Next, SyncStep, FbStep

\* The invariant holds in every reachable state.
THEOREM Invariance == Spec => []IInv
BY InitIInv, StepIInv, PTL DEF Spec

\* The newest average is never lost between SyncMonitor and the endpoint.
THEOREM NewestIsKept == Spec => []NewestIsNext
<1>1. IInv => NewestIsNext
  BY DEF IInv
<1>2. QED
  BY <1>1, Invariance, PTL

\* The endpoint's buffer is never written while the host may read it.
THEOREM HostReadsWhole == Spec => EndpointStable
<1>1. ASSUME IInv, [Next]_vars
      PROVE  [ep_state = "full" => usb_audio_fb_ep_buf' = usb_audio_fb_ep_buf]_vars
  <2> SUFFICES ASSUME ep_state = "full", usb_audio_fb_ep_buf' # usb_audio_fb_ep_buf
               PROVE  FALSE
    OBVIOUS
  <2>1. FbUnpack
    BY <1>1 DEF Next, SyncStep, FbStep, Capture, SyncTake, SyncRead, SyncAverage,
       SyncSend, StartStreaming, StopStreaming, HostRead, FbTake, FbReceive, FbLoad, vars, fbVars
  <2>2. ep_state # "full"
    BY <1>1, <2>1 DEF IInv, NotFullWhileServed, FbUnpack
  <2>3. QED
    BY <2>2
<1>2. QED
  BY <1>1, Invariance, PTL DEF Spec, EndpointStable

-----------------------------------------------------------------------------
(* What is sent is the average of a full window *)

\* The largest capture whose sum over a window fits the word.
Largest == (Modulus - 1) \div Windows

\* The slot of the capture k places after the oldest, once the buffer is full.
SlotOf(k) == IF feedback_iter + k >= Windows THEN feedback_iter + k - Windows
             ELSE feedback_iter + k

AverageTypes ==
    /\ sync_counter \in 0 .. Largest
    /\ sfb \in 0 .. Largest
    /\ rolling_average_buf \in [Slots -> 0 .. Largest]
    /\ feedback_iter \in Slots
    /\ samples \in Seq(0 .. Largest)
    /\ Len(samples) <= Windows
    /\ locked \in BOOLEAN

\* Until the window is full the captures are in the first slots, and the other
\* slots hold zero; from then on the oldest is in the slot that is next.
BufferIsWindow ==
    /\ locked <=> Len(samples) = Windows
    /\ ~locked => /\ feedback_iter = Len(samples)
                  /\ \A i \in Slots : rolling_average_buf[i] =
                        IF i < Len(samples) THEN samples[i + 1] ELSE 0
    /\ locked => \A k \in Slots : rolling_average_buf[SlotOf(k)] = samples[k + 1]

AverageInv ==
    /\ AverageTypes
    /\ BufferIsWindow
    /\ running_sum = SumSeq(samples)
    /\ sync_pc = "send" => locked /\ rolling_average = SumSeq(samples) \div 2 ^ Shift

LEMMA WindowFacts ==
    /\ Windows \in Nat \ {0} /\ Modulus \in Nat \ {0} /\ Largest \in Nat
    /\ \E r \in 0 .. Windows - 1 : Modulus - 1 = Windows * Largest + r
<1>1. Windows \in Nat \ {0} /\ Modulus \in Nat \ {0}
  BY WindowAssumption
<1> DEFINE x == Modulus - 1
           r == x % Windows
           q == x \div Windows
<1>2. x \in Nat /\ q = Largest
  BY <1>1 DEF Largest
<1> HIDE DEF x
<1>3. r \in 0 .. Windows - 1 /\ q \in Int /\ x = Windows * q + r
  BY <1>1, <1>2, ModIs
<1> HIDE DEF q, r
<1>4. q >= 0
  <2> SUFFICES ASSUME q <= -1 PROVE FALSE
    BY <1>3
  <2>1. Windows * q <= -Windows
    BY <1>1, <1>3
  <2>2. QED
    BY <1>1, <1>2, <1>3, <2>1
<1>5. QED
  BY <1>1, <1>2, <1>3, <1>4 DEF x

\* A capture of which a window fits the word is one of these.
LEMMA CaptureFits ==
    ASSUME NEW c \in Captures
    PROVE  c \in 0 .. Largest
<1>1. c \in Nat /\ c * Windows < Modulus
  BY WindowAssumption
<1>2. /\ Windows \in Nat \ {0} /\ Modulus \in Nat /\ Largest \in Nat
      /\ \E r \in 0 .. Windows - 1 : Modulus - 1 = Windows * Largest + r
  BY WindowFacts
<1> SUFFICES ASSUME c > Largest PROVE FALSE
  BY <1>1, <1>2
<1>3. PICK d \in Nat : c = Largest + 1 + d
  <2>1. c - Largest - 1 \in Nat /\ c = Largest + 1 + (c - Largest - 1)
    BY <1>1, <1>2
  <2>2. QED
    BY <2>1
<1>4. c * Windows = Windows * Largest + Windows + d * Windows
  BY <1>2, <1>3
<1>5. d * Windows \in Nat
  BY <1>2
<1>6. QED
  BY <1>1, <1>2, <1>4, <1>5

\* The sum of at most a window of captures fits the word.
LEMMA SumFits ==
    ASSUME NEW q \in Seq(0 .. Largest), Len(q) <= Windows
    PROVE  SumSeq(q) \in 0 .. Modulus - 1
<1>1. SumSeq(q) \in Nat /\ SumSeq(q) <= Len(q) * Largest
  BY WindowFacts, SumBound
<1>2. Len(q) * Largest <= Windows * Largest
  <2>1. PICK d \in Nat : Windows = Len(q) + d
    <3>1. Windows - Len(q) \in Nat /\ Windows = Len(q) + (Windows - Len(q))
      BY WindowFacts
    <3>2. QED
      BY <3>1
  <2>2. (Len(q) + d) * Largest = Len(q) * Largest + d * Largest
    BY WindowFacts
  <2>3. d * Largest \in Nat /\ Len(q) * Largest \in Nat
    BY WindowFacts
  <2>4. QED
    BY <2>1, <2>2, <2>3
<1>3. Windows * Largest <= Modulus - 1
  <2>1. Windows * Largest \in Nat /\ Modulus \in Nat
    BY WindowFacts
  <2>2. QED
    BY <2>1, WindowFacts
<1>4. Windows * Largest \in Nat /\ Len(q) * Largest \in Nat /\ Modulus \in Nat
  BY WindowFacts
<1>5. QED
  BY <1>1, <1>2, <1>3, <1>4

\* The sum that update_rolling_average computes in unsigned words is the one
\* with the capture of the slot replaced, whenever that one fits the word.
LEMMA SumReplaced ==
    ASSUME AverageTypes, NEW total \in Int, running_sum \in Int,
           total = running_sum + sfb - rolling_average_buf[feedback_iter],
           total \in 0 .. Modulus - 1
    PROVE  NewSum(sfb) = total
<1>1. Modulus \in Nat \ {0} /\ sfb \in Int /\ rolling_average_buf[feedback_iter] \in Int
  BY WindowFacts DEF AverageTypes
<1> DEFINE y == sfb - rolling_average_buf[feedback_iter]
<1>2. y \in Int /\ total = running_sum + y
  BY <1>1
<1>3. NewSum(sfb) = (running_sum + (y % Modulus)) % Modulus
  BY DEF NewSum, Minus
<1> HIDE DEF y
<1>4. (running_sum + (y % Modulus)) % Modulus = (running_sum + y) % Modulus
  BY <1>1, <1>2, ModPlus
<1>5. total % Modulus = total
  BY <1>1, ModSmall
<1>6. QED
  BY <1>2, <1>3, <1>4, <1>5

\* While the window fills up a capture is appended to the window.
LEMMA AverageFills ==
    ASSUME AverageInv, SyncAverage, ~locked
    PROVE  AverageTypes' /\ BufferIsWindow' /\ running_sum' = SumSeq(samples') /\ running_sum' = NewSum(sfb)
<1> DEFINE n == Len(samples)
           s == Append(samples, sfb)
<1>1. /\ n \in Nat /\ n < Windows /\ feedback_iter = n /\ Windows \in Nat \ {0}
      /\ samples \in Seq(0 .. Largest) /\ sfb \in 0 .. Largest /\ Largest \in Nat
      /\ n \in Slots
  BY WindowFacts DEF AverageInv, AverageTypes, BufferIsWindow, Slots
<1>2. /\ samples' = s /\ sfb' = 0 /\ running_sum' = NewSum(sfb)
      /\ rolling_average_buf' = [rolling_average_buf EXCEPT ![n] = sfb]
      /\ feedback_iter' = (IF n + 1 = Windows THEN 0 ELSE n + 1)
      /\ locked' = (n + 1 = Windows)
      /\ sync_counter' = sync_counter
  BY <1>1 DEF SyncAverage, LockedAfter
<1>3. /\ s \in Seq(0 .. Largest) /\ Len(s) = n + 1 /\ s[n + 1] = sfb
      /\ \A i \in 1 .. n : s[i] = samples[i]
  BY <1>1
<1>4. SumSeq(s) = SumSeq(samples) + sfb
  <2>1. samples \in Seq(Int) /\ sfb \in Int
    <3>1. \A i \in 1 .. Len(samples) : samples[i] \in Int
      BY <1>1
    <3>2. QED
      BY <1>1, <3>1
  <2>2. QED
    BY <2>1, SumAppend
<1> HIDE DEF s
<1>5. SumSeq(s) \in 0 .. Modulus - 1
  BY <1>1, <1>3, SumFits
<1>6. rolling_average_buf[n] = 0
  BY <1>1 DEF AverageInv, BufferIsWindow
<1>7. SumSeq(samples) \in Int /\ running_sum = SumSeq(samples)
  BY <1>1, SumFits DEF AverageInv
<1>8. NewSum(sfb) = SumSeq(s)
  <2>1. AverageTypes /\ SumSeq(s) \in Int /\ running_sum \in Int
    BY <1>5, <1>7 DEF AverageInv
  <2>2. SumSeq(s) = running_sum + sfb - rolling_average_buf[feedback_iter]
    BY <1>1, <1>4, <1>6, <1>7
  <2>3. QED
    BY <1>5, <2>1, <2>2, SumReplaced
<1>9. \A i \in Slots : rolling_average_buf'[i] = IF i < n + 1 THEN s[i + 1] ELSE 0
  <2>1. ASSUME NEW i \in Slots PROVE rolling_average_buf'[i] = IF i < n + 1 THEN s[i + 1] ELSE 0
    <3>1. i \in Nat /\ rolling_average_buf[i] = IF i < n THEN samples[i + 1] ELSE 0
      BY DEF AverageInv, BufferIsWindow, Slots
    <3>2. rolling_average_buf'[i] = IF i = n THEN sfb ELSE rolling_average_buf[i]
      BY <1>2 DEF AverageInv, AverageTypes
    <3>3. CASE i < n
      <4>1. i + 1 \in 1 .. n
        BY <1>1, <3>1, <3>3
      <4>2. QED
        BY <1>1, <1>3, <3>1, <3>2, <3>3, <4>1
    <3>4. CASE ~(i < n)
      BY <1>1, <1>3, <3>1, <3>2, <3>4
    <3>5. QED
      BY <3>3, <3>4
  <2>2. QED
    BY <2>1
<1>10. AverageTypes'
  <2>1. rolling_average_buf' \in [Slots -> 0 .. Largest]
    BY <1>1, <1>2 DEF AverageInv, AverageTypes
  <2>2. feedback_iter' \in Slots /\ 0 \in 0 .. Largest
    BY <1>1, <1>2 DEF Slots
  <2>3. Len(samples') <= Windows /\ samples' \in Seq(0 .. Largest)
    BY <1>1, <1>2, <1>3
  <2>4. QED
    BY <1>2, <2>1, <2>2, <2>3 DEF AverageInv, AverageTypes
<1>11. BufferIsWindow'
  <2>1. CASE n + 1 = Windows
    <3>1. \A k \in Slots : SlotOf(k)' = k
      BY <1>1, <1>2, <2>1 DEF SlotOf, Slots
    <3>2. \A k \in Slots : rolling_average_buf'[k] = s[k + 1]
      BY <1>1, <1>9, <2>1 DEF Slots
    <3>3. \A k \in Slots : rolling_average_buf'[SlotOf(k)'] = s[k + 1]
      BY <3>1, <3>2
    <3>4. locked' /\ Len(samples') = Windows
      BY <1>2, <1>3, <2>1
    <3>5. QED
      BY <1>2, <3>3, <3>4 DEF BufferIsWindow
  <2>2. CASE n + 1 # Windows
    <3>1. ~locked' /\ Len(samples') = n + 1 /\ feedback_iter' = n + 1
      BY <1>2, <1>3, <2>2
    <3>2. QED
      BY <1>2, <1>9, <2>2, <3>1 DEF BufferIsWindow
  <2>3. QED
    BY <2>1, <2>2
<1>12. QED
  BY <1>2, <1>8, <1>10, <1>11

\* Once it is full the oldest capture leaves the window, in the ring as in the
\* history, and the others move up by one place.
LEMMA AverageTurns ==
    ASSUME AverageInv, SyncAverage, locked
    PROVE  AverageTypes' /\ BufferIsWindow' /\ running_sum' = SumSeq(samples') /\ running_sum' = NewSum(sfb)
<1> DEFINE t == Tail(samples)
           s == Append(t, sfb)
           iter == feedback_iter
<1>1. /\ Len(samples) = Windows /\ iter \in 0 .. Windows - 1 /\ Windows \in Nat \ {0}
      /\ samples \in Seq(0 .. Largest) /\ sfb \in 0 .. Largest /\ Largest \in Nat
      /\ samples # <<>>
  BY WindowFacts DEF AverageInv, AverageTypes, BufferIsWindow, Slots
<1>2. /\ samples' = s /\ sfb' = 0 /\ running_sum' = NewSum(sfb)
      /\ rolling_average_buf' = [rolling_average_buf EXCEPT ![iter] = sfb]
      /\ feedback_iter' = (IF iter + 1 = Windows THEN 0 ELSE iter + 1)
      /\ locked' = TRUE
      /\ sync_counter' = sync_counter
  <2>1. locked' = TRUE
    <3>1. locked' = (locked \/ feedback_iter + 1 = Windows)
      BY Zenon DEF SyncAverage, LockedAfter
    <3>2. QED
      BY <3>1, Zenon
  <2>2. ~(Len(samples) < Windows)
    BY <1>1
  <2>3. QED
    BY <2>1, <2>2 DEF SyncAverage
<1>3. /\ t \in Seq(0 .. Largest) /\ Len(t) = Windows - 1
      /\ \A i \in 1 .. Windows - 1 : t[i] = samples[i + 1]
      /\ Head(samples) = samples[1] /\ samples[1] \in 0 .. Largest
  BY <1>1
<1>4. samples \in Seq(Int) /\ t \in Seq(Int)
  <2>1. \A i \in 1 .. Len(samples) : samples[i] \in Int
    BY <1>1
  <2>2. \A i \in 1 .. Len(t) : t[i] \in Int
    BY <1>1, <1>3
  <2>3. QED
    BY <1>1, <1>3, <2>1, <2>2
<1>5. SumSeq(t) = SumSeq(samples) - samples[1]
  BY <1>1, <1>3, <1>4, SumTail
<1> HIDE DEF t
<1>6. SumSeq(s) = SumSeq(t) + sfb
  BY <1>1, <1>4, SumAppend
<1>7. /\ s \in Seq(0 .. Largest) /\ Len(s) = Windows /\ s[Windows] = sfb
      /\ \A i \in 1 .. Windows - 1 : s[i] = samples[i + 1]
  BY <1>1, <1>3
<1> HIDE DEF s
<1>8. SumSeq(s) \in 0 .. Modulus - 1
  BY <1>1, <1>7, SumFits
<1>9. rolling_average_buf[iter] = samples[1]
  <2>1. 0 \in Slots /\ SlotOf(0) = iter /\ 0 + 1 = 1
    BY <1>1 DEF SlotOf, Slots
  <2>2. rolling_average_buf[SlotOf(0)] = samples[0 + 1]
    BY <2>1 DEF AverageInv, BufferIsWindow
  <2>3. QED
    BY <2>1, <2>2
<1>10. SumSeq(samples) \in Int /\ running_sum = SumSeq(samples)
  BY <1>1, SumFits DEF AverageInv
<1>11. NewSum(sfb) = SumSeq(s)
  <2>1. AverageTypes /\ SumSeq(s) \in Int /\ running_sum \in Int
    BY <1>8, <1>10 DEF AverageInv
  <2>2. SumSeq(s) = running_sum + sfb - rolling_average_buf[feedback_iter]
    BY <1>1, <1>3, <1>5, <1>6, <1>9, <1>10
  <2>3. QED
    BY <1>8, <2>1, <2>2, SumReplaced
<1>12. AverageTypes'
  <2>1. rolling_average_buf' \in [Slots -> 0 .. Largest]
    BY <1>1, <1>2 DEF AverageInv, AverageTypes
  <2>2. feedback_iter' \in Slots /\ 0 \in 0 .. Largest
    BY <1>1, <1>2 DEF Slots
  <2>3. Len(samples') <= Windows /\ samples' \in Seq(0 .. Largest)
    BY <1>1, <1>2, <1>7
  <2>4. QED
    BY <1>2, <2>1, <2>2, <2>3 DEF AverageInv, AverageTypes
<1>13. ASSUME NEW k \in Slots PROVE rolling_average_buf'[SlotOf(k)'] = s[k + 1]
  <2>1. k \in 0 .. Windows - 1
    BY DEF Slots
  <2>2. SlotOf(k)' = IF feedback_iter' + k >= Windows THEN feedback_iter' + k - Windows
                     ELSE feedback_iter' + k
    BY DEF SlotOf
  <2>3. CASE k = Windows - 1
    <3>1. SlotOf(k)' = iter
      BY <1>1, <1>2, <2>1, <2>2, <2>3
    <3>2. rolling_average_buf'[iter] = sfb
      BY <1>1, <1>2 DEF AverageInv, AverageTypes, Slots
    <3>3. k + 1 = Windows
      BY <1>1, <2>3
    <3>4. QED
      BY <1>7, <3>1, <3>2, <3>3
  <2>4. CASE k # Windows - 1
    <3>1. k + 1 \in Slots /\ k + 1 \in 1 .. Windows - 1
      BY <1>1, <2>1, <2>4 DEF Slots
    <3>2. SlotOf(k + 1) = IF iter + (k + 1) >= Windows THEN iter + (k + 1) - Windows
                          ELSE iter + (k + 1)
      BY DEF SlotOf
    <3>3. SlotOf(k)' = SlotOf(k + 1) /\ SlotOf(k + 1) # iter /\ SlotOf(k + 1) \in Slots
      <4>1. iter \in 0 .. Windows - 1 /\ k + 1 \in 1 .. Windows - 1 /\ Windows \in Nat
        BY <1>1, <3>1 DEF Slots
      <4>2. feedback_iter' = IF iter + 1 >= Windows THEN 0 ELSE iter + 1
        BY <1>1, <1>2
      <4>3. SlotOf(k)' = SlotOf(k + 1)
        <5>1. iter \in Int /\ k \in Int /\ k <= Windows - 2 /\ iter < Windows /\ iter >= 0 /\ k >= 0
          BY <2>1, <4>1
        <5>2. CASE iter + 1 >= Windows
          BY <2>2, <3>2, <4>1, <4>2, <5>1, <5>2
        <5>3. CASE ~(iter + 1 >= Windows)
          BY <2>2, <3>2, <4>1, <4>2, <5>1, <5>3
        <5>4. QED
          BY <5>2, <5>3
      <4>4. QED
        BY <3>2, <4>1, <4>3 DEF Slots
    <3>4. rolling_average_buf'[SlotOf(k + 1)] = rolling_average_buf[SlotOf(k + 1)]
      <4>1. rolling_average_buf \in [Slots -> 0 .. Largest]
        BY DEF AverageInv, AverageTypes
      <4>2. QED
        BY <1>2, <3>3, <4>1
    <3>5. rolling_average_buf[SlotOf(k + 1)] = samples[k + 1 + 1]
      BY <3>1 DEF AverageInv, BufferIsWindow
    <3>6. s[k + 1] = samples[k + 1 + 1]
      BY <1>7, <3>1
    <3>7. QED
      BY <3>3, <3>4, <3>5, <3>6
  <2>5. QED
    BY <2>3, <2>4
<1>14. BufferIsWindow'
  BY <1>2, <1>7, <1>13 DEF BufferIsWindow
<1>15. QED
  BY <1>2, <1>11, <1>12, <1>14

\* The steps of the endpoint, its task and the host leave the window alone.
LEMMA WindowUnchanged ==
    ASSUME AverageInv, UNCHANGED <<sync_pc, rolling_average_buf, running_sum, feedback_iter,
                                   rolling_average, locked, samples>>,
           sync_counter' \in 0 .. Largest, sfb' \in 0 .. Largest
    PROVE  AverageInv'
<1>1. AverageTypes'
  BY DEF AverageInv, AverageTypes
<1>2. BufferIsWindow'
  <2>1. \A k \in Slots : SlotOf(k)' = SlotOf(k)
    BY DEF SlotOf
  <2>2. QED
    BY <2>1 DEF AverageInv, BufferIsWindow
<1>3. QED
  BY <1>1, <1>2 DEF AverageInv

\* A step of SyncMonitor outside the averaging, likewise.
LEMMA WindowKept ==
    ASSUME AverageInv, UNCHANGED <<sync_counter, rolling_average_buf, running_sum, feedback_iter,
                                   locked, samples>>,
           sfb' \in 0 .. Largest, sync_pc' # "send"
    PROVE  AverageInv'
<1>1. AverageTypes'
  BY DEF AverageInv, AverageTypes
<1>2. BufferIsWindow'
  <2>1. \A k \in Slots : SlotOf(k)' = SlotOf(k)
    BY DEF SlotOf
  <2>2. QED
    BY <2>1 DEF AverageInv, BufferIsWindow
<1>3. QED
  BY <1>1, <1>2 DEF AverageInv

LEMMA InitAverage == Init => AverageInv
<1> SUFFICES ASSUME Init PROVE AverageInv
  OBVIOUS
<1>1. /\ Windows \in Nat \ {0} /\ Largest \in Nat
      /\ sync_counter = 0 /\ sfb = 0 /\ rolling_average_buf = [i \in Slots |-> 0]
      /\ running_sum = 0 /\ feedback_iter = 0 /\ samples = <<>> /\ sync_pc = "take"
  BY WindowFacts DEF Init
<1>2. locked = FALSE
  BY Zenon DEF Init
<1>3. AverageTypes
  <2>1. 0 \in Slots /\ 0 \in 0 .. Largest
    BY <1>1 DEF Slots
  <2>2. samples \in Seq(0 .. Largest) /\ Len(samples) = 0
    BY <1>1
  <2>3. QED
    BY <1>1, <1>2, <2>1, <2>2 DEF AverageTypes
<1>4. BufferIsWindow
  <2>1. Len(samples) = 0 /\ \A i \in Slots : i \in Nat
    BY <1>1 DEF Slots
  <2>2. QED
    BY <1>1, <1>2, <2>1 DEF BufferIsWindow
<1>5. QED
  BY <1>1, <1>3, <1>4, SumEmpty DEF AverageInv

LEMMA StepAverage == AverageInv /\ [Next]_vars => AverageInv'
<1> SUFFICES ASSUME AverageInv, [Next]_vars PROVE AverageInv'
  OBVIOUS
<1>1. sync_counter \in 0 .. Largest /\ sfb \in 0 .. Largest /\ 0 \in 0 .. Largest
  BY WindowFacts DEF AverageInv, AverageTypes
<1>2. ASSUME NEW c \in Captures, Capture(c) PROVE AverageInv'
  BY <1>1, <1>2, CaptureFits, WindowUnchanged DEF Capture, syncVars
<1>3. CASE SyncTake
  BY <1>1, <1>3, WindowKept DEF SyncTake
<1>4. CASE SyncRead
  BY <1>1, <1>4, WindowKept DEF SyncRead
<1>5. CASE SyncAverage
  <2>1. /\ AverageTypes' /\ BufferIsWindow' /\ running_sum' = SumSeq(samples')
        /\ running_sum' = NewSum(sfb)
    BY <1>5, AverageFills, AverageTurns
  <2>2. sync_pc' = "send" => locked' /\ rolling_average' = running_sum' \div 2 ^ Shift
    BY <1>5, <2>1 DEF SyncAverage
  <2>3. QED
    BY <2>1, <2>2 DEF AverageInv
<1>6. CASE SyncSend
  BY <1>1, <1>6, WindowKept DEF SyncSend
<1>7. CASE StartStreaming \/ StopStreaming \/ HostRead
  BY <1>1, <1>7, WindowUnchanged DEF StartStreaming, StopStreaming, HostRead, syncVars
<1>8. CASE FbStep
  BY <1>1, <1>8, WindowUnchanged DEF FbStep, FbTake, FbReceive, FbUnpack, FbLoad, syncVars
<1>9. CASE UNCHANGED vars
  BY <1>1, <1>9, WindowUnchanged DEF vars, syncVars
<1>10. QED
  BY <1>2, <1>3, <1>4, <1>5, <1>6, <1>7, <1>8, <1>9 DEF Next, SyncStep

THEOREM AverageInvariance == Spec => []AverageInv
BY InitAverage, StepAverage, PTL DEF Spec

\* What SyncMonitor sends is the average of the last Windows captures it has
\* read, although it only keeps their sum in unsigned words: never the sum of
\* a window that is still filling up, nor one that has wrapped.
THEOREM FullWindowIsSent == Spec => SendsFullWindow
<1>1. ASSUME AverageInv, [Next]_vars
      PROVE  [FeedbackUpdateQueue' \notin {FeedbackUpdateQueue, <<>>} =>
                /\ Len(samples) = Windows
                /\ FeedbackUpdateQueue' = <<Total(samples) \div 2 ^ Shift>>]_vars
  <2> SUFFICES ASSUME FeedbackUpdateQueue' \notin {FeedbackUpdateQueue, <<>>}
               PROVE  /\ Len(samples) = Windows
                      /\ FeedbackUpdateQueue' = <<Total(samples) \div 2 ^ Shift>>
    OBVIOUS
  <2>1. SyncSend
    BY <1>1 DEF Next, Capture, SyncStep, SyncTake, SyncRead, SyncAverage, StartStreaming,
         StopStreaming, HostRead, FbStep, FbTake, FbReceive, FbUnpack, FbLoad, vars
  <2>2. sync_pc = "send" /\ FeedbackUpdateQueue' = <<rolling_average>>
    BY <2>1 DEF SyncSend
  <2>3. locked /\ rolling_average = SumSeq(samples) \div 2 ^ Shift /\ Len(samples) = Windows
    BY <1>1, <2>2 DEF AverageInv, BufferIsWindow
  <2>4. SumSeq(samples) = Total(samples)
    BY DEF SumSeq, Total, FoldFunction, FoldFunctionOnSet, MapThenFoldSet
  <2>5. QED
    BY <2>2, <2>3, <2>4
<1>2. QED
  BY <1>1, AverageInvariance, PTL DEF Spec, SendsFullWindow

=============================================================================
