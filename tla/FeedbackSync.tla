---------------------------- MODULE FeedbackSync ----------------------------
(***************************************************************************)
(* Asynchronous feedback (sync.c, usb_audio.c).  A hardware counter        *)
(* captures the clock over a window of USB frames and interrupts; the      *)
(* SyncMonitor task averages the last Windows captures and leaves the      *)
(* average in a mailbox of one place; the USBServiceAudioFeedbackEp task,  *)
(* woken when the host has read the feedback endpoint, empties the mailbox *)
(* into the endpoint's buffer and loads the endpoint again.                *)
(***************************************************************************)
EXTENDS Integers, Sequences, FiniteSets, Functions

CONSTANTS
    Windows,         \* SYNC_N_WINDOWS
    Shift,           \* SYNC_SHIFT
    Modulus,         \* 2^32: running_sum is an unsigned word
    Captures,        \* the values the counter may capture
    InitialFeedback  \* fs_to_feedback(AUDIO_SAMPLE_RATE)

\* The sum of a full window of captures fits the word.
ASSUME WindowAssumption ==
    /\ Windows \in Nat \ {0}
    /\ Shift \in Nat
    /\ Modulus \in Nat \ {0}
    /\ InitialFeedback \in Nat
    /\ \A c \in Captures : c \in Nat /\ c * Windows < Modulus

VARIABLES
    sync_counter,         \* the last capture
    sync_notified,        \* SyncMonitor's notification count
    sync_pc,              \* where SyncMonitor is: take, read, average, send
    sfb,                  \* its local: the capture in hand
    rolling_average_buf,
    running_sum,
    feedback_iter,
    rolling_average,      \* its local: the average in hand
    locked,               \* its local: the window has been full
    FeedbackUpdateQueue,  \* the mailbox
    fb_notified,          \* the endpoint task has a pending notification
    fb_pc,                \* where it is: take, receive, unpack, load
    new_feedback,         \* its local: the value received
    usb_audio_fb_ep_buf,  \* the value in the endpoint's buffer
    ep_state,             \* off unless the host streams, then full or empty
    samples,              \* history: the last Windows captures averaged
    newest                \* history: the last average sent

syncVars == <<sync_pc, sfb, rolling_average_buf, running_sum, feedback_iter,
              rolling_average, locked, samples>>
fbVars == <<fb_pc, new_feedback, usb_audio_fb_ep_buf>>
vars == <<sync_counter, sync_notified, syncVars, FeedbackUpdateQueue,
          fb_notified, fbVars, ep_state, newest>>

Slots == 0 .. Windows - 1

Init ==
    /\ sync_counter = 0
    /\ sync_notified = 0
    /\ sync_pc = "take"
    /\ sfb = 0
    /\ rolling_average_buf = [i \in Slots |-> 0]
    /\ running_sum = 0
    /\ feedback_iter = 0
    /\ rolling_average = 0
    /\ locked = FALSE
    /\ FeedbackUpdateQueue = <<>>
    /\ fb_notified = FALSE
    /\ fb_pc = "take"
    /\ new_feedback = 0
    /\ usb_audio_fb_ep_buf = InitialFeedback
    /\ ep_state = "off"
    /\ samples = <<>>
    /\ newest = InitialFeedback

-----------------------------------------------------------------------------
(* The counter and the SyncMonitor task *)

\* A window has passed: the counter captures and sync_counter_update_isr
\* gives one more notification.
Capture(c) ==
    /\ sync_counter' = c
    /\ sync_notified' = sync_notified + 1
    /\ UNCHANGED <<syncVars, FeedbackUpdateQueue, fb_notified, fbVars, ep_state,
                   newest>>

\* ulTaskNotifyTake(pdFALSE) takes one of the notifications.
SyncTake ==
    /\ sync_pc = "take"
    /\ sync_notified > 0
    /\ sync_notified' = sync_notified - 1
    /\ sync_pc' = "read"
    /\ UNCHANGED <<sync_counter, sfb, rolling_average_buf, running_sum,
                   feedback_iter, rolling_average, locked, samples,
                   FeedbackUpdateQueue, fb_notified, fbVars, ep_state, newest>>

SyncRead ==
    /\ sync_pc = "read"
    /\ sfb' = sync_counter
    /\ sync_pc' = "average"
    /\ UNCHANGED <<sync_counter, sync_notified, rolling_average_buf,
                   running_sum, feedback_iter, rolling_average, locked, samples,
                   FeedbackUpdateQueue, fb_notified, fbVars, ep_state, newest>>

\* Subtraction of unsigned words: it wraps around below zero.
Minus(a, b) == (a - b) % Modulus

\* The capture replaces the one in its slot.
NewSum(feedback) ==
    (running_sum + Minus(feedback, rolling_average_buf[feedback_iter])) % Modulus

\* Mutant: the first capture counts as a full window.
LockedAfterEarly(next) == locked \/ next > 0

\* Mutant: the end of the window is missed.
LockedAfterNever(next) == locked \/ next > Windows

\* The average is valid once the window has been filled for the first time.
LockedAfter(next) == locked \/ next = Windows

\* update_rolling_average, and the decision to send its result.
SyncAverage ==
    LET next == feedback_iter + 1
    IN  /\ sync_pc = "average"
        /\ running_sum' = NewSum(sfb)
        /\ rolling_average_buf' = [rolling_average_buf EXCEPT ![feedback_iter] = sfb]
        /\ feedback_iter' = (IF next = Windows THEN 0 ELSE next)
        /\ rolling_average' = NewSum(sfb) \div 2 ^ Shift
        /\ locked' = LockedAfter(next)
        /\ sync_pc' = (IF LockedAfter(next) THEN "send" ELSE "take")
        /\ samples' = IF Len(samples) < Windows
                      THEN Append(samples, sfb)
                      ELSE Append(Tail(samples), sfb)
        /\ sfb' = 0
        /\ UNCHANGED <<sync_counter, sync_notified, FeedbackUpdateQueue,
                       fb_notified, fbVars, ep_state, newest>>

\* Mutant: a full mailbox keeps what it holds (xQueueSend, no wait).
SyncSendKeep ==
    /\ sync_pc = "send"
    /\ FeedbackUpdateQueue' = (IF FeedbackUpdateQueue = <<>>
                               THEN <<rolling_average>> ELSE FeedbackUpdateQueue)
    /\ newest' = rolling_average
    /\ rolling_average' = 0
    /\ sync_pc' = "take"
    /\ UNCHANGED <<sync_counter, sync_notified, sfb, rolling_average_buf,
                   running_sum, feedback_iter, locked, samples, fb_notified,
                   fbVars, ep_state>>

\* usb_update_audio_fb: xQueueOverwrite replaces what is in the mailbox.
SyncSend ==
    /\ sync_pc = "send"
    /\ FeedbackUpdateQueue' = <<rolling_average>>
    /\ newest' = rolling_average
    /\ rolling_average' = 0
    /\ sync_pc' = "take"
    /\ UNCHANGED <<sync_counter, sync_notified, sfb, rolling_average_buf,
                   running_sum, feedback_iter, locked, samples, fb_notified,
                   fbVars, ep_state>>

SyncStep == SyncTake \/ SyncRead \/ SyncAverage \/ SyncSend

-----------------------------------------------------------------------------
(* The feedback endpoint and its task *)

\* The host selects the streaming setting and USBConfigService, which polls
\* every 100 ms, loads the endpoint with what its buffer holds.  The endpoint's
\* task, at the same priority, has long served the last read of an earlier
\* stream by then.
StartStreaming ==
    /\ ep_state = "off"
    /\ fb_pc = "take"
    /\ ~fb_notified
    /\ ep_state' = "full"
    /\ UNCHANGED <<sync_counter, sync_notified, syncVars, FeedbackUpdateQueue,
                   fb_notified, fbVars, newest>>

\* The host selects the setting without bandwidth: the endpoint is gone, at
\* whatever point its task is.
StopStreaming ==
    /\ ep_state # "off"
    /\ ep_state' = "off"
    /\ UNCHANGED <<sync_counter, sync_notified, syncVars, FeedbackUpdateQueue,
                   fb_notified, fbVars, newest>>

\* The host reads the endpoint, and usb_audio_out_fb_isr notifies.
HostRead ==
    /\ ep_state = "full"
    /\ ep_state' = "empty"
    /\ fb_notified' = TRUE
    /\ UNCHANGED <<sync_counter, sync_notified, syncVars, FeedbackUpdateQueue,
                   fbVars, newest>>

\* ulTaskNotifyTake(pdTRUE); its timeout changes nothing.
FbTake ==
    /\ fb_pc = "take"
    /\ fb_notified
    /\ fb_notified' = FALSE
    /\ fb_pc' = "receive"
    /\ UNCHANGED <<sync_counter, sync_notified, syncVars, FeedbackUpdateQueue,
                   new_feedback, usb_audio_fb_ep_buf, ep_state, newest>>

\* A new average is taken out of the mailbox; without one the buffer stays.
FbReceive ==
    /\ fb_pc = "receive"
    /\ \/ /\ FeedbackUpdateQueue # <<>>
          /\ new_feedback' = Head(FeedbackUpdateQueue)
          /\ FeedbackUpdateQueue' = <<>>
          /\ fb_pc' = "unpack"
       \/ /\ FeedbackUpdateQueue = <<>>
          /\ fb_pc' = "load"
          /\ UNCHANGED <<new_feedback, FeedbackUpdateQueue>>
    /\ UNCHANGED <<sync_counter, sync_notified, syncVars, fb_notified,
                   usb_audio_fb_ep_buf, ep_state, newest>>

\* unpack_fb writes the value's three bytes.
FbUnpack ==
    /\ fb_pc = "unpack"
    /\ usb_audio_fb_ep_buf' = new_feedback
    /\ new_feedback' = 0
    /\ fb_pc' = "load"
    /\ UNCHANGED <<sync_counter, sync_notified, syncVars, FeedbackUpdateQueue,
                   fb_notified, ep_state, newest>>

FbLoad ==
    /\ fb_pc = "load"
    /\ ep_state' = (IF ep_state = "empty" THEN "full" ELSE ep_state)
    /\ fb_pc' = "take"
    /\ UNCHANGED <<sync_counter, sync_notified, syncVars, FeedbackUpdateQueue,
                   fb_notified, new_feedback, usb_audio_fb_ep_buf, newest>>

FbStep == FbTake \/ FbReceive \/ FbUnpack \/ FbLoad

-----------------------------------------------------------------------------

Next ==
    \/ \E c \in Captures : Capture(c)
    \/ SyncStep
    \/ StartStreaming
    \/ StopStreaming
    \/ HostRead
    \/ FbStep

Spec == Init /\ [][Next]_vars

\* Both tasks run, the frames go on, and the host streams again and again,
\* long enough to ask for feedback.
Fairness ==
    /\ WF_vars(SyncStep)
    /\ WF_vars(FbStep)
    /\ WF_vars(\E c \in Captures : Capture(c))
    /\ WF_vars(StartStreaming)
    /\ SF_vars(HostRead)

FairSpec == Spec /\ Fairness

-----------------------------------------------------------------------------
(* Safety *)

Total(s) == FoldFunction(+, 0, s)

\* What is sent as feedback is the average of Windows captures in a row, the
\* last ones read: never of a window that is still filling up.
SendsFullWindow ==
    [][FeedbackUpdateQueue' \notin {FeedbackUpdateQueue, <<>>} =>
         /\ Len(samples) = Windows
         /\ FeedbackUpdateQueue' = <<Total(samples) \div 2 ^ Shift>>]_vars

\* The newest average is never lost, only an older one that the host has not
\* asked for: it is in the mailbox, on its way, or in the endpoint's buffer.
NewestIsNext ==
    /\ FeedbackUpdateQueue # <<>> => FeedbackUpdateQueue = <<newest>>
    /\ FeedbackUpdateQueue = <<>> /\ fb_pc = "unpack" => new_feedback = newest
    /\ FeedbackUpdateQueue = <<>> /\ fb_pc # "unpack" =>
           usb_audio_fb_ep_buf = newest

\* The endpoint's buffer changes only while the endpoint is empty: the host
\* never reads a mixture of two values.
EndpointStable == [][ep_state = "full" =>
                       usb_audio_fb_ep_buf' = usb_audio_fb_ep_buf]_vars

-----------------------------------------------------------------------------
(* Liveness *)

\* The loop is closed: again and again an average reaches the endpoint, and
\* every read of the host is answered by another load, whether or not there is
\* new feedback, while it streams.
FeedbackFlows ==
    /\ []<>(fb_pc = "unpack")
    /\ ep_state = "empty" ~> ep_state # "empty"

-----------------------------------------------------------------------------
(* What the comment at the buffer says *)

\* "Running average over 8 128ms captures. 1.024 seconds." (sync.c:24): once
\* eight captures have been averaged, there is an average to send.
LocksAfterEight == Len(samples) >= 8 => locked

=============================================================================
