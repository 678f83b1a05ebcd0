------------------------------- MODULE BootComm -------------------------------
(***************************************************************************)
(* The bootloader's communication (Bootloader.cydsn/comm.c): it reads a    *)
(* packet and writes an answer, polling the endpoints with CyDelay(1)      *)
(* between two looks.  The host and the USB hardware move between any two  *)
(* of its calls.  The bootloader that calls these functions is generated   *)
(* and not in the repository: it reads, then writes an answer.             *)
(***************************************************************************)
EXTENDS Integers

CONSTANTS
    Chunk,      \* USBFS_BTLDR_SIZEOF_READ_BUFFER
    Answers,    \* sizes of the answers
    Timeouts,   \* 10 * timeOut: the milliseconds a call waits
    MaxPackets, \* bound on the packets the host sends
    MaxChanges  \* bound on the configurations the host makes

VARIABLES
    dev,   \* the functions of comm.c
    host   \* the host and the endpoints

vars == <<dev, host>>

\* Sizes and times are unsigned numbers.
SizesAssumption == Chunk \in Nat /\ Answers \subseteq Nat /\ Timeouts \subseteq Nat

Empty == 0  \* no bytes in the endpoint for the host; no packet in the other

Init ==
    /\ dev = [where   |-> "idle",
              started |-> TRUE,   \* USBUART_started, set by CyBtldrCommStart
              size    |-> 0, index |-> 0, transfer |-> 0,
              limit   |-> 0,      \* 10 * timeOut of the call
              timeout |-> 0,      \* timeoutMs
              count   |-> 0,      \* *count
              status  |-> "none", \* retCode, "none" when it is not assigned
              data    |-> 0]      \* what the read returned
    /\ host = [configured |-> FALSE, changed |-> FALSE,
               changes    |-> 0,
               in         |-> Empty, \* bytes that wait for the host
               taken      |-> 0,     \* history: bytes of this answer it took
               armed      |-> FALSE, \* the out endpoint takes a packet
               full       |-> FALSE, \* and has taken one
               buffer     |-> Empty, \* rx_ep_buf: the number of a packet
               sent       |-> 0,     \* packets the host sent
               dropped    |-> {}]    \* history: those a reset discarded

-----------------------------------------------------------------------------
(* The host *)

Discarded(h) ==
    [h EXCEPT !.armed = FALSE, !.full = FALSE,
              !.dropped = IF h.full THEN @ \cup {h.buffer} ELSE @]

\* A new configuration stops the out endpoint until it is enabled again.
HostConfigures ==
    /\ host.changes < MaxChanges
    /\ host' = [Discarded(host) EXCEPT !.configured = TRUE, !.changed = TRUE,
                                       !.changes = @ + 1]
    /\ UNCHANGED dev

HostSends ==
    /\ host.armed
    /\ host.sent < MaxPackets
    /\ host' = [host EXCEPT !.sent = @ + 1, !.buffer = host.sent + 1,
                            !.full = TRUE, !.armed = FALSE]
    /\ UNCHANGED dev

HostTakes ==
    /\ host.in /= Empty
    /\ host' = [host EXCEPT !.taken = @ + host.in, !.in = Empty]
    /\ UNCHANGED dev

-----------------------------------------------------------------------------
(* CyBtldrCommWrite *)

\* What follows for an answer of which dev.index bytes are sent.
NextChunk(d) ==
    IF d.index < d.size THEN [d EXCEPT !.where = "load"]
    ELSE [d EXCEPT !.where = "written"]

WriteCall ==
    /\ dev.where = "answer"
    /\ \E size \in Answers, timeout \in Timeouts :
         dev' = NextChunk([dev EXCEPT !.size = size, !.index = 0, !.count = 0,
                                      !.timeout = timeout, !.status = "none"])
    /\ UNCHANGED host

\* memcpy and USBFS_LoadInEP
WriteLoad ==
    LET left == dev.size - dev.index
        transfer == IF left > Chunk THEN Chunk ELSE left
    IN  /\ dev.where = "load"
        /\ dev' = [dev EXCEPT !.where = "full", !.transfer = transfer]
        /\ host' = [host EXCEPT !.in = transfer,
                                !.taken = IF dev.index = 0 THEN 0 ELSE @]

\* The loop while the host has not read it and there is time.
WriteWaits ==
    /\ dev.where = "full"
    /\ dev' = IF host.in /= Empty /\ dev.timeout /= 0
              THEN [dev EXCEPT !.timeout = @ - 1]
              ELSE [dev EXCEPT !.where = "decide"]
    /\ UNCHANGED host

\* Mutant: a last chunk that is shorter counts as a whole one.
CountedWhole(d) ==
    [d EXCEPT !.count = @ + Chunk, !.index = @ + Chunk, !.status = "success"]

Counted(d) ==
    [d EXCEPT !.count = @ + d.transfer, !.index = @ + d.transfer,
              !.status = "success"]

\* The endpoint is looked at again: one call has the time of all its chunks.
WriteDecides ==
    /\ dev.where = "decide"
    /\ dev' = IF host.in /= Empty
              THEN [dev EXCEPT !.status = "timeout", !.where = "written"]
              ELSE NextChunk(Counted(dev))
    /\ UNCHANGED host

WriteReturns ==
    /\ dev.where = "written"
    /\ dev' = [dev EXCEPT !.where = "idle"]
    /\ UNCHANGED host

-----------------------------------------------------------------------------
(* CyBtldrCommRead *)

ReadCall ==
    /\ dev.where = "idle"
    /\ \E timeout \in Timeouts :
         dev' = [dev EXCEPT !.timeout = timeout, !.limit = timeout,
                            !.status = "none",
                            !.where = IF dev.started THEN "enumerate" ELSE "changed"]
    /\ UNCHANGED host

\* CyBtldrCommReset: the endpoints are set up again.
CyBtldrCommReset(h) == [Discarded(h) EXCEPT !.in = Empty, !.armed = TRUE]

\* The first read waits for the enumeration.
ReadEnumerates ==
    /\ dev.where = "enumerate"
    /\ \/ /\ ~host.configured /\ dev.timeout /= 0
          /\ dev' = [dev EXCEPT !.timeout = @ - 1]
          /\ UNCHANGED host
       \/ /\ ~host.configured /\ dev.timeout = 0
          /\ dev' = [dev EXCEPT !.where = "packet", !.timeout = dev.limit]
          /\ UNCHANGED host
       \/ /\ host.configured
          /\ dev' = [dev EXCEPT !.where = "packet", !.timeout = dev.limit,
                                !.started = FALSE]
          /\ host' = CyBtldrCommReset([host EXCEPT !.changed = FALSE])

\* The others look whether the host has configured the device again.
ReadChanged ==
    /\ dev.where = "changed"
    /\ dev' = [dev EXCEPT !.where = "packet"]
    /\ host' = IF host.changed /\ host.configured
               THEN CyBtldrCommReset([host EXCEPT !.changed = FALSE])
               ELSE [host EXCEPT !.changed = FALSE]

ReadWaits ==
    /\ dev.where = "packet"
    /\ dev' = IF ~host.full /\ dev.timeout /= 0
              THEN [dev EXCEPT !.timeout = @ - 1]
              ELSE [dev EXCEPT !.where = "take"]
    /\ UNCHANGED host

\* Mutant: the endpoint takes the next packet before this one is copied.
ReadTakesEnabled ==
    /\ dev.where = "take"
    /\ IF host.full
       THEN /\ dev' = [dev EXCEPT !.where = "copy"]
            /\ host' = [host EXCEPT !.armed = TRUE, !.full = FALSE]
       ELSE /\ dev' = [dev EXCEPT !.where = "idle", !.count = 0, !.status = "timeout"]
            /\ UNCHANGED host

\* The bytes are copied, and only then the endpoint is enabled.
ReadTakes ==
    /\ dev.where = "take"
    /\ dev' = IF host.full THEN [dev EXCEPT !.where = "copy"]
              ELSE [dev EXCEPT !.where = "idle", !.count = 0, !.status = "timeout"]
    /\ UNCHANGED host

ReadCopies ==
    /\ dev.where = "copy"
    /\ dev' = [dev EXCEPT !.where = "enable", !.data = host.buffer]
    /\ UNCHANGED host

ReadEnables ==
    /\ dev.where = "enable"
    /\ dev' = [dev EXCEPT !.where = "answer", !.status = "success"]
    /\ host' = [host EXCEPT !.armed = TRUE, !.full = FALSE]

Next ==
    \/ HostConfigures \/ HostSends \/ HostTakes
    \/ WriteCall \/ WriteLoad \/ WriteWaits \/ WriteDecides \/ WriteReturns
    \/ ReadCall \/ ReadEnumerates \/ ReadChanged \/ ReadWaits
    \/ ReadTakes \/ ReadCopies \/ ReadEnables

Spec == Init /\ [][Next]_vars

-----------------------------------------------------------------------------

\* An answer that was written with success was taken by the host to its last
\* byte, and one that timed out at least as far as the count that is returned.
WriteCountsTaken ==
    dev.where = "written" =>
        /\ dev.count <= host.taken
        /\ dev.status = "success" => dev.count = dev.size /\ host.taken = dev.size

\* The bootloader gets every packet once, whole and in the order it was sent,
\* but for those that a new configuration discarded.
PacketsInOrder ==
    dev'.data /= dev.data =>
        /\ dev'.data > dev.data
        /\ dev.data + 1 .. dev'.data - 1 \subseteq host.dropped

=============================================================================
