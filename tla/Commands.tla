------------------------------- MODULE Commands -------------------------------
(***************************************************************************)
(* The commands of the host and what they reach: the serial receive task   *)
(* (USBSerialRx), the register interface (avril.c), the clock (rtc.c) and  *)
(* the request for the bootloader (booter.c).  USBSerialRx has priority 2  *)
(* and does not block inside a command, the clock and the booter have      *)
(* priority 1: a command comes whole between any two of their steps.       *)
(***************************************************************************)
EXTENDS Integers, Sequences, FiniteSets

CONSTANTS
    AddressMod,  \* addresses are unsigned, and compared as a signed difference
    AmountMod,   \* amounts are unsigned
    Header,      \* bytes before the registers
    Register,    \* bytes of a register
    Maps,        \* what may be registered: <<base address, size, what>>, ...
    Packets,     \* [count, address, write, value]: what the host may send
    MaxTime,     \* bound on the clock
    MaxPulses    \* bound on the pulses of the clock

VARIABLES
    dev,   \* the device
    host   \* the packet on its way, and history

vars == <<dev, host>>

Nobody == 0  \* no interface has been found
Half == AddressMod \div 2  \* the flag for writing leaves half of the numbers
Free == [count |-> -1]  \* no packet

-----------------------------------------------------------------------------
(* avril.c *)

\* Mutant: the address just behind the registers counts as one of them.
BeyondByMore(address, base, size) == (address - base) % AddressMod > size

\* Beyond the registers of an interface, or before them: the difference wraps.
Beyond(address, base, size) == (address - base) % AddressMod >= size

\* One turn of the loop of locate_interface: it looks at the interface in the
\* middle of those from begin to end, which count from 0 as in the code.
Turn(map, address, s) ==
    LET mid == (s.begin + s.end) \div 2
        base == map[mid + 1][1]
        looked == [s EXCEPT !.base = base]
    IN  IF s.hit \/ s.begin > s.end THEN s
        ELSE IF address < base THEN [looked EXCEPT !.end = mid - 1]
        ELSE [looked EXCEPT !.begin = mid + 1,
                            !.found = mid + 1,
                            !.hit = ~Beyond(address, base, map[mid + 1][2])]

\* Its loop, of at most as many turns as there are interfaces: each leaves
\* fewer to look at.
LoopStart(map) ==
    [begin |-> 0, end |-> Len(map) - 1, found |-> Nobody, base |-> 0, hit |-> FALSE]
Loop(map, address) ==
    LET After[turns \in 0 .. Len(map)] ==
            IF turns = 0 THEN LoopStart(map)
            ELSE Turn(map, address, After[turns - 1])
    IN  After[Len(map)]

\* locate_interface: the interface (1 is the first registered one) and the
\* base address that was looked at last.
locate_interface(map, address) ==
    LET s == Loop(map, address)
        Unmapped == s.found /= Nobody /\ Beyond(address, s.base, map[s.found][2])
    IN  <<IF Unmapped THEN Nobody ELSE s.found, s.base>>

\* _iface_write and _iface_read of the clock, _booter_write and _booter_read.
RtcWrite(d) ==
    IF d.amount = Register /\ d.address = 0
    THEN [d EXCEPT !.timestamp = d.value] ELSE d
RtcRead(d) ==
    IF d.amount = Register /\ d.address = 0
    THEN [d EXCEPT !.value = d.timestamp] ELSE d
BooterWrite(d) == [d EXCEPT !.enter_flag = TRUE]

\* avril_execute: the command is changed in place, its address becomes an
\* offset and loses the write flag.  Without an interface the call goes
\* through a null pointer and does not come back.
avril_execute(d) ==
    LET found == locate_interface(d.map, d.address)
        local == [d EXCEPT !.address = (@ - found[2]) % AddressMod,
                           !.write = FALSE]
        what == d.map[found[1]][3]
    IN  IF found[1] = Nobody THEN [d EXCEPT !.hung = TRUE]
        ELSE IF what = "booter"
        THEN IF d.write THEN BooterWrite(local) ELSE local
        ELSE IF what = "rtc"
        THEN IF d.write THEN RtcWrite(local) ELSE RtcRead(local)
        ELSE local

-----------------------------------------------------------------------------

\* The registers of a command hold a number.
ValuesAssumption == \A packet \in Packets : packet.value \in Int

\* The interfaces are registered in the order of their addresses, apart from
\* each other.
IsMap(map) ==
    /\ map \in Seq(Nat \X Nat \X STRING)
    /\ \A i \in DOMAIN map : map[i][1] < Half /\ map[i][2] <= Half
    /\ \A i, j \in DOMAIN map : i < j => map[i][1] + map[i][2] <= map[j][1]

\* What main registers is such a map.  The flag for writing is no part of an
\* address.
AddressesAssumption ==
    /\ AddressMod \in Nat \ {0, 1}
    /\ \A map \in Maps : IsMap(map)
    /\ \A packet \in Packets : packet.address \in 0 .. Half - 1

Init ==
    /\ \E map \in Maps :
         dev = [map        |-> map,
                amount     |-> 0,      \* usb_serial_rx_ep_buf: the command
                address    |-> 0,
                write      |-> FALSE,
                value      |-> 0,
                armed      |-> TRUE,   \* the endpoint takes a packet
                hung       |-> FALSE,
                timestamp  |-> 0,
                notified   |-> 0,      \* notification count of RTCTask
                rtc        |-> "take", \* how far RTCUpdate is
                loaded     |-> 0,      \* the register it increments
                enter_flag |-> FALSE,
                booter     |-> "delay",
                started    |-> FALSE]  \* Bootloadable_Load was called
    /\ host = [packet |-> Free,
               pulses |-> 0,          \* of the clock, so far
               sets   |-> {<<0, 0>>}] \* the times set, and the pulses before

Running == ~dev.hung /\ ~dev.started

\* The host sends a packet to the endpoint that takes it.
HostSends ==
    /\ dev.armed
    /\ host.packet = Free
    /\ \E packet \in Packets : host' = [host EXCEPT !.packet = packet]
    /\ dev' = [dev EXCEPT !.armed = FALSE]

\* The bytes that came are written over the last command.
Received(d, packet) ==
    [d EXCEPT !.amount = (packet.count - Header) % AmountMod,
              !.address = IF packet.count >= Header THEN packet.address ELSE @,
              !.write = IF packet.count >= Header THEN packet.write ELSE @,
              !.value = IF packet.count > Header THEN packet.value ELSE @]

\* USBFS_EnableOutEP
Enabled(d) == [d EXCEPT !.armed = TRUE]

\* USBSerialRx: a command is executed and the endpoint enabled again.
USBSerialRx ==
    /\ Running
    /\ host.packet /= Free
    /\ LET done == avril_execute(Received(dev, host.packet))
       IN  /\ dev' = IF done.hung THEN done ELSE Enabled(done)
           /\ host' = [host EXCEPT
                !.packet = Free,
                !.sets = IF done.timestamp = dev.timestamp THEN @
                         ELSE @ \cup {<<done.timestamp, host.pulses>>}]

\* rtc_inc_isr
rtc_inc_isr ==
    /\ Running
    /\ host.pulses < MaxPulses
    /\ dev' = [dev EXCEPT !.notified = @ + 1]
    /\ host' = [host EXCEPT !.pulses = @ + 1]

\* RTCUpdate: the wait ends with a notification, or after 500 ms with none.
RtcTake ==
    /\ Running
    /\ dev.rtc = "take"
    /\ dev.notified > 0
    /\ dev' = [dev EXCEPT !.notified = 0, !.rtc = "load"]
    /\ UNCHANGED host

\* Mutant: a second is counted when the wait has timed out, too.
RtcTimeoutCounts ==
    /\ Running
    /\ dev.rtc = "take"
    /\ dev.notified = 0
    /\ dev' = [dev EXCEPT !.rtc = "load"]
    /\ UNCHANGED host

RtcTimeout ==
    /\ Running
    /\ dev.rtc = "take"
    /\ dev.notified = 0
    /\ dev' = dev
    /\ UNCHANGED host

\* timestamp++, a load and a store.
RtcLoad ==
    /\ Running
    /\ dev.rtc = "load"
    /\ dev' = [dev EXCEPT !.loaded = dev.timestamp, !.rtc = "store"]
    /\ UNCHANGED host

RtcStore ==
    /\ Running
    /\ dev.rtc = "store"
    /\ dev.loaded < MaxTime
    /\ dev' = [dev EXCEPT !.timestamp = dev.loaded + 1, !.loaded = 0,
                         !.rtc = "take"]
    /\ UNCHANGED host

\* Booter, every 100 ms: the flag, then the mute, the end of USB, the load.
BooterLooks ==
    /\ Running
    /\ dev.booter = "delay"
    /\ dev.enter_flag
    /\ dev' = [dev EXCEPT !.booter = "stop"]
    /\ UNCHANGED host

BooterStops ==
    /\ Running
    /\ dev.booter = "stop"
    /\ dev' = [dev EXCEPT !.booter = "load", !.armed = FALSE]
    /\ UNCHANGED host

BooterLoads ==
    /\ Running
    /\ dev.booter = "load"
    /\ dev' = [dev EXCEPT !.started = TRUE]
    /\ UNCHANGED host

RTCUpdate == RtcTake \/ RtcTimeout \/ RtcLoad \/ RtcStore
Booter == BooterLooks \/ BooterStops \/ BooterLoads

Next == HostSends \/ USBSerialRx \/ rtc_inc_isr \/ RTCUpdate \/ Booter

Spec == Init /\ [][Next]_vars

-----------------------------------------------------------------------------

Owners(address) ==
    {i \in 1 .. Len(dev.map) :
        dev.map[i][1] <= address /\ address < dev.map[i][1] + dev.map[i][2]}

\* A command reaches the interface whose registers hold its address, whatever
\* gaps the registered interfaces leave, and none if there is no such one.
CommandReachesOwner ==
    Running /\ host.packet /= Free =>
        LET address == Received(dev, host.packet).address
            found == locate_interface(dev.map, address)[1]
        IN  Owners(address) = IF found = Nobody THEN {} ELSE {found}

\* The clock is never fast: it shows a time that was set and at most the
\* seconds since, and two that were on their way when it was set, one already
\* taken by the task and one in its notification.
\* It may be slow, and it may forget the last time that was set.
ClockNeverFast ==
    \E set \in host.sets :
        /\ set[1] <= dev.timestamp
        /\ dev.timestamp <= set[1] + host.pulses - set[2] + 2

=============================================================================
