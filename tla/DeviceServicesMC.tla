--------------------------- MODULE DeviceServicesMC ---------------------------
(***************************************************************************)
(* The services on a small instance.                                       *)
(***************************************************************************)
EXTENDS DeviceServices

\* What the firmware registers, in the order of its addresses, and other maps:
\* neighbours, gaps, one and several interfaces on either side.
MapsMC ==
    {<<<<2, 2, "rtc">>, <<8, 1, "booter">>>>,
     <<<<0, 1, "other">>, <<2, 2, "rtc">>, <<4, 3, "other">>, <<8, 4, "booter">>>>,
     <<<<0, 3, "other">>, <<4, 2, "rtc">>, <<10, 3, "booter">>>>}

Packet(count, address, write, value) ==
    [count |-> count, address |-> address, write |-> write, value |-> value]
PacketsMC ==
    {Packet(3, address, TRUE, 2) : address \in {2, 4, 8}}
        \cup {Packet(2, address, FALSE, 0) : address \in {0, 1, 3, 5, 11}}
        \cup {Packet(3, 2, FALSE, 0), Packet(1, 0, FALSE, 0)}

AlternatesMC ==
    [i \in {"audio_out", "audio_in", "serial"} |->
        IF i = "audio_out" THEN {0, 1} ELSE {0}]

=============================================================================
