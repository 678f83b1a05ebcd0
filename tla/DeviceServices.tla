----------------------------- MODULE DeviceServices -----------------------------
(***************************************************************************)
(* The services around the audio path: the commands of the host, the       *)
(* configuration of USB, and the communication of the bootloader.  They    *)
(* share nothing, so a behaviour is of one part, which the first state     *)
(* chooses.                                                                *)
(***************************************************************************)
EXTENDS Integers

CONSTANTS
    \* Commands
    AddressMod, AmountMod, Header, Register, Maps, Packets, MaxTime, MaxPulses,
    \* UsbConfig
    Alternates, ZeroBw, Invalid,
    \* BootComm
    Chunk, Answers, Timeouts, MaxPackets, MaxChanges

VARIABLES
    part,  \* "command", "config" or "boot"
    dev,
    host

vars == <<part, dev, host>>

Command == INSTANCE Commands
Config == INSTANCE UsbConfig
Boot == INSTANCE BootComm

ASSUME CommandAssumption == Command!ValuesAssumption /\ Command!AddressesAssumption
ASSUME BootAssumption == Boot!SizesAssumption

Init ==
    \/ part = "command" /\ Command!Init
    \/ part = "config" /\ Config!Init
    \/ part = "boot" /\ Boot!Init

Next ==
    /\ \/ part = "command" /\ Command!Next
       \/ part = "config" /\ Config!Next
       \/ part = "boot" /\ Boot!Next
    /\ UNCHANGED part

Spec == Init /\ [][Next]_vars

-----------------------------------------------------------------------------

\* A command reaches the interface that owns its address (avril.c).
CommandReachesOwner == part = "command" => Command!CommandReachesOwner

\* The clock is never fast (rtc.c).
ClockNeverFast == part = "command" => Command!ClockNeverFast

\* The service knows every setting when it has no change to look at (usb.c).
NoChangeForgotten == part = "config" => Config!NoChangeForgotten

\* No byte is counted that the host has not taken (comm.c).
WriteCountsTaken == part = "boot" => Boot!WriteCountsTaken

\* No packet is read twice, or left out but for a reset (comm.c).
PacketsInOrder == [][part = "boot" => Boot!PacketsInOrder]_vars

=============================================================================
