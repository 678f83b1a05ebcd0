------------------------------- MODULE UsbConfig -------------------------------
(***************************************************************************)
(* The configuration service (usb.c): every 100 ms it asks USBFS whether   *)
(* the configuration has changed and compares the alternate setting of     *)
(* each interface with the one it knows.  The host may select a setting    *)
(* between any two of its calls.                                           *)
(***************************************************************************)
EXTENDS Integers

CONSTANTS
    Alternates,  \* of each interface, the alternate settings the host selects
    ZeroBw,      \* USB_AUDIO_OUT_ALT_ZEROBW
    Invalid      \* USB_ALT_INVALID

VARIABLES
    dev,   \* the service
    host   \* USBFS, as the host leaves it

vars == <<dev, host>>

Interface == {"audio_out", "audio_in", "serial"}

Init ==
    /\ dev = [setting |-> [i \in Interface |-> Invalid], \* ..._alt_setting
              where   |-> "start",     \* the interface it looks at, and
              call    |-> "compare"]   \* what it does with it next
    /\ host = [configured |-> FALSE,
               changed    |-> FALSE,    \* what USBFS_IsConfigurationChanged tells
               setting    |-> [i \in Interface |-> 0],
               armed      |-> {}]       \* the interfaces whose endpoints serve

\* The host configures the device, and later selects a setting: USBFS sets the
\* endpoints of the interface up again, and they serve nothing until loaded.
HostConfigures ==
    /\ ~host.configured
    /\ host' = [host EXCEPT !.configured = TRUE, !.changed = TRUE]
    /\ UNCHANGED dev

HostSelects ==
    /\ host.configured
    /\ \E i \in Interface : \E a \in Alternates[i] :
         host' = [host EXCEPT !.setting[i] = a, !.changed = TRUE,
                              !.armed = @ \ {i}]
    /\ UNCHANGED dev

-----------------------------------------------------------------------------
(* USBConfigService *)

\* USBFS_Start, and the loop until the host has configured the device.
Configured ==
    /\ dev.where = "start"
    /\ host.configured
    /\ dev' = [dev EXCEPT !.where = "changed"]
    /\ UNCHANGED host

\* USBFS_IsConfigurationChanged clears what it tells.
AsksForChange ==
    /\ dev.where = "changed"
    /\ dev' = [dev EXCEPT !.where = IF host.changed THEN "audio_out" ELSE "delay"]
    /\ host' = [host EXCEPT !.changed = FALSE]

Follower(i) ==
    CASE i = "audio_out" -> "audio_in"
      [] i = "audio_in" -> "serial"
      [] i = "serial" -> "delay"
GoOn(d) == [d EXCEPT !.where = Follower(@), !.call = "compare"]

\* The setting is read to compare it, and read again to keep it.
Compares(i) ==
    /\ dev.where = i
    /\ dev.call = "compare"
    /\ dev' = IF host.setting[i] = dev.setting[i] THEN GoOn(dev)
              ELSE [dev EXCEPT !.call = "keep"]
    /\ UNCHANGED host

Loads(i, setting) ==
    i = "serial" \/ (i = "audio_out" /\ setting /= ZeroBw)

Keeps(i) ==
    /\ dev.where = i
    /\ dev.call = "keep"
    /\ LET kept == [dev EXCEPT !.setting[i] = host.setting[i]]
       IN  dev' = IF Loads(i, host.setting[i])
                  THEN [kept EXCEPT !.call = "load"] ELSE GoOn(kept)
    /\ UNCHANGED host

\* USBFS_ReadOutEP, USBFS_EnableOutEP and USBFS_LoadInEP
LoadsEndpoints(i) ==
    /\ dev.where = i
    /\ dev.call = "load"
    /\ dev' = GoOn(dev)
    /\ host' = [host EXCEPT !.armed = @ \cup {i}]

\* Mutant: a change is taken for seen after the delay.
DelayClears ==
    /\ dev.where = "delay"
    /\ dev' = [dev EXCEPT !.where = "changed"]
    /\ host' = [host EXCEPT !.changed = FALSE]

\* vTaskDelayUntil
Delay ==
    /\ dev.where = "delay"
    /\ dev' = [dev EXCEPT !.where = "changed"]
    /\ UNCHANGED host

USBConfigService ==
    \/ Configured \/ AsksForChange \/ Delay
    \/ \E i \in Interface : Compares(i) \/ Keeps(i) \/ LoadsEndpoints(i)

Next == HostConfigures \/ HostSelects \/ USBConfigService

Spec == Init /\ [][Next]_vars

-----------------------------------------------------------------------------

\* When the service has no change to look at, it knows the setting of every
\* interface, although the host selects settings while it compares them.
NoChangeForgotten ==
    dev.where = "delay" /\ ~host.changed => dev.setting = host.setting

=============================================================================
