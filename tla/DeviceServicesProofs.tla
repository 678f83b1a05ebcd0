------------------------- MODULE DeviceServicesProofs -------------------------
(***************************************************************************)
(* The services keep what they promise, for all the values of their        *)
(* constants: the theorems of the parts, for a behaviour of any part.      *)
(***************************************************************************)
EXTENDS DeviceServices, DataFacts, TLAPS

-----------------------------------------------------------------------------
(* The clock is never fast, whatever commands the host sends between any    *)
(* two steps of the clock's task; and a command reaches the interface that  *)
(* owns its address, whatever interfaces are registered.                    *)

IsDevice(d) ==
    d = [map |-> d.map, amount |-> d.amount, address |-> d.address,
         write |-> d.write, value |-> d.value, armed |-> d.armed,
         hung |-> d.hung, timestamp |-> d.timestamp, notified |-> d.notified,
         rtc |-> d.rtc, loaded |-> d.loaded, enter_flag |-> d.enter_flag,
         booter |-> d.booter, started |-> d.started]

CommandTypeOK ==
    /\ IsDevice(dev)
    /\ dev.value \in Int /\ dev.timestamp \in Int /\ dev.loaded \in Int
    /\ dev.notified \in Nat
    /\ dev.rtc \in {"take", "load", "store"}
    /\ host = [packet |-> host.packet, pulses |-> host.pulses, sets |-> host.sets]
    /\ host.packet # Command!Free => host.packet \in Packets
    /\ host.pulses \in Nat
    /\ host.sets \subseteq Int \X Int

\* A clock that shows time, or will once so many seconds are added, does so
\* since it was set.
NotFast(h, time, seconds) ==
    \E set \in h.sets :
        /\ set[1] <= time
        /\ time + seconds <= set[1] + h.pulses - set[2] + 2

\* The seconds the notification stands for, however many it has counted.
Notified == IF dev.notified > 0 THEN 1 ELSE 0

\* The task adds one second to what it has loaded, and another later for its
\* notification; a time that is set meanwhile is overwritten.
NotFastInTheEnd ==
    /\ NotFast(host, dev.timestamp, Notified + IF dev.rtc = "load" THEN 1 ELSE 0)
    /\ dev.rtc = "store" => NotFast(host, dev.loaded, Notified + 1)

CommandIInv == CommandTypeOK /\ NotFastInTheEnd

\* The clock starts at zero, with no pulse on its way.
LEMMA CommandInitIInv == Command!Init => CommandIInv
<1> SUFFICES ASSUME Command!Init PROVE CommandIInv
  OBVIOUS
<1>1. CommandTypeOK
  BY DEF Command!Init, CommandTypeOK, IsDevice
<1>2. <<0, 0>> \in host.sets /\ host.pulses = 0 /\ dev.timestamp = 0
      /\ dev.notified = 0 /\ dev.rtc = "take"
  BY DEF Command!Init
<1>3. NotFastInTheEnd
  BY <1>2 DEF NotFastInTheEnd, NotFast, Notified
<1>4. QED
  BY <1>1, <1>3 DEF CommandIInv

\* The copy of a command that avril_execute hands on.
WithOffset(d, offset) == [d EXCEPT !.address = offset, !.write = FALSE]

\* It leaves what the clock has.
LEMMA OffsetTaken ==
    ASSUME NEW d, IsDevice(d), NEW offset
    PROVE  /\ IsDevice(WithOffset(d, offset))
           /\ WithOffset(d, offset).notified = d.notified
           /\ WithOffset(d, offset).rtc = d.rtc
           /\ WithOffset(d, offset).loaded = d.loaded
           /\ WithOffset(d, offset).value = d.value
           /\ WithOffset(d, offset).timestamp = d.timestamp
<1>1. ASSUME NEW local, local = WithOffset(d, offset)
      PROVE  /\ IsDevice(local) /\ local.notified = d.notified /\ local.rtc = d.rtc
             /\ local.loaded = d.loaded /\ local.value = d.value
             /\ local.timestamp = d.timestamp
  BY <1>1 DEF IsDevice, WithOffset
<1>2. QED
  BY <1>1

\* A command leaves the clock's task alone and sets the time to the value it
\* brings or not at all.
LEMMA CommandSetsTime ==
    ASSUME NEW d, IsDevice(d), d.value \in Int, d.timestamp \in Int
    PROVE  LET done == Command!avril_execute(d) IN
           /\ IsDevice(done)
           /\ done.notified = d.notified /\ done.rtc = d.rtc /\ done.loaded = d.loaded
           /\ done.value \in Int
           /\ done.timestamp \in {d.timestamp, d.value}
<1> DEFINE found == Command!locate_interface(d.map, d.address)
           offset == (d.address - found[2]) % AddressMod
           local == WithOffset(d, offset)
<1> HIDE DEF found
<1>1. Command!avril_execute(d) \in {[d EXCEPT !.hung = TRUE], local, Command!BooterWrite(local),
                            Command!RtcWrite(local), Command!RtcRead(local)}
  BY DEF Command!avril_execute, found, WithOffset
<1> HIDE DEF offset
<1>2. /\ IsDevice(local) /\ local.notified = d.notified /\ local.rtc = d.rtc
      /\ local.loaded = d.loaded /\ local.value = d.value /\ local.timestamp = d.timestamp
  BY OffsetTaken
<1> HIDE DEF local
<1>3. CASE Command!avril_execute(d) = [d EXCEPT !.hung = TRUE]
  BY <1>3 DEF IsDevice
<1>4. CASE Command!avril_execute(d) = local
  BY <1>2, <1>4
<1>5. CASE Command!avril_execute(d) = Command!BooterWrite(local)
  BY <1>2, <1>5 DEF Command!BooterWrite, IsDevice
<1>6. CASE Command!avril_execute(d) = Command!RtcWrite(local)
  BY <1>2, <1>6 DEF Command!RtcWrite, IsDevice
<1>7. CASE Command!avril_execute(d) = Command!RtcRead(local)
  BY <1>2, <1>7 DEF Command!RtcRead, IsDevice
<1>8. QED
  BY <1>1, <1>3, <1>4, <1>5, <1>6, <1>7

\* The packet is written over the last command, and over nothing else.
LEMMA PacketIsReceived ==
    ASSUME CommandTypeOK, NEW packet, packet.value \in Int
    PROVE  LET d == Command!Received(dev, packet) IN
           /\ IsDevice(d)
           /\ d.notified = dev.notified /\ d.rtc = dev.rtc /\ d.loaded = dev.loaded
           /\ d.value \in Int /\ d.timestamp = dev.timestamp
<1> DEFINE amount == (packet.count - Header) % AmountMod
           address == IF packet.count >= Header THEN packet.address ELSE dev.address
           write == IF packet.count >= Header THEN packet.write ELSE dev.write
           value == IF packet.count > Header THEN packet.value ELSE dev.value
<1>1. value \in Int
  BY DEF CommandTypeOK
<1>2. Command!Received(dev, packet) = [dev EXCEPT !.amount = amount, !.address = address,
                                          !.write = write, !.value = value]
  BY DEF Command!Received
<1>3. IsDevice(dev)
  BY DEF CommandTypeOK
<1> HIDE DEF amount, address, write, value
<1>4. QED
  BY <1>1, <1>2, <1>3 DEF IsDevice

\* A pulse, or a time that is set, does not make a clock fast.
LEMMA NotFastStays ==
    ASSUME NEW h, NEW g, h.sets \subseteq Int \X Int, h.sets \subseteq g.sets,
           h.pulses \in Int, g.pulses \in Int,
           NEW time \in Int, NEW seconds \in Int, NEW later \in Int,
           later - seconds <= g.pulses - h.pulses,
           NotFast(h, time, seconds)
    PROVE  NotFast(g, time, later)
<1>1. PICK set \in h.sets :
        set[1] <= time /\ time + seconds <= set[1] + h.pulses - set[2] + 2
  BY DEF NotFast
<1>2. set[1] \in Int /\ set[2] \in Int
  OBVIOUS
<1>3. time + later <= set[1] + g.pulses - set[2] + 2
  BY <1>1, <1>2
<1>4. set \in g.sets
  OBVIOUS
<1>5. QED
  BY <1>1, <1>3, <1>4 DEF NotFast

\* Every step of a command, of the clock and of the booter keeps the invariant.
LEMMA CommandStepIInv ==
    ASSUME Command!ValuesAssumption PROVE CommandIInv /\ [Command!Next]_Command!vars => CommandIInv'
<1> SUFFICES ASSUME CommandIInv, [Command!Next]_Command!vars PROVE CommandIInv'
  OBVIOUS
<1>0. CommandTypeOK /\ NotFastInTheEnd
  BY DEF CommandIInv
<1>1. CASE Command!HostSends
  <2>1. CommandTypeOK'
    BY <1>0, <1>1 DEF Command!HostSends, CommandTypeOK, IsDevice
  <2>2. host'.sets = host.sets /\ host'.pulses = host.pulses
    BY <1>0, <1>1 DEF Command!HostSends, CommandTypeOK
  <2>3. dev'.timestamp = dev.timestamp /\ dev'.loaded = dev.loaded
        /\ dev'.notified = dev.notified /\ dev'.rtc = dev.rtc
    BY <1>0, <1>1 DEF Command!HostSends, CommandTypeOK, IsDevice
  <2>4. NotFastInTheEnd'
    BY <1>0, <2>2, <2>3 DEF NotFastInTheEnd, NotFast, Notified
  <2>5. QED
    BY <2>1, <2>4 DEF CommandIInv
<1>2. CASE Command!USBSerialRx
  <2> DEFINE received == Command!Received(dev, host.packet)
             done == Command!avril_execute(received)
             setting == done.timestamp # dev.timestamp
  <2>1. host.packet.value \in Int
    BY <1>0, <1>2 DEF Command!USBSerialRx, CommandTypeOK, Command!ValuesAssumption
  <2>2. /\ IsDevice(received)
        /\ received.notified = dev.notified /\ received.rtc = dev.rtc
        /\ received.loaded = dev.loaded /\ received.timestamp = dev.timestamp
        /\ received.value \in Int
    BY <1>0, <2>1, PacketIsReceived
  <2> HIDE DEF received
  <2>3. received.timestamp \in Int
    BY <1>0, <2>2 DEF CommandTypeOK
  <2>4. /\ IsDevice(done)
        /\ done.notified = dev.notified /\ done.rtc = dev.rtc /\ done.loaded = dev.loaded
        /\ done.value \in Int /\ done.timestamp \in Int
    BY <2>2, <2>3, CommandSetsTime
  <2>5. /\ dev' = IF done.hung THEN done ELSE Command!Enabled(done)
        /\ host' = [host EXCEPT
             !.packet = Command!Free,
             !.sets = IF done.timestamp = dev.timestamp THEN @
                      ELSE @ \cup {<<done.timestamp, host.pulses>>}]
    BY <1>2 DEF Command!USBSerialRx, received
  <2> HIDE DEF done
  <2>6. /\ IsDevice(dev')
        /\ dev'.notified = dev.notified /\ dev'.rtc = dev.rtc /\ dev'.loaded = dev.loaded
        /\ dev'.value \in Int /\ dev'.timestamp = done.timestamp
    BY <2>4, <2>5 DEF Command!Enabled, IsDevice
  <2>7. /\ host' = [packet |-> host'.packet, pulses |-> host'.pulses, sets |-> host'.sets]
        /\ host'.packet = Command!Free /\ host'.pulses = host.pulses
        /\ host'.sets = IF done.timestamp = dev.timestamp THEN host.sets
                        ELSE host.sets \cup {<<done.timestamp, host.pulses>>}
    BY <1>0, <2>5 DEF CommandTypeOK
  <2>8. CommandTypeOK'
    BY <1>0, <2>4, <2>6, <2>7 DEF CommandTypeOK
  <2>9. Notified' = Notified /\ Notified \in 0 .. 1
    BY <2>6 DEF Notified
  <2>10. dev.rtc = "store" => NotFast(host', dev'.loaded, Notified' + 1)
    BY <1>0, <2>6, <2>7, <2>8, <2>9, NotFastStays DEF NotFastInTheEnd, CommandTypeOK
  <2>11. CASE done.timestamp = dev.timestamp
    BY <1>0, <2>6, <2>7, <2>8, <2>9, <2>10, <2>11 DEF NotFastInTheEnd, NotFast,
       CommandIInv
  <2>12. CASE done.timestamp # dev.timestamp
    <3>1. <<done.timestamp, host.pulses>> \in host'.sets
      BY <2>7, <2>12
    <3>2. \A n \in 0 .. 2 : NotFast(host', dev'.timestamp, n)
      BY <1>0, <2>4, <2>6, <2>7, <3>1 DEF NotFast, CommandTypeOK
    <3>3. QED
      BY <2>6, <2>8, <2>9, <2>10, <3>2 DEF NotFastInTheEnd, CommandIInv
  <2>13. QED
    BY <2>11, <2>12
<1>3. CASE Command!rtc_inc_isr
  <2>1. /\ IsDevice(dev') /\ dev'.notified = dev.notified + 1
        /\ dev'.rtc = dev.rtc /\ dev'.loaded = dev.loaded
        /\ dev'.value = dev.value /\ dev'.timestamp = dev.timestamp
    BY <1>0, <1>3 DEF Command!rtc_inc_isr, CommandTypeOK, IsDevice
  <2>2. /\ host' = [packet |-> host'.packet, pulses |-> host'.pulses, sets |-> host'.sets]
        /\ host'.packet = host.packet /\ host'.pulses = host.pulses + 1
        /\ host'.sets = host.sets
    BY <1>0, <1>3 DEF Command!rtc_inc_isr, CommandTypeOK
  <2>3. CommandTypeOK'
    BY <1>0, <2>1, <2>2 DEF CommandTypeOK
  <2>4. /\ Notified \in 0 .. 1 /\ Notified' = 1
    BY <1>0, <2>1 DEF Notified, CommandTypeOK
  <2>5. host.pulses \in Int /\ host'.pulses \in Int /\ host.sets \subseteq Int \X Int
        /\ dev.timestamp \in Int /\ dev.loaded \in Int
    BY <1>0, <2>3 DEF CommandTypeOK
  <2>6. dev.rtc = "store" => NotFast(host', dev.loaded, 2)
    BY <1>0, <2>2, <2>4, <2>5, NotFastStays DEF NotFastInTheEnd
  <2>7. CASE dev.rtc = "load"
    <3>1. NotFast(host', dev.timestamp, 2)
      BY <1>0, <2>2, <2>4, <2>5, <2>7, NotFastStays DEF NotFastInTheEnd
    <3>2. QED
      BY <2>1, <2>3, <2>4, <2>7, <3>1 DEF NotFastInTheEnd, CommandIInv
  <2>8. CASE dev.rtc # "load"
    <3>1. Notified + 0 = Notified
      BY <2>4
    <3>2. NotFast(host, dev.timestamp, Notified)
      BY <1>0, <2>8, <3>1 DEF NotFastInTheEnd
    <3>3. NotFast(host', dev.timestamp, 1)
      BY <2>2, <2>4, <2>5, <3>2, NotFastStays
    <3>4. QED
      BY <2>1, <2>3, <2>4, <2>6, <2>8, <3>3 DEF NotFastInTheEnd, CommandIInv
  <2>9. QED
    BY <2>7, <2>8
<1>4. CASE Command!RtcTake
  <2>1. /\ IsDevice(dev') /\ dev'.notified = 0 /\ dev.notified > 0
        /\ dev.rtc = "take" /\ dev'.rtc = "load" /\ dev'.loaded = dev.loaded
        /\ dev'.value = dev.value /\ dev'.timestamp = dev.timestamp
        /\ host' = host
    BY <1>0, <1>4 DEF Command!RtcTake, CommandTypeOK, IsDevice
  <2>2. CommandTypeOK'
    BY <1>0, <2>1 DEF CommandTypeOK
  <2>3. Notified = 1 /\ Notified' = 0
    BY <2>1 DEF Notified
  <2>4. QED
    BY <1>0, <2>1, <2>2, <2>3 DEF NotFastInTheEnd, CommandIInv
<1>5. CASE Command!RtcTimeout
  BY <1>5 DEF Command!RtcTimeout, CommandIInv, CommandTypeOK, NotFastInTheEnd,
     Notified
<1>6. CASE Command!RtcLoad
  <2>1. /\ IsDevice(dev') /\ dev'.notified = dev.notified
        /\ dev.rtc = "load" /\ dev'.rtc = "store" /\ dev'.loaded = dev.timestamp
        /\ dev'.value = dev.value /\ dev'.timestamp = dev.timestamp
        /\ host' = host
    BY <1>0, <1>6 DEF Command!RtcLoad, CommandTypeOK, IsDevice
  <2>2. CommandTypeOK'
    BY <1>0, <2>1 DEF CommandTypeOK
  <2>3. Notified' = Notified /\ Notified \in 0 .. 1
    BY <2>1 DEF Notified
  <2>4. NotFast(host, dev.timestamp, Notified + 1)
    BY <1>0, <2>1 DEF NotFastInTheEnd
  <2>5. NotFast(host, dev.timestamp, Notified)
    BY <1>0, <2>3, <2>4, NotFastStays DEF CommandTypeOK
  <2>6. QED
    BY <2>1, <2>2, <2>3, <2>4, <2>5 DEF NotFastInTheEnd, CommandIInv
<1>7. CASE Command!RtcStore
  <2>1. /\ IsDevice(dev') /\ dev'.notified = dev.notified
        /\ dev.rtc = "store" /\ dev'.rtc = "take" /\ dev'.loaded = 0
        /\ dev'.value = dev.value /\ dev'.timestamp = dev.loaded + 1
        /\ host' = host
    BY <1>0, <1>7 DEF Command!RtcStore, CommandTypeOK, IsDevice
  <2>2. CommandTypeOK'
    BY <1>0, <2>1 DEF CommandTypeOK
  <2>3. Notified' = Notified /\ Notified \in 0 .. 1
    BY <2>1 DEF Notified
  <2>4. PICK set \in host.sets :
          /\ set[1] <= dev.loaded
          /\ dev.loaded + (Notified + 1) <= set[1] + host.pulses - set[2] + 2
    BY <1>0, <2>1 DEF NotFastInTheEnd, NotFast
  <2>5. /\ set[1] \in Int /\ set[2] \in Int /\ host.pulses \in Int
        /\ dev.loaded \in Int
    BY <1>0 DEF CommandTypeOK
  <2>6. /\ set[1] <= dev.loaded + 1
        /\ (dev.loaded + 1) + Notified <= set[1] + host.pulses - set[2] + 2
    BY <2>3, <2>4, <2>5
  <2>7. NotFast(host, dev.loaded + 1, Notified)
    BY <2>6 DEF NotFast
  <2>8. Notified + 0 = Notified
    BY <2>3
  <2>9. QED
    BY <2>1, <2>2, <2>3, <2>7, <2>8 DEF NotFastInTheEnd, CommandIInv
<1>8. CASE Command!Booter
  <2>1. /\ IsDevice(dev') /\ dev'.notified = dev.notified
        /\ dev'.rtc = dev.rtc /\ dev'.loaded = dev.loaded
        /\ dev'.value = dev.value /\ dev'.timestamp = dev.timestamp
        /\ host' = host
    BY <1>0, <1>8 DEF Command!Booter, Command!BooterLooks, Command!BooterStops,
       Command!BooterLoads, CommandTypeOK, IsDevice
  <2>2. CommandTypeOK'
    BY <1>0, <2>1 DEF CommandTypeOK
  <2>3. QED
    BY <1>0, <2>1, <2>2 DEF NotFastInTheEnd, CommandIInv, Notified
<1>9. CASE UNCHANGED Command!vars
  BY <1>9 DEF Command!vars, CommandIInv, CommandTypeOK, NotFastInTheEnd, Notified
<1>10. QED
  BY <1>1, <1>2, <1>3, <1>4, <1>5, <1>6, <1>7, <1>8, <1>9 DEF Command!Next,
     Command!RTCUpdate

\* The clock is not fast in the end, whatever is between its load and store.
THEOREM CommandInvariance == ASSUME Command!ValuesAssumption PROVE Command!Spec => []CommandIInv
BY CommandInitIInv, CommandStepIInv, PTL DEF Command!Spec

\* The clock never shows more than a time that was set, the pulses since, and
\* the two seconds that may have been on their way: rtc_set_time comes between
\* any two steps of RTCUpdate, and so does the interrupt.
THEOREM CommandsKeepClock == ASSUME Command!ValuesAssumption PROVE Command!Spec => []Command!ClockNeverFast
<1>1. ASSUME CommandIInv PROVE Command!ClockNeverFast
  <2> DEFINE seconds == Notified + IF dev.rtc = "load" THEN 1 ELSE 0
  <2>1. seconds \in 0 .. 2
    BY DEF Notified
  <2> HIDE DEF seconds
  <2>2. NotFast(host, dev.timestamp, seconds)
    BY <1>1 DEF CommandIInv, NotFastInTheEnd, seconds
  <2>3. NotFast(host, dev.timestamp, 0)
    BY <1>1, <2>1, <2>2, NotFastStays DEF CommandIInv, CommandTypeOK
  <2>4. PICK set \in host.sets :
          set[1] <= dev.timestamp
          /\ dev.timestamp + 0 <= set[1] + host.pulses - set[2] + 2
    BY <2>3 DEF NotFast
  <2>5. dev.timestamp + 0 = dev.timestamp
    BY <1>1 DEF CommandIInv, CommandTypeOK
  <2>6. QED
    BY <2>4, <2>5 DEF Command!ClockNeverFast
<1>2. QED
  BY <1>1, CommandInvariance, PTL

-----------------------------------------------------------------------------
(* The search for the interface that an address belongs to *)

IsLoop(map, address, After, n) ==
    After = [turns \in 0 .. n |->
              IF turns = 0 THEN Command!LoopStart(map) ELSE Command!Turn(map, address, After[turns - 1])]

\* The states of the loop, up to any number of turns.
LEMMA LoopExists ==
    ASSUME NEW map, NEW address
    PROVE  \A n \in Nat : \E After : IsLoop(map, address, After, n)
<1> DEFINE T == {n \in Nat : \E After : IsLoop(map, address, After, n)}
<1>1. 0 \in T
  <2>1. IsLoop(map, address, [turns \in 0 .. 0 |-> Command!LoopStart(map)], 0)
    BY DEF IsLoop
  <2> QED BY <2>1
<1>2. ASSUME NEW n \in Nat, n \in T PROVE n + 1 \in T
  <2>1. PICK f : IsLoop(map, address, f, n)
    BY <1>2
  <2> DEFINE g == [turns \in 0 .. n + 1 |->
                     IF turns = n + 1 THEN Command!Turn(map, address, f[n]) ELSE f[turns]]
  <2>2. ASSUME NEW turns \in 0 .. n + 1
        PROVE  g[turns] = IF turns = 0 THEN Command!LoopStart(map)
                          ELSE Command!Turn(map, address, g[turns - 1])
    <3>1. CASE turns = n + 1
      BY <3>1
    <3>2. CASE turns # n + 1
      <4>1. turns \in 0 .. n /\ (turns # 0 => turns - 1 \in 0 .. n)
        BY <3>2
      <4>2. g[turns] = f[turns] /\ (turns # 0 => g[turns - 1] = f[turns - 1])
        BY <4>1, <3>2
      <4> QED BY <2>1, <4>1, <4>2 DEF IsLoop
    <3> QED BY <3>1, <3>2
  <2>3. IsLoop(map, address, g, n + 1)
    BY <2>2 DEF IsLoop
  <2> QED BY <2>3
<1> HIDE DEF T
<1>3. Nat \subseteq T
  BY <1>1, <1>2, NatInduct
<1> QED BY <1>3 DEF T

\* A step
LEMMA LoopIs ==
    ASSUME NEW map, NEW address, Len(map) \in Nat
    PROVE  \E After : /\ IsLoop(map, address, After, Len(map))
                      /\ Command!Loop(map, address) = After[Len(map)]
<1> DEFINE f == CHOOSE After : IsLoop(map, address, After, Len(map))
<1>1. IsLoop(map, address, f, Len(map))
  BY LoopExists
<1>2. Command!Loop(map, address) = f[Len(map)]
  BY DEF Command!Loop, IsLoop, Command!LoopStart
<1> QED BY <1>1, <1>2

\* What a map holds of an interface.
LEMMA MapEntries ==
    ASSUME NEW map, Command!IsMap(map), NEW i \in 1 .. Len(map)
    PROVE  /\ map[i][1] \in Nat /\ map[i][2] \in Nat
           /\ map[i][1] < Command!Half /\ map[i][2] <= Command!Half
           /\ \A j \in 1 .. Len(map) : i < j => map[i][1] + map[i][2] <= map[j][1]
<1>1. map[i] \in Nat \X Nat \X STRING /\ DOMAIN map = 1 .. Len(map)
  BY DEF Command!IsMap
<1> QED BY <1>1 DEF Command!IsMap

\* The difference of two addresses is taken for one of unsigned numbers.
LEMMA BeyondIs ==
    ASSUME AddressMod \in Nat \ {0}, NEW address \in 0 .. Command!Half - 1,
           NEW base \in 0 .. Command!Half - 1, NEW size \in 0 .. Command!Half
    PROVE  Command!Beyond(address, base, size) <=> address < base \/ base + size <= address
<1>1. 2 * Command!Half <= AddressMod /\ Command!Half \in Nat
  BY DEF Command!Half
<1>2. CASE address < base
  <2>1. (address - base) % AddressMod = address - base + AddressMod
    BY <1>1, <1>2
  <2> QED BY <1>1, <1>2, <2>1 DEF Command!Beyond
<1>3. CASE base <= address
  <2>1. (address - base) % AddressMod = address - base
    BY <1>1, <1>3
  <2> QED BY <1>3, <2>1 DEF Command!Beyond
<1> QED BY <1>2, <1>3

\* All before the interfaces that are left to look at end before the address,
\* but the one that was hit, and all after them begin after it.
Narrowed(map, address, s) ==
    /\ s = [begin |-> s.begin, end |-> s.end, found |-> s.begin,
            base |-> s.base, hit |-> s.hit]
    /\ s.begin \in 0 .. Len(map) /\ s.end \in -1 .. Len(map) - 1
    /\ s.base \in 0 .. Command!Half - 1
    /\ s.hit \in BOOLEAN
    /\ \A i \in 1 .. s.begin : i < s.begin \/ ~s.hit => map[i][1] + map[i][2] <= address
    /\ \A i \in s.end + 2 .. Len(map) : address < map[i][1]
    /\ s.begin # 0 => (~s.hit <=> Command!Beyond(address, s.base, map[s.begin][2]))
    /\ s.hit => /\ s.begin # 0
                /\ map[s.begin][1] <= address
                /\ address < map[s.begin][1] + map[s.begin][2]

\* A turn keeps it so, and leaves fewer.
LEMMA TurnNarrows ==
    ASSUME AddressMod \in Nat \ {0}, NEW map, Command!IsMap(map),
           NEW address \in 0 .. Command!Half - 1, NEW s, Narrowed(map, address, s),
           NEW t, t = Command!Turn(map, address, s)
    PROVE  /\ Narrowed(map, address, t)
           /\ t.hit \/ t.end < t.begin \/ t.end - t.begin < s.end - s.begin
<1>0. Len(map) \in Nat
  BY DEF Command!IsMap
<1>1. CASE s.hit \/ s.begin > s.end
  BY <1>0, <1>1 DEF Command!Turn, Narrowed
<1>2. CASE ~(s.hit \/ s.begin > s.end)
  <2>0. s.begin \in Nat /\ s.end \in Int /\ s.begin <= s.end
    BY <1>0, <1>2 DEF Narrowed
  <2>1. PICK mid \in s.begin .. s.end : mid = (s.begin + s.end) \div 2
    BY <2>0
  <2>2. mid \in 0 .. Len(map) - 1 /\ s.begin \in 0 .. Len(map) /\ s.end \in -1 .. Len(map) - 1
    BY <1>0, <2>1 DEF Narrowed
  <2>3. PICK base : base = map[mid + 1][1]
    OBVIOUS
  <2>4. PICK size : size = map[mid + 1][2]
    OBVIOUS
  <2>5. /\ base \in 0 .. Command!Half - 1 /\ size \in 0 .. Command!Half /\ Command!Half \in Nat
        /\ \A j \in 1 .. Len(map) : mid + 1 < j => base + size <= map[j][1]
    <3>1. mid + 1 \in 1 .. Len(map)
      BY <1>0, <2>2
    <3>2. Command!Half \in Nat
      BY DEF Command!Half
    <3> QED BY <3>1, <3>2, <2>3, <2>4, MapEntries
  <2>6. \A i \in 1 .. Len(map) : map[i][1] \in Nat /\ map[i][2] \in Nat
                                 /\ (i < mid + 1 => map[i][1] + map[i][2] <= base)
    BY <1>0, <2>2, <2>3, MapEntries
  <2>7. ~s.hit /\ s.base \in 0 .. Command!Half - 1
    BY <1>2 DEF Narrowed
  <2>8. CASE address < base
    <3>1. t = [begin |-> s.begin, end |-> mid - 1, found |-> s.begin, base |-> base, hit |-> FALSE]
      <4>1. t = [[s EXCEPT !.base = base] EXCEPT !.end = mid - 1]
        BY <1>2, <2>1, <2>3, <2>8 DEF Command!Turn
      <4>2. s = [begin |-> s.begin, end |-> s.end, found |-> s.begin,
                 base |-> s.base, hit |-> FALSE]
        BY <2>7 DEF Narrowed
      <4>3. ASSUME NEW b, NEW e, NEW x, s = [begin |-> b, end |-> e, found |-> b,
                                             base |-> x, hit |-> FALSE]
            PROVE  t = [begin |-> b, end |-> mid - 1, found |-> b, base |-> base,
                        hit |-> FALSE]
        BY <4>1, <4>3
      <4> QED BY <4>2, <4>3
    <3>2. \A i \in 1 .. s.begin : map[i][1] + map[i][2] <= address
      BY <2>7 DEF Narrowed
    <3>3. \A i \in mid - 1 + 2 .. Len(map) : address < map[i][1]
      <4> SUFFICES ASSUME NEW i \in mid + 1 .. Len(map) PROVE address < map[i][1]
        BY <2>2
      <4>1. i \in 1 .. Len(map)
        BY <2>2, <1>0
      <4>2. CASE i = mid + 1
        BY <4>2, <2>3, <2>8
      <4>3. CASE mid + 1 < i
        <5>1. base + size <= map[i][1] /\ map[i][1] \in Nat
          BY <4>1, <4>3, <2>5, <2>6
        <5> QED BY <5>1, <2>5, <2>8
      <4> QED BY <4>2, <4>3, <2>2, <1>0
    <3>4. s.begin # 0 => Command!Beyond(address, base, map[s.begin][2])
      <4> SUFFICES ASSUME s.begin # 0 PROVE Command!Beyond(address, base, map[s.begin][2])
        OBVIOUS
      <4>1. s.begin \in 1 .. Len(map)
        BY <2>2
      <4>2. map[s.begin][2] \in 0 .. Command!Half
        BY <4>1, MapEntries, <2>5
      <4> QED BY <4>2, <2>5, <2>8, BeyondIs
    <3>5. t.begin = s.begin /\ t.end = mid - 1 /\ t.base = base /\ t.hit = FALSE
      BY <3>1
    <3>6. /\ t = [begin |-> t.begin, end |-> t.end, found |-> t.begin,
                   base |-> t.base, hit |-> t.hit]
          /\ t.begin \in 0 .. Len(map) /\ t.end \in -1 .. Len(map) - 1
          /\ t.base \in 0 .. Command!Half - 1
      BY <3>1, <3>5, <2>2, <2>5, <1>0
    <3>7. Narrowed(map, address, t)
      BY <3>2, <3>3, <3>4, <3>5, <3>6 DEF Narrowed
    <3>8. t.end < t.begin \/ t.end - t.begin < s.end - s.begin
      BY <3>5, <2>1, <2>2, <1>0
    <3> QED BY <3>7, <3>8
  <2>9. CASE base <= address
    <3> DEFINE hit == ~Command!Beyond(address, base, size)
    <3>1. t = [begin |-> mid + 1, end |-> s.end, found |-> mid + 1, base |-> base, hit |-> hit]
      <4>1. ~(address < base)
        BY <2>5, <2>9
      <4>2. t = [[s EXCEPT !.base = base] EXCEPT !.begin = mid + 1, !.found = mid + 1,
                                                 !.hit = hit]
        BY <1>2, <2>1, <2>3, <2>4, <4>1 DEF Command!Turn
      <4> HIDE DEF hit
      <4> QED BY <4>2 DEF Narrowed
    <3>2. hit <=> address < base + size
      BY <2>5, <2>9, BeyondIs
    <3> HIDE DEF hit
    <3>3. ASSUME NEW i \in 1 .. mid + 1, i < mid + 1 \/ ~hit
          PROVE  map[i][1] + map[i][2] <= address
      <4>1. CASE i = mid + 1
        <5>1. ~hit
          BY <3>3, <4>1
        <5>2. base + size <= address
          BY <5>1, <3>2, <2>5
        <5> QED BY <5>2, <4>1, <2>3, <2>4
      <4>2. CASE i < mid + 1
        <5>1. i \in 1 .. Len(map)
          BY <1>0, <2>2
        <5>2. map[i][1] \in Nat /\ map[i][2] \in Nat /\ map[i][1] + map[i][2] <= base
          BY <5>1, <4>2, <2>6
        <5> QED BY <5>2, <2>5, <2>9
      <4> QED BY <4>1, <4>2, <2>2
    <3>4. \A i \in s.end + 2 .. Len(map) : address < map[i][1]
      BY DEF Narrowed
    <3>5. t.begin = mid + 1 /\ t.end = s.end /\ t.base = base /\ t.hit = hit
      BY <3>1
    <3>6. hit \in BOOLEAN /\ (~hit <=> Command!Beyond(address, base, map[mid + 1][2]))
      BY <2>4 DEF hit
    <3>7. mid + 1 # 0 /\ (hit => map[mid + 1][1] <= address /\ address < map[mid + 1][1] + map[mid + 1][2])
      BY <2>2, <2>3, <2>4, <2>9, <3>2
    <3>8. mid + 1 \in 0 .. Len(map) /\ s.end \in -1 .. Len(map) - 1
      BY <1>0, <2>2
    <3>9. Narrowed(map, address, t)
      BY <3>1, <3>3, <3>4, <3>5, <3>6, <3>7, <3>8, <2>5 DEF Narrowed
    <3> QED BY <3>9, <3>5, <2>1, <2>2, <1>0
  <2> QED BY <2>5, <2>8, <2>9
<1> QED BY <1>1, <1>2

\* After so many turns the address was hit, or at least so many interfaces
\* less are left to look at.
LEMMA LoopNarrows ==
    ASSUME AddressMod \in Nat \ {0}, NEW map, Command!IsMap(map),
           NEW address \in 0 .. Command!Half - 1
    PROVE  LET s == Command!Loop(map, address)
           IN  Narrowed(map, address, s) /\ (s.hit \/ s.end < s.begin)
<1> DEFINE n == Len(map)
<1>1. n \in Nat /\ Command!Half \in Nat
  BY DEF Command!IsMap, Command!Half
<1>2. PICK After : IsLoop(map, address, After, n) /\ Command!Loop(map, address) = After[n]
  BY <1>1, LoopIs
<1> DEFINE Fewer(s, left) == s.hit \/ s.end < s.begin \/ s.end - s.begin < left
           T == {turns \in Nat : turns \in 0 .. n =>
                   Narrowed(map, address, After[turns]) /\ Fewer(After[turns], n - turns)}
<1>3. 0 \in T
  <2>1. 0 \in 0 .. n /\ After[0] = Command!LoopStart(map)
    BY <1>1, <1>2 DEF IsLoop
  <2>2. Command!IsMap(map) /\ Command!Half # 0
    BY <1>1
  <2>3. Narrowed(map, address, Command!LoopStart(map))
    BY <1>1, <2>2 DEF Narrowed, Command!LoopStart, Command!Nobody
  <2>4. Fewer(Command!LoopStart(map), n - 0)
    BY <1>1 DEF Command!LoopStart
  <2> HIDE DEF Fewer
  <2> QED BY <2>1, <2>3, <2>4
<1>4. ASSUME NEW turns \in Nat, turns \in T PROVE turns + 1 \in T
  <2> SUFFICES ASSUME turns + 1 \in 0 .. n
               PROVE  /\ Narrowed(map, address, After[turns + 1])
                      /\ Fewer(After[turns + 1], n - (turns + 1))
    OBVIOUS
  <2>1. turns \in 0 .. n
    BY <1>1
  <2>2. PICK s : s = After[turns]
    OBVIOUS
  <2>3. Narrowed(map, address, s) /\ Fewer(s, n - turns)
    BY <1>4, <2>1, <2>2
  <2>4. After[turns + 1] = Command!Turn(map, address, s)
    <3>1. turns + 1 # 0 /\ turns + 1 - 1 = turns
      OBVIOUS
    <3> QED BY <1>2, <2>2, <3>1 DEF IsLoop
  <2>5. PICK t : t = After[turns + 1]
    OBVIOUS
  <2>6. Narrowed(map, address, t) /\ (t.hit \/ t.end < t.begin \/ t.end - t.begin < s.end - s.begin)
    BY <2>3, <2>4, <2>5, TurnNarrows
  <2>7. s.begin \in Nat /\ s.end \in Int /\ t.begin \in Nat /\ t.end \in Int
    BY <1>1, <2>3, <2>6 DEF Narrowed
  <2>8. CASE s.hit \/ s.begin > s.end
    <3>1. t = s
      BY <2>4, <2>5, <2>8 DEF Command!Turn
    <3> QED BY <2>5, <2>6, <2>7, <2>8, <3>1
  <2>9. CASE ~(s.hit \/ s.begin > s.end)
    <3>1. Fewer(t, n - (turns + 1))
      BY <1>1, <2>3, <2>6, <2>7, <2>9
    <3> QED BY <2>5, <2>6, <3>1
  <2> QED BY <2>8, <2>9
<1> HIDE DEF T
<1>5. n \in T
  BY <1>1, <1>3, <1>4, NatInduct
<1>6. Narrowed(map, address, After[n]) /\ Fewer(After[n], 0)
  BY <1>1, <1>5 DEF T
<1>7. \A s : Narrowed(map, address, s) /\ Fewer(s, 0) => s.hit \/ s.end < s.begin
  BY <1>1 DEF Narrowed
<1> HIDE DEF Fewer
<1> QED BY <1>2, <1>6, <1>7

\* The interfaces that hold an address.
Holders(map, address) ==
    {i \in 1 .. Len(map) : map[i][1] <= address /\ address < map[i][1] + map[i][2]}

\* locate_interface finds the one interface that holds the address, and its
\* base, or none when none does.
LEMMA LocateFinds ==
    ASSUME AddressMod \in Nat \ {0}, NEW map, Command!IsMap(map),
           NEW address \in 0 .. Command!Half - 1,
           NEW located, located = Command!locate_interface(map, address)
    PROVE  /\ Holders(map, address) = IF located[1] = Command!Nobody THEN {} ELSE {located[1]}
           /\ located[1] # Command!Nobody => (address - located[2]) % AddressMod \in 0 .. Command!Half - 1
<1>1. PICK s : s = Command!Loop(map, address)
  OBVIOUS
<1>2. Narrowed(map, address, s) /\ (s.hit \/ s.end < s.begin)
  BY <1>1, LoopNarrows
<1>3. Len(map) \in Nat /\ Command!Half \in Nat /\ 2 * Command!Half <= AddressMod
  BY DEF Command!IsMap, Command!Half
<1>4. /\ s.begin \in 0 .. Len(map) /\ s.end \in -1 .. Len(map) - 1
      /\ s.base \in 0 .. Command!Half - 1 /\ s.hit \in BOOLEAN /\ s.found = s.begin
  BY <1>2 DEF Narrowed
<1> DEFINE Unmapped == s.found # Command!Nobody /\ Command!Beyond(address, s.base, map[s.found][2])
<1>5. located = <<IF Unmapped THEN Command!Nobody ELSE s.found, s.base>>
  BY <1>1 DEF Command!locate_interface
<1>6. CASE s.hit
  <2>1. s.begin # 0 /\ ~Command!Beyond(address, s.base, map[s.begin][2])
        /\ map[s.begin][1] <= address /\ address < map[s.begin][1] + map[s.begin][2]
    BY <1>2, <1>6 DEF Narrowed
  <2>2. located[1] = s.begin /\ located[2] = s.base
    BY <1>4, <1>5, <2>1 DEF Command!Nobody
  <2>3. s.begin \in 1 .. Len(map)
    BY <1>3, <1>4, <2>1
  <2>4. map[s.begin][1] \in Nat /\ map[s.begin][2] \in 0 .. Command!Half
    BY <1>3, <2>3, MapEntries
  <2>5. ASSUME NEW i \in 1 .. Len(map), map[i][1] <= address, address < map[i][1] + map[i][2]
        PROVE  i = s.begin
    <3>1. map[i][1] \in Nat /\ map[i][2] \in Nat
          /\ (i < s.begin => map[i][1] + map[i][2] <= map[s.begin][1])
      BY <2>3, MapEntries
    <3>2. s.begin < i => map[s.begin][1] + map[s.begin][2] <= map[i][1]
      BY <2>3, MapEntries
    <3>3. ~(i < s.begin)
      <4> SUFFICES ASSUME i < s.begin PROVE FALSE
        OBVIOUS
      <4>1. map[i][1] + map[i][2] <= map[s.begin][1]
        BY <3>1
      <4> QED BY <4>1, <3>1, <2>1, <2>4, <2>5, <1>3
    <3>4. ~(s.begin < i)
      <4> SUFFICES ASSUME s.begin < i PROVE FALSE
        OBVIOUS
      <4>1. map[s.begin][1] + map[s.begin][2] <= map[i][1]
        BY <3>2
      <4>2. map[i][1] \in Nat /\ map[s.begin][1] \in Nat /\ map[s.begin][2] \in Nat
        BY <3>1, <2>4, <1>3
      <4>3. map[i][1] <= address /\ address < map[s.begin][1] + map[s.begin][2]
        BY <2>1, <2>5
      <4> QED BY <4>1, <4>2, <4>3
    <3> QED BY <3>3, <3>4, <2>3, <1>3
  <2>6. Holders(map, address) = {s.begin}
    BY <2>1, <2>3, <2>5 DEF Holders
  <2>7. (address - s.base) % AddressMod \in 0 .. Command!Half - 1
    <3>1. (address - s.base) % AddressMod \in Nat
      BY <1>3, <1>4
    <3>2. ~((address - s.base) % AddressMod >= map[s.begin][2])
      BY <2>1 DEF Command!Beyond
    <3> HIDE DEF Unmapped
    <3>3. ASSUME NEW o \in Nat, ~(o >= map[s.begin][2]) PROVE o \in 0 .. Command!Half - 1
      BY <3>3, <2>4, <1>3
    <3> QED BY <3>1, <3>2, <3>3
  <2> HIDE DEF Unmapped
  <2>8. located[1] # Command!Nobody
    BY <2>2, <2>3 DEF Command!Nobody
  <2> QED BY <2>2, <2>6, <2>7, <2>8
<1>7. CASE ~s.hit /\ s.end < s.begin
  <2>1. located[1] = Command!Nobody
    <3>1. s.begin # 0 => Command!Beyond(address, s.base, map[s.begin][2])
      BY <1>2, <1>7 DEF Narrowed
    <3> QED BY <1>4, <1>5, <3>1 DEF Command!Nobody
  <2>2. ASSUME NEW i \in 1 .. Len(map)
        PROVE  address < map[i][1] \/ map[i][1] + map[i][2] <= address
    <3>1. CASE i <= s.begin
      <4>1. i \in 1 .. s.begin
        BY <1>4, <3>1, <1>3
      <4> QED BY <4>1, <1>2, <1>7 DEF Narrowed
    <3>2. CASE i > s.begin
      <4>1. i \in s.end + 2 .. Len(map)
        BY <1>3, <1>4, <1>7, <3>2
      <4> QED BY <4>1, <1>2 DEF Narrowed
    <3> QED BY <3>1, <3>2, <1>4, <1>3
  <2>3. Holders(map, address) = {}
    <3>1. \A i \in 1 .. Len(map) : map[i][1] \in Nat /\ map[i][2] \in Nat
      BY MapEntries
    <3> QED BY <2>2, <3>1, <1>3 DEF Holders
  <2> QED BY <2>1, <2>3
<1> QED BY <1>2, <1>6, <1>7

-----------------------------------------------------------------------------
(* The commands of the host *)

\* An address of the device is one that the map may hold, whether it came with
\* the last packet or is left from the command before.
AddressIsMapped == dev.map \in Maps /\ dev.address \in 0 .. Command!Half - 1

\* A command changes no map, and leaves an address or an offset.
LEMMA CommandLeavesAddress ==
    ASSUME Command!AddressesAssumption, NEW d, IsDevice(d), d.map \in Maps,
           d.address \in 0 .. Command!Half - 1,
           NEW done, done = Command!avril_execute(d)
    PROVE  IsDevice(done) /\ done.map = d.map /\ done.address \in 0 .. Command!Half - 1
<1>1. PICK found : found = Command!locate_interface(d.map, d.address)
  OBVIOUS
<1>2. CASE found[1] = Command!Nobody
  <2>1. done = [d EXCEPT !.hung = TRUE]
    BY <1>1, <1>2 DEF Command!avril_execute
  <2>2. QED
    BY <2>1 DEF IsDevice
<1>3. CASE found[1] # Command!Nobody
  <2>1. PICK offset \in 0 .. Command!Half - 1 : offset = (d.address - found[2]) % AddressMod
    BY <1>1, <1>3, LocateFinds DEF Command!AddressesAssumption
  <2>2. ASSUME NEW local, local = WithOffset(d, offset)
        PROVE  /\ IsDevice(Command!RtcWrite(local)) /\ IsDevice(Command!RtcRead(local))
               /\ IsDevice(Command!BooterWrite(local)) /\ IsDevice(local)
               /\ Command!RtcWrite(local).map = d.map /\ Command!RtcWrite(local).address = offset
               /\ Command!RtcRead(local).map = d.map /\ Command!RtcRead(local).address = offset
               /\ Command!BooterWrite(local).map = d.map /\ Command!BooterWrite(local).address = offset
               /\ local.map = d.map /\ local.address = offset
    <3>1. IsDevice(local) /\ local.map = d.map /\ local.address = offset
      BY <2>2 DEF WithOffset, IsDevice
    <3>2. /\ IsDevice(Command!RtcWrite(local)) /\ Command!RtcWrite(local).map = d.map
          /\ Command!RtcWrite(local).address = offset
      BY <3>1 DEF Command!RtcWrite, IsDevice
    <3>3. /\ IsDevice(Command!RtcRead(local)) /\ Command!RtcRead(local).map = d.map
          /\ Command!RtcRead(local).address = offset
      BY <3>1 DEF Command!RtcRead, IsDevice
    <3>4. /\ IsDevice(Command!BooterWrite(local)) /\ Command!BooterWrite(local).map = d.map
          /\ Command!BooterWrite(local).address = offset
      <4>1. PICK e : e = Command!BooterWrite(local)
        OBVIOUS
      <4>2. IsDevice(e) /\ e.map = local.map /\ e.address = local.address
        BY <3>1, <4>1 DEF Command!BooterWrite, IsDevice
      <4>3. QED
        BY <3>1, <4>1, <4>2
    <3>5. QED
      BY <3>1, <3>2, <3>3, <3>4
  <2>3. done \in {WithOffset(d, offset), Command!BooterWrite(WithOffset(d, offset)),
                  Command!RtcWrite(WithOffset(d, offset)), Command!RtcRead(WithOffset(d, offset))}
    BY <1>1, <1>3, <2>1 DEF Command!avril_execute, WithOffset
  <2>4. QED
    BY <2>2, <2>3
<1>4. QED
  BY <1>2, <1>3

\* The map stays, and so does that every address is one it may hold.
LEMMA StepAddress ==
    ASSUME Command!AddressesAssumption
    PROVE  CommandTypeOK /\ AddressIsMapped /\ [Command!Next]_Command!vars => AddressIsMapped'
<1> SUFFICES ASSUME CommandTypeOK, AddressIsMapped, [Command!Next]_Command!vars PROVE AddressIsMapped'
  OBVIOUS
<1>0. IsDevice(dev)
  BY DEF CommandTypeOK
<1>1. CASE Command!USBSerialRx
  <2>1. PICK received : received = Command!Received(dev, host.packet)
    OBVIOUS
  <2>2. PICK done : done = Command!avril_execute(received)
    OBVIOUS
  <2>3. host.packet.address \in 0 .. Command!Half - 1
    BY <1>1 DEF Command!USBSerialRx, CommandTypeOK, Command!AddressesAssumption
  <2>4. IsDevice(received) /\ received.map = dev.map /\ received.address \in 0 .. Command!Half - 1
    <3>1. PICK address : address = IF host.packet.count >= Header
                                   THEN host.packet.address ELSE dev.address
      OBVIOUS
    <3>2. address \in 0 .. Command!Half - 1
      BY <2>3, <3>1 DEF AddressIsMapped
    <3>3. received.address = address /\ IsDevice(received) /\ received.map = dev.map
      BY <1>0, <2>1, <3>1 DEF Command!Received, IsDevice
    <3>4. QED
      BY <3>2, <3>3
  <2>5. IsDevice(done) /\ done.map = dev.map /\ done.address \in 0 .. Command!Half - 1
    BY <2>2, <2>4, CommandLeavesAddress DEF AddressIsMapped
  <2>6. dev' = done \/ dev' = Command!Enabled(done)
    BY <1>1, <2>1, <2>2 DEF Command!USBSerialRx
  <2>7. dev'.map = done.map /\ dev'.address = done.address
    BY <2>5, <2>6 DEF Command!Enabled, IsDevice
  <2>8. QED
    BY <2>5, <2>7 DEF AddressIsMapped
<1>2. CASE Command!HostSends \/ Command!rtc_inc_isr \/ Command!RTCUpdate \/ Command!Booter \/ UNCHANGED Command!vars
  <2>1. Command!HostSends \/ Command!rtc_inc_isr => dev'.map = dev.map /\ dev'.address = dev.address
    BY <1>0 DEF Command!HostSends, Command!rtc_inc_isr, IsDevice
  <2>2. Command!RTCUpdate => dev'.map = dev.map /\ dev'.address = dev.address
    BY <1>0 DEF Command!RTCUpdate, Command!RtcTake, Command!RtcTimeout,
       Command!RtcLoad, Command!RtcStore, IsDevice
  <2>3. Command!Booter => dev'.map = dev.map /\ dev'.address = dev.address
    BY <1>0 DEF Command!Booter, Command!BooterLooks, Command!BooterStops,
       Command!BooterLoads, IsDevice
  <2>4. UNCHANGED Command!vars => dev'.map = dev.map /\ dev'.address = dev.address
    BY DEF Command!vars
  <2>5. QED
    BY <1>2, <2>1, <2>2, <2>3, <2>4 DEF AddressIsMapped
<1>3. QED
  BY <1>1, <1>2 DEF Command!Next

\* The first command is at address 0.
LEMMA InitAddress == ASSUME Command!AddressesAssumption PROVE Command!Init => AddressIsMapped
<1>1. ASSUME Command!AddressesAssumption PROVE 0 \in 0 .. Command!Half - 1
  BY <1>1 DEF Command!AddressesAssumption, Command!Half
<1>2. QED
  BY <1>1 DEF Command!Init, AddressIsMapped

\* A command that comes is handed to the one interface whose registers hold
\* its address, whatever the registered interfaces and the gaps between them:
\* locate_interface's search ends, and ends there.
LEMMA OwnerIsReached ==
    ASSUME Command!AddressesAssumption
    PROVE  CommandTypeOK /\ AddressIsMapped => Command!CommandReachesOwner
<1> SUFFICES ASSUME CommandTypeOK, AddressIsMapped, host.packet # Command!Free
             PROVE  LET address == Command!Received(dev, host.packet).address
                        found == Command!locate_interface(dev.map, address)[1]
                    IN  Command!Owners(address) = IF found = Command!Nobody THEN {} ELSE {found}
  BY DEF Command!CommandReachesOwner
<1>1. PICK address : address = Command!Received(dev, host.packet).address
  OBVIOUS
<1>2. address \in 0 .. Command!Half - 1
  <2>1. host.packet.address \in 0 .. Command!Half - 1 /\ IsDevice(dev)
    BY DEF CommandTypeOK, Command!AddressesAssumption
  <2>2. address = IF host.packet.count >= Header THEN host.packet.address ELSE dev.address
    BY <1>1, <2>1 DEF Command!Received, IsDevice
  <2>3. QED
    BY <2>1, <2>2 DEF AddressIsMapped
<1>3. Command!IsMap(dev.map) /\ AddressMod \in Nat \ {0}
  BY DEF AddressIsMapped, Command!AddressesAssumption
<1>4. Holders(dev.map, address) = LET found == Command!locate_interface(dev.map, address)[1]
                                  IN  IF found = Command!Nobody THEN {} ELSE {found}
  BY <1>2, <1>3, LocateFinds
<1>5. Command!Owners(address) = Holders(dev.map, address)
  BY DEF Command!Owners, Holders
<1>6. QED
  BY <1>1, <1>4, <1>5

\* Every command of the host reaches the interface that owns its address, in
\* every state of the device, for all maps of interfaces.
THEOREM CommandsFindOwner ==
    ASSUME Command!ValuesAssumption, Command!AddressesAssumption
    PROVE  Command!Spec => []Command!CommandReachesOwner
<1>1. Command!Init => CommandIInv /\ AddressIsMapped
  BY CommandInitIInv, InitAddress
<1>2. CommandIInv /\ AddressIsMapped /\ [Command!Next]_Command!vars => (CommandIInv /\ AddressIsMapped)'
  BY CommandStepIInv, StepAddress DEF CommandIInv
<1>3. CommandIInv /\ AddressIsMapped => Command!CommandReachesOwner
  BY OwnerIsReached DEF CommandIInv
<1>4. QED
  BY <1>1, <1>2, <1>3, PTL DEF Command!Spec

-----------------------------------------------------------------------------
(* The configuration service forgets no change, for all the alternate       *)
(* settings that the host may select and whenever it selects them.           *)

Setting == {Invalid, 0} \cup UNION {Alternates[i] : i \in Config!Interface}

Service == [setting : [Config!Interface -> Setting],
            where   : Config!Interface \cup {"start", "changed", "delay"},
            call    : {"compare", "keep", "load"}]

ConfigTypeOK ==
    /\ dev \in Service
    /\ host \in [configured : BOOLEAN,
                 changed    : BOOLEAN,
                 setting    : [Config!Interface -> Setting],
                 armed      : SUBSET Config!Interface]

\* The interfaces whose settings the service has compared since it asked for a
\* change, the one whose endpoint it is about to load among them.
LookedAt(d) ==
    IF d.where \in {"changed", "delay"} THEN Config!Interface
    ELSE (IF d.where = "audio_in" THEN {"audio_out"}
          ELSE IF d.where = "serial" THEN {"audio_out", "audio_in"}
          ELSE {})
         \cup (IF d.call = "load" THEN {d.where} ELSE {})

\* The settings it has looked at are the host's unless there is a change to
\* ask for.
KnowsWhatItLookedAt ==
    ~host.changed => \A i \in LookedAt(dev) : dev.setting[i] = host.setting[i]

\* Before its first question a configured device has changed: nothing is known
\* of the host then.
FirstChangePending ==
    /\ dev.where = "start" /\ host.configured => host.changed
    /\ dev.where \notin Config!Interface => dev.call = "compare"

ConfigIInv == ConfigTypeOK /\ KnowsWhatItLookedAt /\ FirstChangePending

\* The service has looked at nothing yet.
LEMMA ConfigInitIInv == Config!Init => ConfigIInv
BY DEF Config!Init, ConfigIInv, ConfigTypeOK, KnowsWhatItLookedAt, FirstChangePending, LookedAt,
       Service, Setting, Config!Interface

\* To go on from an interface is to have looked at it.
LEMMA GoOnLooksAt ==
    ASSUME NEW d \in Service, NEW i \in Config!Interface, d.where = i
    PROVE  /\ Config!GoOn(d) \in Service
           /\ Config!GoOn(d).setting = d.setting
           /\ Config!GoOn(d).call = "compare"
           /\ Config!GoOn(d).where # "start"
           /\ LookedAt(Config!GoOn(d)) \subseteq LookedAt(d) \cup {i}
BY DEF Config!GoOn, Config!Follower, LookedAt, Config!Interface, Service

\* Whenever the host selects, the service is told or has yet to look.
LEMMA ConfigStepIInv == ConfigIInv /\ [Config!Next]_Config!vars => ConfigIInv'
<1> SUFFICES ASSUME ConfigIInv, [Config!Next]_Config!vars PROVE ConfigIInv'
  OBVIOUS
<1> USE DEF ConfigIInv, ConfigTypeOK, Service, KnowsWhatItLookedAt, FirstChangePending
<1>1. CASE Config!HostConfigures
  BY <1>1 DEF Config!HostConfigures, LookedAt
<1>2. CASE Config!HostSelects
  <2>1. PICK i \in Config!Interface : \E a \in Alternates[i] :
          host' = [host EXCEPT !.setting[i] = a, !.changed = TRUE, !.armed = @ \ {i}]
    BY <1>2 DEF Config!HostSelects
  <2>2. PICK a \in Alternates[i] :
          host' = [host EXCEPT !.setting[i] = a, !.changed = TRUE, !.armed = @ \ {i}]
    BY <2>1
  <2>3. a \in Setting
    BY DEF Setting
  <2>4. dev' = dev
    BY <1>2 DEF Config!HostSelects
  <2>5. QED
    BY <2>2, <2>3, <2>4
<1>3. CASE Config!Configured
  BY <1>3 DEF Config!Configured, LookedAt, Config!Interface
<1>4. CASE Config!AsksForChange
  BY <1>4 DEF Config!AsksForChange, LookedAt, Config!Interface
<1>5. CASE Config!Delay
  BY <1>5 DEF Config!Delay, LookedAt, Config!Interface
<1>6. ASSUME NEW i \in Config!Interface, Config!Compares(i) PROVE ConfigIInv'
  <2>1. CASE host.setting[i] = dev.setting[i]
    BY <1>6, <2>1, GoOnLooksAt DEF Config!Compares
  <2>2. CASE host.setting[i] # dev.setting[i]
    BY <1>6, <2>2 DEF Config!Compares, LookedAt
  <2>3. QED
    BY <2>1, <2>2
<1>7. ASSUME NEW i \in Config!Interface, Config!Keeps(i) PROVE ConfigIInv'
  <2> DEFINE kept == [dev EXCEPT !.setting[i] = host.setting[i]]
  <2>1. /\ kept \in Service
        /\ kept.where = i /\ kept.call = "keep"
        /\ kept.setting = [dev.setting EXCEPT ![i] = host.setting[i]]
        /\ LookedAt(kept) = LookedAt(dev)
    BY <1>7 DEF Config!Keeps, LookedAt
  <2>2. host' = host
    BY <1>7 DEF Config!Keeps
  <2>3. CASE Config!Loads(i, host.setting[i])
    <3>1. dev' = [kept EXCEPT !.call = "load"]
      BY <1>7, <2>3 DEF Config!Keeps
    <3>2. LookedAt(dev') \subseteq LookedAt(dev) \cup {i}
      BY <2>1, <3>1 DEF LookedAt
    <3>3. dev'.where = i /\ dev'.call = "load" /\ dev' \in Service
      BY <2>1, <3>1
    <3>4. dev'.setting = [dev.setting EXCEPT ![i] = host.setting[i]]
      BY <2>1, <3>1
    <3>5. KnowsWhatItLookedAt'
      BY <2>2, <3>2, <3>4
    <3>6. QED
      BY <2>2, <3>3, <3>5 DEF Config!Interface
  <2>4. CASE ~Config!Loads(i, host.setting[i])
    <3>1. dev' = Config!GoOn(kept)
      BY <1>7, <2>4 DEF Config!Keeps
    <3>2. /\ dev' \in Service /\ dev'.setting = kept.setting
          /\ dev'.call = "compare" /\ dev'.where # "start"
          /\ LookedAt(dev') \subseteq LookedAt(kept) \cup {i}
      BY <2>1, <3>1, GoOnLooksAt
    <3>3. KnowsWhatItLookedAt'
      BY <2>1, <2>2, <3>2
    <3>4. QED
      BY <2>2, <3>2, <3>3
  <2>5. QED
    BY <2>3, <2>4
<1>8. ASSUME NEW i \in Config!Interface, Config!LoadsEndpoints(i) PROVE ConfigIInv'
  <2>1. i \in LookedAt(dev)
    BY <1>8 DEF Config!LoadsEndpoints, LookedAt, Config!Interface
  <2>2. QED
    BY <1>8, <2>1, GoOnLooksAt DEF Config!LoadsEndpoints
<1>9. CASE UNCHANGED Config!vars
  BY <1>9 DEF Config!vars
<1>10. QED
  BY <1>1, <1>2, <1>3, <1>4, <1>5, <1>6, <1>7, <1>8, <1>9
  DEF Config!Next, Config!USBConfigService

\* When the service has no change to look at it knows every setting: usb.c's
\* comparison of settings that may change between any two of its calls.
THEOREM ConfigNoticesChanges == Config!Spec => []Config!NoChangeForgotten
<1>1. ConfigIInv => Config!NoChangeForgotten
  <2> SUFFICES ASSUME ConfigIInv, dev.where = "delay", ~host.changed
               PROVE  dev.setting = host.setting
    BY DEF Config!NoChangeForgotten
  <2>1. \A i \in Config!Interface : dev.setting[i] = host.setting[i]
    BY DEF ConfigIInv, KnowsWhatItLookedAt, LookedAt
  <2>2. QED
    BY <2>1 DEF ConfigIInv, ConfigTypeOK, Service
<1>2. QED
  BY <1>1, ConfigInitIInv, ConfigStepIInv, PTL DEF Config!Spec

-----------------------------------------------------------------------------
(* What CyBtldrCommWrite counts the host has taken, and CyBtldrCommRead      *)
(* gives every packet once and in order, for all sizes, budgets and speeds   *)
(* of the host.                                                              *)

Place == {"idle", "enumerate", "changed", "packet", "take", "copy", "enable",
          "answer", "load", "full", "decide", "written"}

Device == [where   : Place,
           started : BOOLEAN,
           size    : Nat, index : Nat, transfer : Nat,
           limit   : Nat, timeout : Nat, count : Nat,
           status  : {"none", "success", "timeout"},
           data    : Nat]
Host == [configured : BOOLEAN, changed : BOOLEAN, changes : Nat,
         in : Nat, taken : Nat,
         armed : BOOLEAN, full : BOOLEAN,
         buffer : Nat, sent : Nat, dropped : SUBSET Nat]

BootTypeOK == dev \in Device /\ host \in Host

\* The bytes that are counted have been taken, and those of the chunk on its
\* way are taken or in the endpoint, all of them.
BytesOnTheirWay ==
    /\ dev.where = "load" =>
         /\ dev.index = dev.count /\ dev.index < dev.size
         /\ dev.index # 0 => host.in = Boot!Empty /\ host.taken = dev.index
    /\ dev.where \in {"full", "decide"} =>
         /\ dev.index = dev.count /\ dev.index + dev.transfer <= dev.size
         /\ host.in \in {Boot!Empty, dev.transfer}
         /\ host.taken + host.in = dev.index + dev.transfer
    /\ dev.where = "written" =>
         /\ dev.count <= host.taken
         /\ dev.status = "success" =>
              dev.count = dev.size /\ host.taken = dev.size /\ host.in = Boot!Empty

\* The packets after the last one that was read are dropped, or in the
\* endpoint, which takes no other one meanwhile.
PacketsOnTheirWay ==
    /\ host.buffer = host.sent
    /\ host.armed => ~host.full
    /\ dev.data <= host.sent
    /\ \A i \in dev.data + 1 .. host.sent :
         i \in host.dropped \/ (i = host.sent /\ (host.full \/ dev.where = "copy"))
    /\ dev.where \in {"copy", "enable"} => ~host.armed
    /\ dev.where = "enable" => dev.data = host.sent

BootIInv == BootTypeOK /\ BytesOnTheirWay /\ PacketsOnTheirWay

\* No transfer has begun.
LEMMA BootInitIInv == Boot!Init => BootIInv
<1> SUFFICES ASSUME Boot!Init PROVE BootIInv
  OBVIOUS
<1> USE DEF Boot!Init, Boot!Empty
<1>1. BootTypeOK
  BY DEF BootTypeOK, Device, Host, Place
<1>2. BytesOnTheirWay
  BY DEF BytesOnTheirWay
<1>3. PacketsOnTheirWay
  BY DEF PacketsOnTheirWay
<1>4. QED
  BY <1>1, <1>2, <1>3 DEF BootIInv

\* The steps of a write keep the types of the device.
LEMMA DeviceOperators ==
    ASSUME NEW d \in Device
    PROVE  Boot!NextChunk(d) \in Device /\ Boot!Counted(d) \in Device
<1>1. Boot!NextChunk(d) \in Device
  BY DEF Boot!NextChunk, Device, Place
<1>2. d.count + d.transfer \in Nat /\ d.index + d.transfer \in Nat
  BY DEF Device
<1>3. Boot!Counted(d) \in Device
  BY <1>2 DEF Boot!Counted, Device
<1>4. QED
  BY <1>1, <1>3

\* What a reset discards and sets up keeps the types of the host.
LEMMA HostOperators ==
    ASSUME NEW h \in Host
    PROVE  Boot!Discarded(h) \in Host /\ Boot!CyBtldrCommReset(h) \in Host
<1>1. Boot!Discarded(h) \in Host
  BY DEF Boot!Discarded, Host
<1>2. QED
  BY <1>1 DEF Boot!CyBtldrCommReset, Host, Boot!Empty

\* Every step of the device and of the host keeps the types.
LEMMA BootStepType ==
    ASSUME Boot!SizesAssumption, BootTypeOK, BytesOnTheirWay, [Boot!Next]_Boot!vars
    PROVE  BootTypeOK'
<1> USE DEF Boot!SizesAssumption, BootTypeOK
<1>1. CASE Boot!HostConfigures
  <2>1. Boot!Discarded(host) \in Host
    BY HostOperators
  <2>2. host' \in Host
    <3>1. Boot!Discarded(host).changes + 1 \in Nat
      BY <2>1 DEF Host
    <3>2. host' = [Boot!Discarded(host) EXCEPT !.configured = TRUE, !.changed = TRUE,
                                          !.changes = Boot!Discarded(host).changes + 1]
      BY <1>1 DEF Boot!HostConfigures
    <3>3. QED
      BY <2>1, <3>1, <3>2 DEF Host
  <2>3. QED
    BY <1>1, <2>2 DEF Boot!HostConfigures
<1>2. CASE Boot!HostSends
  <2>1. host' \in Host
    <3>1. host.sent + 1 \in Nat
      BY DEF Host
    <3>2. host' = [host EXCEPT !.sent = host.sent + 1, !.buffer = host.sent + 1,
                               !.full = TRUE, !.armed = FALSE]
      BY <1>2 DEF Boot!HostSends
    <3>3. QED
      BY <3>1, <3>2 DEF Host
  <2>2. QED
    BY <1>2, <2>1 DEF Boot!HostSends
<1>3. CASE Boot!HostTakes
  <2>1. host' \in Host
    <3>1. host.taken + host.in \in Nat
      BY DEF Host
    <3>2. host' = [host EXCEPT !.taken = host.taken + host.in, !.in = 0]
      BY <1>3 DEF Boot!HostTakes, Boot!Empty
    <3>3. QED
      BY <3>1, <3>2 DEF Host
  <2>2. QED
    BY <1>3, <2>1 DEF Boot!HostTakes
<1>4. CASE Boot!WriteCall
  <2>1. PICK size \in Answers, timeout \in Timeouts :
          dev' = Boot!NextChunk([dev EXCEPT !.size = size, !.index = 0, !.count = 0,
                                       !.timeout = timeout, !.status = "none"])
    BY <1>4 DEF Boot!WriteCall
  <2>2. [dev EXCEPT !.size = size, !.index = 0, !.count = 0,
                    !.timeout = timeout, !.status = "none"] \in Device
    BY DEF Device
  <2>3. QED
    BY <1>4, <2>1, <2>2, DeviceOperators DEF Boot!WriteCall
<1>5. CASE Boot!WriteLoad
  <2> DEFINE left == dev.size - dev.index
             transfer == IF left > Chunk THEN Chunk ELSE left
  <2>1. transfer \in Nat
    BY <1>5 DEF Boot!WriteLoad, Device, BytesOnTheirWay
  <2>2. dev' = [dev EXCEPT !.where = "full", !.transfer = transfer]
    BY <1>5 DEF Boot!WriteLoad
  <2>3. host' = [host EXCEPT !.in = transfer,
                             !.taken = IF dev.index = 0 THEN 0 ELSE @]
    BY <1>5 DEF Boot!WriteLoad
  <2> HIDE DEF transfer
  <2>4. dev' \in Device
    BY <2>1, <2>2 DEF Device, Place
  <2>5. host' \in Host
    BY <2>1, <2>3 DEF Host
  <2>6. QED
    BY <2>4, <2>5
<1>6. CASE Boot!WriteWaits
  <2>1. dev' \in Device
    BY <1>6 DEF Boot!WriteWaits, Device, Place
  <2>2. QED
    BY <1>6, <2>1 DEF Boot!WriteWaits
<1>7. CASE Boot!WriteDecides
  <2>1. [dev EXCEPT !.status = "timeout", !.where = "written"] \in Device
    BY DEF Device, Place
  <2>2. QED
    BY <1>7, <2>1, DeviceOperators DEF Boot!WriteDecides
<1>8. CASE Boot!WriteReturns
  <2>1. dev' \in Device
    BY <1>8 DEF Boot!WriteReturns, Device, Place
  <2>2. QED
    BY <1>8, <2>1 DEF Boot!WriteReturns
<1>9. CASE Boot!ReadCall
  <2>1. dev' \in Device
    <3>1. PICK timeout \in Timeouts, place \in {"enumerate", "changed"} :
            dev' = [dev EXCEPT !.limit = timeout, !.timeout = timeout,
                               !.status = "none", !.where = place]
      BY <1>9 DEF Boot!ReadCall
    <3>2. timeout \in Nat /\ place \in Place
      BY DEF Place
    <3>3. QED
      BY <3>1, <3>2 DEF Device
  <2>2. QED
    BY <1>9, <2>1 DEF Boot!ReadCall
<1>10. CASE Boot!ReadEnumerates
  <2>1. dev' \in Device
    <3>1. dev.timeout # 0 => dev.timeout - 1 \in Nat
      BY DEF Device
    <3>2. CASE dev.timeout # 0 /\ dev' = [dev EXCEPT !.timeout = dev.timeout - 1]
      BY <3>1, <3>2 DEF Device
    <3>3. CASE dev' = [dev EXCEPT !.where = "packet", !.timeout = dev.limit]
      BY <3>3 DEF Device, Place
    <3>4. CASE dev' = [dev EXCEPT !.where = "packet", !.timeout = dev.limit,
                                  !.started = FALSE]
      BY <3>4 DEF Device, Place
    <3>5. QED
      BY <1>10, <3>2, <3>3, <3>4 DEF Boot!ReadEnumerates
  <2>2. [host EXCEPT !.changed = FALSE] \in Host
    BY DEF Host
  <2>3. QED
    BY <1>10, <2>1, <2>2, HostOperators DEF Boot!ReadEnumerates
<1>11. CASE Boot!ReadChanged
  <2>1. dev' \in Device
    BY <1>11 DEF Boot!ReadChanged, Device, Place
  <2>2. [host EXCEPT !.changed = FALSE] \in Host
    BY DEF Host
  <2>3. QED
    BY <1>11, <2>1, <2>2, HostOperators DEF Boot!ReadChanged
<1>12. CASE Boot!ReadWaits
  <2>1. dev' \in Device
    BY <1>12 DEF Boot!ReadWaits, Device, Place
  <2>2. QED
    BY <1>12, <2>1 DEF Boot!ReadWaits
<1>13. CASE Boot!ReadTakes
  <2>1. dev' \in Device
    BY <1>13 DEF Boot!ReadTakes, Device, Place
  <2>2. QED
    BY <1>13, <2>1 DEF Boot!ReadTakes
<1>14. CASE Boot!ReadCopies
  <2>1. dev' \in Device
    BY <1>14 DEF Boot!ReadCopies, Device, Host, Place
  <2>2. QED
    BY <1>14, <2>1 DEF Boot!ReadCopies
<1>15. CASE Boot!ReadEnables
  <2>1. dev' \in Device
    BY <1>15 DEF Boot!ReadEnables, Device, Place
  <2>2. host' \in Host
    BY <1>15 DEF Boot!ReadEnables, Host
  <2>3. QED
    BY <2>1, <2>2
<1>16. CASE UNCHANGED Boot!vars
  BY <1>16 DEF Boot!vars
<1>17. QED
  BY <1>1, <1>2, <1>3, <1>4, <1>5, <1>6, <1>7, <1>8, <1>9, <1>10, <1>11, <1>12, <1>13, <1>14, <1>15, <1>16 DEF Boot!Next

\* No step loses track of the bytes of an answer.
LEMMA BootStepBytes ==
    ASSUME Boot!SizesAssumption, BootTypeOK, BytesOnTheirWay, [Boot!Next]_Boot!vars
    PROVE  BytesOnTheirWay'
<1> USE DEF Boot!SizesAssumption, BootTypeOK, Device, Host, BytesOnTheirWay, Boot!Empty
<1>1. CASE Boot!HostConfigures
  BY <1>1 DEF Boot!HostConfigures, Boot!Discarded
<1>2. CASE Boot!HostSends
  BY <1>2 DEF Boot!HostSends
<1>3. CASE Boot!HostTakes
  BY <1>3 DEF Boot!HostTakes
<1>4. CASE Boot!WriteCall
  BY <1>4 DEF Boot!WriteCall, Boot!NextChunk
<1>5. CASE Boot!WriteLoad
  BY <1>5 DEF Boot!WriteLoad
<1>6. CASE Boot!WriteWaits
  BY <1>6 DEF Boot!WriteWaits
<1>7. CASE Boot!WriteDecides
  BY <1>7 DEF Boot!WriteDecides, Boot!NextChunk, Boot!Counted
<1>8. CASE Boot!WriteReturns
  BY <1>8 DEF Boot!WriteReturns
<1>9. CASE Boot!ReadCall
  BY <1>9 DEF Boot!ReadCall
<1>10. CASE Boot!ReadEnumerates
  <2>1. dev'.where \in {"enumerate", "packet"}
    BY <1>10 DEF Boot!ReadEnumerates
  <2>2. QED
    BY <2>1
<1>11. CASE Boot!ReadChanged
  BY <1>11 DEF Boot!ReadChanged, Boot!CyBtldrCommReset, Boot!Discarded
<1>12. CASE Boot!ReadWaits
  BY <1>12 DEF Boot!ReadWaits
<1>13. CASE Boot!ReadTakes
  BY <1>13 DEF Boot!ReadTakes
<1>14. CASE Boot!ReadCopies
  BY <1>14 DEF Boot!ReadCopies
<1>15. CASE Boot!ReadEnables
  BY <1>15 DEF Boot!ReadEnables
<1>16. CASE UNCHANGED Boot!vars
  BY <1>16 DEF Boot!vars
<1>17. QED
  BY <1>1, <1>2, <1>3, <1>4, <1>5, <1>6, <1>7, <1>8, <1>9, <1>10, <1>11, <1>12, <1>13, <1>14, <1>15, <1>16 DEF Boot!Next

\* No step loses a packet, or lets the host write over one that is read.
LEMMA BootStepPackets ==
    ASSUME Boot!SizesAssumption, BootTypeOK, PacketsOnTheirWay, [Boot!Next]_Boot!vars
    PROVE  PacketsOnTheirWay'
<1> USE DEF Boot!SizesAssumption, BootTypeOK, Device, Host, PacketsOnTheirWay, Boot!Empty
<1>1. CASE Boot!HostConfigures
  BY <1>1 DEF Boot!HostConfigures, Boot!Discarded
<1>2. CASE Boot!HostSends
  BY <1>2 DEF Boot!HostSends
<1>3. CASE Boot!HostTakes
  BY <1>3 DEF Boot!HostTakes
<1>4. CASE Boot!WriteCall
  BY <1>4 DEF Boot!WriteCall, Boot!NextChunk
<1>5. CASE Boot!WriteLoad
  BY <1>5 DEF Boot!WriteLoad
<1>6. CASE Boot!WriteWaits
  BY <1>6 DEF Boot!WriteWaits
<1>7. CASE Boot!WriteDecides
  BY <1>7 DEF Boot!WriteDecides, Boot!NextChunk, Boot!Counted
<1>8. CASE Boot!WriteReturns
  BY <1>8 DEF Boot!WriteReturns
<1>9. CASE Boot!ReadCall
  BY <1>9 DEF Boot!ReadCall
<1>10. CASE Boot!ReadEnumerates
  <2>1. CASE host.configured
    <3>1. dev'.where = "packet" /\ dev'.data = dev.data /\ dev.where = "enumerate"
      BY <1>10, <2>1 DEF Boot!ReadEnumerates
    <3>2. host' = Boot!CyBtldrCommReset([host EXCEPT !.changed = FALSE])
      BY <1>10, <2>1 DEF Boot!ReadEnumerates
    <3>3. /\ host'.buffer = host.buffer /\ host'.sent = host.sent /\ ~host'.full
          /\ host'.dropped = IF host.full THEN host.dropped \cup {host.buffer}
                             ELSE host.dropped
      BY <3>2 DEF Boot!CyBtldrCommReset, Boot!Discarded
    <3>4. QED
      BY <3>1, <3>3
  <2>2. CASE ~host.configured
    <3>1. dev'.where \in {"enumerate", "packet"} /\ dev'.data = dev.data
      BY <1>10, <2>2 DEF Boot!ReadEnumerates
    <3>2. host' = host
      BY <1>10, <2>2 DEF Boot!ReadEnumerates
    <3>3. dev.where = "enumerate"
      BY <1>10 DEF Boot!ReadEnumerates
    <3>4. QED
      BY <3>1, <3>2, <3>3
  <2>3. QED
    BY <2>1, <2>2
<1>11. CASE Boot!ReadChanged
  BY <1>11 DEF Boot!ReadChanged, Boot!CyBtldrCommReset, Boot!Discarded
<1>12. CASE Boot!ReadWaits
  BY <1>12 DEF Boot!ReadWaits
<1>13. CASE Boot!ReadTakes
  BY <1>13 DEF Boot!ReadTakes
<1>14. CASE Boot!ReadCopies
  BY <1>14 DEF Boot!ReadCopies
<1>15. CASE Boot!ReadEnables
  BY <1>15 DEF Boot!ReadEnables
<1>16. CASE UNCHANGED Boot!vars
  BY <1>16 DEF Boot!vars
<1>17. QED
  BY <1>1, <1>2, <1>3, <1>4, <1>5, <1>6, <1>7, <1>8, <1>9, <1>10, <1>11, <1>12, <1>13, <1>14, <1>15, <1>16 DEF Boot!Next

\* The invariant is inductive.
LEMMA BootStepIInv ==
    ASSUME Boot!SizesAssumption PROVE BootIInv /\ [Boot!Next]_Boot!vars => BootIInv'
BY BootStepType, BootStepBytes, BootStepPackets DEF BootIInv

\* The bytes and packets on their way are where the invariant has them, in
\* every state between two calls of the device or the host.
THEOREM BootInvariance == ASSUME Boot!SizesAssumption PROVE Boot!Spec => []BootIInv
BY BootInitIInv, BootStepIInv, PTL DEF Boot!Spec

\* CyBtldrCommWrite counts no byte that the host has not taken, and tells of
\* success only when it has taken the last one.
THEOREM BootCountsTaken == ASSUME Boot!SizesAssumption PROVE Boot!Spec => []Boot!WriteCountsTaken
<1>1. BootIInv => Boot!WriteCountsTaken
  BY DEF BootIInv, BytesOnTheirWay, Boot!WriteCountsTaken
<1>2. QED
  BY <1>1, BootInvariance, PTL

\* CyBtldrCommRead gives no packet twice and none before an earlier one, and
\* leaves none out but those that a new configuration has discarded.
THEOREM BootReadsInOrder == ASSUME Boot!SizesAssumption PROVE Boot!Spec => [][Boot!PacketsInOrder]_Boot!vars
<1>1. ASSUME BootIInv, [Boot!Next]_Boot!vars PROVE [Boot!PacketsInOrder]_Boot!vars
  <2> SUFFICES ASSUME dev'.data # dev.data
               PROVE  /\ dev'.data > dev.data
                      /\ dev.data + 1 .. dev'.data - 1 \subseteq host.dropped
    BY DEF Boot!PacketsInOrder
  <2>1. Boot!ReadCopies
    BY <1>1 DEF BootIInv, BootTypeOK, Device, Boot!Next, Boot!HostConfigures, Boot!HostSends, Boot!HostTakes, Boot!WriteCall,
       Boot!WriteLoad, Boot!WriteWaits, Boot!WriteDecides, Boot!NextChunk, Boot!Counted, Boot!WriteReturns, Boot!ReadCall,
       Boot!ReadEnumerates, Boot!ReadChanged, Boot!ReadWaits, Boot!ReadTakes, Boot!ReadEnables, Boot!vars
  <2>2. dev'.data = host.sent
    BY <1>1, <2>1 DEF Boot!ReadCopies, BootIInv, BootTypeOK, Device, PacketsOnTheirWay
  <2>3. QED
    BY <1>1, <2>2 DEF BootIInv, BootTypeOK, Device, Host, PacketsOnTheirWay
<1>2. QED
  BY <1>1, BootInvariance, PTL DEF Boot!Spec

-----------------------------------------------------------------------------
(* The services together *)

\* The behaviours of a part.
LEMMA CommandBehaves ==
    Spec /\ [](part = "command") => Command!Spec
<1>1. Init /\ part = "command" => Command!Init
  BY DEF Init
<1>2. part = "command" /\ [Next]_vars => [Command!Next]_Command!vars
  BY DEF Next, vars, Command!vars
<1>3. QED
  BY <1>1, <1>2, PTL DEF Spec, Command!Spec

LEMMA ConfigBehaves ==
    Spec /\ [](part = "config") => Config!Spec
<1>1. Init /\ part = "config" => Config!Init
  BY DEF Init
<1>2. part = "config" /\ [Next]_vars => [Config!Next]_Config!vars
  BY DEF Next, vars, Config!vars
<1>3. QED
  BY <1>1, <1>2, PTL DEF Spec, Config!Spec

LEMMA BootBehaves ==
    Spec /\ [](part = "boot") => Boot!Spec
<1>1. Init /\ part = "boot" => Boot!Init
  BY DEF Init
<1>2. part = "boot" /\ [Next]_vars => [Boot!Next]_Boot!vars
  BY DEF Next, vars, Boot!vars
<1>3. QED
  BY <1>1, <1>2, PTL DEF Spec, Boot!Spec

\* A behaviour is of one part.
LEMMA PartStays ==
    /\ Spec => [](part = "command") \/ [](~(part = "command"))
    /\ Spec => [](part = "config") \/ [](~(part = "config"))
    /\ Spec => [](part = "boot") \/ [](~(part = "boot"))
<1>1. [Next]_vars => part' = part
  BY DEF Next, vars
<1>2. part = "command" /\ [Next]_vars => (part = "command")'
  BY <1>1
<1>3. ~(part = "command") /\ [Next]_vars => (~(part = "command"))'
  BY <1>1
<1>4. part = "config" /\ [Next]_vars => (part = "config")'
  BY <1>1
<1>5. ~(part = "config") /\ [Next]_vars => (~(part = "config"))'
  BY <1>1
<1>6. part = "boot" /\ [Next]_vars => (part = "boot")'
  BY <1>1
<1>7. ~(part = "boot") /\ [Next]_vars => (~(part = "boot"))'
  BY <1>1
<1>8. Spec => [](part = "command") \/ [](~(part = "command"))
  BY <1>2, <1>3, PTL DEF Spec
<1>9. Spec => [](part = "config") \/ [](~(part = "config"))
  BY <1>4, <1>5, PTL DEF Spec
<1>10. Spec => [](part = "boot") \/ [](~(part = "boot"))
  BY <1>6, <1>7, PTL DEF Spec
<1>11. QED
  BY <1>8, <1>9, <1>10, PTL

\* Every command of the host reaches the interface that owns its address, and
\* none if no registered interface does: locate_interface's search ends, and
\* ends there, for all maps of interfaces.
THEOREM CommandsReachOwner == Spec => []CommandReachesOwner
<1>1. Command!Spec => []Command!CommandReachesOwner
  BY CommandAssumption, CommandsFindOwner
<1>2. Command!CommandReachesOwner => CommandReachesOwner
  BY DEF CommandReachesOwner
<1>3. ~(part = "command") => CommandReachesOwner
  BY DEF CommandReachesOwner
<1>4. QED
  BY <1>1, <1>2, <1>3, CommandBehaves, PartStays, PTL

\* The clock never shows more than a time that was set, the pulses since, and
\* the two seconds that may have been on their way.
THEOREM ClockIsNeverFast == Spec => []ClockNeverFast
<1>1. Command!Spec => []Command!ClockNeverFast
  BY CommandAssumption, CommandsKeepClock
<1>2. Command!ClockNeverFast => ClockNeverFast
  BY DEF ClockNeverFast
<1>3. ~(part = "command") => ClockNeverFast
  BY DEF ClockNeverFast
<1>4. QED
  BY <1>1, <1>2, <1>3, CommandBehaves, PartStays, PTL

\* When the configuration service has no change to look at, it knows every
\* setting, although the host selects settings while it compares them.
THEOREM ChangesAreNoticed == Spec => []NoChangeForgotten
<1>1. Config!Spec => []Config!NoChangeForgotten
  BY ConfigNoticesChanges
<1>2. Config!NoChangeForgotten => NoChangeForgotten
  BY DEF NoChangeForgotten
<1>3. ~(part = "config") => NoChangeForgotten
  BY DEF NoChangeForgotten
<1>4. QED
  BY <1>1, <1>2, <1>3, ConfigBehaves, PartStays, PTL

\* CyBtldrCommWrite counts no byte that the host has not taken, and tells of
\* success only when it has taken the last one.
THEOREM CountsAreTaken == Spec => []WriteCountsTaken
<1>1. Boot!Spec => []Boot!WriteCountsTaken
  BY BootAssumption, BootCountsTaken DEF BootAssumption
<1>2. Boot!WriteCountsTaken => WriteCountsTaken
  BY DEF WriteCountsTaken
<1>3. ~(part = "boot") => WriteCountsTaken
  BY DEF WriteCountsTaken
<1>4. QED
  BY <1>1, <1>2, <1>3, BootBehaves, PartStays, PTL

\* CyBtldrCommRead gives no packet twice and none before an earlier one, and
\* leaves none out but those that a new configuration has discarded.
THEOREM PacketsComeInOrder == Spec => PacketsInOrder
<1>1. Boot!Spec => [][Boot!PacketsInOrder]_Boot!vars
  BY BootAssumption, BootReadsInOrder DEF BootAssumption
<1>2. [Boot!PacketsInOrder]_Boot!vars /\ [Next]_vars
        => [part = "boot" => Boot!PacketsInOrder]_vars
  BY DEF Next, vars, Boot!vars
<1>3. ~(part = "boot") => [part = "boot" => Boot!PacketsInOrder]_vars
  OBVIOUS
<1>4. QED
  BY <1>1, <1>2, <1>3, BootBehaves, PartStays, PTL DEF Spec, PacketsInOrder

=============================================================================
