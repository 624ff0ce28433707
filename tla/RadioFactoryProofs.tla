------------------------- MODULE RadioFactoryProofs -------------------------
(***************************************************************************)
(* What listing and opening keep for any number of places, devices, ports, *)
(* runs and changes: the context outlives the thread, an index is a place  *)
(* in the list, a driver gets its own kind of radio, and the radio opened  *)
(* is the one shown at its index.                                          *)
(***************************************************************************)
EXTENDS RadioFactory, FiniteSetTheorems, SequenceTheorems, TLAPS

(* While there is a thread, its context has not been freed. *)
ThreadHasContext == thread # "none" => ctx = "live"

(* The events thread is never inside libusb with a context that            *)
(* ~USBRadioFactory has freed: it joins the thread first.                  *)
THEOREM ContextOutlivesThread == Spec => []ContextAlive
<1>1. Init => ThreadHasContext
  BY DEF Init, ThreadHasContext
<1>2. ThreadHasContext /\ [Next]_vars => ThreadHasContext'
  <2> SUFFICES ASSUME ThreadHasContext, [Next]_vars
               PROVE  ThreadHasContext'
    OBVIOUS
  <2>1. CASE Run
    BY <2>1 DEF Run, ThreadHasContext
  <2>2. CASE ExitContext
    BY <2>2 DEF ExitContext, Joined, evt, ThreadHasContext
  <2>3. CASE Main /\ ~ExitContext
    BY <2>3 DEF Main, GetDeviceList, Unsupported, ListRadio, SkipRadio, OpDeviceList,
                ListPort, PortsListed, ListingThrows, ClearContext, PrintList,
                OpenDevice, evt, ThreadHasContext
  <2>4. CASE HandleEvents \/ Crash
    BY <2>4 DEF HandleEvents, Check, HandOver, EventsHandled, Crash, ThreadHasContext
  <2>5. CASE PlugOrUnplug \/ UNCHANGED vars
    BY <2>5 DEF PlugOrUnplug, vars, evt, ThreadHasContext
  <2> QED
    BY <2>1, <2>2, <2>3, <2>4, <2>5 DEF Next
<1>3. ThreadHasContext => ContextAlive
  BY DEF ThreadHasContext, ContextAlive
<1> QED
  BY <1>1, <1>2, <1>3, PTL DEF Spec

-----------------------------------------------------------------------------
(* What the enumeration works on, and what it makes of it. *)
Ids   == Devices \cup {NoDevice}
Found == [place : Int, ids : Ids]
Drivers == DOMAIN RadioSupports \cup {"Ailunce"}
Entry == [index : Nat, driver : Drivers, place : Int]

LEMMA PlacesApart == Places \subseteq Int /\ Ports \subseteq Int /\ Places \cap Ports = {}
  BY RadioFactoryAssumption DEF RadioFactoryAssumption, Places, Ports

FactoryTypes ==
  /\ bus \in [Places -> Ids]
  /\ ports \in Seq(Ports)
  /\ devs \in Seq(Found)
  /\ idx \in Nat
  /\ list \in Seq(Entry)

(* What is listed or still to be looked at was plugged in when it was      *)
(* found, or its place has changed since.                                  *)
FoundInPlace ==
  /\ \A k \in DOMAIN devs :
       devs[k].place \in Places =>
         devs[k].place \in stirred \/ bus[devs[k].place] = devs[k].ids
  /\ \A k \in DOMAIN list :
       list[k].place \in Places =>
         list[k].place \in stirred \/ SupportsDevice(list[k].driver, bus[list[k].place])

FactoryInv == FactoryTypes /\ FoundInPlace /\ DriverFitsRadio

LEMMA FactoryInit == Init => FactoryInv
<1> SUFFICES ASSUME Init PROVE FactoryInv
  OBVIOUS
<1>1. ports \in Seq(Ports)
  <2>1. PICK n \in 0..MaxPorts : ports = [k \in 1..n |-> NPlaces + k]
    BY DEF Init
  <2>2. \A k \in 1..n : NPlaces + k \in Ports
    BY RadioFactoryAssumption DEF RadioFactoryAssumption, Ports
  <2> QED
    BY <2>1, <2>2, RadioFactoryAssumption DEF RadioFactoryAssumption
<1>2. FactoryTypes
  BY <1>1 DEF Init, FactoryTypes, Ids
<1> QED
  BY <1>2 DEF Init, FactoryInv, FoundInPlace, DriverFitsRadio

(* Taking the next of what was found. *)
LEMMA NextFound ==
  ASSUME FactoryInv, devs # <<>>
  PROVE  /\ Dev \in Found
         /\ Dev.place \in Places =>
              Dev.place \in stirred \/ bus[Dev.place] = Dev.ids
         /\ Tail(devs) \in Seq(Found)
         /\ \A k \in DOMAIN Tail(devs) : \E j \in DOMAIN devs : Tail(devs)[k] = devs[j]
<1>1. devs \in Seq(Found)
  BY DEF FactoryInv, FactoryTypes
<1>2. Dev = devs[1] /\ 1 \in DOMAIN devs
  BY <1>1 DEF Dev
<1>3. /\ Dev \in Found /\ Tail(devs) \in Seq(Found)
      /\ Len(Tail(devs)) = Len(devs) - 1
      /\ \A k \in 1..Len(Tail(devs)) : Tail(devs)[k] = devs[k + 1]
  BY <1>1, HeadTailProperties DEF Dev
<1>4. \A k \in DOMAIN Tail(devs) : k + 1 \in DOMAIN devs
  BY <1>1, <1>3
<1> QED
  BY <1>2, <1>3, <1>4 DEF FactoryInv, FoundInPlace

(* A RadioInfo is added to the list. *)
LEMMA ListGrows ==
  ASSUME FactoryInv, NEW e \in Entry, devs # <<>>,
         devs' = Tail(devs), list' = Append(list, e),
         UNCHANGED <<bus, ports, stirred, opened>>, idx' \in Nat,
         e.place \in Places =>
           e.place \in stirred \/ SupportsDevice(e.driver, bus[e.place])
  PROVE  FactoryInv'
<1>1. /\ list' \in Seq(Entry) /\ Len(list') = Len(list) + 1
      /\ \A k \in 1..Len(list) : list'[k] = list[k]
      /\ list'[Len(list) + 1] = e
  BY AppendProperties DEF FactoryInv, FactoryTypes
<1>2. FactoryTypes'
  BY <1>1, NextFound DEF FactoryInv, FactoryTypes
<1>3. FoundInPlace'
  <2>1. \A k \in DOMAIN list' : k \in DOMAIN list \/ list'[k] = e
    BY <1>1 DEF FactoryInv, FactoryTypes
  <2>2. \A k \in DOMAIN list : list'[k] = list[k]
    BY <1>1 DEF FactoryInv, FactoryTypes
  <2> QED
    BY <2>1, <2>2, NextFound DEF FactoryInv, FoundInPlace, SupportsDevice
<1>4. DriverFitsRadio'
  BY DEF FactoryInv, DriverFitsRadio
<1> QED
  BY <1>2, <1>3, <1>4 DEF FactoryInv

LEMMA GetDeviceListFits ==
  ASSUME FactoryInv, GetDeviceList PROVE FactoryInv'
<1> DEFINE On == {p \in Places : bus[p] # NoDevice}
<1>1. IsFiniteSet(On)
  <2>1. IsFiniteSet(1..NPlaces)
    BY FS_Interval, RadioFactoryAssumption DEF RadioFactoryAssumption
  <2>2. On \subseteq 1..NPlaces
    BY DEF Places
  <2> HIDE DEF On
  <2> QED
    BY <2>1, <2>2, FS_Subset
<1>2. Cardinality(On) \in Nat
  BY <1>1, FS_CardinalityType
<1> HIDE DEF On
<1>3. PICK q \in InOrder(On) :
        devs' = [k \in DOMAIN q |-> [place |-> q[k], ids |-> bus[q[k]]]]
  BY DEF GetDeviceList, On
<1>4. DOMAIN q = 1..Cardinality(On) /\ \A k \in DOMAIN q : q[k] \in Places
  BY <1>3 DEF InOrder, On
<1>5. devs' \in Seq(Found)
  <2>1. \A k \in DOMAIN q : [place |-> q[k], ids |-> bus[q[k]]] \in Found
    BY <1>4, PlacesApart DEF Found, FactoryInv, FactoryTypes
  <2> QED
    BY <1>2, <1>3, <1>4, <2>1, IsASeq
<1>6. DOMAIN devs' = DOMAIN q /\ \A k \in DOMAIN q : bus[devs'[k].place] = devs'[k].ids
  BY <1>3
<1> QED
  BY <1>5, <1>6 DEF GetDeviceList, world, FactoryInv, FactoryTypes, FoundInPlace,
                    DriverFitsRadio, SupportsDevice

LEMMA ListRadioFits ==
  ASSUME FactoryInv, ListRadio PROVE FactoryInv'
<1>1. PICK d \in Supporting(Dev.ids) :
        list' = Append(list, USBRadioInfo(Len(list), d, Dev.place))
  BY DEF ListRadio
<1>2. d \in Drivers /\ SupportsDevice(d, Dev.ids)
  BY <1>1 DEF Supporting, Drivers
<1>3. USBRadioInfo(Len(list), d, Dev.place) \in Entry
  BY <1>2, NextFound DEF ListRadio, USBRadioInfo, IndexFrom, Entry, Found, FactoryInv, FactoryTypes
<1>4. Dev.place \in Places =>
        Dev.place \in stirred \/ SupportsDevice(d, bus[Dev.place])
  BY <1>2, NextFound DEF ListRadio
<1> QED
  BY <1>1, <1>3, <1>4, ListGrows DEF ListRadio, world, USBRadioInfo, FactoryInv, FactoryTypes

LEMMA OpDeviceListFits ==
  ASSUME FactoryInv, OpDeviceList PROVE FactoryInv'
<1>1. devs' = [k \in DOMAIN ports |-> [place |-> ports[k], ids |-> NoDevice]]
  BY DEF OpDeviceList
<1>2. ports \in Seq(Ports) /\ \A k \in DOMAIN ports : ports[k] \in Ports
  BY DEF FactoryInv, FactoryTypes
<1>3. \A k \in DOMAIN ports : [place |-> ports[k], ids |-> NoDevice] \in Found
  BY <1>2, PlacesApart DEF Found, Ids
<1>4. devs' \in Seq(Found)
  BY <1>1, <1>2, <1>3, IsASeq
<1>5. \A k \in DOMAIN devs' : devs'[k].place \notin Places
  BY <1>1, <1>2, PlacesApart
<1> QED
  BY <1>4, <1>5 DEF OpDeviceList, world, FactoryInv, FactoryTypes, FoundInPlace,
                    DriverFitsRadio, SupportsDevice

LEMMA ListPortFits ==
  ASSUME FactoryInv, ListPort,
         Cardinality(USBDevices) \in Nat, Dev.place \notin Places
  PROVE  FactoryInv'
<1>1. list' = Append(list, SerialRadioInfo(idx, Cardinality(USBDevices), Dev.place))
  BY DEF ListPort, SupportsPort
<1>2. SerialRadioInfo(idx, Cardinality(USBDevices), Dev.place) \in Entry
  <2>1. idx \in Nat /\ Dev.place \in Int
    BY NextFound DEF ListPort, Found, FactoryInv, FactoryTypes
  <2> DEFINE n == Cardinality(USBDevices)
  <2>2. n \in Nat
    OBVIOUS
  <2> HIDE DEF n
  <2>3. SerialRadioInfo(idx, n, Dev.place) \in Entry
    BY <2>1, <2>2 DEF SerialRadioInfo, IndexFrom, Entry, Drivers
  <2> QED
    BY <2>3 DEF n
<1> QED
  BY <1>1, <1>2, ListGrows, SMTT(20) DEF ListPort, world, SerialRadioInfo, FactoryInv, FactoryTypes

(* A device that is passed over. *)
LEMMA PassedOver ==
  ASSUME FactoryInv, devs # <<>>, devs' = Tail(devs),
         UNCHANGED <<bus, ports, stirred, opened, list, idx>>
  PROVE  FactoryInv'
<1>1. FactoryTypes'
  BY NextFound DEF FactoryInv, FactoryTypes
<1>2. FoundInPlace'
  BY NextFound DEF FactoryInv, FoundInPlace, SupportsDevice
<1> QED
  BY <1>1, <1>2 DEF FactoryInv, DriverFitsRadio

(* OpenDevice looks at the place again: what is there now, if it has not   *)
(* changed, is what the driver was chosen for.                             *)
LEMMA OpenDeviceFits ==
  ASSUME FactoryInv, OpenDevice PROVE FactoryInv'
<1>1. /\ FactoryTypes' /\ FoundInPlace'
  BY DEF OpenDevice, world, scan, FactoryInv, FactoryTypes, FoundInPlace, SupportsDevice
<1>2. UNCHANGED <<bus, stirred>>
  BY DEF OpenDevice, world
<1>3. CASE UNCHANGED opened
  BY <1>1, <1>2, <1>3 DEF FactoryInv, DriverFitsRadio
<1>4. CASE \E k \in DOMAIN list :
             \/ /\ list[k].place \in ToSet(ports)
                /\ opened' = {[driver |-> list[k].driver, ids |-> NoDevice, place |-> list[k].place]}
             \/ /\ list[k].place \in Places /\ DevicesAt(list[k].place) = {}
                /\ opened' = {[driver |-> list[k].driver, ids |-> NoDevice, place |-> list[k].place]}
             \/ \E p \in DevicesAt(list[k].place) :
                  opened' = {[driver |-> list[k].driver, ids |-> bus[p], place |-> p]}
  <2>1. PICK k \in DOMAIN list :
             \/ /\ list[k].place \in ToSet(ports)
                /\ opened' = {[driver |-> list[k].driver, ids |-> NoDevice, place |-> list[k].place]}
             \/ /\ list[k].place \in Places /\ DevicesAt(list[k].place) = {}
                /\ opened' = {[driver |-> list[k].driver, ids |-> NoDevice, place |-> list[k].place]}
             \/ \E p \in DevicesAt(list[k].place) :
                  opened' = {[driver |-> list[k].driver, ids |-> bus[p], place |-> p]}
    BY <1>4
  <2>2. list[k].place \in Places =>
          list[k].place \in stirred \/ SupportsDevice(list[k].driver, bus[list[k].place])
    BY DEF FactoryInv, FoundInPlace
  <2>3. CASE list[k].place \in ToSet(ports) /\
             opened' = {[driver |-> list[k].driver, ids |-> NoDevice, place |-> list[k].place]}
    <3>1. list[k].place \in Ports
      BY <2>3 DEF ToSet, FactoryInv, FactoryTypes
    <3>2. list[k].place \notin Places
      BY <3>1, PlacesApart
    <3>3. \A o \in opened' : o.place \notin Places
      BY <2>3, <3>2
    <3> QED
      BY <1>1, <3>3 DEF FactoryInv, DriverFitsRadio
  <2>4. CASE /\ list[k].place \in Places /\ DevicesAt(list[k].place) = {}
             /\ opened' = {[driver |-> list[k].driver, ids |-> NoDevice, place |-> list[k].place]}
    <3>1. bus[list[k].place] = NoDevice
      BY <2>4 DEF DevicesAt
    <3> QED
      BY <1>1, <1>2, <2>2, <2>4, <3>1 DEF FactoryInv, DriverFitsRadio
  <2>5. CASE \E p \in DevicesAt(list[k].place) :
               opened' = {[driver |-> list[k].driver, ids |-> bus[p], place |-> p]}
    BY <1>1, <1>2, <2>2, <2>5 DEF DevicesAt, FactoryInv, DriverFitsRadio
  <2> QED
    BY <2>1, <2>3, <2>4, <2>5
<1> QED
  BY <1>3, <1>4 DEF OpenDevice

LEMMA RunFits ==
  ASSUME FactoryInv, Run PROVE FactoryInv'
  BY DEF Run, FactoryInv, FactoryTypes, FoundInPlace, DriverFitsRadio

(* A device or a cable comes or goes: its place is stirred. *)
LEMMA PlugOrUnplugFits ==
  ASSUME FactoryInv, PlugOrUnplug PROVE FactoryInv'
<1>1. PICK p \in Places \cup Ports :
        /\ stirred' = stirred \cup {p}
        /\ \/ /\ p \in Places
              /\ \E ids \in Devices :
                   bus' = [bus EXCEPT ![p] = IF @ = NoDevice THEN ids ELSE NoDevice]
              /\ UNCHANGED ports
           \/ /\ p \in Ports /\ p \notin ToSet(ports)
              /\ \E k \in 1..(Len(ports) + 1) : ports' = InsertAt(ports, k, p)
              /\ UNCHANGED bus
           \/ /\ \E k \in DOMAIN ports : ports[k] = p /\ ports' = RemoveAt(ports, k)
              /\ UNCHANGED bus
  BY DEF PlugOrUnplug
<1>2. UNCHANGED <<devs, idx, list, opened>>
  BY DEF PlugOrUnplug, scan
<1>3. ports' \in Seq(Ports)
  <2>1. ports \in Seq(Ports) /\ Len(ports) \in Nat /\ \A k \in 1..Len(ports) : ports[k] \in Ports
    BY DEF FactoryInv, FactoryTypes
  <2>2. ASSUME NEW k \in 1..(Len(ports) + 1), p \in Ports, ports' = InsertAt(ports, k, p)
        PROVE  ports' \in Seq(Ports)
    <3>1. SubSeq(ports, 1, k - 1) \in Seq(Ports) /\ SubSeq(ports, k, Len(ports)) \in Seq(Ports)
      BY <2>1, SubSeqProperties
    <3> QED
      BY <2>2, <3>1 DEF InsertAt
  <2>3. ASSUME NEW k \in DOMAIN ports, ports' = RemoveAt(ports, k)
        PROVE  ports' \in Seq(Ports)
    <3>1. SubSeq(ports, 1, k - 1) \in Seq(Ports) /\ SubSeq(ports, k + 1, Len(ports)) \in Seq(Ports)
      BY <2>1, SubSeqProperties
    <3> QED
      BY <2>3, <3>1 DEF RemoveAt
  <2> QED
    BY <1>1, <2>1, <2>2, <2>3
<1>4. /\ bus' \in [Places -> Ids]
      /\ \A q \in Places : q \in stirred' \/ bus'[q] = bus[q]
      /\ stirred \subseteq stirred'
  BY <1>1 DEF FactoryInv, FactoryTypes, Ids
<1> QED
  BY <1>2, <1>3, <1>4 DEF FactoryInv, FactoryTypes, FoundInPlace, DriverFitsRadio,
                          SupportsDevice

-----------------------------------------------------------------------------
(* How far the enumeration has come: first the USB radios, then the serial *)
(* ports, each with one entry.                                             *)
Enumerated ==
  /\ pc = "devices" => list = <<>> /\ idx = 0
  /\ pc = "scan" =>
       /\ idx = 0
       /\ \A k \in DOMAIN list : list[k].place \in Places
       /\ \A k \in DOMAIN devs : devs[k].place \in Places
  /\ pc = "ports" =>
       /\ idx <= Len(list)
       /\ \A k \in DOMAIN list : list[k].place \in Places <=> k <= Len(list) - idx
       /\ \A k \in DOMAIN devs : devs[k].place \in Ports

FullInv == FactoryInv /\ Enumerated /\ IndexIsPlace

(* The USB radios of the list are its first, so many that with the ports   *)
(* looked at they make up the list.                                        *)
LEMMA RadiosFirst ==
  ASSUME FullInv, pc = "ports"
  PROVE  Cardinality(USBDevices) \in Nat /\ Cardinality(USBDevices) + idx = Len(list)
<1>1. Len(list) \in Nat /\ DOMAIN list = 1..Len(list) /\ idx \in 0..Len(list)
  BY DEF FullInv, FactoryInv, FactoryTypes, Enumerated
<1>2. USBDevices = 1..(Len(list) - idx)
  BY <1>1 DEF USBDevices, FullInv, Enumerated
<1>3. Cardinality(1..(Len(list) - idx)) = Len(list) - idx
  BY <1>1, FS_Interval
<1> QED
  BY <1>1, <1>2, <1>3

LEMMA GetDeviceListCounts ==
  ASSUME FullInv, GetDeviceList PROVE Enumerated' /\ IndexIsPlace'
<1> DEFINE On == {p \in Places : bus[p] # NoDevice}
<1>1. PICK q \in InOrder(On) :
        devs' = [k \in DOMAIN q |-> [place |-> q[k], ids |-> bus[q[k]]]]
  BY DEF GetDeviceList
<1>2. \A k \in DOMAIN q : q[k] \in Places
  BY <1>1 DEF InOrder
<1>3. \A k \in DOMAIN devs' : devs'[k].place \in Places
  BY <1>1, <1>2
<1> QED
  BY <1>3 DEF GetDeviceList, FullInv, Enumerated, IndexIsPlace

LEMMA ListRadioCounts ==
  ASSUME FullInv, ListRadio PROVE Enumerated' /\ IndexIsPlace'
<1>1. PICK d : list' = Append(list, USBRadioInfo(Len(list), d, Dev.place))
  BY DEF ListRadio
<1>2. pc = "scan" /\ pc' = "scan" /\ devs # <<>> /\ devs' = Tail(devs) /\ UNCHANGED idx
  BY DEF ListRadio
<1>3. Dev.place \in Places /\ \A k \in DOMAIN devs' : devs'[k].place \in Places
  <2>1. Dev = devs[1] /\ 1 \in DOMAIN devs
    BY <1>2 DEF Dev, FullInv, FactoryInv, FactoryTypes
  <2> QED
    BY <1>2, <2>1, NextFound DEF FullInv, Enumerated
<1>4. /\ Len(list) \in Nat /\ DOMAIN list = 1..Len(list)
      /\ DOMAIN list' = 1..(Len(list) + 1)
      /\ \A k \in DOMAIN list : list'[k] = list[k]
      /\ list'[Len(list) + 1] = USBRadioInfo(Len(list), d, Dev.place)
  BY <1>1 DEF FullInv, FactoryInv, FactoryTypes
<1>5. IndexIsPlace'
  BY <1>4 DEF FullInv, IndexIsPlace, USBRadioInfo, IndexFrom
<1> QED
  BY <1>2, <1>3, <1>4, <1>5 DEF FullInv, Enumerated, USBRadioInfo

LEMMA OpDeviceListCounts ==
  ASSUME FullInv, OpDeviceList PROVE Enumerated' /\ IndexIsPlace'
<1>1. \A k \in DOMAIN devs' : devs'[k].place \in Ports
  BY DEF OpDeviceList, FullInv, FactoryInv, FactoryTypes
<1>2. Len(list) \in Nat /\ DOMAIN list = 1..Len(list)
  BY DEF FullInv, FactoryInv, FactoryTypes
<1> QED
  BY <1>1, <1>2 DEF OpDeviceList, FullInv, Enumerated, IndexIsPlace

LEMMA ListPortCounts ==
  ASSUME FullInv, ListPort
  PROVE  Dev.place \notin Places /\ Enumerated' /\ IndexIsPlace'
<1> DEFINE n == Cardinality(USBDevices)
<1>1. list' = Append(list, SerialRadioInfo(idx, n, Dev.place))
  BY DEF ListPort, SupportsPort
<1>2. pc = "ports" /\ pc' = "ports" /\ devs # <<>> /\ devs' = Tail(devs) /\ idx' = idx + 1
  BY DEF ListPort
<1>3. n \in Nat /\ n + idx = Len(list)
  BY <1>2, RadiosFirst
<1> HIDE DEF n
<1>4. Dev.place \in Ports /\ \A k \in DOMAIN devs' : devs'[k].place \in Ports
  <2>1. Dev = devs[1] /\ 1 \in DOMAIN devs
    BY <1>2 DEF Dev, FullInv, FactoryInv, FactoryTypes
  <2> QED
    BY <1>2, <2>1, NextFound DEF FullInv, Enumerated
<1>5. Dev.place \notin Places
  BY <1>4, PlacesApart
<1>6. /\ Len(list) \in Nat /\ idx \in Nat /\ DOMAIN list = 1..Len(list)
      /\ Len(list') = Len(list) + 1 /\ DOMAIN list' = 1..(Len(list) + 1)
      /\ \A k \in DOMAIN list : list'[k] = list[k]
      /\ list'[Len(list) + 1] = SerialRadioInfo(idx, n, Dev.place)
  BY <1>1 DEF FullInv, FactoryInv, FactoryTypes
<1>7. IndexIsPlace'
  BY <1>3, <1>6 DEF FullInv, IndexIsPlace, SerialRadioInfo, IndexFrom
<1>8. \A k \in DOMAIN list' : list'[k].place \in Places <=> k <= Len(list') - idx'
  BY <1>2, <1>5, <1>6 DEF FullInv, Enumerated, SerialRadioInfo
<1>9. idx' <= Len(list')
  BY <1>2, <1>6 DEF FullInv, Enumerated
<1> QED
  BY <1>2, <1>4, <1>5, <1>7, <1>8, <1>9 DEF Enumerated

LEMMA PassedOverCounts ==
  ASSUME FullInv, pc = "scan", pc' = "scan", devs # <<>>, devs' = Tail(devs),
         UNCHANGED <<list, idx>>
  PROVE  Enumerated' /\ IndexIsPlace'
  BY NextFound DEF FullInv, Enumerated, IndexIsPlace

(* Nothing is looked at or opened. *)
LEMMA OtherSteps ==
  ASSUME FullInv, UNCHANGED <<bus, ports, stirred, devs, idx, list, opened>>,
         pc' = pc \/ pc' \notin {"devices", "scan", "ports"}
  PROVE  FullInv'
  BY DEF FullInv, FactoryInv, FactoryTypes, FoundInPlace, DriverFitsRadio,
         SupportsDevice, Enumerated, IndexIsPlace

LEMMA FullInvInit == Init => FullInv
  BY FactoryInit DEF Init, FullInv, Enumerated, IndexIsPlace

LEMMA FullInvStep == FullInv /\ [Next]_vars => FullInv'
<1> SUFFICES ASSUME FullInv, [Next]_vars PROVE FullInv'
  OBVIOUS
<1>0. FactoryInv /\ Enumerated /\ IndexIsPlace
  BY DEF FullInv
<1>1. CASE Run
  <2>1. Enumerated' /\ IndexIsPlace'
    BY <1>1 DEF Run, Enumerated, IndexIsPlace
  <2> QED
    BY <1>0, <1>1, <2>1, RunFits DEF FullInv
<1>2. CASE GetDeviceList
  BY <1>0, <1>2, GetDeviceListFits, GetDeviceListCounts DEF FullInv
<1>3. CASE Unsupported \/ SkipRadio
  <2>1. /\ devs # <<>> /\ devs' = Tail(devs) /\ pc = "scan" /\ pc' = "scan"
        /\ UNCHANGED <<bus, ports, stirred, opened, list, idx>>
    BY <1>3 DEF Unsupported, SkipRadio, world
  <2> QED
    BY <1>0, <2>1, PassedOver, PassedOverCounts DEF FullInv
<1>4. CASE ListRadio
  BY <1>0, <1>4, ListRadioFits, ListRadioCounts DEF FullInv
<1>5. CASE OpDeviceList
  BY <1>0, <1>5, OpDeviceListFits, OpDeviceListCounts DEF FullInv
<1>6. CASE ListPort
  <2>1. pc = "ports"
    BY <1>6 DEF ListPort
  <2> QED
    BY <1>0, <1>6, <2>1, RadiosFirst, ListPortFits, ListPortCounts DEF FullInv
<1>7. CASE PortsListed \/ ListingThrows \/ ClearContext \/ ExitContext \/ PrintList
  <2>1. /\ UNCHANGED <<bus, ports, stirred, devs, idx, list, opened>>
        /\ pc' \notin {"devices", "scan", "ports"}
    BY <1>7 DEF PortsListed, ListingThrows, ClearContext, ExitContext, PrintList,
                world, scan
  <2> QED
    BY <2>1, OtherSteps
<1>8. CASE OpenDevice
  <2>1. Enumerated' /\ IndexIsPlace'
    BY <1>0, <1>8 DEF OpenDevice, scan, Enumerated, IndexIsPlace
  <2> QED
    BY <1>0, <1>8, <2>1, OpenDeviceFits DEF FullInv
<1>9. CASE HandleEvents \/ Crash \/ UNCHANGED vars
  <2>1. /\ UNCHANGED <<bus, ports, stirred, devs, idx, list, opened>>
        /\ pc' = pc \/ pc' = "crashed"
    BY <1>9 DEF HandleEvents, Check, HandOver, EventsHandled, Crash, vars, world, scan
  <2> QED
    BY <2>1, OtherSteps
<1>10. CASE PlugOrUnplug
  <2>1. Enumerated' /\ IndexIsPlace'
    BY <1>0, <1>10 DEF PlugOrUnplug, scan, Enumerated, IndexIsPlace
  <2> QED
    BY <1>0, <1>10, <2>1, PlugOrUnplugFits DEF FullInv
<1> QED
  BY <1>1, <1>2, <1>3, <1>4, <1>5, <1>6, <1>7, <1>8, <1>9, <1>10 DEF Next, Main

(* The index printed beside a radio is its place in the list in which      *)
(* RadioFactory::OpenDevice looks it up, however many radios of which kind *)
(* there are and whichever could not be opened.                            *)
THEOREM IndicesArePlaces == Spec => []IndexIsPlace
<1>1. FullInv => IndexIsPlace
  BY DEF FullInv
<1> QED
  BY <1>1, FullInvInit, FullInvStep, PTL DEF Spec

(* A driver is given a radio of another kind, or a null handle, only if    *)
(* the place of its radio changed after this run of the tool began.        *)
THEOREM DriversFit == Spec => []DriverFitsRadio
<1>1. FullInv => DriverFitsRadio
  BY DEF FullInv, FactoryInv
<1> QED
  BY <1>1, FullInvInit, FullInvStep, PTL DEF Spec

-----------------------------------------------------------------------------
(***************************************************************************)
(* Opening what was shown.  As long as nothing moves, the list is a        *)
(* function of what is plugged in and of the radios that were skipped: the *)
(* index of a USB radio is the number of those listed at places before its *)
(* own, and that of a port the number of all USB radios and of the ports   *)
(* before it.  Here b and ps are the devices and the ports, and S are the  *)
(* places that were skipped.                                               *)
(***************************************************************************)
Listable(b) == {p \in Places : Supporting(b[p]) # {}}

Before(b, p, S) == {q \in Listable(b) \ S : q < p}

FitsRadio(b, e, S) ==
  /\ e.place \in Listable(b) \ S /\ e.driver \in Supporting(b[e.place])
  /\ e.index = Cardinality(Before(b, e.place, S))

FitsPort(b, ps, e, S) ==
  \E j \in 1..Len(ps) :
    /\ e.place = ps[j] /\ e.driver = "Ailunce"
    /\ e.index = Cardinality(Listable(b) \ S) + j - 1

AsPlugged(b, ps, l, S) ==
  \A k \in DOMAIN l : FitsRadio(b, l[k], S) \/ FitsPort(b, ps, l[k], S)

(* The places the scan has still to come to, and the listable radios that  *)
(* it has passed without skipping them.                                    *)
Ahead  == {devs[k].place : k \in DOMAIN devs}
Behind == Listable(bus) \ (skipped \cup Ahead)

ScanInOrder ==
  /\ \A j, k \in DOMAIN devs : j < k => devs[j].place < devs[k].place
  /\ \A p \in Listable(bus) : p \in Ahead \/ (\A q \in Ahead : p < q)
  /\ Ahead \cap skipped = {}
  /\ Cardinality(Behind) = Len(list)
  /\ \A k \in DOMAIN list : list[k].place \in Behind /\ FitsRadio(bus, list[k], skipped)

PortsInOrder ==
  /\ Len(list) = Cardinality(Listable(bus) \ skipped) + idx
  /\ Len(devs) + idx = Len(ports)
  /\ \A k \in DOMAIN devs : devs[k].place = ports[idx + k]
  /\ AsPlugged(bus, ports, list, skipped)

InOrderSoFar ==
  /\ pc = "devices" => skipped = {}
  /\ pc = "scan" => ScanInOrder
  /\ pc = "ports" => PortsInOrder
  /\ pc \in {"destroy", "join", "print", "open"} /\ ~threw =>
       AsPlugged(bus, ports, list, skipped)

ShownInv ==
  /\ stirred \subseteq moved
  /\ opened # {} => pc \in {"idle", "crashed"}
  /\ asked # {} => pc # "print"
  /\ pc \in {"print", "open"} => ~threw
  /\ \A d, e \in asked : d = e
  /\ stirred = {} => InOrderSoFar
  /\ moved = {} => AsPlugged(bus, ports, shown.list, shown.skipped)
  /\ asked \subseteq ToSet(shown.list)
  /\ OpensWhatWasShown

(* How much there can be. *)
Amounts ==
  /\ \A j, k \in DOMAIN ports : ports[j] = ports[k] => j = k
  /\ pc = "scan" => Len(list) + Len(devs) <= NPlaces
  /\ pc = "ports" => Len(list) - idx <= NPlaces /\ idx + Len(devs) <= MaxPorts
  /\ idx <= MaxPorts /\ Len(list) <= NPlaces + MaxPorts
  /\ pc = "scan" => idx = 0
  /\ \A o, p \in opened : o = p
  /\ \A d, e \in asked : d = e
  /\ pc \in {"idle", "devices", "scan", "ports", "destroy", "join", "print", "open", "crashed"}
  /\ thread \in {"none", "check", "use", "handling"} /\ handles \in {"ctx", "null"}
  /\ ctx \in {"none", "live", "freed"} /\ usb_ctx \in BOOLEAN
-----------------------------------------------------------------------------
LEMMA NoDeviceUnsupported == Supporting(NoDevice) = {}
  BY DEF Supporting, SupportsDevice, RadioSupports, NoDevice

LEMMA OneDriver ==
  ASSUME NEW ids, NEW d \in Supporting(ids), NEW e \in Supporting(ids)
  PROVE  d = e
  BY DEF Supporting, SupportsDevice, RadioSupports

LEMMA FinitelyMany ==
  ASSUME NEW b, NEW S
  PROVE  /\ Listable(b) \subseteq Places
         /\ IsFiniteSet(Listable(b) \ S) /\ Cardinality(Listable(b) \ S) \in Nat
         /\ \A p : /\ IsFiniteSet(Before(b, p, S))
                   /\ Cardinality(Before(b, p, S)) \in Nat
                   /\ Before(b, p, S) \subseteq Listable(b) \ S
<1>1. IsFiniteSet(Places) /\ Listable(b) \subseteq Places
  BY FS_Interval, RadioFactoryAssumption DEF RadioFactoryAssumption, Places, Listable
<1>2. IsFiniteSet(Listable(b) \ S)
  BY <1>1, FS_Subset
<1>3. \A p : Before(b, p, S) \subseteq Listable(b) \ S
  BY DEF Before
<1>4. \A p : IsFiniteSet(Before(b, p, S))
  BY <1>2, <1>3, FS_Subset
<1> QED
  BY <1>1, <1>2, <1>3, <1>4, FS_CardinalityType

(* Further on in the order of places, a greater index. *)
LEMMA IndicesGrow ==
  ASSUME NEW b, NEW S, NEW p \in Listable(b) \ S
  PROVE  /\ Cardinality(Before(b, p, S)) < Cardinality(Listable(b) \ S)
         /\ \A q \in Listable(b) \ S :
              p < q => Cardinality(Before(b, p, S)) < Cardinality(Before(b, q, S))
<1>1. p \in Int /\ \A q \in Listable(b) : q \in Int
  BY FinitelyMany, PlacesApart
<1>2. p \notin Before(b, p, S)
  BY <1>1 DEF Before
<1>3. ASSUME NEW T, IsFiniteSet(T), Before(b, p, S) \subseteq T, p \in T
      PROVE  Cardinality(Before(b, p, S)) < Cardinality(T)
  <2>1. /\ Cardinality(Before(b, p, S)) <= Cardinality(T)
        /\ Cardinality(T) = Cardinality(Before(b, p, S)) => T = Before(b, p, S)
    BY <1>3, FS_Subset
  <2>2. Cardinality(T) \in Nat /\ Cardinality(Before(b, p, S)) \in Nat
    BY <1>3, FinitelyMany, FS_CardinalityType
  <2>3. Cardinality(T) # Cardinality(Before(b, p, S))
    BY <1>2, <1>3, <2>1
  <2> QED
    BY <2>1, <2>2, <2>3
<1>4. ASSUME NEW q \in Listable(b) \ S, p < q
      PROVE  Cardinality(Before(b, p, S)) < Cardinality(Before(b, q, S))
  <2>1. Before(b, p, S) \subseteq Before(b, q, S) /\ p \in Before(b, q, S)
    <3>1. \A r \in Listable(b) : r \in Int
      BY <1>1
    <3>2. \A r \in Listable(b) \ S : r < p => r < q
      BY <1>1, <1>4, <3>1
    <3> QED
      BY <1>4, <3>2 DEF Before
  <2> QED
    BY <1>3, <2>1, FinitelyMany
<1>5. Cardinality(Before(b, p, S)) < Cardinality(Listable(b) \ S)
  BY <1>3, FinitelyMany
<1> QED
  BY <1>4, <1>5

(* So an index belongs to one radio. *)
LEMMA OneRadio ==
  ASSUME NEW b, NEW ps, NEW S, NEW d, NEW e, d.index = e.index,
         FitsRadio(b, d, S) \/ FitsPort(b, ps, d, S),
         FitsRadio(b, e, S) \/ FitsPort(b, ps, e, S)
  PROVE  d.place = e.place /\ d.driver = e.driver
<1> DEFINE n == Cardinality(Listable(b) \ S)
<1>1. n \in Nat
  BY FinitelyMany
<1> HIDE DEF n
<1>2. \A x : FitsRadio(b, x, S) => x.index \in Nat /\ x.index < n
  <2> TAKE x
  <2> HAVE FitsRadio(b, x, S)
  <2>1. x.place \in Listable(b) \ S /\ x.index = Cardinality(Before(b, x.place, S))
    BY DEF FitsRadio
  <2>2. \A p \in Listable(b) \ S :
          /\ Cardinality(Before(b, p, S)) \in Nat
          /\ Cardinality(Before(b, p, S)) < Cardinality(Listable(b) \ S)
    BY FinitelyMany, IndicesGrow
  <2> QED
    BY <2>1, <2>2, Zenon DEF n
<1>3. \A x : FitsPort(b, ps, x, S) =>
        \E j \in 1..Len(ps) : x.place = ps[j] /\ x.driver = "Ailunce" /\ x.index = n + j - 1
  BY DEF FitsPort, n
<1>4. CASE FitsRadio(b, d, S) /\ FitsRadio(b, e, S)
  <2>1. /\ d.place \in Listable(b) \ S /\ e.place \in Listable(b) \ S
        /\ Cardinality(Before(b, d.place, S)) = Cardinality(Before(b, e.place, S))
        /\ d.driver \in Supporting(b[d.place]) /\ e.driver \in Supporting(b[e.place])
    BY <1>4 DEF FitsRadio
  <2>2. d.place \in Int /\ e.place \in Int
    BY <2>1, FinitelyMany, PlacesApart
  <2>3. Cardinality(Before(b, d.place, S)) \in Nat
    BY FinitelyMany
  <2>4. ~(d.place < e.place) /\ ~(e.place < d.place)
    <3>1. ASSUME NEW p \in Listable(b) \ S, NEW q \in Listable(b) \ S, p < q
          PROVE  Cardinality(Before(b, p, S)) < Cardinality(Before(b, q, S))
      BY <3>1, IndicesGrow
    <3> QED
      BY <2>1, <2>3, <3>1
  <2>5. d.place = e.place
    BY <2>2, <2>4
  <2> QED
    BY <2>1, <2>5, OneDriver
<1>5. CASE FitsPort(b, ps, d, S) /\ FitsPort(b, ps, e, S)
  <2>1. PICK j \in 1..Len(ps) : d.place = ps[j] /\ d.driver = "Ailunce" /\ d.index = n + j - 1
    BY <1>3, <1>5
  <2>2. PICK k \in 1..Len(ps) : e.place = ps[k] /\ e.driver = "Ailunce" /\ e.index = n + k - 1
    BY <1>3, <1>5
  <2>3. n + j - 1 = n + k - 1
    BY <2>1, <2>2, Zenon
  <2>4. j = k
    BY <1>1, <2>3
  <2> QED
    BY <2>1, <2>2, <2>4, Zenon
<1>6. \A x, y : FitsRadio(b, x, S) /\ FitsPort(b, ps, y, S) => x.index # y.index
  <2> TAKE x, y
  <2> HAVE FitsRadio(b, x, S) /\ FitsPort(b, ps, y, S)
  <2>1. PICK k \in 1..Len(ps) : y.index = n + k - 1
    BY <1>3
  <2>2. n + k - 1 >= n
    BY <1>1
  <2>3. x.index \in Nat /\ x.index < n
    BY <1>2
  <2>4. x.index # n + k - 1
    BY <1>1, <2>2, <2>3
  <2> QED
    BY <2>1, <2>4, Zenon
<1> QED
  BY <1>4, <1>5, <1>6
-----------------------------------------------------------------------------
(* The scan of the USB devices, in order. *)
LEMMA DevsFacts ==
  ASSUME FactoryTypes
  PROVE  /\ Len(devs) \in Nat /\ DOMAIN devs = 1..Len(devs)
         /\ \A k \in DOMAIN devs : devs[k].place \in Int /\ devs[k] \in Found
         /\ Len(list) \in Nat /\ DOMAIN list = 1..Len(list)
         /\ \A k \in DOMAIN list : list[k] \in Entry
         /\ ports \in Seq(Ports) /\ Len(ports) \in Nat /\ DOMAIN ports = 1..Len(ports)
         /\ idx \in Nat
         /\ \A p \in Places : p \in Int
<1>1. devs \in Seq(Found) /\ list \in Seq(Entry) /\ ports \in Seq(Ports) /\ idx \in Nat
  BY DEF FactoryTypes
<1>2. \A f \in Found : f.place \in Int
  BY DEF Found
<1>3. \A k \in DOMAIN devs : devs[k] \in Found
  BY <1>1
<1>4. \A k \in DOMAIN list : list[k] \in Entry
  BY <1>1
<1> QED
  BY <1>1, <1>2, <1>3, <1>4, PlacesApart

LEMMA AheadFacts ==
  ASSUME FactoryTypes
  PROVE  /\ \A q \in Ahead : q \in Int
         /\ devs # <<>> => Dev.place \in Ahead /\ Dev.place \in Int
<1>1. devs \in Seq(Found) /\ \A k \in DOMAIN devs : devs[k].place \in Int
  BY DevsFacts DEF FactoryTypes
<1>2. devs # <<>> => Dev = devs[1] /\ 1 \in DOMAIN devs
  BY <1>1 DEF Dev
<1> QED
  BY <1>1, <1>2 DEF Ahead

LEMMA NextInOrder ==
  ASSUME FactoryTypes, ScanInOrder, devs # <<>>, devs' = Tail(devs)
  PROVE  /\ Dev.place \in Ahead /\ Ahead' = Ahead \ {Dev.place}
         /\ \A q \in Ahead' : Dev.place < q
         /\ Dev.place \notin skipped
         /\ \A j, k \in DOMAIN devs' : j < k => devs'[j].place < devs'[k].place
         /\ Len(devs') = Len(devs) - 1
<1> DEFINE n == Len(devs)
<1>1. /\ devs \in Seq(Found) /\ n \in Nat /\ DOMAIN devs = 1..n
      /\ \A k \in 1..n : devs[k].place \in Int
  BY DevsFacts DEF FactoryTypes
<1>2. Len(devs) >= 1 /\ Dev = devs[1]
  BY <1>1, EmptySeq DEF Dev
<1>3. /\ devs' \in Seq(Found) /\ Len(devs') = n - 1 /\ DOMAIN devs' = 1..(n - 1)
      /\ \A k \in 1..(n - 1) : devs'[k] = devs[k + 1]
  BY <1>1, HeadTailProperties
<1> HIDE DEF n
<1>4. \A j, k \in 1..n : j < k => devs[j].place < devs[k].place
  BY <1>1 DEF ScanInOrder
<1>5. Dev.place \in Ahead
  BY <1>1, <1>2 DEF Ahead, n
<1>6. \A k \in 1..(n - 1) : k + 1 \in 1..n /\ Dev.place < devs[k + 1].place
  BY <1>1, <1>2, <1>4 DEF n
<1>7. \A q \in Ahead' : q \in Ahead /\ Dev.place < q
  <2> TAKE q \in Ahead'
  <2>1. PICK k \in 1..(n - 1) : q = devs'[k].place
    BY <1>3 DEF Ahead
  <2>2. q = devs[k + 1].place
    BY <1>3, <2>1
  <2> QED
    BY <1>1, <1>6, <2>2 DEF Ahead
<1>8. \A q \in Ahead : q = Dev.place \/ q \in Ahead'
  <2> TAKE q \in Ahead
  <2>1. PICK k \in 1..n : q = devs[k].place
    BY <1>1 DEF Ahead
  <2>2. CASE k = 1
    BY <1>2, <2>1, <2>2
  <2>3. CASE k # 1
    <3>1. k - 1 \in 1..(n - 1) /\ (k - 1) + 1 = k
      BY <1>1, <2>3
    <3>2. devs'[k - 1] = devs[k]
      BY <1>3, <3>1
    <3> QED
      BY <1>3, <2>1, <3>1, <3>2 DEF Ahead
  <2> QED
    BY <2>2, <2>3
<1>9. Dev.place \in Int
  BY <1>1, <1>2 DEF n
<1>10. Ahead' = Ahead \ {Dev.place}
  BY <1>7, <1>8, <1>9
<1>11. \A j, k \in DOMAIN devs' : j < k => devs'[j].place < devs'[k].place
  <2> TAKE j, k \in DOMAIN devs'
  <2> HAVE j < k
  <2>1. /\ devs'[j] = devs[j + 1] /\ devs'[k] = devs[k + 1]
        /\ j + 1 \in 1..n /\ k + 1 \in 1..n /\ j + 1 < k + 1
    BY <1>1, <1>3
  <2> QED
    BY <1>4, <2>1
<1> QED
  BY <1>3, <1>5, <1>7, <1>10, <1>11 DEF ScanInOrder, n

(* Before a place that was passed, nothing changes. *)
LEMMA PassedIsBefore ==
  ASSUME FactoryTypes, ScanInOrder, devs # <<>>, NEW p \in Behind
  PROVE  p < Dev.place /\ p \in Listable(bus) \ skipped
<1>1. Dev.place \in Ahead
  BY AheadFacts
<1> QED
  BY <1>1 DEF Behind, ScanInOrder

LEMMA PassInOrder ==
  ASSUME FactoryTypes, ScanInOrder, devs # <<>>, devs' = Tail(devs),
         UNCHANGED <<bus, list>>,
         \/ UNCHANGED skipped /\ Dev.place \notin Listable(bus)
         \/ skipped' = skipped \cup {Dev.place}
  PROVE  ScanInOrder'
<1>1. /\ Dev.place \in Ahead /\ Ahead' = Ahead \ {Dev.place}
      /\ \A q \in Ahead' : Dev.place < q
      /\ Dev.place \notin skipped
      /\ \A j, k \in DOMAIN devs' : j < k => devs'[j].place < devs'[k].place
  BY NextInOrder
<1>2. Behind' = Behind
  BY <1>1 DEF Behind
<1>3. \A p \in Listable(bus) : p \in Ahead' \/ (\A q \in Ahead' : p < q)
  BY <1>1 DEF ScanInOrder
<1>4. Ahead' \cap skipped' = {}
  BY <1>1 DEF ScanInOrder
<1>5. ASSUME NEW k \in DOMAIN list
      PROVE  list[k].place \in Behind' /\ FitsRadio(bus, list[k], skipped')
  <2> DEFINE p == list[k].place
  <2>1. /\ p \in Behind /\ FitsRadio(bus, list[k], skipped)
        /\ p < Dev.place /\ p \in Listable(bus) \ skipped
    BY PassedIsBefore DEF ScanInOrder
  <2>2. p \in Listable(bus) \ skipped'
    BY <1>2, <2>1 DEF Behind
  <2>3. \A q \in Listable(bus) : q < p => q # Dev.place
    <3>1. \A q \in Listable(bus) : q \in Int
      BY FinitelyMany, PlacesApart
    <3>2. Dev.place \in Int
      BY AheadFacts
    <3> QED
      BY <2>1, <3>1, <3>2
  <2>4. Before(bus, p, skipped') = Before(bus, p, skipped)
    BY <2>3 DEF Before
  <2> HIDE DEF p
  <2>5. /\ p = list[k].place
        /\ list[k].driver \in Supporting(bus[p])
        /\ list[k].index = Cardinality(Before(bus, p, skipped))
    BY <2>1 DEF FitsRadio, p
  <2>6. FitsRadio(bus, list[k], skipped')
    BY <2>2, <2>4, <2>5, Zenon DEF FitsRadio
  <2> QED
    BY <1>2, <2>1, <2>5, <2>6
<1> QED
  BY <1>1, <1>2, <1>3, <1>4, <1>5 DEF ScanInOrder

LEMMA ListInOrder ==
  ASSUME FullInv, ScanInOrder, ListRadio, pc = "scan"
  PROVE  ScanInOrder'
<1>1. PICK d \in Supporting(Dev.ids) :
        list' = Append(list, USBRadioInfo(Len(list), d, Dev.place))
  BY DEF ListRadio
<1>2. /\ devs # <<>> /\ devs' = Tail(devs) /\ bus[Dev.place] = Dev.ids
      /\ UNCHANGED <<bus, skipped>> /\ FactoryTypes
  BY DEF ListRadio, Plugged, world, FullInv, FactoryInv
<1>3. /\ Dev.place \in Ahead /\ Ahead' = Ahead \ {Dev.place}
      /\ \A q \in Ahead' : Dev.place < q
      /\ Dev.place \notin skipped
      /\ \A j, k \in DOMAIN devs' : j < k => devs'[j].place < devs'[k].place
  BY <1>2, NextInOrder
<1>4. Dev.place \in Places /\ Dev.place \in Int
  <2>1. Dev = devs[1] /\ 1 \in DOMAIN devs
    BY <1>2 DEF Dev, FactoryTypes
  <2> QED
    BY <2>1, PlacesApart DEF FullInv, Enumerated
<1>5. Dev.place \in Listable(bus) \ skipped
  BY <1>1, <1>2, <1>3, <1>4 DEF Listable
<1>6. Behind' = Behind \cup {Dev.place} /\ Dev.place \notin Behind
  BY <1>2, <1>3, <1>5 DEF Behind
<1>7. Cardinality(Behind') = Len(list) + 1
  <2>1. IsFiniteSet(Behind)
    BY FinitelyMany DEF Behind
  <2> QED
    BY <1>6, <2>1, FS_AddElement DEF ScanInOrder
<1>8. Before(bus, Dev.place, skipped) = Behind
  <2>1. \A q \in Listable(bus) : q \in Int /\ (q \in Ahead \/ q < Dev.place)
    BY <1>3, FinitelyMany, PlacesApart DEF ScanInOrder
  <2>2. \A q \in Ahead : ~(q < Dev.place)
    BY <1>2, <1>3, <1>4, AheadFacts
  <2> QED
    BY <2>1, <2>2 DEF Before, Behind
<1>9. /\ Len(list) \in Nat /\ DOMAIN list = 1..Len(list)
      /\ DOMAIN list' = 1..(Len(list) + 1) /\ Len(list') = Len(list) + 1
      /\ \A k \in DOMAIN list : list'[k] = list[k]
      /\ list'[Len(list) + 1] = USBRadioInfo(Len(list), d, Dev.place)
  BY <1>1, <1>2 DEF FactoryTypes
<1>10. FitsRadio(bus, USBRadioInfo(Len(list), d, Dev.place), skipped)
  <2>1. 0 + Len(list) = Cardinality(Before(bus, Dev.place, skipped))
    BY <1>8, <1>9 DEF ScanInOrder
  <2> QED
    BY <1>1, <1>2, <1>5, <2>1 DEF FitsRadio, USBRadioInfo, IndexFrom
<1>11. USBRadioInfo(Len(list), d, Dev.place).place \in Behind'
  BY <1>6 DEF USBRadioInfo
<1>12. ASSUME NEW k \in DOMAIN list'
       PROVE  list'[k].place \in Behind' /\ FitsRadio(bus, list'[k], skipped)
  <2>1. CASE k \in DOMAIN list
    BY <1>6, <1>9, <2>1 DEF ScanInOrder
  <2>2. CASE k = Len(list) + 1
    BY <1>9, <1>10, <1>11, <2>2
  <2> QED
    BY <1>9, <2>1, <2>2
<1>13. \A p \in Listable(bus) : p \in Ahead' \/ (\A q \in Ahead' : p < q)
  BY <1>3 DEF ScanInOrder
<1>14. Ahead' \cap skipped = {}
  BY <1>3 DEF ScanInOrder
<1> QED
  BY <1>2, <1>3, <1>7, <1>9, <1>12, <1>13, <1>14 DEF ScanInOrder

(* libusb's list has each device that is plugged in, once. *)
LEMMA EachOnce ==
  ASSUME FactoryInv, GetDeviceList
  PROVE  /\ Ahead' = {p \in Places : bus[p] # NoDevice}
         /\ Len(devs') \in Nat /\ Len(devs') <= NPlaces
         /\ \A j, k \in DOMAIN devs' : j < k => devs'[j].place < devs'[k].place
<1> DEFINE On == {p \in Places : bus[p] # NoDevice}
           n  == Cardinality(On)
<1>1. PICK q \in InOrder(On) :
        devs' = [k \in DOMAIN q |-> [place |-> q[k], ids |-> bus[q[k]]]]
  BY DEF GetDeviceList
<1>2. IsFiniteSet(Places) /\ Cardinality(Places) = NPlaces /\ NPlaces \in Nat
  BY FS_Interval, RadioFactoryAssumption DEF RadioFactoryAssumption, Places
<1>3. IsFiniteSet(On) /\ n \in Nat /\ n <= NPlaces
  <2>1. On \subseteq Places
    OBVIOUS
  <2> HIDE DEF On
  <2> QED
    BY <1>2, <2>1, FS_Subset, FS_CardinalityType
<1>4. \A p \in On : p \in Int
  BY PlacesApart
<1>5. q \in [1..n -> On] /\ \A j, k \in 1..n : j < k => q[j] < q[k]
  BY <1>1 DEF InOrder
<1> HIDE DEF On, n
<1>6. q \in Injection(1..n, On)
  <2>1. ASSUME NEW j \in 1..n, NEW k \in 1..n, q[j] = q[k] PROVE j = k
    <3>1. q[j] \in Int /\ ~(q[j] < q[k]) /\ ~(q[k] < q[j])
      BY <1>4, <1>5, <2>1
    <3> QED
      BY <1>3, <1>5, <3>1
  <2> QED
    BY <1>5, <2>1 DEF Injection, IsInjective
<1>7. q \in Surjection(1..n, On)
  <2>1. IsFiniteSet(1..n) /\ Cardinality(1..n) = n
    BY <1>3, FS_Interval
  <2> QED
    BY <1>3, <1>6, <2>1, FS_Injection DEF n
<1>8. /\ DOMAIN devs' = 1..n /\ \A k \in 1..n : devs'[k].place = q[k]
  BY <1>1, <1>5
<1>9. Len(devs') = n
  <2>1. devs' \in Seq(Found)
    BY GetDeviceListFits DEF FactoryInv, FactoryTypes
  <2>2. Len(devs') \in Nat /\ DOMAIN devs' = 1..Len(devs')
    BY <2>1
  <2> QED
    BY <1>3, <1>8, <2>2
<1>10. Ahead' = On
  <2>1. \A p \in On : \E k \in 1..n : q[k] = p
    BY <1>7 DEF Surjection
  <2> QED
    BY <1>5, <1>8, <2>1 DEF Ahead
<1>11. \A j, k \in DOMAIN devs' : j < k => devs'[j].place < devs'[k].place
  BY <1>5, <1>8
<1> QED
  BY <1>3, <1>9, <1>10, <1>11 DEF On

LEMMA StartInOrder ==
  ASSUME FullInv, GetDeviceList, skipped = {}, list = <<>>
  PROVE  ScanInOrder'
<1>1. UNCHANGED <<bus, skipped, list>>
  BY DEF GetDeviceList, world
<1>2. \A p \in Listable(bus) : p \in Ahead'
  BY NoDeviceUnsupported, EachOnce DEF Listable, FullInv
<1>3. Behind' = {}
  BY <1>1, <1>2 DEF Behind
<1>4. Cardinality(Behind') = 0 /\ Len(list') = 0 /\ DOMAIN list' = {}
  BY <1>1, <1>3, FS_EmptySet
<1> QED
  BY <1>1, <1>2, <1>4, EachOnce DEF ScanInOrder, FullInv
-----------------------------------------------------------------------------
(* The ports, after the USB radios. *)
LEMMA PortsStart ==
  ASSUME FullInv, ScanInOrder, pc = "scan", OpDeviceList
  PROVE  PortsInOrder'
<1>1. /\ devs = <<>> /\ UNCHANGED <<bus, ports, list, skipped, idx>>
      /\ devs' = [k \in DOMAIN ports |-> [place |-> ports[k], ids |-> NoDevice]]
      /\ idx = 0 /\ FactoryTypes
  BY DEF OpDeviceList, world, FullInv, FactoryInv, Enumerated
<1>2. ports \in Seq(Ports) /\ Len(ports) \in Nat /\ DOMAIN ports = 1..Len(ports)
  BY <1>1, DevsFacts
<1>3. Behind = Listable(bus) \ skipped
  BY <1>1 DEF Behind, Ahead
<1>4. Len(list) = Cardinality(Listable(bus) \ skipped) + 0
  BY <1>1, <1>3, FinitelyMany DEF ScanInOrder
<1>5. Len(devs') = Len(ports) /\ \A k \in DOMAIN devs' : devs'[k].place = ports[0 + k]
  <2>1. devs' \in Seq(Found)
    BY OpDeviceListFits DEF FullInv, FactoryInv, FactoryTypes
  <2>2. Len(devs') \in Nat /\ DOMAIN devs' = 1..Len(devs') /\ DOMAIN devs' = 1..Len(ports)
    BY <1>1, <1>2, <2>1
  <2> QED
    BY <1>1, <1>2, <2>2
<1>6. AsPlugged(bus, ports, list, skipped)
  BY DEF ScanInOrder, AsPlugged
<1> QED
  BY <1>1, <1>2, <1>4, <1>5, <1>6 DEF PortsInOrder

LEMMA PortsGoOn ==
  ASSUME FullInv, PortsInOrder, ListPort
  PROVE  PortsInOrder'
<1> DEFINE n == Cardinality(USBDevices)
           e == SerialRadioInfo(idx, n, Dev.place)
           c == Cardinality(Listable(bus) \ skipped)
<1>1. /\ pc = "ports" /\ devs # <<>> /\ devs' = Tail(devs) /\ idx' = idx + 1
      /\ list' = Append(list, e) /\ UNCHANGED <<bus, ports, skipped>> /\ FactoryTypes
  BY DEF ListPort, SupportsPort, world, FullInv, FactoryInv
<1>2. n \in Nat /\ n + idx = Len(list)
  BY <1>1, RadiosFirst
<1>3. /\ devs \in Seq(Found) /\ Len(devs) \in Nat /\ DOMAIN devs = 1..Len(devs)
      /\ list \in Seq(Entry) /\ Len(list) \in Nat /\ DOMAIN list = 1..Len(list)
      /\ idx \in Nat /\ Len(ports) \in Nat /\ c \in Nat
  BY <1>1, DevsFacts, FinitelyMany DEF FactoryTypes
<1> HIDE DEF n, c
<1>4. /\ Len(devs) >= 1 /\ Dev = devs[1]
      /\ DOMAIN devs' = 1..(Len(devs) - 1) /\ Len(devs') = Len(devs) - 1
      /\ \A k \in 1..(Len(devs) - 1) : devs'[k] = devs[k + 1]
  BY <1>1, <1>3, EmptySeq, HeadTailProperties DEF Dev
<1>5. /\ Len(list) = c + idx /\ Len(devs) + idx = Len(ports)
      /\ \A k \in 1..Len(devs) : devs[k].place = ports[idx + k]
      /\ AsPlugged(bus, ports, list, skipped)
  BY <1>3 DEF PortsInOrder, c
<1>6. /\ e.place = ports[idx + 1] /\ e.driver = "Ailunce" /\ e.index = n + idx
  <2>1. Dev.place = ports[idx + 1]
    BY <1>3, <1>4, <1>5
  <2> QED
    BY <2>1 DEF SerialRadioInfo, IndexFrom
<1> HIDE DEF e
<1>7. FitsPort(bus, ports, e, skipped)
  <2>1. idx + 1 \in 1..Len(ports)
    BY <1>3, <1>4, <1>5
  <2>2. n + idx = c + (idx + 1) - 1
    BY <1>2, <1>3, <1>5
  <2>3. e.index = c + (idx + 1) - 1
    BY <1>6, <2>2, Zenon
  <2> QED
    BY <1>6, <2>1, <2>3, Zenon DEF FitsPort, c
<1>8. /\ DOMAIN list' = 1..(Len(list) + 1) /\ Len(list') = Len(list) + 1
      /\ \A k \in 1..Len(list) : list'[k] = list[k]
      /\ list'[Len(list) + 1] = e
  <2>1. e \in Entry
    <3>1. Dev.place \in Int
      BY <1>1, AheadFacts
    <3>2. n + idx \in Nat /\ "Ailunce" \in Drivers
      BY <1>2, <1>3 DEF Drivers
    <3> QED
      BY <3>1, <3>2 DEF e, SerialRadioInfo, IndexFrom, Entry
  <2> QED
    BY <1>1, <1>3, <2>1, AppendProperties
<1>9. AsPlugged(bus, ports, list', skipped)
  <2>1. ASSUME NEW k \in DOMAIN list'
        PROVE  FitsRadio(bus, list'[k], skipped) \/ FitsPort(bus, ports, list'[k], skipped)
    <3>1. CASE k \in 1..Len(list)
      <4>1. list'[k] = list[k] /\ k \in DOMAIN list
        BY <1>3, <1>8, <3>1
      <4> QED
        BY <1>5, <4>1, Zenon DEF AsPlugged
    <3>2. CASE k = Len(list) + 1
      BY <1>7, <1>8, <3>2, Zenon
    <3> QED
      BY <1>3, <1>8, <3>1, <3>2
  <2> QED
    BY <2>1 DEF AsPlugged
<1>10. Len(list') = c + idx' /\ Len(devs') + idx' = Len(ports)
  BY <1>1, <1>3, <1>4, <1>5, <1>8
<1>11. ASSUME NEW k \in DOMAIN devs' PROVE devs'[k].place = ports[idx' + k]
  <2>1. devs'[k] = devs[k + 1] /\ k + 1 \in 1..Len(devs) /\ idx' + k = idx + (k + 1)
    BY <1>1, <1>3, <1>4
  <2> QED
    BY <1>5, <2>1
<1> QED
  BY <1>1, <1>9, <1>10, <1>11 DEF PortsInOrder, c
-----------------------------------------------------------------------------
(* What a step of the enumeration leaves, if nothing has moved. *)
LEMMA EnumerationInOrder ==
  ASSUME FullInv, InOrderSoFar,
         \/ GetDeviceList \/ Unsupported \/ ListRadio \/ SkipRadio
         \/ OpDeviceList \/ ListPort,
         stirred = {}
  PROVE  InOrderSoFar'
<1>1. FactoryTypes /\ FoundInPlace /\ Enumerated
  BY DEF FullInv, FactoryInv
<1>2. CASE GetDeviceList
  <2>1. pc = "devices" /\ pc' = "scan"
    BY <1>2 DEF GetDeviceList
  <2> QED
    BY <1>1, <1>2, <2>1, StartInOrder DEF InOrderSoFar, Enumerated
<1>3. CASE Unsupported
  <2>1. /\ pc = "scan" /\ pc' = "scan" /\ devs # <<>> /\ devs' = Tail(devs)
        /\ UNCHANGED <<bus, list, skipped>> /\ Supporting(Dev.ids) = {}
    BY <1>3 DEF Unsupported, world
  <2>2. Dev.place \notin Listable(bus)
    <3>1. Dev.place \in Places => bus[Dev.place] = Dev.ids
      BY <2>1, NextFound DEF FullInv
    <3> QED
      BY <2>1, <3>1 DEF Listable
  <2> QED
    BY <1>1, <2>1, <2>2, PassInOrder DEF InOrderSoFar
<1>4. CASE SkipRadio
  <2>1. /\ pc = "scan" /\ pc' = "scan" /\ devs # <<>> /\ devs' = Tail(devs)
        /\ UNCHANGED <<bus, list>> /\ skipped' = skipped \cup {Dev.place}
    BY <1>4 DEF SkipRadio, world
  <2> QED
    BY <1>1, <2>1, PassInOrder DEF InOrderSoFar
<1>5. CASE ListRadio
  <2>1. pc = "scan" /\ pc' = "scan"
    BY <1>5 DEF ListRadio
  <2> QED
    BY <1>5, <2>1, ListInOrder DEF InOrderSoFar
<1>6. CASE OpDeviceList
  <2>1. pc = "scan" /\ pc' = "ports"
    BY <1>6 DEF OpDeviceList
  <2> QED
    BY <1>6, <2>1, PortsStart DEF InOrderSoFar
<1>7. CASE ListPort
  <2>1. pc = "ports" /\ pc' = "ports"
    BY <1>7 DEF ListPort
  <2> QED
    BY <1>7, <2>1, PortsGoOn DEF InOrderSoFar
<1> QED
  BY <1>2, <1>3, <1>4, <1>5, <1>6, <1>7

(* The index opens what it was printed for. *)
LEMMA OpensTheShown ==
  ASSUME FullInv, ShownInv, OpenDevice PROVE OpensWhatWasShown'
<1>1. PICK e \in asked :
        \/ UNCHANGED opened
        \/ /\ e.index + 1 \in DOMAIN list
           /\ \E i : opened' = {[driver |-> list[e.index + 1].driver, ids |-> i,
                               place |-> list[e.index + 1].place]}
  BY Zenon DEF OpenDevice, DevicesAt
<1>2. UNCHANGED <<asked, moved, skipped, shown>> /\ pc = "open"
  BY DEF OpenDevice, world, scan, user
<1>3. opened = {}
  BY <1>2 DEF ShownInv
<1>4. ASSUME NEW o \in opened', NEW d \in asked, moved = {}, skipped = shown.skipped
      PROVE  o.place = d.place /\ o.driver = d.driver
  <2>1. d = e
    BY DEF ShownInv
  <2>2. PICK i \in DOMAIN list : i = e.index + 1
    BY <1>1, <1>3, <1>4
  <2>3. o.place = list[i].place /\ o.driver = list[i].driver
    <3>1. PICK x : opened' = {[driver |-> list[i].driver, ids |-> x, place |-> list[i].place]}
      BY <1>1, <1>3, <1>4, <2>2
    <3> QED
      BY <1>4, <3>1
  <2>4. AsPlugged(bus, ports, list, skipped) /\ AsPlugged(bus, ports, shown.list, skipped)
    BY <1>2, <1>4 DEF ShownInv, InOrderSoFar
  <2>5. FitsRadio(bus, e, skipped) \/ FitsPort(bus, ports, e, skipped)
    <3>1. \E k \in DOMAIN shown.list : e = shown.list[k]
      BY DEF ShownInv, ToSet
    <3> QED
      BY <2>4, <3>1, Zenon DEF AsPlugged
  <2>6. FitsRadio(bus, list[i], skipped) \/ FitsPort(bus, ports, list[i], skipped)
    BY <2>4, Zenon DEF AsPlugged
  <2>7. e.index \in Nat
    <3>1. Cardinality(Listable(bus) \ skipped) \in Nat
      BY FinitelyMany
    <3>2. ASSUME FitsRadio(bus, e, skipped) PROVE e.index \in Nat
      <4>1. e.index = Cardinality(Before(bus, e.place, skipped))
        BY <3>2 DEF FitsRadio
      <4>2. Cardinality(Before(bus, e.place, skipped)) \in Nat
        BY FinitelyMany
      <4> QED
        BY <4>1, <4>2, Zenon
    <3>3. ASSUME FitsPort(bus, ports, e, skipped) PROVE e.index \in Nat
      <4>1. PICK j \in 1..Len(ports) : e.index = Cardinality(Listable(bus) \ skipped) + j - 1
        BY <3>3 DEF FitsPort
      <4> QED
        BY <3>1, <4>1
    <3> QED
      BY <2>5, <3>2, <3>3
  <2>8. list[i].index = e.index
    <3>1. list[i].index = i - 1
      BY DEF FullInv, IndexIsPlace
    <3>2. (e.index + 1) - 1 = e.index
      BY <2>7
    <3> QED
      BY <2>2, <3>1, <3>2
  <2>9. list[i].place = e.place /\ list[i].driver = e.driver
    BY <2>5, <2>6, <2>8, OneRadio
  <2> QED
    BY <2>1, <2>3, <2>9
<1> QED
  BY <1>2, <1>4 DEF OpensWhatWasShown

(* A step that leaves the list, the devices and the user alone. *)
LEMMA NothingShown ==
  ASSUME ShownInv,
         UNCHANGED <<bus, ports, moved, stirred, list, skipped, devs, idx, asked, shown, opened>>,
         (pc' = pc /\ threw' = threw) \/ pc' = "crashed"
  PROVE  ShownInv'
<1>1. InOrderSoFar => InOrderSoFar'
  BY DEF InOrderSoFar, ScanInOrder, PortsInOrder, Behind, Ahead
<1> QED
  BY <1>1 DEF ShownInv, OpensWhatWasShown

LEMMA ShownInvStep == FullInv /\ ShownInv /\ [Next]_vars => ShownInv'
<1> SUFFICES ASSUME FullInv, ShownInv, [Next]_vars PROVE ShownInv'
  OBVIOUS
<1>1. CASE Run
  <2>1. /\ opened' = {} /\ skipped' = {} /\ pc' = "devices" /\ stirred' = {} /\ list' = <<>>
        /\ UNCHANGED <<bus, ports, moved, shown>>
        /\ asked' = {} \/ \E e \in ToSet(shown.list) : asked' = {e}
    BY <1>1 DEF Run
  <2>2. InOrderSoFar'
    BY <2>1 DEF InOrderSoFar
  <2>3. /\ \A d, e \in asked' : d = e
        /\ asked' \subseteq ToSet(shown.list)
    BY <2>1
  <2> QED
    BY <2>1, <2>2, <2>3 DEF ShownInv, OpensWhatWasShown
<1>2. CASE GetDeviceList \/ Unsupported \/ ListRadio \/ SkipRadio \/ OpDeviceList \/ ListPort
  <2>1. /\ UNCHANGED <<bus, ports, moved, stirred, asked, shown, opened, threw>>
        /\ pc \in {"devices", "scan", "ports"} /\ pc' \in {"scan", "ports"}
    BY <1>2 DEF GetDeviceList, Unsupported, ListRadio, SkipRadio, OpDeviceList, ListPort,
                world, user
  <2>2. opened = {}
    BY <2>1 DEF ShownInv
  <2>3. stirred = {} => InOrderSoFar'
    BY <1>2, EnumerationInOrder DEF ShownInv
  <2> QED
    BY <2>1, <2>2, <2>3 DEF ShownInv, OpensWhatWasShown
<1>3. CASE PortsListed \/ ListingThrows \/ ClearContext \/ ExitContext
  <2>1. /\ UNCHANGED <<bus, ports, moved, stirred, list, skipped, asked, shown, opened>>
        /\ pc \in {"devices", "scan", "ports", "destroy", "join"}
        /\ \/ pc' = "destroy" /\ threw' = TRUE
           \/ pc = "ports" /\ pc' = "destroy" /\ UNCHANGED threw
           \/ pc = "destroy" /\ pc' = "join" /\ UNCHANGED threw
           \/ /\ pc = "join" /\ UNCHANGED threw
              /\ pc' = IF threw THEN "idle" ELSE IF asked = {} THEN "print" ELSE "open"
    <3>1. CASE PortsListed
      BY <3>1 DEF PortsListed, world, scan, user
    <3>2. CASE ListingThrows
      BY <3>2 DEF ListingThrows, world, scan, user
    <3>3. CASE ClearContext
      BY <3>3 DEF ClearContext, world, scan, user
    <3>4. CASE ExitContext
      BY <3>4 DEF ExitContext, world, scan, user
    <3> QED
      BY <1>3, <3>1, <3>2, <3>3, <3>4
  <2>2. opened = {}
    BY <2>1 DEF ShownInv
  <2>3. InOrderSoFar => InOrderSoFar'
    BY <2>1 DEF InOrderSoFar, PortsInOrder
  <2>4. /\ asked # {} => pc' # "print"
        /\ pc' \in {"print", "open"} => ~threw'
    BY <2>1
  <2> QED
    BY <2>1, <2>2, <2>3, <2>4 DEF ShownInv, OpensWhatWasShown
<1>4. CASE PrintList
  <2>1. /\ pc = "print" /\ pc' = "idle" /\ moved' = stirred
        /\ shown' = [list |-> list, skipped |-> skipped]
        /\ UNCHANGED <<bus, ports, stirred, list, skipped, asked, opened>>
    BY <1>4 DEF PrintList, scan
  <2>2. opened = {} /\ asked = {} /\ ~threw
    BY <2>1 DEF ShownInv
  <2>3. stirred = {} => AsPlugged(bus, ports, list, skipped)
    BY <2>1, <2>2 DEF ShownInv, InOrderSoFar
  <2>4. InOrderSoFar'
    BY <2>1 DEF InOrderSoFar
  <2>5. shown'.list = list /\ shown'.skipped = skipped
    BY <2>1
  <2> QED
    BY <2>1, <2>2, <2>3, <2>4, <2>5 DEF ShownInv, OpensWhatWasShown
<1>5. CASE OpenDevice
  <2>1. /\ pc' = "idle" /\ UNCHANGED <<bus, ports, moved, stirred, list, skipped, asked, shown>>
    BY <1>5 DEF OpenDevice, world, scan, user
  <2>2. InOrderSoFar'
    BY <2>1 DEF InOrderSoFar
  <2> QED
    BY <1>5, <2>1, <2>2, OpensTheShown DEF ShownInv
<1>6. CASE HandleEvents \/ Crash \/ UNCHANGED vars
  <2>1. /\ UNCHANGED <<bus, ports, moved, stirred, list, skipped, devs, idx, asked, shown, opened>>
        /\ (pc' = pc /\ threw' = threw) \/ pc' = "crashed"
    BY <1>6 DEF HandleEvents, Check, HandOver, EventsHandled, Crash, vars, world, scan, user
  <2> QED
    BY <2>1, NothingShown
<1>7. CASE PlugOrUnplug
  <2>1. /\ stirred' # {} /\ moved' # {} /\ stirred' \subseteq moved'
        /\ UNCHANGED <<list, skipped, asked, shown, opened, pc, threw>>
    BY <1>7 DEF PlugOrUnplug, scan, user, ShownInv
  <2> QED
    BY <2>1 DEF ShownInv, OpensWhatWasShown
<1> QED
  BY <1>1, <1>2, <1>3, <1>4, <1>5, <1>6, <1>7 DEF Next, Main

(* If since the run that printed the list nothing was plugged or           *)
(* unplugged, and the same radios refuse to open, the index opens the      *)
(* radio it was printed for - with any number of places, ports and runs    *)
(* between.                                                                *)
THEOREM IndexOpensWhatWasShown == Spec => []OpensWhatWasShown
<1>1. Init => ShownInv
  BY DEF Init, ShownInv, OpensWhatWasShown, InOrderSoFar, AsPlugged
<1>2. ShownInv => OpensWhatWasShown
  BY DEF ShownInv
<1> QED
  BY <1>1, <1>2, FullInvInit, FullInvStep, ShownInvStep, PTL DEF Spec
-----------------------------------------------------------------------------
(* A port inserted in, or removed from, the directory. *)
LEMMA InsertFacts ==
  ASSUME NEW S, NEW q \in Seq(S), NEW i \in 1..(Len(q) + 1), NEW p
  PROVE  /\ DOMAIN InsertAt(q, i, p) = 1..(Len(q) + 1)
         /\ \A k \in 1..(Len(q) + 1) :
              InsertAt(q, i, p)[k] = IF k < i THEN q[k] ELSE IF k = i THEN p ELSE q[k - 1]
<1> DEFINE n == Len(q)
           T == S \cup {p}
           a == SubSeq(q, 1, i - 1)
           b == SubSeq(q, i, n)
           c == a \o <<p>>
<1>1. n \in Nat /\ DOMAIN q = 1..n /\ q \in Seq(T)
  OBVIOUS
<1>2. /\ a \in Seq(T) /\ Len(a) = i - 1 /\ \A k \in 1..(i - 1) : a[k] = q[k]
  BY <1>1, SubSeqProperties
<1>3. /\ b \in Seq(T) /\ Len(b) = n - i + 1 /\ \A k \in 1..(n - i + 1) : b[k] = q[i + k - 1]
  BY <1>1, SubSeqProperties
<1>4. /\ <<p>> \in Seq(T) /\ Len(<<p>>) = 1 /\ <<p>>[1] = p
  OBVIOUS
<1>5. InsertAt(q, i, p) = c \o b
  BY Zenon DEF InsertAt
<1> HIDE DEF a, b, T
<1>6. /\ c \in Seq(T) /\ Len(c) = i /\ c[i] = p
      /\ \A k \in 1..(i - 1) : c[k] = q[k]
  BY <1>2, <1>4, ConcatProperties
<1> HIDE DEF c, n
<1>7. /\ c \o b \in Seq(T) /\ Len(c \o b) = Len(c) + Len(b)
      /\ \A k \in 1..(Len(c) + Len(b)) :
           (c \o b)[k] = IF k <= Len(c) THEN c[k] ELSE b[k - Len(c)]
  BY <1>3, <1>6, ConcatProperties
<1>8. Len(c) + Len(b) = n + 1 /\ i \in 1..(n + 1)
  BY <1>1, <1>3, <1>6 DEF n
<1>9. /\ Len(c \o b) = n + 1
      /\ \A k \in 1..(n + 1) : (c \o b)[k] = IF k <= i THEN c[k] ELSE b[k - i]
  BY <1>6, <1>7, <1>8, Zenon
<1>10. ASSUME NEW k \in 1..(n + 1)
       PROVE  (c \o b)[k] = IF k < i THEN q[k] ELSE IF k = i THEN p ELSE q[k - 1]
  <2>1. CASE k < i
    <3>1. k \in 1..(i - 1) /\ k <= i
      BY <1>1, <1>8, <2>1
    <3> QED
      BY <1>6, <1>9, <2>1, <3>1
  <2>2. CASE k = i
    <3>1. k <= i /\ ~(k < i)
      BY <1>8, <2>2
    <3> QED
      BY <1>6, <1>9, <2>2, <3>1
  <2>3. CASE k > i
    <3>1. k - i \in 1..(n - i + 1) /\ i + (k - i) - 1 = k - 1 /\ ~(k <= i) /\ ~(k < i) /\ k # i
      BY <1>1, <1>8, <2>3
    <3> QED
      BY <1>3, <1>9, <3>1
  <2> QED
    BY <1>1, <1>8, <2>1, <2>2, <2>3
<1>11. DOMAIN (c \o b) = 1..(n + 1)
  BY <1>7, <1>9
<1> QED
  BY <1>5, <1>10, <1>11, Zenon DEF n

LEMMA RemoveFacts ==
  ASSUME NEW S, NEW q \in Seq(S), NEW i \in 1..Len(q)
  PROVE  /\ DOMAIN RemoveAt(q, i) = 1..(Len(q) - 1)
         /\ \A k \in 1..(Len(q) - 1) :
              RemoveAt(q, i)[k] = IF k < i THEN q[k] ELSE q[k + 1]
<1> DEFINE n == Len(q)
           a == SubSeq(q, 1, i - 1)
           b == SubSeq(q, i + 1, n)
<1>1. n \in Nat /\ DOMAIN q = 1..n /\ i \in 1..n
  OBVIOUS
<1>2. /\ a \in Seq(S) /\ Len(a) = i - 1 /\ \A k \in 1..(i - 1) : a[k] = q[k]
  BY <1>1, SubSeqProperties
<1>3. /\ b \in Seq(S) /\ Len(b) = n - i /\ \A k \in 1..(n - i) : b[k] = q[i + k]
  <2>1. /\ b \in Seq(S)
        /\ Len(b) = IF i + 1 <= n THEN n - (i + 1) + 1 ELSE 0
        /\ \A k \in 1..(n - (i + 1) + 1) : b[k] = q[(i + 1) + k - 1]
    BY <1>1, SubSeqProperties
  <2> HIDE DEF b, n
  <2>3. Len(b) = n - i
    BY <1>1, <2>1
  <2>4. ASSUME NEW k \in 1..(n - i) PROVE b[k] = q[i + k]
    <3>1. k \in 1..(n - (i + 1) + 1) /\ (i + 1) + k - 1 = i + k
      BY <1>1
    <3> QED
      BY <2>1, <3>1
  <2> QED
    BY <2>1, <2>3, <2>4
<1>4. RemoveAt(q, i) = a \o b
  BY Zenon DEF RemoveAt
<1> HIDE DEF a, b, n
<1>5. /\ a \o b \in Seq(S) /\ Len(a \o b) = Len(a) + Len(b)
      /\ \A k \in 1..(Len(a) + Len(b)) :
           (a \o b)[k] = IF k <= Len(a) THEN a[k] ELSE b[k - Len(a)]
  BY <1>2, <1>3, ConcatProperties
<1>6. Len(a) + Len(b) = n - 1 /\ i \in 1..n
  BY <1>1, <1>2, <1>3 DEF n
<1>7. ASSUME NEW k \in 1..(n - 1)
      PROVE  (a \o b)[k] = IF k < i THEN q[k] ELSE q[k + 1]
  <2>1. CASE k < i
    <3>1. k \in 1..(i - 1) /\ k <= Len(a)
      BY <1>1, <1>2, <1>6, <2>1
    <3> QED
      BY <1>2, <1>5, <1>6, <2>1, <3>1
  <2>2. CASE ~(k < i)
    <3>1. /\ k - (i - 1) \in 1..(n - i) /\ i + (k - (i - 1)) = k + 1
          /\ ~(k <= i - 1)
      BY <1>1, <1>6, <2>2
    <3> QED
      BY <1>2, <1>3, <1>5, <1>6, <2>2, <3>1
  <2> QED
    BY <2>1, <2>2
<1>8. DOMAIN (a \o b) = 1..(n - 1)
  BY <1>5, <1>6
<1> QED
  BY <1>4, <1>7, <1>8, Zenon DEF n
-----------------------------------------------------------------------------
(* Of ports that differ there are no more than there can be. *)
LEMMA FewPorts ==
  ASSUME NEW q \in Seq(Ports), \A j, k \in DOMAIN q : q[j] = q[k] => j = k
  PROVE  Len(q) <= MaxPorts
<1>1. NPlaces \in Nat /\ MaxPorts \in Nat
  BY RadioFactoryAssumption DEF RadioFactoryAssumption
<1>2. IsFiniteSet(Ports) /\ Cardinality(Ports) = MaxPorts
  BY <1>1, FS_Interval DEF Ports
<1>3. Len(q) \in Nat /\ DOMAIN q = 1..Len(q) /\ q \in [1..Len(q) -> Ports]
  OBVIOUS
<1>4. q \in Injection(1..Len(q), Ports)
  BY <1>3 DEF Injection, IsInjective
<1>5. Cardinality(1..Len(q)) = Len(q)
  BY <1>3, FS_Interval
<1> QED
  BY <1>2, <1>4, <1>5, FS_Injection

(* A port that comes is a new one. *)
LEMMA PortsStayDifferent ==
  ASSUME FactoryInv, PlugOrUnplug,
         \A j, k \in DOMAIN ports : ports[j] = ports[k] => j = k
  PROVE  \A j, k \in DOMAIN ports' : ports'[j] = ports'[k] => j = k
<1> DEFINE n == Len(ports)
<1>1. /\ ports \in Seq(Ports) /\ n \in Nat /\ DOMAIN ports = 1..n
      /\ \A k \in 1..n : ports[k] \in Ports
  BY DEF FactoryInv, FactoryTypes
<1>2. PICK p : \/ UNCHANGED ports
               \/ p \notin ToSet(ports) /\ \E k \in 1..(n + 1) : ports' = InsertAt(ports, k, p)
               \/ \E k \in 1..n : ports' = RemoveAt(ports, k)
  BY <1>1 DEF PlugOrUnplug
<1>3. ASSUME NEW i \in 1..(n + 1), p \notin ToSet(ports), ports' = InsertAt(ports, i, p)
      PROVE  \A j, k \in DOMAIN ports' : ports'[j] = ports'[k] => j = k
  <2>1. /\ DOMAIN ports' = 1..(n + 1)
        /\ \A k \in 1..(n + 1) : ports'[k] = IF k < i THEN ports[k]
                                             ELSE IF k = i THEN p ELSE ports[k - 1]
    BY <1>1, <1>3, InsertFacts
  <2>2. \A k \in 1..n : ports[k] # p
    BY <1>1, <1>3 DEF ToSet
  <2> SUFFICES ASSUME NEW j \in 1..(n + 1), NEW k \in 1..(n + 1), ports'[j] = ports'[k]
               PROVE  j = k
    BY <2>1
  <2> DEFINE was(m) == IF m < i THEN m ELSE m - 1
  <2>3. ASSUME NEW m \in 1..(n + 1), m # i
        PROVE  was(m) \in 1..n /\ ports'[m] = ports[was(m)]
    <3>1. was(m) \in 1..n
      BY <1>1, <2>3
    <3> QED
      BY <1>1, <2>1, <2>3, <3>1
  <2>4. CASE j = i \/ k = i
    <3>1. ports'[i] = p
      BY <1>1, <2>1
    <3>2. ASSUME NEW m \in 1..(n + 1), m # i PROVE ports'[m] # p
      BY <2>2, <2>3, <3>2
    <3> QED
      BY <2>4, <3>1, <3>2
  <2>5. CASE j # i /\ k # i
    <3>1. was(j) \in 1..n /\ was(k) \in 1..n /\ ports[was(j)] = ports[was(k)]
      BY <2>3, <2>5
    <3>2. was(j) = was(k)
      BY <1>1, <3>1
    <3> QED
      BY <1>1, <2>5, <3>2
  <2> QED
    BY <2>4, <2>5
<1>4. ASSUME NEW i \in 1..n, ports' = RemoveAt(ports, i)
      PROVE  \A j, k \in DOMAIN ports' : ports'[j] = ports'[k] => j = k
  <2>1. /\ DOMAIN ports' = 1..(n - 1)
        /\ \A k \in 1..(n - 1) : ports'[k] = IF k < i THEN ports[k] ELSE ports[k + 1]
    BY <1>1, <1>4, RemoveFacts
  <2> SUFFICES ASSUME NEW j \in 1..(n - 1), NEW k \in 1..(n - 1), ports'[j] = ports'[k]
               PROVE  j = k
    BY <2>1
  <2> DEFINE was(m) == IF m < i THEN m ELSE m + 1
  <2>2. ASSUME NEW m \in 1..(n - 1)
        PROVE  was(m) \in 1..n /\ ports'[m] = ports[was(m)]
    <3>1. was(m) \in 1..n
      BY <1>1
    <3> QED
      BY <1>1, <2>1, <3>1
  <2>3. was(j) \in 1..n /\ was(k) \in 1..n /\ ports[was(j)] = ports[was(k)]
    BY <2>2
  <2>4. was(j) = was(k)
    BY <1>1, <2>3
  <2> QED
    BY <1>1, <2>4
<1> QED
  BY <1>2, <1>3, <1>4

LEMMA InitAmounts == Init => Amounts
<1> SUFFICES ASSUME Init PROVE Amounts
  OBVIOUS
<1>1. NPlaces \in Nat /\ MaxPorts \in Nat
  BY RadioFactoryAssumption DEF RadioFactoryAssumption
<1>2. PICK n \in 0..MaxPorts : ports = [k \in 1..n |-> NPlaces + k]
  BY DEF Init
<1>3. \A j, k \in DOMAIN ports : ports[j] = ports[k] => j = k
  BY <1>1, <1>2
<1>4. list = <<>> /\ Len(list) = 0 /\ idx = 0
  BY DEF Init
<1>5. /\ idx <= MaxPorts /\ Len(list) <= NPlaces + MaxPorts
      /\ pc # "scan" /\ pc # "ports"
  BY <1>1, <1>4 DEF Init
<1>6. /\ pc \in {"idle", "devices", "scan", "ports", "destroy", "join", "print", "open",
                  "crashed"}
      /\ thread \in {"none", "check", "use", "handling"} /\ handles \in {"ctx", "null"}
      /\ ctx \in {"none", "live", "freed"} /\ usb_ctx \in BOOLEAN
      /\ opened = {} /\ asked = {}
  BY Zenon DEF Init
<1> QED
  BY <1>3, <1>5, <1>6, Zenon DEF Amounts

(* What PlugOrUnplug and the runs leave of the bounds. *)
LEMMA AmountsStep == FullInv /\ ShownInv /\ Amounts /\ [Next]_vars => Amounts'
<1> SUFFICES ASSUME FullInv, ShownInv, Amounts, [Next]_vars PROVE Amounts'
  OBVIOUS
<1>1. /\ Len(devs) \in Nat /\ Len(list) \in Nat /\ idx \in Nat /\ Len(ports) \in Nat
      /\ DOMAIN ports = 1..Len(ports) /\ ports \in Seq(Ports)
      /\ devs \in Seq(Found) /\ list \in Seq(Entry)
      /\ NPlaces \in Nat /\ MaxPorts \in Nat
  BY DevsFacts, RadioFactoryAssumption DEF RadioFactoryAssumption, FullInv, FactoryInv,
                                           FactoryTypes
<1>2. devs # <<>> /\ devs' = Tail(devs) => Len(devs) >= 1 /\ Len(devs') = Len(devs) - 1
  BY <1>1, EmptySeq, HeadTailProperties
<1>3. \A e : list' = Append(list, e) => Len(list') = Len(list) + 1
  BY <1>1
<1>4. CASE Run
  <2>1. /\ UNCHANGED <<ports, handles>> /\ opened' = {} /\ pc' = "devices" /\ thread' = "check"
        /\ ctx' = "live" /\ usb_ctx' = TRUE /\ idx' = 0 /\ list' = <<>>
        /\ asked' = {} \/ \E e \in ToSet(shown.list) : asked' = {e}
    BY <1>4 DEF Run
  <2>2. \A d, e \in asked' : d = e
    BY <2>1
  <2>3. Len(list') = 0
    BY <2>1
  <2> QED
    BY <1>1, <2>1, <2>2, <2>3 DEF Amounts
<1>5. CASE GetDeviceList
  <2>1. /\ UNCHANGED <<ports, list, idx, opened, asked, thread, handles, ctx, usb_ctx>>
        /\ pc = "devices" /\ pc' = "scan"
    BY <1>5 DEF GetDeviceList, world, evt, user
  <2>2. list = <<>> /\ idx = 0
    BY <2>1 DEF FullInv, Enumerated
  <2>3. Len(devs') <= NPlaces
    BY <1>5, EachOnce DEF FullInv
  <2>4. Len(list') + Len(devs') <= NPlaces
    <3>1. Len(list') = 0 /\ Len(devs') \in Nat
      <4>1. devs' \in Seq(Found)
        BY <1>5, GetDeviceListFits DEF FullInv, FactoryInv, FactoryTypes
      <4> QED
        BY <2>1, <2>2, <4>1
    <3> QED
      BY <2>3, <3>1
  <2> QED
    BY <2>1, <2>2, <2>4 DEF Amounts
<1>6. CASE Unsupported \/ SkipRadio
  <2>1. /\ UNCHANGED <<ports, list, idx, opened, asked, thread, handles, ctx, usb_ctx, pc>>
        /\ devs # <<>> /\ devs' = Tail(devs) /\ pc = "scan"
    BY <1>6 DEF Unsupported, SkipRadio, world, evt, user
  <2>2. Len(list') + Len(devs') <= NPlaces
    BY <1>1, <1>2, <2>1 DEF Amounts
  <2> QED
    BY <2>1, <2>2 DEF Amounts
<1>7. CASE ListRadio
  <2>1. /\ UNCHANGED <<ports, idx, opened, asked, thread, handles, ctx, usb_ctx, pc>>
        /\ devs # <<>> /\ devs' = Tail(devs) /\ pc = "scan"
        /\ \E e : list' = Append(list, e)
    BY <1>7 DEF ListRadio, world, evt, user
  <2>2. Len(list') + Len(devs') <= NPlaces /\ Len(list') <= NPlaces + MaxPorts
    BY <1>1, <1>2, <1>3, <2>1 DEF Amounts
  <2> QED
    BY <2>1, <2>2 DEF Amounts
<1>8. CASE OpDeviceList
  <2>1. /\ UNCHANGED <<ports, list, idx, opened, asked, thread, handles, ctx, usb_ctx>>
        /\ pc = "scan" /\ pc' = "ports" /\ devs = <<>>
        /\ devs' = [k \in DOMAIN ports |-> [place |-> ports[k], ids |-> NoDevice]]
    BY <1>8 DEF OpDeviceList, world, evt, user
  <2>2. Len(ports) <= MaxPorts
    BY <1>1, FewPorts DEF Amounts
  <2>3. Len(devs') = Len(ports)
    <3>1. devs' \in Seq(Found)
      BY <1>8, OpDeviceListFits DEF FullInv, FactoryInv, FactoryTypes
    <3>2. Len(devs') \in Nat /\ DOMAIN devs' = 1..Len(devs') /\ DOMAIN devs' = 1..Len(ports)
      BY <1>1, <2>1, <3>1
    <3>3. \A m, n \in Nat : 1..m = 1..n => m = n
      <4> SUFFICES ASSUME NEW m \in Nat, NEW n \in Nat, 1..m = 1..n
                   PROVE  m <= n /\ n <= m
        OBVIOUS
      <4>1. m \in 1..m \/ m = 0
        OBVIOUS
      <4>2. n \in 1..n \/ n = 0
        OBVIOUS
      <4>3. (m \in 1..n \/ m = 0) /\ (n \in 1..m \/ n = 0)
        BY <4>1, <4>2
      <4> QED
        BY <4>3
    <3> QED
      BY <1>1, <3>2, <3>3
  <2>4. idx = 0 /\ Len(list) + Len(devs) <= NPlaces
    BY <2>1 DEF Amounts
  <2>5. Len(list') - idx' <= NPlaces /\ idx' + Len(devs') <= MaxPorts
    BY <1>1, <2>1, <2>2, <2>3, <2>4
  <2> QED
    BY <2>1, <2>5 DEF Amounts
<1>9. CASE ListPort
  <2>1. /\ UNCHANGED <<ports, opened, asked, thread, handles, ctx, usb_ctx, pc>>
        /\ devs # <<>> /\ devs' = Tail(devs) /\ pc = "ports" /\ idx' = idx + 1
        /\ \E e : list' = Append(list, e)
    BY <1>9 DEF ListPort, SupportsPort, world, evt, user
  <2>2. /\ Len(list') = Len(list) + 1 /\ Len(devs') = Len(devs) - 1
        /\ Len(devs) >= 1
    BY <1>2, <1>3, <2>1
  <2>3. /\ Len(list') - idx' <= NPlaces /\ idx' + Len(devs') <= MaxPorts
        /\ idx' <= MaxPorts /\ Len(list') <= NPlaces + MaxPorts
    BY <1>1, <2>1, <2>2 DEF Amounts
  <2> QED
    BY <2>1, <2>3 DEF Amounts
<1>10. CASE PortsListed \/ ListingThrows \/ ClearContext \/ ExitContext \/ PrintList
  <2>1. /\ UNCHANGED <<ports, list, idx, opened, asked, thread, handles>>
        /\ pc' \in {"destroy", "join", "idle", "print", "open"}
        /\ ctx' \in {ctx, "freed"} /\ usb_ctx' \in {usb_ctx, FALSE}
    BY <1>10 DEF PortsListed, ListingThrows, ClearContext, ContextCleared, ExitContext,
                 PrintList, world, scan, evt, user
  <2> QED
    BY <2>1 DEF Amounts
<1>11. CASE OpenDevice
  <2>1. /\ UNCHANGED <<ports, list, idx, asked, thread, handles, ctx, usb_ctx>>
        /\ pc' = "idle" /\ (UNCHANGED opened \/ \E o : opened' = {o})
    BY <1>11 DEF OpenDevice, world, scan, evt, user
  <2>2. \A o, p \in opened' : o = p
    BY <2>1 DEF Amounts
  <2> QED
    BY <2>1, <2>2 DEF Amounts
<1>12. CASE HandleEvents \/ Crash \/ UNCHANGED vars
  <2>1. /\ UNCHANGED <<ports, list, idx, devs, asked, opened, ctx, usb_ctx>>
        /\ UNCHANGED pc \/ pc' = "crashed"
        /\ thread' \in {thread, "none", "check", "use", "handling"}
        /\ handles' \in {handles, "ctx", "null"}
    BY <1>12 DEF HandleEvents, Check, HandOver, EventsHandled, Crash, vars, world, scan,
                 evt, user
  <2> QED
    BY <2>1 DEF Amounts
<1>13. CASE PlugOrUnplug
  <2>1. UNCHANGED <<list, idx, devs, asked, opened, ctx, usb_ctx, pc, thread, handles>>
    BY <1>13 DEF PlugOrUnplug, scan, evt, user
  <2>2. \A j, k \in DOMAIN ports' : ports'[j] = ports'[k] => j = k
    BY <1>13, PortsStayDifferent DEF Amounts, FullInv
  <2> QED
    BY <2>1, <2>2 DEF Amounts
<1> QED
  BY <1>4, <1>5, <1>6, <1>7, <1>8, <1>9, <1>10, <1>11, <1>12, <1>13 DEF Next, Main

LEMMA AtMostOne ==
  ASSUME NEW S, \A x, y \in S : x = y
  PROVE  Cardinality(S) <= 1
<1>1. CASE S = {}
  <2>1. Cardinality({}) = 0
    BY FS_EmptySet
  <2> QED
    BY <1>1, <2>1
<1>2. CASE S # {}
  <2>1. PICK x : S = {x}
    BY <1>2
  <2>2. Cardinality({x}) = 1
    BY FS_Singleton
  <2> QED
    BY <2>1, <2>2
<1> QED
  BY <1>1, <1>2

(* Indices, ports and what is asked for and opened keep their bounds,      *)
(* however the devices come and go.                                        *)
THEOREM TypeCorrect == Spec => []TypeOK
<1>1. Init => ShownInv /\ Amounts
  BY InitAmounts DEF Init, ShownInv, OpensWhatWasShown, InOrderSoFar, AsPlugged
<1>2. FullInv /\ Amounts => TypeOK
  <2> SUFFICES ASSUME FullInv, Amounts PROVE TypeOK
    OBVIOUS
  <2>1. /\ bus \in [Places -> Devices \cup {NoDevice}] /\ ToSet(ports) \subseteq Ports
        /\ idx \in Nat /\ Len(list) \in Nat /\ DOMAIN list = 1..Len(list)
        /\ NPlaces \in Nat /\ MaxPorts \in Nat
    BY DevsFacts, RadioFactoryAssumption DEF RadioFactoryAssumption, FullInv, FactoryInv,
                                             FactoryTypes, Ids, ToSet
  <2>2. idx \in 0..MaxPorts
    BY <2>1 DEF Amounts
  <2>3. \A k \in DOMAIN list : list[k].index \in 0..(NPlaces + MaxPorts - 1)
    <3>1. \A k \in 1..Len(list) : k - 1 \in 0..(NPlaces + MaxPorts - 1)
      BY <2>1 DEF Amounts
    <3> QED
      BY <2>1, <3>1 DEF FullInv, IndexIsPlace
  <2>4. Cardinality(opened) <= 1 /\ Cardinality(asked) <= 1
    BY AtMostOne DEF Amounts
  <2> QED
    BY <2>1, <2>2, <2>3, <2>4 DEF TypeOK, Amounts
<1> QED
  BY <1>1, <1>2, FullInvInit, FullInvStep, ShownInvStep, AmountsStep, PTL DEF Spec
=============================================================================
