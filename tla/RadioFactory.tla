---------------------------- MODULE RadioFactory ----------------------------
(***************************************************************************)
(* How the tool finds a radio and opens it by its index:                   *)
(* RadioFactory::ListDevices and OpenDevice, the USBRadioFactory they      *)
(* construct with its thread of libusb events, the SerialRadioFactory, and *)
(* the devices that come and go meanwhile (src/radio_factory.cpp,          *)
(* src/usb_radio_factory.cpp, src/serial_radio_factory.cpp).               *)
(*                                                                         *)
(* The user runs the tool with --list and then with --device and an index  *)
(* from the list; each run enumerates the devices anew.  A place stands    *)
(* for the bus, port and address of a USB device, or for the path of a     *)
(* serial port.                                                            *)
(***************************************************************************)
EXTENDS Integers, Sequences, FiniteSets, SequencesExt

CONSTANTS
  NPlaces,     \* places 1..NPlaces, in the order of libusb's device list
  Devices,     \* the <<idVendor, idProduct>> of what may be plugged in there
  MaxPorts,    \* bound: serial ports
  MaxRuns,     \* bound: runs of the tool
  MaxChanges   \* bound: devices plugged or unplugged

NoDevice == <<0, 0>>

(* A USB driver takes the device that has its ids. *)
RadioSupports == [TYT |-> <<1155, 57105>>, TYTSGL |-> <<5538, 115>>, Yaesu |-> <<1115, 37>>]

SupportsDevice(driver, ids) == ids = RadioSupports[driver]

Supporting(ids) == {d \in DOMAIN RadioSupports : SupportsDevice(d, ids)}

(* The cable of an Ailunce radio. *)
Cable == <<1659, 8963>>

(* Of the radios it lists, only TYT's is asked for its strings. *)
Named(ids) == ids \notin {RadioSupports.TYTSGL, RadioSupports.Yaesu}

RadioFactoryAssumption ==
  /\ NoDevice \notin Devices
  /\ \A ids \in Devices : Cardinality(Supporting(ids)) <= 1
  /\ NPlaces \in Nat /\ MaxPorts \in Nat /\ MaxRuns \in Nat /\ MaxChanges \in Nat
ASSUME RadioFactoryAssumption

Places == 1..NPlaces
Ports  == (NPlaces + 1)..(NPlaces + MaxPorts)

VARIABLES
  bus,      \* place |-> the ids of the device plugged in there, or NoDevice
  ports,    \* the serial ports, in the order of their directory
  pc,       \* main thread
  asked,    \* the entry of the shown list that the user asks for; {} for --list
  usb_ctx,  \* USBRadioFactory::usb_ctx, TRUE unless it is nullptr
  ctx,      \* the context: "none", "live" or "freed" by libusb_exit
  devs,     \* what is still to be looked at: USB devices, then serial ports
  idx,      \* serial ports looked at
  list,     \* the RadioInfos: [index, driver, place]
  skipped,  \* places of the radios that could not be opened
  threw,    \* an exception is on its way to main
  opened,   \* the radio opened, as a set of at most one [driver, ids, place]
  thread,   \* events thread: "none", "check", "use", "handling"
  handles,  \* what the events thread handed to libusb: "ctx" or "null"
  shown,    \* what --list printed last: [list, skipped]
  moved,    \* places that changed since the run that printed that began
  stirred,  \* places that changed since this run began
  changes, runs

world == <<bus, ports, moved, stirred, changes>>
scan  == <<devs, idx, list, skipped>>
evt   == <<thread, handles>>
user  == <<asked, shown, runs>>
vars  == <<world, scan, evt, user, pc, usb_ctx, ctx, threw, opened>>

Init ==
  /\ bus \in [Places -> Devices \cup {NoDevice}]
  /\ ports \in {[k \in 1..n |-> NPlaces + k] : n \in 0..MaxPorts}
  /\ pc = "idle" /\ asked = {} /\ usb_ctx = FALSE /\ ctx = "none"
  /\ devs = <<>> /\ idx = 0 /\ list = <<>> /\ skipped = {} /\ threw = FALSE
  /\ opened = {} /\ thread = "none" /\ handles = "ctx"
  /\ shown = [list |-> <<>>, skipped |-> {}]
  /\ moved = {} /\ stirred = {} /\ changes = 0 /\ runs = 0

-----------------------------------------------------------------------------
(* The devices. *)

PlugOrUnplug ==
  /\ changes < MaxChanges /\ changes' = changes + 1
  /\ \E p \in Places \cup Ports :
       /\ moved' = moved \cup {p} /\ stirred' = stirred \cup {p}
       /\ \/ /\ p \in Places
             /\ \E ids \in Devices :
                  bus' = [bus EXCEPT ![p] = IF @ = NoDevice THEN ids ELSE NoDevice]
             /\ UNCHANGED ports
          \/ /\ p \in Ports /\ p \notin ToSet(ports)
             /\ \E k \in 1..(Len(ports) + 1) : ports' = InsertAt(ports, k, p)
             /\ UNCHANGED bus
          \/ /\ \E k \in DOMAIN ports : ports[k] = p /\ ports' = RemoveAt(ports, k)
             /\ UNCHANGED bus
  /\ UNCHANGED <<scan, evt, user, pc, usb_ctx, ctx, threw, opened>>

-----------------------------------------------------------------------------
(* Mutants: slips that the code could have. *)
IndexInFactory(n, off) == n
IndexFromOne(n, off)   == off + n + 1
ContextKept            == usb_ctx' = usb_ctx
JoinsNever             == TRUE
FirstPresent(place)    == {p \in Places : /\ bus[p] # NoDevice
                                          /\ \A q \in Places : q < p => bus[q] = NoDevice}
OnlyItsCable(ids)      == ids = Cable

(* The index given to the n-th radio of a factory, counted from 0. *)
IndexFrom(n, off) == off + n

(* A RadioInfo opens its radio by the place and the driver it was made with. *)
USBRadioInfo(n, driver, place) ==
  [index |-> IndexFrom(n, 0), driver |-> driver, place |-> place]

SerialRadioInfo(n, off, port) ==
  [index |-> IndexFrom(n, off), driver |-> "Ailunce", place |-> port]

(* The devices of libusb's list at the bus, port and address of a radio. *)
DevicesAt(place) == {p \in Places : p = place /\ bus[p] # NoDevice}

-----------------------------------------------------------------------------
(* Main thread: RadioFactory::ListDevices. *)

(* USBRadioFactory's constructor, which starts the events thread.  (If     *)
(* libusb_init fails there is nothing to end.)                             *)
Run ==
  /\ pc = "idle" /\ runs < MaxRuns /\ runs' = runs + 1
  /\ asked' = {} \/ \E e \in ToSet(shown.list) : asked' = {e}
  /\ usb_ctx' = TRUE /\ ctx' = "live" /\ thread' = "check"
  /\ devs' = <<>> /\ idx' = 0 /\ list' = <<>> /\ skipped' = {}
  /\ threw' = FALSE /\ opened' = {}
  /\ pc' = "devices" /\ stirred' = {}
  /\ UNCHANGED <<bus, ports, moved, changes, handles, shown>>

(* libusb's list has the devices in the order of their places. *)
InOrder(S) ==
  {q \in [1..Cardinality(S) -> S] : \A j, k \in 1..Cardinality(S) : j < k => q[j] < q[k]}

GetDeviceList ==
  /\ pc = "devices" /\ pc' = "scan"
  /\ \E plugged \in InOrder({p \in Places : bus[p] # NoDevice}) :
       devs' = [k \in DOMAIN plugged |-> [place |-> plugged[k], ids |-> bus[plugged[k]]]]
  /\ UNCHANGED <<world, idx, list, skipped, evt, user, usb_ctx, ctx, threw, opened>>

Dev == Head(devs)
Plugged == bus[Dev.place] = Dev.ids

Unsupported ==
  /\ pc = "scan" /\ devs # <<>> /\ Supporting(Dev.ids) = {}
  /\ devs' = Tail(devs)
  /\ UNCHANGED <<world, idx, list, skipped, evt, user, pc, usb_ctx, ctx, threw, opened>>

ListRadio ==
  /\ pc = "scan" /\ devs # <<>> /\ Plugged
  /\ \E d \in Supporting(Dev.ids) :
       list' = Append(list, USBRadioInfo(Len(list), d, Dev.place))
  /\ devs' = Tail(devs)
  /\ UNCHANGED <<world, idx, skipped, evt, user, pc, usb_ctx, ctx, threw, opened>>

(* libusb_open fails, or the descriptor cannot be read: the radio is gone, *)
(* or may not be opened.                                                   *)
SkipRadio ==
  /\ pc = "scan" /\ devs # <<>> /\ Supporting(Dev.ids) # {}
  /\ skipped' = skipped \cup {Dev.place}
  /\ devs' = Tail(devs)
  /\ UNCHANGED <<world, idx, list, evt, user, pc, usb_ctx, ctx, threw, opened>>

-----------------------------------------------------------------------------
(* Main thread: SerialRadioFactory::ListDevices.  The ports' directory, or *)
(* registry key, is gone through; where there is none there are no ports.  *)

OpDeviceList ==
  /\ pc = "scan" /\ devs = <<>> /\ pc' = "ports"
  /\ devs' = [k \in DOMAIN ports |-> [place |-> ports[k], ids |-> NoDevice]]
  /\ UNCHANGED <<world, idx, list, skipped, evt, user, usb_ctx, ctx, threw, opened>>

(* The ids of a port's cable are known only under Windows, and there only  *)
(* for some; the driver takes every port anyway.                           *)
GetComPortUSBIds == {Cable, NoDevice}
SupportsPort(ids) == ids = Cable \/ TRUE

USBDevices == {k \in DOMAIN list : list[k].place \in Places}

ListPort ==
  /\ pc = "ports" /\ devs # <<>>
  /\ devs' = Tail(devs) /\ idx' = idx + 1
  /\ \E ids \in GetComPortUSBIds :
       list' = IF SupportsPort(ids)
               THEN Append(list, SerialRadioInfo(idx, Cardinality(USBDevices), Dev.place))
               ELSE list
  /\ UNCHANGED <<world, skipped, evt, user, pc, usb_ctx, ctx, threw, opened>>

PortsListed ==
  /\ pc = "ports" /\ devs = <<>> /\ pc' = "destroy"
  /\ UNCHANGED <<world, scan, evt, user, usb_ctx, ctx, threw, opened>>

(***************************************************************************)
(* What may throw: the listing of the devices, GetDeviceString, the        *)
(* reading of the ports' names (of one that has just gone, on Linux), and  *)
(* GetComPortUSBIds.  usb is destroyed as the stack unwinds, and the list  *)
(* is lost.                                                                *)
(***************************************************************************)
ListingThrows ==
  /\ \/ pc = "devices"
     \/ pc = "scan" /\ devs # <<>> /\ Supporting(Dev.ids) # {} /\ Named(Dev.ids)
     \/ pc = "ports"
  /\ threw' = TRUE /\ pc' = "destroy"
  /\ UNCHANGED <<world, scan, evt, user, usb_ctx, ctx, opened>>

(* ~USBRadioFactory, in its three steps. *)
ContextCleared == usb_ctx' = FALSE

ClearContext ==
  /\ pc = "destroy" /\ pc' = "join"
  /\ ContextCleared
  /\ UNCHANGED <<world, scan, evt, user, ctx, threw, opened>>

Joined == thread = "none"

ExitContext ==
  /\ pc = "join" /\ Joined
  /\ ctx' = "freed"
  /\ pc' = IF threw THEN "idle" ELSE IF asked = {} THEN "print" ELSE "open"
  /\ UNCHANGED <<world, scan, evt, user, usb_ctx, threw, opened>>

PrintList ==
  /\ pc = "print" /\ pc' = "idle"
  /\ shown' = [list |-> list, skipped |-> skipped] /\ moved' = stirred
  /\ UNCHANGED <<bus, ports, stirred, changes, scan, evt, asked, runs, usb_ctx, ctx, threw, opened>>

(***************************************************************************)
(* RadioFactory::OpenDevice: devices.at(index) and the radio's own         *)
(* function, which looks for the place in a list of its own and hands a    *)
(* null handle to the driver when nothing is there any more.  A device or  *)
(* a port that refuses, or a driver that asks the radio first, throws.     *)
(***************************************************************************)
OpenDevice ==
  /\ pc = "open" /\ pc' = "idle"
  /\ \E e \in asked :
       \/ threw' = TRUE /\ UNCHANGED opened
       \/ /\ e.index + 1 \in DOMAIN list
          /\ LET info == list[e.index + 1]
                 at   == DevicesAt(info.place)
             IN  \/ /\ info.place \in ToSet(ports)
                    /\ opened' = {[driver |-> info.driver, ids |-> NoDevice, place |-> info.place]}
                 \/ /\ info.place \in Places /\ at = {}
                    /\ opened' = {[driver |-> info.driver, ids |-> NoDevice, place |-> info.place]}
                 \/ /\ info.place \in Places
                    /\ \E p \in at :
                         opened' = {[driver |-> info.driver, ids |-> bus[p], place |-> p]}
          /\ UNCHANGED threw
  /\ UNCHANGED <<world, scan, evt, user, usb_ctx, ctx>>

Main == \/ GetDeviceList \/ Unsupported \/ ListRadio \/ SkipRadio
        \/ OpDeviceList \/ ListPort \/ PortsListed \/ ListingThrows
        \/ ClearContext \/ ExitContext \/ PrintList \/ OpenDevice

-----------------------------------------------------------------------------
(* Events thread: USBRadioFactory::HandleEvents. *)

Check ==
  /\ thread = "check"
  /\ thread' = IF usb_ctx THEN "use" ELSE "none"
  /\ UNCHANGED <<world, scan, handles, user, pc, usb_ctx, ctx, threw, opened>>

(***************************************************************************)
(* usb_ctx is read again for the call.  Nothing orders this read against   *)
(* the assignment in the destructor, and the compiler may keep the value   *)
(* of the check.                                                           *)
(***************************************************************************)
HandOver ==
  /\ thread = "use" /\ thread' = "handling"
  /\ handles' \in {"ctx"} \cup (IF usb_ctx THEN {} ELSE {"null"})
  /\ UNCHANGED <<world, scan, user, pc, usb_ctx, ctx, threw, opened>>

(* libusb_handle_events_timeout returns within 100 us, or with an error. *)
EventsHandled ==
  /\ thread = "handling"
  /\ thread' \in {"check", "none"}
  /\ UNCHANGED <<world, scan, handles, user, pc, usb_ctx, ctx, threw, opened>>

(* Without a default context, libusb may follow the null pointer. *)
Crash ==
  /\ thread = "handling" /\ handles = "null"
  /\ thread' = "none" /\ pc' = "crashed"
  /\ UNCHANGED <<world, scan, handles, user, usb_ctx, ctx, threw, opened>>

HandleEvents == Check \/ HandOver \/ EventsHandled

-----------------------------------------------------------------------------
Next == Run \/ Main \/ HandleEvents \/ Crash \/ PlugOrUnplug

Spec == Init /\ [][Next]_vars

(* The two threads are scheduled, and libusb's calls return. *)
FairSpec == Spec /\ WF_vars(Main) /\ WF_vars(HandleEvents)

-----------------------------------------------------------------------------
(* Every variable stays in its range. *)
TypeOK ==
  /\ bus \in [Places -> Devices \cup {NoDevice}] /\ ToSet(ports) \subseteq Ports
  /\ pc \in {"idle", "devices", "scan", "ports", "destroy", "join", "print", "open", "crashed"}
  /\ thread \in {"none", "check", "use", "handling"} /\ handles \in {"ctx", "null"}
  /\ ctx \in {"none", "live", "freed"} /\ usb_ctx \in BOOLEAN /\ idx \in 0..MaxPorts
  /\ \A k \in DOMAIN list : list[k].index \in 0..(NPlaces + MaxPorts - 1)
  /\ Cardinality(opened) <= 1 /\ Cardinality(asked) <= 1

(* The index that is printed beside a radio is its place in the list,      *)
(* where OpenDevice looks it up: although the USB radios are counted as    *)
(* they are listed, and the serial ports as they are come across.          *)
IndexIsPlace == \A k \in DOMAIN list : list[k].index = k - 1

(* The events thread is never inside libusb with a context that           *)
(* libusb_exit has freed: ~USBRadioFactory joins it first, on the way of   *)
(* an exception too.                                                       *)
ContextAlive == thread \in {"use", "handling"} => ctx = "live"

(* With the same radios plugged in and the same ones refusing to open, the *)
(* index that --list printed opens the radio it was printed for, although  *)
(* radios were skipped and serial ports are numbered after the USB radios. *)
OpensWhatWasShown ==
  \A o \in opened, e \in asked :
    moved = {} /\ skipped = shown.skipped
      => o.place = e.place /\ o.driver = e.driver

(* A driver gets a radio that is not its own, or a null handle, only when  *)
(* that very place changed since this run of the tool began.               *)
DriverFitsRadio ==
  \A o \in opened :
    o.place \in Places /\ ~SupportsDevice(o.driver, o.ids) => o.place \in stirred

(* Every run of the tool comes to its end: the destructor does not wait    *)
(* for the events thread for ever.                                         *)
EveryRunEnds == pc = "devices" ~> pc \in {"idle", "crashed"}
=============================================================================
