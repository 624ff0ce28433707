------------------------------- MODULE TYTDFU -------------------------------
(***************************************************************************)
(* The operations of TYTDFU (src/tyt_dfu.cpp) and of TYTRadio that are     *)
(* sequences of DFU calls.  Commands are named for what they carry.        *)
(***************************************************************************)
EXTENDS DFU

ReadRegister(reg) == <<Down(reg), Up>>

IdentifyDevice == ReadRegister("RadioInfo")

GetTime == <<InitUp>> \o ReadRegister("RTC")

SetTime == <<Down("SetRTC"), Down("timestamp")>>

Reboot == <<Down("ProgrammingMode"), Down("Reboot")>>

SendTYTCommand(cmd) == <<Down(cmd)>>

(* DFU::SetAddress and DFU::Erase: five byte commands. *)
SetAddress == <<Down("0x21 address")>>

Erase == <<Down("0x41 address")>>

(* TYTRadio::ToString *)
RadioToString == IdentifyDevice \o GetTime

TYTOperations ==
  {IdentifyDevice, GetTime, SetTime, Reboot, SendTYTCommand("FirmwareUpgrade"),
   SetAddress, Erase, RadioToString}

(***************************************************************************)
(* SetTime writes a timestamp only after the radio has executed SetRTC: a  *)
(* timestamp packet on its own would be taken for some other command.      *)
(***************************************************************************)
InSetTime ==
  pc = "download" /\ calls = <<Down("timestamp")>> => sent \in ToSet(executed)
=============================================================================
