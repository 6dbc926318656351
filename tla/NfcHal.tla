-------------------------------- MODULE NfcHal --------------------------------
(***************************************************************************)
(* The NFC HAL (nfc/nfc_hw.c): a device carries the table of settings that *)
(* the NFC stack writes to the PN544's EEPROM, one after the other, each   *)
(* time it sets the controller up; power may be lost on the way.  The      *)
(* stack and the controller are external.                                  *)
(*                                                                         *)
(* A setting is one number: two bytes of address (an entry's second and    *)
(* third; its first is 0) and one of value.                                *)
(***************************************************************************)
EXTENDS Integers, Sequences, SequencesExt

CONSTANTS
    Grouper,        \* whether the build defines grouper
    MaxNfcDevs      \* devices open at a time (bound)

ASSUME NfcAssumption == Grouper \in BOOLEAN /\ MaxNfcDevs \in Nat

(* RF settings, secure element and PBTF, polling, LLC timers, ATQA.        *)
Settings == <<
    \h9BD10D, \h9BD224, \h9BD30A, \h9BD422, \h9BD508, \h9BD61E, \h9BDD1C,
    \h9B8413, \h99817F, \h997A3E, \h9977FF, \h993170, \h992AF5,
    IF Grouper THEN \h9929F5 ELSE \h9929FF, \h98003F, \h9F0900, \h9F0A05,
    \h9ED1A1, \h992300, \h9E74B0, \h9E7DB0, \h9F2801, \h9F3514, \h9F3660,
    \h9C3100, \h9C32C8, \h9C1940, \h9C1A40, \h9C0C00, \h9C0D00, \h9C1200,
    \h9C1300, \h98A20E, \h989340, \h987D02, \h987E00, \h9FC801, \h9F9A00 >>

(* Mutant: EMD support is turned on, at the address of SWP_PBTF_RFU. *)
pn544_eedata_settings_Emd == Settings \o <<\h9F0901>>

(* The last entry, EMD support, has the address of SWP_PBTF_RFU again.     *)
pn544_eedata_settings == Settings \o <<\h9F0900>>

Address(setting) == setting \div 256
Value(setting)   == setting % 256
Addresses        == {Address(s) : s \in ToSet(pn544_eedata_settings)}
Factory          == 256     \* what no byte is: the value before any set-up

(* Mutant: an entry taken to have sixteen bytes. *)
num_eeprom_settings_Wide == (4 * Len(pn544_eedata_settings)) \div 16

(* sizeof(pn544_eedata_settings) / 4                                       *)
num_eeprom_settings == (4 * Len(pn544_eedata_settings)) \div 4

VARIABLES
    nfcDevs,        \* NFC devices open
    eeprom,         \* the controller's settings
    written,        \* how many settings this set-up has written
    configured      \* a set-up has gone through (history)

nfcVars == <<nfcDevs, eeprom, written, configured>>

NfcTypeOK ==
  /\ nfcDevs \in 0 .. MaxNfcDevs
  /\ eeprom \in [Addresses -> 0 .. Factory]
  /\ written \in 0 .. Len(pn544_eedata_settings)
  /\ configured \in BOOLEAN

NfcInit ==
  /\ nfcDevs = 0
  /\ eeprom = [a \in Addresses |-> Factory]
  /\ written = 0
  /\ configured = FALSE

nfc_open ==
  /\ nfcDevs < MaxNfcDevs
  /\ nfcDevs' = nfcDevs + 1
  /\ UNCHANGED <<eeprom, written, configured>>

(* The stack closes the device when it is not setting the controller up.   *)
pn544_close ==
  /\ nfcDevs > 0 /\ written = 0
  /\ nfcDevs' = nfcDevs - 1
  /\ UNCHANGED <<eeprom, written, configured>>

(* The NFC stack writes the device's next setting; after the last one the  *)
(* controller is set up.                                                   *)
WriteSetting ==
  /\ nfcDevs > 0 /\ written < num_eeprom_settings
  /\ LET s == pn544_eedata_settings[written + 1]
     IN  eeprom' = [eeprom EXCEPT ![Address(s)] = Value(s)]
  /\ written' = IF written + 1 = num_eeprom_settings THEN 0 ELSE written + 1
  /\ configured' = (configured \/ written + 1 = num_eeprom_settings)
  /\ UNCHANGED nfcDevs

(* The set-up breaks off: the controller loses power, or the stack dies.   *)
BreakOff ==
  /\ written > 0
  /\ written' = 0
  /\ UNCHANGED <<nfcDevs, eeprom, configured>>

NfcNext == nfc_open \/ pn544_close \/ WriteSetting \/ BreakOff

-------------------------------------------------------------------------------
(* A controller that was set up once has every setting of the table, and   *)
(* keeps it through later set-ups, wherever they break off: the table says *)
(* nothing twice that it does not say alike.                               *)
SetUpForGood ==
  configured => \A s \in ToSet(pn544_eedata_settings) : eeprom[Address(s)] = Value(s)
===============================================================================
