--------------------------------- MODULE Board --------------------------------
(***************************************************************************)
(* The board's smaller HALs side by side: the power HAL's set-up, lights,  *)
(* OMX plug-in, NFC, GPS shim, the adaptive backlight, and the keymaster's *)
(* memory.  They live in different processes or share no state in one, so  *)
(* a behaviour of the board is one of each; it is enough to let one of     *)
(* them move while the others stay at one of their starts.                 *)
(***************************************************************************)
EXTENDS PowerSetup, Lights, OmxPlugin, NfcHal, GpsCompat, AdaptiveBacklight, KeyMemory

VARIABLE moving     \* the HAL that moves

Part == {"power", "lights", "omx", "nfc", "gps", "dimmer", "keys"}

vars == <<moving, powerVars, lightVars, omxVars, nfcVars, gpsVars, dimmerVars, keyVars>>

TypeOK ==
  /\ moving \in Part
  /\ PowerTypeOK /\ LightsTypeOK /\ OmxTypeOK /\ NfcTypeOK /\ GpsTypeOK /\ DimmerTypeOK
  /\ KeyTypeOK

Init ==
  /\ moving \in Part
  /\ PowerInit /\ LightsInit /\ OmxInit /\ NfcInit /\ GpsInit /\ DimmerInit /\ KeyInit
  /\ moving # "power" => file = CHOOSE f \in FreqFile : TRUE
  /\ moving # "dimmer" => supported

Next ==
  /\ \/ /\ moving = "power" /\ PowerNext
        /\ UNCHANGED <<lightVars, omxVars, nfcVars, gpsVars, dimmerVars, keyVars>>
     \/ /\ moving = "lights" /\ LightsNext
        /\ UNCHANGED <<powerVars, omxVars, nfcVars, gpsVars, dimmerVars, keyVars>>
     \/ /\ moving = "omx" /\ OmxNext
        /\ UNCHANGED <<powerVars, lightVars, nfcVars, gpsVars, dimmerVars, keyVars>>
     \/ /\ moving = "nfc" /\ NfcNext
        /\ UNCHANGED <<powerVars, lightVars, omxVars, gpsVars, dimmerVars, keyVars>>
     \/ /\ moving = "gps" /\ GpsNext
        /\ UNCHANGED <<powerVars, lightVars, omxVars, nfcVars, dimmerVars, keyVars>>
     \/ /\ moving = "dimmer" /\ DimmerNext
        /\ UNCHANGED <<powerVars, lightVars, omxVars, nfcVars, gpsVars, keyVars>>
     \/ /\ moving = "keys" /\ KeyNext
        /\ UNCHANGED <<powerVars, lightVars, omxVars, nfcVars, gpsVars, dimmerVars>>
  /\ UNCHANGED moving

Spec == Init /\ [][Next]_vars

(* The power HAL's threads go on; in the other parts they never start.     *)
FairSpec == Spec /\ PowerFairness
===============================================================================
