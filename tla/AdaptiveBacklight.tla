--------------------------- MODULE AdaptiveBacklight --------------------------
(***************************************************************************)
(* The adaptive backlight toggle (cmhw .../AdaptiveBacklight.java): static *)
(* methods over one sysfs file, no lock.  isSupported reads the setting    *)
(* and writes it back, to learn whether the file can be written.           *)
(*                                                                         *)
(* FileUtils is external: a read gives the line or null, a write tells     *)
(* whether it went through.                                                *)
(***************************************************************************)
EXTENDS Integers

CONSTANT SettingThread      \* threads that use the toggle

VARIABLES
    supported,      \* whether the file is there and can be written
    dimmer,         \* kernel: smartdimmer/enable
    probe,          \* what each isSupported has read, or where it is not
    asked,          \* the last setting setEnabled wrote (history)
    disturbed       \* a probe failed to read, or overlapped a setEnabled (history)

dimmerVars == <<supported, dimmer, probe, asked, disturbed>>

DimmerTypeOK ==
  /\ supported \in BOOLEAN
  /\ dimmer \in BOOLEAN
  /\ probe \in [SettingThread -> {"idle", "on", "off"}]
  /\ asked \in BOOLEAN
  /\ disturbed \in BOOLEAN

DimmerInit ==
  /\ supported \in BOOLEAN
  /\ dimmer = FALSE
  /\ probe = [u \in SettingThread |-> "idle"]
  /\ asked = dimmer
  /\ disturbed = FALSE

(* What a read can give: false when it fails.                              *)
isEnabled == IF supported THEN {dimmer, FALSE} ELSE {FALSE}

(* FileUtils.writeLine: what the file can hold after a write of value,     *)
(* which may fail.                                                         *)
writeLine(value) == IF supported THEN {value, dimmer} ELSE {dimmer}

(* Mutant: probes with the feature turned on. *)
isSupported_On(u) ==
  /\ probe[u] = "idle"
  /\ probe' = [probe EXCEPT ![u] = "on"]
  /\ UNCHANGED <<supported, dimmer, asked, disturbed>>

(* boolean enabled = isEnabled();                                          *)
isSupported(u) ==
  /\ probe[u] = "idle"
  /\ \E value \in isEnabled :
       /\ probe' = [probe EXCEPT ![u] = IF value THEN "on" ELSE "off"]
       /\ disturbed' = (disturbed \/ (supported /\ value # dimmer))
  /\ UNCHANGED <<supported, dimmer, asked>>

(* return setEnabled(enabled);                                             *)
WriteBack(u) ==
  /\ probe[u] # "idle"
  /\ dimmer' \in writeLine(probe[u] = "on")
  /\ probe' = [probe EXCEPT ![u] = "idle"]
  /\ UNCHANGED <<supported, asked, disturbed>>

setEnabled(u, status) ==
  /\ probe[u] = "idle"
  /\ dimmer' \in writeLine(status)
  /\ asked' = dimmer'
  /\ disturbed' = (disturbed \/ (supported /\ \E v \in SettingThread : probe[v] # "idle"))
  /\ UNCHANGED <<supported, probe>>

DimmerNext ==
  \E u \in SettingThread :
    \/ isSupported(u) \/ WriteBack(u)
    \/ \E status \in BOOLEAN : setEnabled(u, status)

-------------------------------------------------------------------------------
(* Asking whether the toggle is supported does not touch the setting:      *)
(* probes may overlap each other as they like.  Only one that overlaps a   *)
(* setEnabled, or that could not read the file, may undo what was asked.   *)
ProbeKeepsSetting == ~ disturbed => dimmer = asked
===============================================================================
