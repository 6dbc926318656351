-------------------------------- MODULE Lights --------------------------------
(***************************************************************************)
(* The lights HAL (liblights/lights.c): set_light_backlight computes the   *)
(* brightness of a colour, squeezes the top of the range to save power and *)
(* writes it to the backlight under the process-wide g_lock.  open_lights  *)
(* initialises g_lock again each time it makes a device.                   *)
(*                                                                         *)
(* g_lock is bionic's normal mutex: 0 free, 1 held, 2 held and somebody    *)
(* sleeps; unlocking a 2 wakes one sleeper.  A colour is its three         *)
(* components.  A failed write leaves the backlight as it was.             *)
(***************************************************************************)
EXTENDS Integers, FiniteSets

CONSTANTS
    LightThread,    \* threads that call the HAL
    Grey,           \* colours they ask for: the greys of these levels,
    Hue,            \* and these, each <<red, green, blue>>
    MaxDevices      \* light devices open at a time (bound)

Level == 0 .. 255
Black == <<0, 0, 0>>
Color == {<<g, g, g>> : g \in Grey} \cup Hue \cup {Black}

ASSUME ColorAssumption == Grey \subseteq Level /\ Hue \subseteq Level \X Level \X Level
ASSUME DeviceAssumption == MaxDevices \in Nat /\ IsFiniteSet(LightThread)

VARIABLES
    g_lock,         \* the mutex: 0, 1 or 2
    lightAt,        \* where each thread is
    color,          \* the colour it asks for
    backlight,      \* kernel: pwm-backlight/brightness
    devices,        \* light devices open
    shown,          \* the colour behind the backlight (history)
    reinit          \* g_lock was initialised during a call (history)

lightVars == <<g_lock, lightAt, color, backlight, devices, shown, reinit>>

-------------------------------------------------------------------------------
(* Mutant: shifts by 7. *)
rgb_to_brightness_Seven(c) == (77 * c[1] + 150 * c[2] + 29 * c[3]) \div 128

rgb_to_brightness(c) == (77 * c[1] + 150 * c[2] + 29 * c[3]) \div 256

(* Mutants: the top of the range is left out; it maps below its start. *)
squeeze_Open(b) ==
  IF b >= 160 /\ b < 255 THEN 160 + ((182 - 160) * (b - 160)) \div (255 - 160) ELSE b
squeeze_Low(b) ==
  IF b >= 160 /\ b <= 255 THEN 150 + ((182 - 150) * (b - 160)) \div (255 - 160) ELSE b

(* The power save: 160 .. 255 becomes 160 .. 182.                          *)
squeeze(b) ==
  IF b >= 160 /\ b <= 255 THEN 160 + ((182 - 160) * (b - 160)) \div (255 - 160) ELSE b

LightsTypeOK ==
  /\ g_lock \in 0 .. 2
  /\ lightAt \in [LightThread -> {"idle", "lock", "sleep", "woken", "write"}]
  /\ color \in [LightThread -> Color]
  /\ backlight \in Level
  /\ devices \in 0 .. MaxDevices
  /\ shown \in Color
  /\ reinit \in BOOLEAN

LightsInit ==
  /\ g_lock = 0
  /\ lightAt = [u \in LightThread |-> "idle"]
  /\ shown = Black
  /\ color = [u \in LightThread |-> Black]
  /\ backlight = 0
  /\ devices = 0
  /\ reinit = FALSE

InCall(u) == lightAt[u] # "idle"

open_lights(u) ==
  /\ ~ InCall(u) /\ devices < MaxDevices
  /\ g_lock' = 0
  /\ devices' = devices + 1
  /\ reinit' = (reinit \/ \E v \in LightThread : InCall(v))
  /\ UNCHANGED <<lightAt, color, backlight, shown>>

(* A device may be closed while another is in use.                         *)
close_lights(u) ==
  /\ ~ InCall(u) /\ devices > Cardinality({v \in LightThread : InCall(v)})
  /\ devices' = devices - 1
  /\ UNCHANGED <<g_lock, lightAt, color, backlight, shown, reinit>>

(* Mutant: the backlight is written without the lock. *)
set_light_backlight_NoLock(u, c) ==
  /\ ~ InCall(u) /\ devices > 0
  /\ lightAt' = [lightAt EXCEPT ![u] = "write"]
  /\ color' = [color EXCEPT ![u] = c]
  /\ UNCHANGED <<g_lock, backlight, devices, shown, reinit>>

set_light_backlight(u, c) ==
  /\ ~ InCall(u) /\ devices > 0
  /\ lightAt' = [lightAt EXCEPT ![u] = "lock"]
  /\ color' = [color EXCEPT ![u] = c]
  /\ UNCHANGED <<g_lock, backlight, devices, shown, reinit>>

-------------------------------------------------------------------------------
(* pthread_mutex_lock: take it, or mark it contended and sleep.  A thread  *)
(* that slept leaves it marked.                                            *)
mutex_lock(u) ==
  /\ lightAt[u] \in {"lock", "woken"}
  /\ IF g_lock = 0
     THEN /\ g_lock' = IF lightAt[u] = "woken" THEN 2 ELSE 1
          /\ lightAt' = [lightAt EXCEPT ![u] = "write"]
     ELSE /\ g_lock' = 2
          /\ lightAt' = [lightAt EXCEPT ![u] = "sleep"]
  /\ UNCHANGED <<color, backlight, devices, shown, reinit>>

(* pthread_mutex_unlock, by thread u, which then returns.                  *)
mutex_unlock(u) ==
  /\ g_lock' = 0
  /\ color' = [color EXCEPT ![u] = Black]
  /\ \/ /\ g_lock = 2
        /\ \E v \in LightThread :
             /\ lightAt[v] = "sleep"
             /\ lightAt' = [lightAt EXCEPT ![u] = "idle", ![v] = "woken"]
     \/ /\ g_lock # 2 \/ \A v \in LightThread : lightAt[v] # "sleep"
        /\ lightAt' = [lightAt EXCEPT ![u] = "idle"]

(* Mutant: a failed write returns with the lock held. *)
write_int_fails_Early(u) ==
  /\ lightAt[u] = "write"
  /\ lightAt' = [lightAt EXCEPT ![u] = "idle"]
  /\ color' = [color EXCEPT ![u] = Black]
  /\ UNCHANGED <<g_lock, backlight, devices, shown, reinit>>

(* write_int, then unlock: the file cannot be opened or written,           *)
write_int_fails(u) ==
  /\ lightAt[u] = "write"
  /\ mutex_unlock(u)
  /\ UNCHANGED <<backlight, devices, shown, reinit>>

(* or it is.                                                               *)
write_int(u) ==
  /\ lightAt[u] = "write"
  /\ backlight' = squeeze(rgb_to_brightness(color[u]))
  /\ shown' = color[u]
  /\ mutex_unlock(u)
  /\ UNCHANGED <<devices, reinit>>

LightsStep(u) == mutex_lock(u) \/ write_int(u) \/ write_int_fails(u)

LightsNext ==
  \E u \in LightThread :
    \/ open_lights(u) \/ close_lights(u)
    \/ \E c \in Color : set_light_backlight(u, c)
    \/ LightsStep(u)

-------------------------------------------------------------------------------
(* Asking for a brighter colour never dims the backlight: the squeezed     *)
(* part of the range joins the rest, and the range is kept at both ends.   *)
BrighterNeverDims ==
  [][rgb_to_brightness(shown') >= rgb_to_brightness(shown) => backlight' >= backlight]_lightVars

(* The power save holds whatever is asked: no more than 182 of 255, while  *)
(* black stays dark and a grey below the squeezed range is shown as it is. *)
PowerSave ==
  /\ backlight <= 182
  /\ \A g \in 0 .. 159 : shown = <<g, g, g>> => backlight = g

(* g_lock keeps the writers apart, as long as no open_lights initialises   *)
(* it during a call.                                                       *)
OneWriter ==
  reinit \/ Cardinality({u \in LightThread : lightAt[u] = "write"}) <= 1

(* No wake-up is lost: while a thread sleeps, the holder of g_lock will    *)
(* wake it or another is on its way to the lock, failed writes             *)
(* notwithstanding.  An open_lights during a call wipes the sleeper's mark *)
(* off g_lock.                                                             *)
NoLostWakeup ==
  reinit \/ \A u \in LightThread : lightAt[u] = "sleep" =>
    \/ g_lock = 2 /\ \E v \in LightThread : lightAt[v] = "write"
    \/ \E v \in LightThread : lightAt[v] = "woken"

(* g_lock works as a mutex: it excludes, and it wakes who waits for it.    *)
LockWorks == OneWriter /\ NoLostWakeup

(* The backlight is right for the colour at every moment, and moves the    *)
(* way the colour does.                                                    *)
BacklightRight == []PowerSave /\ BrighterNeverDims
===============================================================================
