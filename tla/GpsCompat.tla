------------------------------- MODULE GpsCompat ------------------------------
(***************************************************************************)
(* The GPS shim (libgpsd-compat/libgpsd-compat.c), which stands between    *)
(* the vendor's GPS library, written for Android L, and the sensor manager *)
(* of Android M: it exports the singleton's pointer, the constructor and   *)
(* createEventQueue the library wants, and destroys what is left of the    *)
(* singleton when it is unloaded.                                          *)
(*                                                                         *)
(* The GPS library is external: as the shim's notes say, it makes a        *)
(* manager when sInstance is NULL and stores it there, and sInstance is    *)
(* NULL again if it did the cleanup itself.                                *)
(***************************************************************************)
EXTENDS Integers

CONSTANTS
    Manager,        \* sensor managers that may be made
    NoManager,      \* NULL
    MaxQueues       \* event queues made per load (bound)

ASSUME ManagerAssumption == NoManager \notin Manager /\ MaxQueues \in Nat

VARIABLES
    loaded,         \* whether the libraries are loaded
    sInstance,      \* the singleton
    manager,        \* what became of each manager
    queues,         \* event queues made since the libraries were loaded
    making          \* the manager whose constructor runs

gpsVars == <<loaded, sInstance, manager, queues, making>>

GpsTypeOK ==
  /\ loaded \in BOOLEAN
  /\ sInstance \in Manager \cup {NoManager}
  /\ manager \in [Manager -> {"raw", "built", "destroyed", "broken"}]
  /\ queues \in 0 .. MaxQueues
  /\ making \in Manager \cup {NoManager}

GpsInit ==
  /\ loaded = FALSE
  /\ sInstance = NoManager
  /\ manager = [m \in Manager |-> "raw"]
  /\ queues = 0
  /\ making = NoManager

(* Loading the shim initialises sInstance.                                 *)
Load ==
  /\ ~ loaded
  /\ loaded' = TRUE /\ sInstance' = NoManager /\ queues' = 0
  /\ UNCHANGED <<manager, making>>

Destroyed(m) == [manager EXCEPT ![m] = IF @ = "built" THEN "destroyed" ELSE "broken"]

(* The library finds no instance and calls SensorManager(), which makes    *)
(* the package name,                                                       *)
Construct(m) ==
  /\ loaded /\ sInstance = NoManager /\ making = NoManager
  /\ manager[m] = "raw"
  /\ making' = m
  /\ UNCHANGED <<loaded, sInstance, manager, queues>>

(* runs the constructor of Android M with it, destroys it and returns; the *)
(* library stores the manager.                                             *)
Constructed ==
  /\ making # NoManager
  /\ manager' = [manager EXCEPT ![making] = "built"]
  /\ sInstance' = making
  /\ making' = NoManager
  /\ UNCHANGED <<loaded, queues>>

(* createEventQueue(): an empty name and mode 0, on the singleton.         *)
createEventQueue ==
  /\ loaded /\ making = NoManager /\ sInstance # NoManager /\ queues < MaxQueues
  /\ manager' = [manager EXCEPT ![sInstance] = IF @ = "built" THEN @ ELSE "broken"]
  /\ queues' = queues + 1
  /\ UNCHANGED <<loaded, sInstance, making>>

(* The library cleans up itself.                                           *)
LibraryDestroys ==
  /\ loaded /\ making = NoManager /\ sInstance # NoManager
  /\ manager' = Destroyed(sInstance)
  /\ sInstance' = NoManager
  /\ UNCHANGED <<loaded, queues, making>>

(* Mutant: forgets the instance without destroying it. *)
libEvtUnloading_Forgets ==
  /\ loaded /\ making = NoManager
  /\ UNCHANGED manager
  /\ sInstance' = NoManager
  /\ loaded' = FALSE
  /\ UNCHANGED <<queues, making>>

libEvtUnloading ==
  /\ loaded /\ making = NoManager
  /\ manager' = IF sInstance = NoManager THEN manager ELSE Destroyed(sInstance)
  /\ sInstance' = NoManager
  /\ loaded' = FALSE
  /\ UNCHANGED <<queues, making>>

GpsNext ==
  \/ Load \/ libEvtUnloading
  \/ \E m \in Manager : Construct(m)
  \/ Constructed \/ createEventQueue \/ LibraryDestroys

-------------------------------------------------------------------------------
(* Every manager is destroyed once and never used after it, whether the    *)
(* library cleans up or leaves it to the unloading shim, however often the *)
(* two are loaded: none outlives the libraries, none is destroyed twice.   *)
ManagerFreedOnce ==
  /\ \A m \in Manager : manager[m] # "broken" /\ (manager[m] = "built" => loaded /\ sInstance = m)
  /\ sInstance # NoManager => manager[sInstance] = "built"
===============================================================================
