------------------------------- MODULE OmxPlugin ------------------------------
(***************************************************************************)
(* The OMX plug-in (libstagefrighthw/NVOMXPlugin.cpp): it loads the        *)
(* vendor's OMX core, looks six functions up in it and passes the media    *)
(* server's calls on, which come one at a time.                            *)
(*                                                                         *)
(* The core is external: the library may be missing, lack functions, fail  *)
(* a call, and report another number of roles the second time it is asked. *)
(* A role is its position; buffers are counted.  Calls that only return an *)
(* error change nothing and are left out.                                  *)
(***************************************************************************)
EXTENDS Integers, Sequences

CONSTANTS
    MaxRoles,       \* roles a component reports (bound)
    MaxBuffers,     \* role buffers alive (bound)
    MaxComponents   \* components alive (bound)

ASSUME OmxAssumption == {MaxRoles, MaxBuffers, MaxComponents} \subseteq Nat

Function ==
  {"Init", "Deinit", "ComponentNameEnum", "GetHandle", "FreeHandle", "GetRolesOfComponent"}

VARIABLES
    present,        \* whether the constructor found libnvomx.so,
    has,            \* and the functions the library has
    plugin,         \* "none", or "alive" between constructor and destructor
    mLibHandle,     \* whether it is not NULL
    components,     \* component instances alive
    numRoles,       \* the roles a getRolesOfComponent has buffers for, or -1
    buffers,        \* role buffers allocated
    roles,          \* the caller's vector of roles
    found,          \* how the last getRolesOfComponent ended
    steady,         \* the core gave the same number of roles twice (history)
    omxCrash        \* the process died: it called NULL, or overran the array

omxVars == <<present, has, plugin, mLibHandle, components, numRoles, buffers, roles, found,
             steady, omxCrash>>

OmxTypeOK ==
  /\ present \in BOOLEAN /\ has \subseteq Function
  /\ plugin \in {"none", "alive"}
  /\ mLibHandle \in BOOLEAN
  /\ components \in 0 .. MaxComponents
  /\ numRoles \in -1 .. MaxRoles
  /\ buffers \in 0 .. MaxBuffers
  /\ roles \in Seq(1 .. MaxRoles)
  /\ found \in {"none", "ok", "error"}
  /\ steady \in BOOLEAN
  /\ omxCrash \in {"no", "null", "overrun"}

OmxInit ==
  /\ present = FALSE /\ has = {}
  /\ plugin = "none" /\ mLibHandle = FALSE
  /\ components = 0
  /\ numRoles = -1 /\ buffers = 0
  /\ roles = <<>> /\ found = "none"
  /\ steady = TRUE /\ omxCrash = "no"

Idle == omxCrash = "no" /\ numRoles = -1

(* What dlsym gave: NULL for a function the library lacks, and for all of  *)
(* them without a library.                                                 *)
Symbol(f) == mLibHandle /\ f \in has

CallNull ==
  /\ omxCrash' = "null"
  /\ UNCHANGED <<present, has, plugin, mLibHandle, components, numRoles, buffers, roles,
                 found, steady>>

(* dlopen of a library that is there or not and lacks at most one          *)
(* function, the six dlsyms and OMX_Init.                                  *)
NVOMXPlugin ==
  /\ Idle /\ plugin = "none"
  /\ plugin' = "alive"
  /\ present' \in BOOLEAN
  /\ has' \in {Function} \cup {Function \ {f} : f \in Function}
  /\ mLibHandle' = present'
  /\ omxCrash' = IF present' /\ "Init" \notin has' THEN "null" ELSE "no"
  /\ UNCHANGED <<components, numRoles, buffers, roles, found, steady>>

(* OMX_Deinit and dlclose: the core's components are gone with it.         *)
NVOMXPlugin_delete ==
  /\ Idle /\ plugin = "alive"
  /\ \/ mLibHandle /\ ~ Symbol("Deinit") /\ CallNull
     \/ /\ mLibHandle => Symbol("Deinit")
        /\ plugin' = "none" /\ mLibHandle' = FALSE /\ components' = 0
        /\ UNCHANGED <<present, has, numRoles, buffers, roles, found, steady, omxCrash>>

makeComponentInstance ==
  /\ Idle /\ plugin = "alive"
  /\ \/ mLibHandle /\ ~ Symbol("GetHandle") /\ CallNull
     \/ /\ Symbol("GetHandle") /\ components < MaxComponents
        /\ components' = components + 1
        /\ UNCHANGED <<present, has, plugin, mLibHandle, numRoles, buffers, roles, found,
                       steady, omxCrash>>

(* Mutant: mLibHandle is not looked at. *)
destroyComponentInstance_Unguarded ==
  /\ Idle /\ plugin = "alive"
  /\ ~ Symbol("FreeHandle") /\ CallNull

destroyComponentInstance ==
  /\ Idle /\ plugin = "alive"
  /\ \/ mLibHandle /\ ~ Symbol("FreeHandle") /\ CallNull
     \/ /\ Symbol("FreeHandle") /\ components > 0
        /\ components' = components - 1
        /\ UNCHANGED <<present, has, plugin, mLibHandle, numRoles, buffers, roles, found,
                       steady, omxCrash>>

enumerateComponents ==
  /\ Idle /\ plugin = "alive"
  /\ mLibHandle /\ ~ Symbol("ComponentNameEnum") /\ CallNull

-------------------------------------------------------------------------------
(* The core is asked how many roles there are: it fails, there are none,   *)
(* or there is a buffer allocated for each.                                *)
CountRoles ==
  \/ mLibHandle /\ ~ Symbol("GetRolesOfComponent")
     /\ omxCrash' = "null" /\ UNCHANGED <<numRoles, buffers, found>>
  \/ ~ mLibHandle /\ found' = "error" /\ UNCHANGED <<numRoles, buffers, omxCrash>>
  \/ Symbol("GetRolesOfComponent") /\ found' \in {"ok", "error"}
     /\ UNCHANGED <<numRoles, buffers, omxCrash>>
  \/ /\ Symbol("GetRolesOfComponent")
     /\ \E n \in 1 .. MaxRoles :
          buffers + n <= MaxBuffers /\ numRoles' = n /\ buffers' = buffers + n
     /\ UNCHANGED <<found, omxCrash>>

(* Mutant: the vector is not cleared. *)
getRolesOfComponent_Kept ==
  /\ Idle /\ plugin = "alive"
  /\ CountRoles
  /\ UNCHANGED <<present, has, plugin, mLibHandle, components, roles, steady>>

getRolesOfComponent ==
  /\ Idle /\ plugin = "alive"
  /\ roles' = <<>>
  /\ CountRoles
  /\ UNCHANGED <<present, has, plugin, mLibHandle, components, steady>>

(* Mutant: returns at once when the second call fails. *)
CopyRoles_Early ==
  /\ omxCrash = "no" /\ numRoles # -1
  /\ numRoles' = -1
  /\ \/ found' = "error" /\ UNCHANGED <<roles, buffers>>
     \/ found' = "ok" /\ roles' = [i \in 1 .. numRoles |-> i] /\ buffers' = buffers - numRoles
  /\ UNCHANGED <<present, has, plugin, mLibHandle, components, steady, omxCrash>>

(* The core is asked for the roles and gives their number again; that many *)
(* buffers are read, unless it failed, and freed.                          *)
CopyRoles ==
  /\ omxCrash = "no" /\ numRoles # -1
  /\ numRoles' = -1
  /\ \E again \in 0 .. MaxRoles :
       /\ steady' = (steady /\ again = numRoles)
       /\ \/ /\ again > numRoles
             /\ omxCrash' = "overrun" /\ UNCHANGED <<roles, buffers, found>>
          \/ /\ again <= numRoles
             /\ \/ found' = "ok" /\ roles' = [i \in 1 .. again |-> i]
                \/ found' = "error" /\ UNCHANGED roles
             /\ buffers' = buffers - again
             /\ UNCHANGED omxCrash
  /\ UNCHANGED <<present, has, plugin, mLibHandle, components>>

OmxNext ==
  \/ NVOMXPlugin \/ NVOMXPlugin_delete
  \/ makeComponentInstance \/ destroyComponentInstance \/ enumerateComponents
  \/ getRolesOfComponent \/ CopyRoles

-------------------------------------------------------------------------------
(* A plug-in without its library answers every call with an error: a call  *)
(* goes through a NULL pointer only where the library is there and lacks a *)
(* function.                                                               *)
MissingLibraryHarmless == omxCrash = "null" => present /\ has # Function

(* A call that fails leaves no role of an earlier one in the caller's      *)
(* vector, whichever of the two questions to the core failed.              *)
RolesFresh == Idle /\ found = "error" => roles = <<>>

(* Every way out of getRolesOfComponent frees the buffers, and none is     *)
(* read past the array, as long as the core does not change its mind about *)
(* the number of roles.                                                    *)
BuffersFreed == steady => omxCrash # "overrun" /\ (Idle => buffers = 0)

(* The plug-in bears a core that is missing or refuses in the middle of a  *)
(* call: it does not crash, keeps no old roles and frees what it took.     *)
PluginSound == MissingLibraryHarmless /\ RolesFresh /\ BuffersFreed
===============================================================================
