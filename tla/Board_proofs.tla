----------------------------- MODULE Board_proofs ------------------------------
(***************************************************************************)
(* Proofs about the board's smaller HALs: each for its own specification,  *)
(* and, since the board's is an instance of every one of them, for the     *)
(* board.                                                                  *)
(***************************************************************************)
EXTENDS Board, FiniteSetTheorems, SequenceTheorems, WellFoundedInduction, TLAPS

LightsSpec == LightsInit /\ [][LightsNext]_lightVars

Bright(c) == squeeze(rgb_to_brightness(c))

(* A colour has three components between 0 and 255.                        *)
LEMMA ColorType ==
  ASSUME NEW c \in Color
  PROVE  c[1] \in Level /\ c[2] \in Level /\ c[3] \in Level
<1>1. CASE \E g \in Grey : c = <<g, g, g>>  BY <1>1, ColorAssumption
<1>2. CASE c \in Hue  BY <1>2, ColorAssumption
<1>3. CASE c = Black  BY <1>3 DEF Black, Level
<1> QED  BY <1>1, <1>2, <1>3 DEF Color

(* The weights of the components add up to 256.                            *)
LEMMA BrightnessType ==
  ASSUME NEW c \in Color
  PROVE  rgb_to_brightness(c) \in Level
<1>1. PICK r \in Level, g \in Level, b \in Level : r = c[1] /\ g = c[2] /\ b = c[3]
  BY ColorType
<1>2. rgb_to_brightness(c) = (77 * r + 150 * g + 29 * b) \div 256
  BY <1>1 DEF rgb_to_brightness
<1>3. (77 * r + 150 * g + 29 * b) \div 256 \in 0 .. 255
  <2> DEFINE s == 77 * r + 150 * g + 29 * b
  <2>1. r \in Int /\ 0 <= r /\ r <= 255  BY DEF Level
  <2>2. g \in Int /\ 0 <= g /\ g <= 255  BY DEF Level
  <2>3. b \in Int /\ 0 <= b /\ b <= 255  BY DEF Level
  <2>4. s \in Int /\ 0 <= s /\ s <= 65280  BY <2>1, <2>2, <2>3
  <2> HIDE DEF s
  <2>5. s \div 256 \in 0 .. 255  BY <2>4
  <2> QED  BY <2>5 DEF s
<1> QED  BY <1>2, <1>3 DEF Level

(* The squeezed range ends at 182, and the rest is not touched.            *)
LEMMA SqueezeType ==
  ASSUME NEW b \in Level
  PROVE  squeeze(b) \in 0 .. 182 /\ (b < 160 => squeeze(b) = b)
BY DEF squeeze, Level

(* The two parts of the range join.                                        *)
LEMMA SqueezeMonotone ==
  ASSUME NEW a \in Level, NEW b \in Level, a <= b
  PROVE  squeeze(a) <= squeeze(b)
BY DEF squeeze, Level

(* A grey is as bright as its level.                                       *)
LEMMA GreyBrightness ==
  ASSUME NEW g \in Level
  PROVE  rgb_to_brightness(<<g, g, g>>) = g
BY DEF rgb_to_brightness, Level

--------------------------------------------------------------------------------
(* The backlight shows the last colour that was written.                   *)
ShownInv == backlight = Bright(shown)

(* g_lock while nobody initialised it during a call: held by the one       *)
(* thread that writes, and no sleeper is forgotten.                        *)
LockInv ==
  reinit \/
    /\ g_lock # 0 => \E u \in LightThread : lightAt[u] = "write"
    /\ \A u \in LightThread : lightAt[u] = "write" => g_lock # 0
    /\ \A u, v \in LightThread : lightAt[u] = "write" /\ lightAt[v] = "write" => u = v
    /\ NoLostWakeup

LightsInv == LightsTypeOK /\ ShownInv /\ LockInv

(* The invariant holds before the first device is opened.                  *)
LEMMA LightsInitInv == LightsInit => LightsInv
<1> SUFFICES ASSUME LightsInit PROVE LightsInv  OBVIOUS
<1> USE DEF LightsInit
<1>1. LightsTypeOK
  <2>1. Black \in Color  BY DEF Color
  <2>2. g_lock \in 0 .. 2 /\ backlight \in Level  BY DEF Level
  <2>3. devices \in 0 .. MaxDevices  BY DeviceAssumption
  <2>4. reinit \in BOOLEAN  OBVIOUS
  <2>5. lightAt \in [LightThread -> {"idle", "lock", "sleep", "woken", "write"}]  OBVIOUS
  <2>6. color \in [LightThread -> Color] /\ shown \in Color  BY <2>1
  <2> QED  BY <2>2, <2>3, <2>4, <2>5, <2>6 DEF LightsTypeOK
<1>2. ShownInv
  <2>1. rgb_to_brightness(Black) = 0  BY DEF rgb_to_brightness, Black
  <2> QED  BY <2>1 DEF ShownInv, Bright, squeeze
<1>3. LockInv  BY DEF LockInv, NoLostWakeup
<1> QED  BY <1>1, <1>2, <1>3 DEF LightsInv

(* open_lights: if nobody is in a call, nobody holds the lock or sleeps.   *)
LEMMA OpenInv ==
  ASSUME NEW u \in LightThread PROVE LightsInv /\ open_lights(u) => LightsInv'
<1> SUFFICES ASSUME LightsInv, open_lights(u) PROVE LightsInv'  OBVIOUS
<1> USE DEF open_lights
<1>1. LightsTypeOK'
  <2>1. reinit' \in BOOLEAN  BY DEF LightsInv, LightsTypeOK
  <2>2. devices' \in 0 .. MaxDevices  BY DeviceAssumption DEF LightsInv, LightsTypeOK
  <2> QED  BY <2>1, <2>2 DEF LightsInv, LightsTypeOK
<1>2. ShownInv'  BY DEF LightsInv, ShownInv
<1>3. LockInv'  BY DEF LightsInv, LockInv, NoLostWakeup, InCall
<1> QED  BY <1>1, <1>2, <1>3 DEF LightsInv

(* close_lights leaves the lock and the backlight alone.                   *)
LEMMA CloseInv ==
  ASSUME NEW u \in LightThread PROVE LightsInv /\ close_lights(u) => LightsInv'
<1> SUFFICES ASSUME LightsInv, close_lights(u) PROVE LightsInv'  OBVIOUS
<1> USE DEF close_lights
<1>1. LightsTypeOK'
  <2>1. devices - 1 \in 0 .. MaxDevices
    <3>1. Cardinality({v \in LightThread : InCall(v)}) \in Nat
      BY DeviceAssumption, FS_Subset, FS_CardinalityType
    <3> QED  BY <3>1, DeviceAssumption DEF LightsInv, LightsTypeOK
  <2> QED  BY <2>1 DEF LightsInv, LightsTypeOK
<1>2. ShownInv' /\ LockInv'  BY DEF LightsInv, ShownInv, LockInv, NoLostWakeup
<1> QED  BY <1>1, <1>2 DEF LightsInv

(* set_light_backlight: one more thread goes for the lock.                 *)
LEMMA SetInv ==
  ASSUME NEW u \in LightThread, NEW c \in Color
  PROVE  LightsInv /\ set_light_backlight(u, c) => LightsInv'
<1> SUFFICES ASSUME LightsInv, set_light_backlight(u, c) PROVE LightsInv'  OBVIOUS
<1> USE DEF set_light_backlight
<1>1. LightsTypeOK'  BY DEF LightsInv, LightsTypeOK
<1>2. ShownInv'  BY DEF LightsInv, ShownInv
<1>3. LockInv'  BY DEF LightsInv, LightsTypeOK, LockInv, NoLostWakeup, InCall
<1> QED  BY <1>1, <1>2, <1>3 DEF LightsInv

(* pthread_mutex_lock: the free lock goes to one thread; the others mark   *)
(* it before they sleep.                                                   *)
LEMMA LockStepInv ==
  ASSUME NEW u \in LightThread PROVE LightsInv /\ mutex_lock(u) => LightsInv'
<1> SUFFICES ASSUME LightsInv, mutex_lock(u) PROVE LightsInv'  OBVIOUS
<1> USE DEF mutex_lock
<1>1. LightsTypeOK'  BY DEF LightsInv, LightsTypeOK
<1>2. ShownInv'  BY DEF LightsInv, ShownInv
<1>3. LockInv'
  <2>1. CASE g_lock = 0
    BY <2>1 DEF LightsInv, LightsTypeOK, LockInv, NoLostWakeup
  <2>2. CASE g_lock # 0
    BY <2>2 DEF LightsInv, LightsTypeOK, LockInv, NoLostWakeup
  <2> QED  BY <2>1, <2>2
<1> QED  BY <1>1, <1>2, <1>3 DEF LightsInv

(* pthread_mutex_unlock frees the lock and wakes a sleeper if it is marked.*)
LEMMA UnlockInv ==
  ASSUME NEW u \in LightThread, LightsInv, lightAt[u] = "write", mutex_unlock(u), reinit' = reinit
  PROVE  /\ LockInv'
         /\ g_lock' \in 0 .. 2 /\ color' \in [LightThread -> Color]
         /\ lightAt' \in [LightThread -> {"idle", "lock", "sleep", "woken", "write"}]
<1> USE DEF mutex_unlock
<1>1. Black \in Color  BY DEF Color
<1>2. g_lock' \in 0 .. 2 /\ color' \in [LightThread -> Color]
  BY <1>1 DEF LightsInv, LightsTypeOK
<1>3. lightAt' \in [LightThread -> {"idle", "lock", "sleep", "woken", "write"}]
  BY DEF LightsInv, LightsTypeOK
<1>4. LockInv'
  <2>1. CASE /\ g_lock = 2
             /\ \E v \in LightThread :
                  /\ lightAt[v] = "sleep"
                  /\ lightAt' = [lightAt EXCEPT ![u] = "idle", ![v] = "woken"]
    BY <2>1 DEF LightsInv, LightsTypeOK, LockInv, NoLostWakeup
  <2>2. CASE /\ g_lock # 2 \/ \A v \in LightThread : lightAt[v] # "sleep"
             /\ lightAt' = [lightAt EXCEPT ![u] = "idle"]
    BY <2>2 DEF LightsInv, LightsTypeOK, LockInv, NoLostWakeup
  <2> QED  BY <2>1, <2>2
<1> QED  BY <1>2, <1>3, <1>4

(* A write that fails changes nothing but the lock.                        *)
LEMMA WriteFailsInv ==
  ASSUME NEW u \in LightThread PROVE LightsInv /\ write_int_fails(u) => LightsInv'
<1> SUFFICES ASSUME LightsInv, write_int_fails(u) PROVE LightsInv'  OBVIOUS
<1> USE DEF write_int_fails
<1>1. /\ LockInv' /\ g_lock' \in 0 .. 2 /\ color' \in [LightThread -> Color]
      /\ lightAt' \in [LightThread -> {"idle", "lock", "sleep", "woken", "write"}]
  BY UnlockInv
<1>2. LightsTypeOK'  BY <1>1 DEF LightsInv, LightsTypeOK
<1>3. ShownInv'  BY DEF LightsInv, ShownInv
<1> QED  BY <1>1, <1>2, <1>3 DEF LightsInv

(* A write shows the thread's colour.                                      *)
LEMMA WriteInv ==
  ASSUME NEW u \in LightThread PROVE LightsInv /\ write_int(u) => LightsInv'
<1> SUFFICES ASSUME LightsInv, write_int(u) PROVE LightsInv'  OBVIOUS
<1> USE DEF write_int
<1>1. /\ LockInv' /\ g_lock' \in 0 .. 2 /\ color' \in [LightThread -> Color]
      /\ lightAt' \in [LightThread -> {"idle", "lock", "sleep", "woken", "write"}]
  BY UnlockInv
<1>2. color[u] \in Color  BY DEF LightsInv, LightsTypeOK
<1>3. ShownInv'  BY DEF ShownInv, Bright
<1>4. backlight' \in Level
  <2>1. rgb_to_brightness(color[u]) \in Level  BY <1>2, BrightnessType
  <2>2. squeeze(rgb_to_brightness(color[u])) \in 0 .. 182  BY <2>1, SqueezeType
  <2> QED  BY <2>2 DEF Level
<1>5. LightsTypeOK'  BY <1>1, <1>2, <1>4 DEF LightsInv, LightsTypeOK
<1> QED  BY <1>1, <1>3, <1>5 DEF LightsInv

(* Every step keeps the invariant.                                         *)
LEMMA LightsNextInv == LightsInv /\ [LightsNext]_lightVars => LightsInv'
<1> SUFFICES ASSUME LightsInv, [LightsNext]_lightVars PROVE LightsInv'  OBVIOUS
<1>1. CASE LightsNext
  <2>1. PICK u \in LightThread :
          \/ open_lights(u) \/ close_lights(u)
          \/ \E c \in Color : set_light_backlight(u, c)
          \/ LightsStep(u)
    BY <1>1 DEF LightsNext
  <2>2. CASE open_lights(u)  BY <2>2, OpenInv
  <2>3. CASE close_lights(u)  BY <2>3, CloseInv
  <2>4. CASE \E c \in Color : set_light_backlight(u, c)  BY <2>4, SetInv
  <2>5. CASE mutex_lock(u)  BY <2>5, LockStepInv
  <2>6. CASE write_int(u)  BY <2>6, WriteInv
  <2>7. CASE write_int_fails(u)  BY <2>7, WriteFailsInv
  <2> QED  BY <2>1, <2>2, <2>3, <2>4, <2>5, <2>6, <2>7 DEF LightsStep
<1>2. CASE UNCHANGED lightVars
  BY <1>2 DEF lightVars, LightsInv, LightsTypeOK, ShownInv, LockInv, NoLostWakeup
<1> QED  BY <1>1, <1>2

(* The inductive invariant holds throughout.                               *)
LEMMA LightsSpecInv == LightsSpec => []LightsInv
BY LightsInitInv, LightsNextInv, PTL DEF LightsSpec

--------------------------------------------------------------------------------
(* The brightness written is never out of the backlight's range, whatever  *)
(* colour the framework asks for.                                          *)
THEOREM LightsTypeCorrect == LightsSpec => []LightsTypeOK
<1>1. LightsInv => LightsTypeOK  BY DEF LightsInv
<1> QED  BY <1>1, LightsSpecInv, PTL

(* The squeeze of set_light_backlight bounds the backlight and changes no  *)
(* grey below it.                                                          *)
THEOREM PowerSaveHolds == LightsSpec => []PowerSave
<1>1. ASSUME LightsInv PROVE PowerSave
  <2>1. shown \in Color /\ backlight = squeeze(rgb_to_brightness(shown))
    BY <1>1 DEF LightsInv, LightsTypeOK, ShownInv, Bright
  <2>2. rgb_to_brightness(shown) \in Level  BY <2>1, BrightnessType
  <2>3. squeeze(rgb_to_brightness(shown)) \in 0 .. 182  BY <2>2, SqueezeType
  <2>4. ASSUME NEW g \in 0 .. 159, shown = <<g, g, g>> PROVE backlight = g
    <3>1. g \in Level /\ g < 160  BY DEF Level
    <3>2. rgb_to_brightness(shown) = g  BY <2>4, <3>1, GreyBrightness
    <3> QED  BY <2>1, <3>1, <3>2, SqueezeType
  <2> QED  BY <2>1, <2>3, <2>4 DEF PowerSave
<1> QED  BY <1>1, LightsSpecInv, PTL

(* g_lock keeps any number of writers apart until open_lights initialises  *)
(* it during a call.                                                       *)
THEOREM WritersExcluded == LightsSpec => []OneWriter
<1>1. ASSUME LightsInv PROVE OneWriter
  <2>1. SUFFICES ASSUME ~ reinit
        PROVE  Cardinality({u \in LightThread : lightAt[u] = "write"}) <= 1
    BY DEF OneWriter
  <2> DEFINE W == {u \in LightThread : lightAt[u] = "write"}
  <2>2. \A u, v \in W : u = v  BY <1>1, <2>1 DEF LightsInv, LockInv
  <2>3. CASE W = {}
    <3>1. Cardinality({}) = 0  BY FS_EmptySet
    <3> QED  BY <2>3, <3>1
  <2>4. CASE W # {}
    <3>1. PICK w \in W : TRUE  BY <2>4
    <3>2. W = {w}  BY <2>2, <3>1
    <3>3. Cardinality({w}) = 1  BY FS_Singleton
    <3> HIDE DEF W
    <3>4. Cardinality(W) <= 1  BY <3>2, <3>3
    <3> QED  BY <3>4 DEF W
  <2> QED  BY <2>3, <2>4
<1> QED  BY <1>1, LightsSpecInv, PTL

(* No caller sleeps on g_lock for ever: somebody is due to wake it.        *)
THEOREM WakeupsKept == LightsSpec => []NoLostWakeup
<1>1. LightsInv => NoLostWakeup  BY DEF LightsInv, LockInv, NoLostWakeup
<1> QED  BY <1>1, LightsSpecInv, PTL

(* g_lock is a mutex for any number of callers of set_light_backlight,     *)
(* until open_lights initialises it during a call.                         *)
THEOREM LockSound == LightsSpec => []LockWorks
BY WritersExcluded, WakeupsKept, PTL DEF LockWorks

(* The conversion from colour to backlight is monotone over both parts of  *)
(* the range, so that asking for more never gives less.                    *)
THEOREM NeverDims == LightsSpec => BrighterNeverDims
<1>1. ASSUME LightsInv, LightsInv', rgb_to_brightness(shown') >= rgb_to_brightness(shown)
      PROVE  backlight' >= backlight
  <2>1. /\ shown \in Color /\ backlight = squeeze(rgb_to_brightness(shown))
        /\ shown' \in Color /\ backlight' = squeeze(rgb_to_brightness(shown'))
    BY <1>1 DEF LightsInv, LightsTypeOK, ShownInv, Bright
  <2>2. rgb_to_brightness(shown) \in Level /\ rgb_to_brightness(shown') \in Level
    BY <2>1, BrightnessType
  <2>3. rgb_to_brightness(shown) <= rgb_to_brightness(shown')  BY <1>1, <2>2 DEF Level
  <2>4. squeeze(rgb_to_brightness(shown)) <= squeeze(rgb_to_brightness(shown'))
    BY <2>2, <2>3, SqueezeMonotone
  <2>5. squeeze(rgb_to_brightness(shown)) \in 0 .. 182 /\ squeeze(rgb_to_brightness(shown')) \in 0 .. 182
    BY <2>2, SqueezeType
  <2> QED  BY <2>1, <2>4, <2>5
<1>2. LightsInv /\ LightsInv' =>
        [rgb_to_brightness(shown') >= rgb_to_brightness(shown) => backlight' >= backlight]_lightVars
  BY <1>1
<1> QED  BY <1>2, LightsSpecInv, PTL DEF BrighterNeverDims

(* set_light_backlight saves power without ever turning a request round.   *)
THEOREM BacklightSound == LightsSpec => BacklightRight
BY PowerSaveHolds, NeverDims, PTL DEF BacklightRight

--------------------------------------------------------------------------------
OmxSpec == OmxInit /\ [][OmxNext]_omxVars

(* Between the two questions to the core the vector is empty and there is  *)
(* a buffer for every role counted; a handle means the library was found.  *)
OmxInv ==
  /\ OmxTypeOK
  /\ mLibHandle => present
  /\ MissingLibraryHarmless
  /\ numRoles # -1 => roles = <<>> /\ numRoles >= 0 /\ numRoles <= buffers
  /\ RolesFresh
  /\ steady => /\ omxCrash # "overrun"
               /\ omxCrash = "no" => buffers = IF numRoles = -1 THEN 0 ELSE numRoles

(* The invariant holds before the plug-in exists.                          *)
LEMMA OmxInitInv == OmxInit => OmxInv
<1> SUFFICES ASSUME OmxInit PROVE OmxInv  OBVIOUS
<1>1. OmxTypeOK
  <2>1. components \in 0 .. MaxComponents /\ numRoles \in -1 .. MaxRoles /\ buffers \in 0 .. MaxBuffers
    BY OmxAssumption DEF OmxInit
  <2>2. roles \in Seq(1 .. MaxRoles)  BY DEF OmxInit
  <2>3. present \in BOOLEAN /\ mLibHandle \in BOOLEAN /\ steady \in BOOLEAN  BY DEF OmxInit
  <2> QED  BY <2>1, <2>2, <2>3 DEF OmxInit, OmxTypeOK
<1> QED  BY <1>1 DEF OmxInit, OmxInv, MissingLibraryHarmless, RolesFresh, Idle

(* A call through NULL happens only with a library that lacks a function.  *)
LEMMA CallNullInv ==
  ASSUME OmxInv, Idle, CallNull, NEW f \in Function, mLibHandle, ~ Symbol(f)
  PROVE  OmxInv'
<1> USE DEF CallNull, Idle
<1>1. present /\ has # Function  BY DEF OmxInv, Symbol
<1>2. OmxTypeOK'  BY DEF OmxInv, OmxTypeOK
<1> QED  BY <1>1, <1>2 DEF OmxInv, MissingLibraryHarmless, RolesFresh

(* The constructor keeps a handle only of a library that is there.         *)
LEMMA PluginInv == OmxInv /\ NVOMXPlugin => OmxInv'
<1> SUFFICES ASSUME OmxInv, NVOMXPlugin PROVE OmxInv'  OBVIOUS
<1> USE DEF NVOMXPlugin, Idle
<1>1. OmxTypeOK'
  <2>1. present' \in BOOLEAN /\ mLibHandle' \in BOOLEAN  OBVIOUS
  <2>2. has' \subseteq Function  OBVIOUS
  <2> QED  BY <2>1, <2>2 DEF OmxInv, OmxTypeOK
<1>2. MissingLibraryHarmless'  BY DEF MissingLibraryHarmless, Function
<1>3. RolesFresh'  BY DEF OmxInv, RolesFresh
<1> QED  BY <1>1, <1>2, <1>3 DEF OmxInv

(* The destructor.                                                         *)
LEMMA DeleteInv == OmxInv /\ NVOMXPlugin_delete => OmxInv'
<1> SUFFICES ASSUME OmxInv, NVOMXPlugin_delete PROVE OmxInv'  OBVIOUS
<1>1. CASE mLibHandle /\ ~ Symbol("Deinit") /\ CallNull
  BY <1>1, CallNullInv DEF NVOMXPlugin_delete, Function
<1>2. CASE ~ (mLibHandle /\ ~ Symbol("Deinit") /\ CallNull)
  <2> USE <1>2 DEF NVOMXPlugin_delete, Idle
  <2>1. components' \in 0 .. MaxComponents  BY OmxAssumption
  <2>2. OmxTypeOK'  BY <2>1 DEF OmxInv, OmxTypeOK
  <2> QED  BY <2>2 DEF OmxInv, MissingLibraryHarmless, RolesFresh
<1> QED  BY <1>1, <1>2

(* A component is made or freed.                                           *)
LEMMA ComponentInv == OmxInv /\ (makeComponentInstance \/ destroyComponentInstance) => OmxInv'
<1> SUFFICES ASSUME OmxInv, makeComponentInstance \/ destroyComponentInstance PROVE OmxInv'
  OBVIOUS
<1>1. Idle  BY DEF makeComponentInstance, destroyComponentInstance
<1>2. CASE CallNull /\ mLibHandle /\ (~ Symbol("GetHandle") \/ ~ Symbol("FreeHandle"))
  BY <1>1, <1>2, CallNullInv DEF Function
<1>3. CASE /\ components' \in 0 .. MaxComponents
           /\ UNCHANGED <<present, has, plugin, mLibHandle, numRoles, buffers, roles, found,
                          steady, omxCrash>>
  <2>1. OmxTypeOK'  BY <1>3 DEF OmxInv, OmxTypeOK
  <2> QED  BY <1>3, <2>1 DEF OmxInv, MissingLibraryHarmless, RolesFresh, Idle
<1>4. components \in 0 .. MaxComponents /\ MaxComponents \in Nat
  BY OmxAssumption DEF OmxInv, OmxTypeOK
<1> QED  BY <1>2, <1>3, <1>4 DEF makeComponentInstance, destroyComponentInstance

(* The number of roles is asked for the first time.                        *)
LEMMA CountInv == OmxInv /\ getRolesOfComponent => OmxInv'
<1> SUFFICES ASSUME OmxInv, getRolesOfComponent PROVE OmxInv'  OBVIOUS
<1> USE DEF getRolesOfComponent, Idle
<1>0. /\ buffers \in 0 .. MaxBuffers /\ numRoles = -1 /\ omxCrash = "no" /\ roles' = <<>>
      /\ MaxBuffers \in Nat /\ MaxRoles \in Nat
  BY OmxAssumption DEF OmxInv, OmxTypeOK
<1>1. CASE mLibHandle /\ ~ Symbol("GetRolesOfComponent")
           /\ omxCrash' = "null" /\ UNCHANGED <<numRoles, buffers, found>>
  <2>1. present /\ has # Function  BY <1>1 DEF OmxInv, Symbol, Function
  <2>2. OmxTypeOK'  BY <1>0, <1>1 DEF OmxInv, OmxTypeOK
  <2> QED  BY <1>0, <1>1, <2>1, <2>2 DEF OmxInv, MissingLibraryHarmless, RolesFresh
<1>2. CASE found' \in {"ok", "error"} /\ UNCHANGED <<numRoles, buffers, omxCrash>>
  <2>1. OmxTypeOK'  BY <1>0, <1>2 DEF OmxInv, OmxTypeOK
  <2> QED  BY <1>0, <1>2, <2>1 DEF OmxInv, MissingLibraryHarmless, RolesFresh
<1>3. CASE /\ \E n \in 1 .. MaxRoles :
                buffers + n <= MaxBuffers /\ numRoles' = n /\ buffers' = buffers + n
           /\ UNCHANGED <<found, omxCrash>>
  <2>1. PICK n \in 1 .. MaxRoles :
          buffers + n <= MaxBuffers /\ numRoles' = n /\ buffers' = buffers + n
    BY <1>3
  <2>2. numRoles' \in -1 .. MaxRoles /\ buffers' \in 0 .. MaxBuffers /\ numRoles' <= buffers'
    BY <1>0, <2>1
  <2>3. OmxTypeOK'  BY <1>0, <1>3, <2>2 DEF OmxInv, OmxTypeOK
  <2>4. steady => buffers' = numRoles'  BY <1>0, <2>1 DEF OmxInv
  <2>5. numRoles' # -1 /\ numRoles' >= 0  BY <1>0, <2>1
  <2> QED  BY <1>0, <1>3, <2>2, <2>3, <2>4, <2>5 DEF OmxInv, MissingLibraryHarmless, RolesFresh
<1> QED  BY <1>1, <1>2, <1>3 DEF CountRoles

(* The roles are asked for, copied and freed.                              *)
LEMMA CopyInv == OmxInv /\ CopyRoles => OmxInv'
<1> SUFFICES ASSUME OmxInv, CopyRoles PROVE OmxInv'  OBVIOUS
<1>0. /\ omxCrash = "no" /\ numRoles # -1 /\ numRoles' = -1 /\ roles = <<>>
      /\ buffers \in 0 .. MaxBuffers /\ numRoles \in 0 .. MaxRoles /\ numRoles <= buffers
      /\ MaxBuffers \in Nat /\ MaxRoles \in Nat
      /\ UNCHANGED <<present, has, plugin, mLibHandle, components>>
  BY OmxAssumption DEF CopyRoles, OmxInv, OmxTypeOK
<1>1. PICK again \in 0 .. MaxRoles :
        /\ steady' = (steady /\ again = numRoles)
        /\ \/ /\ again > numRoles
              /\ omxCrash' = "overrun" /\ UNCHANGED <<roles, buffers, found>>
           \/ /\ again <= numRoles
              /\ \/ found' = "ok" /\ roles' = [i \in 1 .. again |-> i]
                 \/ found' = "error" /\ UNCHANGED roles
              /\ buffers' = buffers - again
              /\ UNCHANGED omxCrash
  BY DEF CopyRoles
<1>2. CASE again > numRoles /\ omxCrash' = "overrun" /\ UNCHANGED <<roles, buffers, found>>
  <2>1. again # numRoles  BY <1>0, <1>2
  <2>2. steady' = FALSE  BY <1>1, <2>1
  <2>3. OmxTypeOK'
    <3>1. numRoles' \in -1 .. MaxRoles  BY <1>0
    <3>2. buffers' = buffers /\ roles' = roles /\ found' = found /\ omxCrash' = "overrun"  BY <1>2
    <3>3. steady' \in BOOLEAN  BY <2>2
    <3> QED  BY <1>0, <3>1, <3>2, <3>3 DEF OmxInv, OmxTypeOK
  <2> QED  BY <1>0, <1>2, <2>2, <2>3 DEF OmxInv, MissingLibraryHarmless, RolesFresh, Idle
<1>3. CASE /\ again <= numRoles
           /\ \/ found' = "ok" /\ roles' = [i \in 1 .. again |-> i]
              \/ found' = "error" /\ UNCHANGED roles
           /\ buffers' = buffers - again
           /\ UNCHANGED omxCrash
  <2>1. buffers' \in 0 .. MaxBuffers /\ numRoles' \in -1 .. MaxRoles  BY <1>0, <1>3
  <2>2. roles' \in Seq(1 .. MaxRoles)
    <3>1. \A i \in 1 .. again : i \in 1 .. MaxRoles  BY <1>0
    <3>2. again \in Nat  BY <1>0
    <3>3. [i \in 1 .. again |-> i] \in Seq(1 .. MaxRoles)  BY <3>1, <3>2
    <3>4. roles' = [i \in 1 .. again |-> i] \/ roles' = roles  BY <1>3
    <3> QED  BY <3>3, <3>4 DEF OmxInv, OmxTypeOK
  <2>3. steady' \in BOOLEAN  BY <1>1 DEF OmxInv, OmxTypeOK
  <2>4. found' \in {"none", "ok", "error"}  BY <1>3
  <2>5. OmxTypeOK'  BY <1>0, <1>3, <2>1, <2>2, <2>3, <2>4 DEF OmxInv, OmxTypeOK
  <2>6. steady' => buffers' = 0
    <3>1. ASSUME steady' PROVE steady /\ again = numRoles  BY <1>1, <3>1
    <3>2. steady => buffers = numRoles  BY <1>0 DEF OmxInv
    <3> QED  BY <1>0, <1>3, <3>1, <3>2
  <2>7. RolesFresh'  BY <1>0, <1>3 DEF RolesFresh
  <2> QED  BY <1>0, <1>3, <2>5, <2>6, <2>7 DEF OmxInv, MissingLibraryHarmless
<1> QED  BY <1>1, <1>2, <1>3

(* Every step keeps the invariant.                                         *)
LEMMA OmxNextInv == OmxInv /\ [OmxNext]_omxVars => OmxInv'
<1> SUFFICES ASSUME OmxInv, [OmxNext]_omxVars PROVE OmxInv'  OBVIOUS
<1>1. CASE NVOMXPlugin  BY <1>1, PluginInv
<1>2. CASE NVOMXPlugin_delete  BY <1>2, DeleteInv
<1>3. CASE makeComponentInstance \/ destroyComponentInstance  BY <1>3, ComponentInv
<1>4. CASE enumerateComponents
  BY <1>4, CallNullInv DEF enumerateComponents, Function
<1>5. CASE getRolesOfComponent  BY <1>5, CountInv
<1>6. CASE CopyRoles  BY <1>6, CopyInv
<1>7. CASE UNCHANGED omxVars
  BY <1>7 DEF omxVars, OmxInv, OmxTypeOK, MissingLibraryHarmless, RolesFresh, Idle
<1> QED  BY <1>1, <1>2, <1>3, <1>4, <1>5, <1>6, <1>7 DEF OmxNext

(* The inductive invariant holds throughout.                               *)
LEMMA OmxSpecInv == OmxSpec => []OmxInv
BY OmxInitInv, OmxNextInv, PTL DEF OmxSpec

(* A plug-in without libnvomx.so never calls through a NULL pointer.       *)
THEOREM NoLibraryNoCrash == OmxSpec => []MissingLibraryHarmless
<1>1. OmxInv => MissingLibraryHarmless  BY DEF OmxInv
<1> QED  BY <1>1, OmxSpecInv, PTL

(* getRolesOfComponent never hands out an earlier call's roles with an     *)
(* error.                                                                  *)
THEOREM RolesAlwaysFresh == OmxSpec => []RolesFresh
<1>1. OmxInv => RolesFresh  BY DEF OmxInv
<1> QED  BY <1>1, OmxSpecInv, PTL

(* For any number of roles, every buffer is freed and none read past the   *)
(* array, while the core is steady.                                        *)
THEOREM RoleBuffersFreed == OmxSpec => []BuffersFreed
<1>1. OmxInv => BuffersFreed  BY DEF OmxInv, BuffersFreed, Idle
<1> QED  BY <1>1, OmxSpecInv, PTL

(* For any number of roles, the plug-in survives its core.                 *)
THEOREM PluginSafe == OmxSpec => []PluginSound
BY NoLibraryNoCrash, RolesAlwaysFresh, RoleBuffersFreed, PTL DEF PluginSound

--------------------------------------------------------------------------------
GpsSpec == GpsInit /\ [][GpsNext]_gpsVars

(* While a constructor runs there is no instance and the libraries stay.   *)
GpsInv ==
  /\ GpsTypeOK /\ ManagerFreedOnce
  /\ making # NoManager => loaded /\ sInstance = NoManager
  /\ ~ loaded => sInstance = NoManager

(* Every step of the shim and of the library keeps the invariant.          *)
LEMMA GpsNextInv == GpsInv /\ [GpsNext]_gpsVars => GpsInv'
<1> SUFFICES ASSUME GpsInv, [GpsNext]_gpsVars PROVE GpsInv'  OBVIOUS
<1> USE ManagerAssumption DEF GpsInv, ManagerFreedOnce
<1>1. CASE Load
  <2>1. GpsTypeOK'  BY <1>1 DEF Load, GpsTypeOK
  <2> QED  BY <1>1, <2>1 DEF Load, GpsTypeOK
<1>2. CASE libEvtUnloading
  <2>1. GpsTypeOK'  BY <1>2 DEF libEvtUnloading, GpsTypeOK, Destroyed
  <2> QED  BY <1>2, <2>1 DEF libEvtUnloading, GpsTypeOK, Destroyed
<1>3. ASSUME NEW m \in Manager, Construct(m) PROVE GpsInv'
  <2>1. GpsTypeOK'  BY <1>3 DEF Construct, GpsTypeOK
  <2> QED  BY <1>3, <2>1 DEF Construct, GpsTypeOK
<1>4. CASE Constructed
  <2>1. GpsTypeOK'  BY <1>4 DEF Constructed, GpsTypeOK
  <2> QED  BY <1>4, <2>1 DEF Constructed, GpsTypeOK
<1>5. CASE createEventQueue
  <2>1. GpsTypeOK'  BY <1>5 DEF createEventQueue, GpsTypeOK
  <2> QED  BY <1>5, <2>1 DEF createEventQueue, GpsTypeOK
<1>6. CASE LibraryDestroys
  <2>1. GpsTypeOK'  BY <1>6 DEF LibraryDestroys, GpsTypeOK, Destroyed
  <2> QED  BY <1>6, <2>1 DEF LibraryDestroys, GpsTypeOK, Destroyed
<1>7. CASE UNCHANGED gpsVars  BY <1>7 DEF gpsVars, GpsTypeOK
<1> QED  BY <1>1, <1>2, <1>3, <1>4, <1>5, <1>6, <1>7 DEF GpsNext

LEMMA GpsSpecInv == GpsSpec => []GpsInv
<1>1. GpsInit => GpsInv
  <2> SUFFICES ASSUME GpsInit PROVE GpsInv  OBVIOUS
  <2>1. queues \in 0 .. MaxQueues  BY ManagerAssumption DEF GpsInit
  <2>2. loaded \in BOOLEAN  BY DEF GpsInit
  <2>3. GpsTypeOK  BY <2>1, <2>2 DEF GpsInit, GpsTypeOK
  <2> QED  BY <2>3 DEF GpsInit, GpsInv, ManagerFreedOnce
<1> QED  BY <1>1, GpsNextInv, PTL DEF GpsSpec

(* Every sensor manager, of any number, is destroyed once, by the library  *)
(* or by libEvtUnloading, and none is used afterwards.                     *)
THEOREM ManagersFreedOnce == GpsSpec => []ManagerFreedOnce
<1>1. GpsInv => ManagerFreedOnce  BY DEF GpsInv
<1> QED  BY <1>1, GpsSpecInv, PTL

--------------------------------------------------------------------------------
(* NFC: the set-up.                                                        *)
NfcSpec == NfcInit /\ [][NfcNext]_nfcVars

Row(i) == pn544_eedata_settings[i]

LEMMA TableLength == Len(pn544_eedata_settings) = 39
<1>1. Len(Settings) = 38
  BY SMT DEF Settings
<1> QED BY <1>1, SMT DEF pn544_eedata_settings, Settings

LEMMA SettingsCount == num_eeprom_settings = 39
BY TableLength, SMT DEF num_eeprom_settings

LEMMA RowType == \A i \in 1 .. 39 : Row(i) \in Nat
<1>1. Len(Settings) = 38
  BY SMT DEF Settings
<1> QED BY <1>1, TableLength, SMT DEF pn544_eedata_settings, Settings, Row

(* Two entries for one address have one value: the table's last entry      *)
(* repeats an earlier one.                                                 *)
LEMMA TableConsistent ==
  \A i, j \in 1 .. 39 : Address(Row(i)) = Address(Row(j)) => Row(i) = Row(j)
<1>1. Len(Settings) = 38
  BY SMT DEF Settings
<1> QED BY <1>1, TableLength, SMTT(60) DEF pn544_eedata_settings, Settings, Row, Address

LEMMA RowSet == ToSet(pn544_eedata_settings) = {Row(i) : i \in 1 .. 39}
<1>1. pn544_eedata_settings \in Seq(Nat)
  BY SMT DEF pn544_eedata_settings, Settings
<1>2. DOMAIN pn544_eedata_settings = 1 .. 39
  BY <1>1, TableLength, SMT
<1> QED BY <1>2, SMT DEF ToSet, Row

LEMMA RowAddress ==
  ASSUME NEW i \in 1 .. 39
  PROVE  Address(Row(i)) \in Addresses /\ Value(Row(i)) \in 0 .. 255
<1>1. Address(Row(i)) \in Addresses
  BY RowSet DEF Addresses
<1>2. Value(Row(i)) \in 0 .. 255
  <2>1. \A r \in Nat : r % 256 \in 0 .. 255
    BY SMT
  <2> QED BY <2>1, RowType DEF Value
<1> QED BY <1>1, <1>2

(* What this set-up has written is there, and after a whole one all of it. *)
NfcInv ==
  /\ NfcTypeOK
  /\ \A i \in 1 .. 39 : i <= written \/ configured => eeprom[Address(Row(i))] = Value(Row(i))

LEMMA WriteSettingInv ==
  ASSUME NfcInv, WriteSetting
  PROVE  NfcInv'
<1>1. /\ written \in 0 .. 38 /\ eeprom \in [Addresses -> 0 .. Factory]
      /\ nfcDevs \in 0 .. MaxNfcDevs /\ configured \in BOOLEAN
  BY TableLength, SettingsCount DEF NfcInv, NfcTypeOK, WriteSetting
<1>2. PICK n \in 1 .. 39 : n = written + 1
  BY <1>1
<1>3. /\ eeprom' = [eeprom EXCEPT ![Address(Row(n))] = Value(Row(n))]
      /\ written' = IF n = 39 THEN 0 ELSE n
      /\ configured' = (configured \/ n = 39)
      /\ UNCHANGED nfcDevs
  BY <1>2, SettingsCount DEF WriteSetting, Row
<1>4. NfcTypeOK'
  <2>1. eeprom' \in [Addresses -> 0 .. Factory]
    BY <1>1, <1>3, RowAddress DEF Factory
  <2>2. written' \in 0 .. 39
    BY <1>3
  <2> QED BY <1>1, <1>3, <2>1, <2>2, TableLength DEF NfcTypeOK
<1>5. ASSUME NEW i \in 1 .. 39, i <= written' \/ configured'
      PROVE  eeprom'[Address(Row(i))] = Value(Row(i))
  <2>1. Address(Row(i)) \in Addresses /\ Address(Row(n)) \in Addresses
    BY RowAddress
  <2>2. CASE Address(Row(i)) = Address(Row(n))
    BY <1>1, <1>3, <2>1, <2>2, TableConsistent
  <2>3. CASE Address(Row(i)) # Address(Row(n))
    <3>1. i # n
      BY <2>3
    <3>2. i <= written \/ configured
      BY <1>1, <1>2, <1>3, <1>5, <3>1
    <3> QED BY <1>1, <1>3, <2>1, <2>3, <3>2 DEF NfcInv
  <2> QED BY <2>2, <2>3
<1> QED BY <1>4, <1>5 DEF NfcInv

LEMMA NfcSpecInv == NfcSpec => []NfcInv
<1>1. NfcInit => NfcInv
  <2> SUFFICES ASSUME NfcInit PROVE NfcInv
    OBVIOUS
  <2>1. eeprom \in [Addresses -> 0 .. Factory]
    BY DEF NfcInit, Factory
  <2>2. nfcDevs \in 0 .. MaxNfcDevs /\ written \in 0 .. Len(pn544_eedata_settings)
    BY NfcAssumption, TableLength DEF NfcInit
  <2>3. NfcTypeOK
    BY <2>1, <2>2 DEF NfcInit, NfcTypeOK
  <2> QED BY <2>3 DEF NfcInit, NfcInv
<1>2. NfcInv /\ [NfcNext]_nfcVars => NfcInv'
  <2> SUFFICES ASSUME NfcInv, [NfcNext]_nfcVars PROVE NfcInv'
    OBVIOUS
  <2>1. CASE nfc_open
    BY <2>1, NfcAssumption DEF nfc_open, NfcInv, NfcTypeOK
  <2>2. CASE pn544_close
    BY <2>2, NfcAssumption DEF pn544_close, NfcInv, NfcTypeOK
  <2>3. CASE WriteSetting
    BY <2>3, WriteSettingInv
  <2>4. CASE BreakOff
    BY <2>4, TableLength DEF BreakOff, NfcInv, NfcTypeOK
  <2>5. CASE UNCHANGED nfcVars
    BY <2>5 DEF nfcVars, NfcInv, NfcTypeOK
  <2> QED BY <2>1, <2>2, <2>3, <2>4, <2>5 DEF NfcNext
<1> QED BY <1>1, <1>2, PTL DEF NfcSpec

(* However often the NFC stack sets the controller up and wherever it      *)
(* breaks off, a controller set up once keeps every setting of             *)
(* pn544_eedata_settings.                                                  *)
THEOREM SettingsKept == NfcSpec => []SetUpForGood
<1>1. NfcInv => SetUpForGood
  BY RowSet DEF NfcInv, SetUpForGood
<1> QED BY <1>1, NfcSpecInv, PTL

--------------------------------------------------------------------------------
(* The adaptive backlight.                                                 *)
DimmerSpec == DimmerInit /\ [][DimmerNext]_dimmerVars

(* What a probe has read is what the file still says.                      *)
DimmerInv ==
  /\ DimmerTypeOK
  /\ ~ disturbed =>
       /\ dimmer = asked
       /\ \A u \in SettingThread : probe[u] # "idle" /\ supported => (probe[u] = "on") = dimmer

LEMMA ProbeInv ==
  ASSUME NEW u \in SettingThread, DimmerInv, isSupported(u)
  PROVE  DimmerInv'
<1>1. PICK value \in isEnabled :
        /\ probe' = [probe EXCEPT ![u] = IF value THEN "on" ELSE "off"]
        /\ disturbed' = (disturbed \/ (supported /\ value # dimmer))
  BY DEF isSupported
<1>2. UNCHANGED <<supported, dimmer, asked>>
  BY DEF isSupported
<1>3. value \in BOOLEAN
  BY DEF isEnabled, DimmerInv, DimmerTypeOK
<1>4. DimmerTypeOK'
  BY <1>1, <1>2, <1>3 DEF DimmerInv, DimmerTypeOK
<1>5. ASSUME ~ disturbed' PROVE ~ disturbed /\ (supported => value = dimmer)
  BY <1>1, <1>5
<1>6. \A v \in SettingThread : probe'[v] = IF v = u THEN IF value THEN "on" ELSE "off"
                                          ELSE probe[v]
  BY <1>1 DEF DimmerInv, DimmerTypeOK
<1> QED BY <1>2, <1>3, <1>4, <1>5, <1>6 DEF DimmerInv

LEMMA WriteBackInv ==
  ASSUME NEW u \in SettingThread, DimmerInv, WriteBack(u)
  PROVE  DimmerInv'
<1>1. DimmerTypeOK'
  BY DEF DimmerInv, DimmerTypeOK, WriteBack, writeLine
<1>2. ~ disturbed => dimmer' = dimmer
  BY DEF DimmerInv, DimmerTypeOK, WriteBack, writeLine
<1>3. \A v \in SettingThread : probe'[v] # "idle" => probe'[v] = probe[v]
  BY DEF DimmerInv, DimmerTypeOK, WriteBack
<1>4. UNCHANGED <<supported, asked, disturbed>>
  BY DEF WriteBack
<1> QED BY <1>1, <1>2, <1>3, <1>4 DEF DimmerInv

LEMMA SetEnabledInv ==
  ASSUME NEW u \in SettingThread, NEW status \in BOOLEAN, DimmerInv, setEnabled(u, status)
  PROVE  DimmerInv'
<1>1. DimmerTypeOK'
  BY DEF DimmerInv, DimmerTypeOK, setEnabled, writeLine
<1>2. ~ disturbed' => ~ (supported /\ \E v \in SettingThread : probe[v] # "idle")
  BY DEF setEnabled
<1>3. asked' = dimmer' /\ supported' = supported /\ probe' = probe
  BY DEF setEnabled
<1> QED BY <1>1, <1>2, <1>3 DEF DimmerInv

LEMMA DimmerSpecInv == DimmerSpec => []DimmerInv
<1>1. DimmerInit => DimmerInv
  BY DEF DimmerInit, DimmerInv, DimmerTypeOK
<1>2. DimmerInv /\ [DimmerNext]_dimmerVars => DimmerInv'
  <2>1. DimmerInv /\ UNCHANGED dimmerVars => DimmerInv'
    BY DEF dimmerVars, DimmerInv, DimmerTypeOK
  <2> QED BY <2>1, ProbeInv, WriteBackInv, SetEnabledInv DEF DimmerNext
<1> QED BY <1>1, <1>2, PTL DEF DimmerSpec

(* isSupported writes back what it read: any number of probes, overlapping *)
(* each other, leave the setting that setEnabled made.                     *)
THEOREM ProbesHarmless == DimmerSpec => []ProbeKeepsSetting
<1>1. DimmerInv => ProbeKeepsSetting
  BY DEF DimmerInv, ProbeKeepsSetting
<1> QED BY <1>1, DimmerSpecInv, PTL

-------------------------------------------------------------------------------
(***************************************************************************)
(* The power HAL's set-up (PowerSetup).                                    *)
(***************************************************************************)
PowerSpec == PowerInit /\ [][PowerNext]_powerVars

(* The pokers are started one after the other.                             *)
Started(n) == \A k \in Poker : poker[k] # "none" <=> k <= n

StartInv ==
  \E n \in 0 .. MaxPokers :
    /\ Started(n)
    /\ at = "scan" => n < MaxPokers
    /\ at = "wait" => n >= 1

(* The poker that pInfo points to, once there is one, has its looper.      *)
PokerInv ==
  /\ mTimeoutPoker # 0 => poker[mTimeoutPoker] = "ready"
  /\ served => mTimeoutPoker # 0
  /\ PokerReplacedSafely

(* The frequencies that are kept are the CPU's.                            *)
FreqInv ==
  /\ file # <<>> => freq.max \in ToSet(file) \cup {0}
  /\ FloorsReal
  /\ TopFrequency

(* What the table of panels says of the kernel's devices: a number found   *)
(* is still the panel's or nobody's, since no number is given twice, and   *)
(* whatever is disabled is in the table, to be enabled again.              *)
DeviceInv ==
  /\ \A p \in Panel : dev_id[p] # -1 => dev_id[p] < nextId /\ name[dev_id[p]] \in {p, Absent}
  /\ \A i \in Id : i >= nextId => name[i] = Absent
  /\ \A i \in Id : name[i] = Absent => enabled[i]
  /\ ~ excused => \A i \in Id : ~ enabled[i] =>
       /\ name[i] \in Panel /\ name[i] \in Enableable /\ dev_id[name[i]] = i
       /\ pInfo = "set" /\ input_devs = "table" /\ screen = "off"

PowerInv == PowerTypeOK /\ StartInv /\ PokerInv /\ FreqInv /\ DeviceInv

(* A set of natural numbers that is not empty has a least member.          *)
LEMMA Least ==
  ASSUME NEW S \in SUBSET Nat, S # {}
  PROVE  Min(S) \in S /\ \A y \in S : Min(S) <= y
<1> DEFINE R == OpToRel(<, Nat)
<1>1. IsWellFoundedOn(R, Nat)
  BY NatLessThanWellFounded
<1>2. \A x, y \in Nat : y < x => <<y, x>> \in R
  BY DEF OpToRel
<1> HIDE DEF R
<1>3. PICK x \in S : \A y \in S : ~ (<<y, x>> \in R)
  BY <1>1, WFMin
<1>4. ASSUME NEW y \in S PROVE x <= y
  <2>1. x \in Nat /\ y \in Nat
    OBVIOUS
  <2>2. ~ (<<y, x>> \in R)
    BY <1>3
  <2>3. ~ (y < x)
    BY <2>1, <2>2, <1>2, Zenon
  <2> QED BY <2>1, <2>3
<1>5. \E z \in S : \A y \in S : z <= y
  BY <1>4
<1> QED BY <1>5 DEF Min

LEMMA PowerInitial == PowerInit => PowerInv
<1> SUFFICES ASSUME PowerInit PROVE PowerInv
  OBVIOUS
<1> USE DEF PowerInit
<1>1. PowerTypeOK
  <2>1. /\ name \in [Id -> Name \cup {Absent}] /\ enabled \in [Id -> BOOLEAN]
        /\ dev_id \in [Panel -> Id \cup {-1}]
        /\ poker \in [Poker -> {"none", "starting", "ready"}]
    OBVIOUS
  <2>2. nextId \in 0 .. MaxId + 1 /\ input_cnt \in Nat /\ floor \in Int
    BY BoundAssumption
  <2>3. freq \in Freq
    BY DEF Freq, NoFreq
  <2> QED BY <2>1, <2>2, <2>3 DEF PowerTypeOK
<1>2. StartInv
  <2>1. 0 \in 0 .. MaxPokers /\ Started(0)
    BY BoundAssumption DEF Started, Poker
  <2> QED BY <2>1 DEF StartInv
<1>3. PokerInv
  BY DEF PokerInv, PokerReplacedSafely
<1>4. FreqInv
  BY DEF FreqInv, FloorsReal, TopFrequency, NoFreq
<1>5. DeviceInv
  BY DEF DeviceInv
<1> QED BY <1>1, <1>2, <1>3, <1>4, <1>5 DEF PowerInv

-------------------------------------------------------------------------------
(* What an action leaves alone keeps its part of the invariant.            *)
LEMMA SameStart ==
  ASSUME StartInv, UNCHANGED poker, at' \in {at, "idle", "frequencies", "boost"}
  PROVE  StartInv'
<1>1. PICK n \in 0 .. MaxPokers : /\ Started(n)
                                  /\ at = "scan" => n < MaxPokers
                                  /\ at = "wait" => n >= 1
  BY DEF StartInv
<1>2. Started(n)'
  BY <1>1 DEF Started
<1> QED BY <1>1, <1>2 DEF StartInv

LEMMA SamePoker ==
  ASSUME PokerInv, UNCHANGED <<poker, mTimeoutPoker, crash, served>>
  PROVE  PokerInv'
BY DEF PokerInv, PokerReplacedSafely

LEMMA SameFreq ==
  ASSUME FreqInv, UNCHANGED <<file, freq, floor>>
  PROVE  FreqInv'
BY DEF FreqInv, FloorsReal, TopFrequency

LEMMA SameDevice ==
  ASSUME DeviceInv, UNCHANGED <<inputs, tables, screen, excused>>
  PROVE  DeviceInv'
BY DEF DeviceInv, inputs, tables

-------------------------------------------------------------------------------
LEMMA SetUpStarts ==
  ASSUME PowerInv, tegra3_power_open \/ tegra3_power_init
  PROVE  PowerInv'
<1> USE DEF tegra3_power_open, tegra3_power_init, PowerInv, inputs, files, history
<1>1. PowerTypeOK'
  <2>1. Cardinality(Panel) \in Nat
    BY NameAssumption, FS_CardinalityType
  <2>2. PowerTypeOK
    OBVIOUS
  <2> HIDE DEF PowerInv
  <2>3. /\ pInfo' = "set" /\ at' = "scan" /\ init' \in BOOLEAN
        /\ input_devs' \in {"null", "table"} /\ input_cnt' \in Nat
    BY <2>1, <2>2 DEF PowerTypeOK
  <2>4. /\ UNCHANGED <<name, enabled, nextId>> /\ UNCHANGED <<file, no_lp, doubletap>>
        /\ UNCHANGED <<dev_id, mTimeoutPoker, poker, freq, crash>>
        /\ UNCHANGED <<screen, excused, served, floor>>
    OBVIOUS
  <2> HIDE DEF tegra3_power_open, tegra3_power_init
  <2> QED BY <2>2, <2>3, <2>4 DEF PowerTypeOK
<1>2. StartInv'
  <2>1. PICK n \in 0 .. MaxPokers : Started(n)
    BY DEF StartInv
  <2>2. Started(n)'
    BY <2>1 DEF Started
  <2>3. PICK k \in Poker : poker[k] = "none"
    OBVIOUS
  <2>4. n < MaxPokers
    BY <2>1, <2>3, BoundAssumption DEF Started, Poker
  <2> QED BY <2>2, <2>4 DEF StartInv
<1>3. PokerInv'
  BY SamePoker
<1>4. FreqInv'
  BY SameFreq
<1>5. DeviceInv'
  BY DEF DeviceInv
<1> QED BY <1>1, <1>2, <1>3, <1>4, <1>5

(* The poker that a set-up starts, and the one it waits for.               *)
LEMMA NextPoker ==
  ASSUME NEW n \in Nat, n < MaxPokers, Started(n)
  PROVE  NewPoker = n + 1 /\ n + 1 \in Poker
<1> DEFINE S == {k \in Poker : poker[k] = "none"}
<1>1. n + 1 \in S /\ \A k \in S : n + 1 <= k
  BY BoundAssumption DEF Started, Poker
<1>2. S \in SUBSET Nat
  BY DEF Poker
<1>3. Min(S) \in S /\ \A k \in S : Min(S) <= k
  BY <1>1, <1>2, Least
<1>4. Min(S) = n + 1
  BY <1>1, <1>2, <1>3
<1> QED BY <1>1, <1>4 DEF NewPoker

LEMMA ThatPoker ==
  ASSUME NEW n \in 0 .. MaxPokers, n >= 1, Started(n)
  PROVE  LastPoker = n /\ n \in Poker
<1> DEFINE S == {k \in Poker : poker[k] # "none"}
<1>1. n \in S /\ \A k \in S : n >= k
  BY BoundAssumption DEF Started, Poker
<1>2. S \subseteq Nat
  BY DEF Poker
<1> HIDE DEF S
<1>3. Max(S) \in S /\ \A k \in S : Max(S) >= k
  BY <1>1 DEF Max
<1>4. Max(S) = n
  <2>1. Max(S) \in Nat /\ n \in Nat
    BY <1>1, <1>2, <1>3
  <2>2. Max(S) >= n /\ n >= Max(S)
    BY <1>1, <1>3
  <2> QED BY <2>1, <2>2
<1> QED BY <1>1, <1>4 DEF LastPoker, S

LEMMA PanelFound ==
  ASSUME PowerTypeOK, NEW p \in Panel
  PROVE  \/ find_input_device_ids[p] = dev_id[p]
         \/ /\ dev_id[p] = -1
            /\ find_input_device_ids[p] \in Id /\ name[find_input_device_ids[p]] = p
<1> DEFINE match == {i \in Scanned : name[i] = p}
<1>1. match \in SUBSET Nat
  BY DEF Scanned, Id
<1>2. find_input_device_ids[p] = IF dev_id[p] = -1 /\ match # {} THEN Min(match) ELSE dev_id[p]
  BY DEF find_input_device_ids
<1>3. match # {} => Min(match) \in match
  BY <1>1, Least
<1> QED BY <1>2, <1>3 DEF Scanned

LEMMA ScanKeeps ==
  ASSUME PowerInv, Scan
  PROVE  PowerInv'
<1> USE DEF PowerInv
<1>0. /\ at = "scan" /\ at' = "wait"
      /\ poker' = [poker EXCEPT ![NewPoker] = "starting"]
      /\ UNCHANGED <<inputs, files, pInfo, input_devs, mTimeoutPoker, freq, init, crash, history>>
  BY DEF Scan
<1>a. PICK n \in 0 .. MaxPokers : Started(n) /\ n < MaxPokers
  BY <1>0 DEF StartInv
<1>b. n \in Nat
  BY BoundAssumption
<1>c. NewPoker = n + 1 /\ n + 1 \in Poker
  BY <1>a, <1>b, NextPoker
<1>d. poker[n + 1] = "none"
  BY <1>a, <1>b, <1>c DEF Started
<1>1. PowerTypeOK'
  <2>1. input_cnt' \in Nat
    <3>1. IsFiniteSet(0 .. MaxId) /\ Scanned \subseteq 0 .. MaxId
      BY FS_Interval, BoundAssumption DEF Scanned, Id
    <3>2. IsFiniteSet(Scanned)
      BY <3>1, FS_Subset
    <3> QED BY <3>2, FS_CardinalityType DEF Scan, PowerTypeOK, get_input_count
  <2>2. dev_id' \in [Panel -> Id \cup {-1}]
    <3>1. ASSUME NEW p \in Panel PROVE find_input_device_ids[p] \in Id \cup {-1}
      BY PanelFound DEF PowerTypeOK
    <3>2. find_input_device_ids \in [Panel -> Id \cup {-1}]
      BY <3>1 DEF find_input_device_ids
    <3> QED BY <3>2 DEF Scan, PowerTypeOK
  <2>3. poker' \in [Poker -> {"none", "starting", "ready"}]
    BY <1>0 DEF PowerTypeOK
  <2> QED BY <1>0, <2>1, <2>2, <2>3 DEF PowerTypeOK, inputs, files, history
<1>2. StartInv'
  <2>1. Started(n + 1)'
    BY <1>0, <1>a, <1>b, <1>c DEF Started, PowerTypeOK, Poker
  <2>2. n + 1 \in 0 .. MaxPokers
    BY <1>a, <1>b, BoundAssumption
  <2> QED BY <1>0, <1>b, <2>1, <2>2 DEF StartInv
<1>3. PokerInv'
  BY <1>0, <1>c, <1>d DEF PokerInv, PokerReplacedSafely, PowerTypeOK, history
<1>4. FreqInv'
  BY <1>0, SameFreq DEF files, history
<1>5. DeviceInv'
  <2>1. ASSUME NEW p \in Panel
        PROVE  \/ dev_id'[p] = dev_id[p]
               \/ dev_id[p] = -1 /\ dev_id'[p] \in Id /\ name[dev_id'[p]] = p
    BY PanelFound DEF Scan
  <2>2. ASSUME NEW p \in Panel, dev_id'[p] # -1
        PROVE  dev_id'[p] < nextId /\ name[dev_id'[p]] \in {p, Absent}
    <3>1. CASE dev_id'[p] = dev_id[p]
      BY <3>1, <2>2 DEF DeviceInv
    <3>2. CASE dev_id'[p] \in Id /\ name[dev_id'[p]] = p
      <4>1. p # Absent
        BY NameAssumption DEF Name
      <4>2. ~ (dev_id'[p] >= nextId)
        BY <3>2, <4>1 DEF DeviceInv
      <4>3. dev_id'[p] \in Int /\ nextId \in Int
        BY <3>2 DEF Id, PowerTypeOK
      <4> QED BY <3>2, <4>2, <4>3
    <3> QED BY <2>1, <3>1, <3>2
  <2>3. ASSUME NEW i \in Id, name[i] \in Panel, dev_id[name[i]] = i
        PROVE  dev_id'[name[i]] = i
    <3>1. i # -1
      BY DEF Id
    <3> QED BY <2>1, <2>3, <3>1
  <2>4. /\ \A i \in Id : i >= nextId => name[i] = Absent
        /\ \A i \in Id : name[i] = Absent => enabled[i]
    BY DEF DeviceInv
  <2>5. ~ excused => \A i \in Id : ~ enabled[i] =>
          /\ name[i] \in Panel /\ name[i] \in Enableable /\ dev_id'[name[i]] = i
          /\ pInfo = "set" /\ input_devs = "table" /\ screen = "off"
    BY <2>3 DEF DeviceInv
  <2> QED BY <1>0, <2>2, <2>4, <2>5 DEF DeviceInv, inputs, history
<1> QED BY <1>1, <1>2, <1>3, <1>4, <1>5

LEMMA WaitKeeps ==
  ASSUME PowerInv, crash = "no", WaitReturns
  PROVE  PowerInv'
<1> USE DEF PowerInv, WaitReturns
<1>a. PICK n \in 0 .. MaxPokers : Started(n) /\ n >= 1
  BY DEF StartInv
<1>b. LastPoker = n /\ n \in Poker
  BY <1>a, ThatPoker
<1>1. PowerTypeOK'
  BY <1>b DEF PowerTypeOK, inputs, files, tables
<1>2. StartInv'
  BY SameStart
<1>3. PokerInv'
  BY <1>b DEF PokerInv, PokerReplacedSafely, Poker
<1>4. FreqInv'
  BY SameFreq DEF files
<1>5. DeviceInv'
  BY SameDevice
<1> QED BY <1>1, <1>2, <1>3, <1>4, <1>5

-------------------------------------------------------------------------------
(* What a set-up makes of the file of frequencies.                         *)
LEMMA Words ==
  ASSUME NEW text \in sysfs_read, PowerTypeOK
  PROVE  /\ text \in Seq(Nat) /\ file \in Seq(Nat)
         /\ \A i \in 1 .. Len(text) : text[i] \in ToSet(file) \cup {0}
         /\ file # <<>> => Len(text) >= 2
         /\ text \notin ErrorText => /\ Len(text) = Len(file) + 1
                                    /\ \A i \in 1 .. Len(file) : text[i] = file[i]
<1>1. file \in Seq(Nat)
  BY TextAssumption DEF PowerTypeOK
<1>2. CASE text \in ErrorText
  BY <1>1, <1>2, TextAssumption
<1>3. CASE text \notin ErrorText
  <2>1. text = file \o <<0>>
    BY <1>3 DEF sysfs_read
  <2>2. /\ text \in Seq(Nat) /\ Len(text) = Len(file) + 1
        /\ \A i \in 1 .. Len(file) : text[i] = file[i]
        /\ text[Len(file) + 1] = 0
    BY <1>1, <2>1
  <2>3. ASSUME NEW i \in 1 .. Len(text) PROVE text[i] \in ToSet(file) \cup {0}
    <3>1. CASE i = Len(file) + 1
      BY <3>1, <2>2
    <3>2. CASE i \in 1 .. Len(file)
      <4>1. i \in DOMAIN file
        BY <3>2, <1>1
      <4>2. file[i] \in ToSet(file)
        BY <4>1 DEF ToSet
      <4> QED BY <3>2, <4>2, <2>2
    <3> QED BY <3>1, <3>2, <1>1, <2>2
  <2>4. file # <<>> => Len(file) >= 1
    BY <1>1
  <2> QED BY <1>1, <1>3, <2>2, <2>3, <2>4
<1> QED BY <1>2, <1>3

LEMMA Begins ==
  ASSUME NEW s \in Seq(Nat), NEW m \in Nat, m <= Len(s)
  PROVE  /\ SubSeq(s, 1, m) \in Seq(Nat) /\ Len(SubSeq(s, 1, m)) = m
         /\ DOMAIN SubSeq(s, 1, m) = 1 .. m
         /\ \A i \in 1 .. m : SubSeq(s, 1, m)[i] = s[i] /\ i \in 1 .. Len(s)
OBVIOUS

ListSound(list, m, first, second) ==
  /\ list \in Seq(Nat) /\ Len(list) = m /\ DOMAIN list = 1 .. m
  /\ \A i \in 1 .. m : list[i] \in Nat /\ list[i] \in ToSet(file) \cup {0}
  /\ file # <<>> => m >= 1
  /\ file # <<>> /\ {first, second} \cap ErrorText = {} => list[m] = file[Len(file)]

LEMMA ListFacts ==
  ASSUME NEW first \in sysfs_read, NEW second \in sysfs_read, PowerTypeOK,
         NEW m \in Nat, m = Len(first) - 1, m <= Len(second)
  PROVE  ListSound(SubSeq(second, 1, m), m, first, second)
<1> DEFINE list == SubSeq(second, 1, m)
<1>1. /\ second \in Seq(Nat) /\ file \in Seq(Nat) /\ first \in Seq(Nat)
      /\ \A i \in 1 .. Len(second) : second[i] \in ToSet(file) \cup {0}
      /\ file # <<>> => Len(first) >= 2
      /\ first \notin ErrorText => Len(first) = Len(file) + 1
      /\ second \notin ErrorText => \A i \in 1 .. Len(file) : second[i] = file[i]
  BY Words
<1>2. /\ list \in Seq(Nat) /\ Len(list) = m /\ DOMAIN list = 1 .. m
      /\ \A i \in 1 .. m : list[i] = second[i] /\ i \in 1 .. Len(second)
  BY <1>1, Begins
<1> HIDE DEF list
<1>3. \A i \in 1 .. m : list[i] \in Nat
  BY <1>2
<1>4. Len(first) \in Nat /\ Len(file) \in Nat
  BY <1>1
<1>5. file # <<>> => m >= 1
  BY <1>1, <1>4
<1>6. file # <<>> /\ {first, second} \cap ErrorText = {} => list[m] = file[Len(file)]
  <2> SUFFICES ASSUME file # <<>>, {first, second} \cap ErrorText = {}
               PROVE  list[m] = file[Len(file)]
    OBVIOUS
  <2>1. first \notin ErrorText /\ second \notin ErrorText
    OBVIOUS
  <2>2. m = Len(file)
    BY <2>1, <1>1, <1>4
  <2>3. m \in 1 .. m
    BY <1>5
  <2> QED BY <2>1, <2>2, <2>3, <1>1, <1>2
<1>7. ListSound(list, m, first, second)
  BY <1>1, <1>2, <1>3, <1>5, <1>6 DEF ListSound
<1> QED BY <1>7 DEF list

LEMMA BoostFrequency ==
  ASSUME NEW list \in Seq(Nat), NEW least, NEW otherwise
  PROVE  \/ FirstAtLeast(list, least, otherwise) = otherwise
         \/ \E i \in DOMAIN list : FirstAtLeast(list, least, otherwise) = list[i]
<1> DEFINE fits == {i \in DOMAIN list : list[i] >= least}
<1>1. fits \in SUBSET Nat
  OBVIOUS
<1>2. fits # {} => Min(fits) \in fits
  BY <1>1, Least
<1> QED BY <1>2 DEF FirstAtLeast

LEMMA ReadKeeps ==
  ASSUME PowerInv, ReadFrequencies
  PROVE  PowerInv'
<1> USE DEF PowerInv
<1>0. /\ at' \in {"idle", "boost"}
      /\ UNCHANGED <<inputs, files, tables, mTimeoutPoker, poker, init, history>>
  BY DEF ReadFrequencies
<1>a. PICK first \in sysfs_read, second \in sysfs_read, lp \in {LpMax, 0} :
        LET list == SubSeq(second, 1, num_available_frequencies(first))
        IN  IF ParseFails(first, second)
            THEN crash' = "frequencies" /\ UNCHANGED freq
            ELSE /\ \E max \in max_frequency(list) :
                      freq' = [max |-> max, good |-> {first, second} \cap ErrorText = {},
                               interaction |-> FirstAtLeast(list, Interaction, lp),
                               animation |-> FirstAtLeast(list, Animation, lp)]
                 /\ UNCHANGED crash
  BY DEF ReadFrequencies
<1>2. StartInv'
  BY <1>0, SameStart
<1>5. DeviceInv'
  BY <1>0, SameDevice DEF history
<1>6. CASE ParseFails(first, second)
  <2>1. crash' = "frequencies" /\ UNCHANGED freq
    BY <1>6, <1>a
  <2>2. PowerTypeOK'
    BY <1>0, <2>1 DEF PowerTypeOK, inputs, files, tables, history
  <2>3. PokerInv'
    BY <1>0, <2>1 DEF PokerInv, PokerReplacedSafely, history
  <2>4. FreqInv'
    BY <1>0, <2>1, SameFreq DEF files, history
  <2> QED BY <1>2, <1>5, <2>2, <2>3, <2>4
<1>7. CASE ~ ParseFails(first, second)
  <2> DEFINE list == SubSeq(second, 1, Len(first) - 1)
             good == {first, second} \cap ErrorText = {}
             one == FirstAtLeast(list, Interaction, lp)
             two == FirstAtLeast(list, Animation, lp)
  <2>1. PICK max \in max_frequency(list) :
           freq' = [max |-> max, good |-> good, interaction |-> one, animation |-> two]
    BY <1>7, <1>a DEF num_available_frequencies
  <2>2. UNCHANGED crash
    BY <1>7, <1>a
  <2>3. first \in Seq(Nat) /\ second \in Seq(Nat)
    BY Words
  <2>4. PICK m \in Nat : m = Len(first) - 1 /\ m <= Len(second)
    <3>1. Len(first) \in Nat /\ Len(second) \in Nat
      BY <2>3
    <3>2. Len(first) - 1 >= 0 /\ Len(first) - 1 <= Len(second)
      BY <1>7, <3>1 DEF ParseFails, num_available_frequencies
    <3> QED BY <3>1, <3>2
  <2>5. /\ list \in Seq(Nat) /\ Len(list) = m /\ DOMAIN list = 1 .. m
        /\ \A i \in DOMAIN list : list[i] \in Nat /\ list[i] \in ToSet(file) \cup {0}
        /\ file # <<>> => m >= 1
        /\ file # <<>> /\ good => list[m] = file[Len(file)]
    <3>1. PowerTypeOK
      OBVIOUS
    <3>2. ListSound(SubSeq(second, 1, m), m, first, second)
      BY <2>4, <3>1, ListFacts
    <3>3. ListSound(list, m, first, second)
      BY <2>4, <3>2
    <3> HIDE DEF list
    <3> QED BY <3>3 DEF ListSound
  <2> HIDE DEF list, good
  <2>6. /\ max \in Int
        /\ m >= 1 => max \in ToSet(file) \cup {0} /\ max = list[m]
    <3>1. CASE list = <<>>
      <4>1. m = 0
        BY <3>1, <2>5
      <4> QED BY <2>1, <3>1, <4>1, TextAssumption DEF max_frequency
    <3>2. CASE list # <<>>
      <4>1. m >= 1
        BY <3>2, <2>5
      <4>2. max = list[m] /\ m \in DOMAIN list
        BY <2>1, <3>2, <4>1, <2>5 DEF max_frequency
      <4> QED BY <4>2, <2>5
    <3> QED BY <3>1, <3>2
  <2>7. /\ one \in Int /\ one \in ToSet(file) \cup {LpMax, 0}
        /\ two \in Int /\ two \in ToSet(file) \cup {LpMax, 0}
    <3>1. lp \in Int
      BY TextAssumption
    <3>2. one \in Int /\ one \in ToSet(file) \cup {LpMax, 0}
      BY <2>5, <3>1, BoostFrequency
    <3>3. two \in Int /\ two \in ToSet(file) \cup {LpMax, 0}
      BY <2>5, <3>1, BoostFrequency
    <3> QED BY <3>2, <3>3
  <2>8. good \in BOOLEAN
    BY DEF good
  <2> HIDE DEF one, two
  <2>9. /\ freq'.max = max /\ freq'.good = good /\ freq'.interaction = one
        /\ freq'.animation = two /\ freq' \in Freq
    BY <2>1, <2>6, <2>7, <2>8 DEF Freq
  <2>10. PowerTypeOK'
    BY <1>0, <2>2, <2>9 DEF PowerTypeOK, inputs, files, tables, history
  <2>11. PokerInv'
    BY <1>0, <2>2, SamePoker DEF history
  <2>12. FreqInv'
    <3>1. file' = file /\ floor' = floor
      BY <1>0 DEF files, history
    <3>2. file # <<>> => freq'.max \in ToSet(file) \cup {0}
      BY <2>5, <2>6, <2>9
    <3>3. FloorsReal'
      BY <3>1, <2>7, <2>9 DEF FreqInv, FloorsReal
    <3>4. TopFrequency'
      BY <3>1, <2>5, <2>6, <2>9 DEF TopFrequency
    <3> QED BY <3>1, <3>2, <3>3, <3>4 DEF FreqInv
  <2> QED BY <1>2, <1>5, <2>10, <2>11, <2>12
<1> QED BY <1>6, <1>7

-------------------------------------------------------------------------------
(* A boost is asked of a poker that has its looper.                        *)
LEMMA RequestKeeps ==
  ASSUME PowerInv, crash = "no", requestPmQosTimed,
         UNCHANGED <<file, mTimeoutPoker, poker, freq, served>>
  PROVE  PokerInv' /\ FreqInv' /\ floor' \in Int /\ crash' \in {"no", "poker"}
<1> USE DEF PowerInv
<1>1. CASE mTimeoutPoker = 0
  <2>1. crash' = "poker" /\ UNCHANGED floor
    BY <1>1 DEF requestPmQosTimed
  <2> QED BY <1>1, <2>1, SameFreq DEF PokerInv, PokerReplacedSafely, PowerTypeOK
<1>2. CASE mTimeoutPoker # 0
  <2>1. floor' = freq.max /\ UNCHANGED crash
    BY <1>2 DEF requestPmQosTimed, PokerInv
  <2>2. PokerInv'
    BY <2>1, SamePoker
  <2>3. FreqInv'
    BY <2>1 DEF FreqInv, FloorsReal, TopFrequency
  <2>4. floor' \in Int
    BY <2>1 DEF PowerTypeOK, Freq
  <2> QED BY <2>1, <2>2, <2>3, <2>4
<1> QED BY <1>1, <1>2

LEMMA BoostKeeps ==
  ASSUME PowerInv, crash = "no", BootBoost \/ common_power_hint
  PROVE  PowerInv'
<1> USE DEF PowerInv
<1>0. /\ requestPmQosTimed /\ at' \in {at, "idle"}
      /\ UNCHANGED <<inputs, files, tables, mTimeoutPoker, poker, freq, init, screen, excused, served>>
  BY DEF BootBoost, common_power_hint
<1>1. PokerInv' /\ FreqInv' /\ floor' \in Int /\ crash' \in {"no", "poker"}
  BY <1>0, RequestKeeps DEF files
<1>2. PowerTypeOK'
  BY <1>0, <1>1 DEF PowerTypeOK, inputs, files, tables
<1>3. StartInv'
  BY <1>0, SameStart
<1>4. DeviceInv'
  BY <1>0, SameDevice
<1> QED BY <1>1, <1>2, <1>3, <1>4

LEMMA ScreenKeeps ==
  ASSUME PowerInv, crash = "no", NEW on \in BOOLEAN, common_power_set_interactive(on)
  PROVE  PowerInv'
<1> USE DEF PowerInv
<1>0. /\ no_lp' = sysfs_write("no_lp" \in Present, no_lp, on)
      /\ screen' = IF on THEN "on" ELSE "off"
      /\ UNCHANGED <<name, nextId, file, doubletap, tables, mTimeoutPoker, poker, freq, at, init, served>>
  BY DEF common_power_set_interactive
<1>a. PICK taken \in SUBSET {i \in Switched \cap Id : name[i] \in Enableable} :
        /\ enabled' = [i \in Id |-> sysfs_write(i \in taken, enabled[i], on)]
        /\ excused' = (excused \/ taken # {i \in Switched \cap Id : name[i] \in Enableable}
                               \/ (~ on /\ pInfo = "set" /\ input_devs = "null"))
  BY DEF common_power_set_interactive
<1>1. PokerInv' /\ FreqInv' /\ floor' \in Int /\ crash' \in {"no", "poker"}
  <2>1. CASE on /\ pInfo = "set"
    BY <2>1, <1>0, RequestKeeps DEF common_power_set_interactive
  <2>2. CASE ~ (on /\ pInfo = "set")
    <3>1. UNCHANGED <<crash, floor>>
      BY <2>2 DEF common_power_set_interactive
    <3> QED BY <3>1, <1>0, SamePoker, SameFreq DEF PowerTypeOK
  <2> QED BY <2>1, <2>2
<1>2. PowerTypeOK'
  <2>1. no_lp' \in BOOLEAN
    BY <1>0 DEF sysfs_write, PowerTypeOK
  <2>2. enabled' \in [Id -> BOOLEAN]
    BY <1>a DEF sysfs_write, PowerTypeOK
  <2>3. excused' \in BOOLEAN
    BY <1>a
  <2> QED BY <1>0, <1>1, <2>1, <2>2, <2>3 DEF PowerTypeOK, tables
<1>3. StartInv'
  BY <1>0, SameStart
<1>4. DeviceInv'
  <2> DEFINE writable == {i \in Switched \cap Id : name[i] \in Enableable}
  <2>0. UNCHANGED <<name, nextId, pInfo, input_devs, dev_id>>
    BY <1>0 DEF tables
  <2>1. /\ \A p \in Panel : dev_id[p] # -1 => dev_id[p] < nextId /\ name[dev_id[p]] \in {p, Absent}
        /\ \A i \in Id : i >= nextId => name[i] = Absent
    BY DEF DeviceInv
  <2>2. ASSUME NEW i \in Id, name[i] = Absent PROVE enabled'[i]
    <3>1. i \notin taken
      BY <2>2, NameAssumption
    <3>2. enabled'[i] = enabled[i]
      BY <3>1, <1>a DEF sysfs_write
    <3> QED BY <2>2, <3>2 DEF DeviceInv
  <2>3. ASSUME ~ excused', NEW i \in Id, ~ enabled'[i]
        PROVE  /\ name[i] \in Panel /\ name[i] \in Enableable /\ dev_id[name[i]] = i
               /\ pInfo = "set" /\ input_devs = "table" /\ screen' = "off"
    <3>1. ~ excused /\ taken = writable /\ (on \/ pInfo # "set" \/ input_devs # "null")
      BY <2>3, <1>a
    <3>2. CASE i \in taken
      <4>1. ~ on
        BY <3>2, <2>3, <1>a DEF sysfs_write
      <4>2. pInfo = "set" /\ input_devs = "table" /\ i \in {dev_id[p] : p \in Panel} \ {-1}
        BY <3>1, <3>2, <4>1 DEF Switched, PowerTypeOK
      <4>3. PICK p \in Panel : dev_id[p] = i /\ i # -1
        BY <4>2
      <4>4. name[i] \in {p, Absent} /\ name[i] \in Enableable
        BY <2>1, <3>2, <4>3
      <4>5. name[i] = p
        BY <4>4, NameAssumption
      <4> QED BY <1>0, <4>1, <4>2, <4>3, <4>4, <4>5
    <3>3. CASE i \notin taken
      <4>1. ~ enabled[i]
        BY <3>3, <2>3, <1>a DEF sysfs_write
      <4>2. /\ name[i] \in Panel /\ name[i] \in Enableable /\ dev_id[name[i]] = i
            /\ pInfo = "set" /\ input_devs = "table" /\ screen = "off"
        BY <3>1, <4>1 DEF DeviceInv
      <4>3. i \in Switched
        <5>1. i # -1
          BY DEF Id
        <5> QED BY <4>2, <5>1 DEF Switched
      <4>4. i \in writable
        BY <4>2, <4>3
      <4> QED BY <3>1, <3>3, <4>4
    <3> QED BY <3>2, <3>3
  <2> QED BY <2>0, <2>1, <2>2, <2>3 DEF DeviceInv
<1> QED BY <1>1, <1>2, <1>3, <1>4

LEMMA FeatureKeeps ==
  ASSUME PowerInv, NEW state \in BOOLEAN, tegra3_set_feature(state)
  PROVE  PowerInv'
<1> USE DEF PowerInv, tegra3_set_feature
<1>1. PowerTypeOK'
  BY DEF PowerTypeOK, sysfs_write, inputs, tables, history
<1>2. StartInv' /\ PokerInv' /\ FreqInv' /\ DeviceInv'
  BY SameStart, SamePoker, SameFreq, SameDevice DEF history
<1> QED BY <1>1, <1>2

LEMMA ReadyKeeps ==
  ASSUME PowerInv, NEW k \in Poker, readyToRun(k)
  PROVE  PowerInv'
<1> USE DEF PowerInv, readyToRun
<1>1. PowerTypeOK'
  BY DEF PowerTypeOK, inputs, files, tables, history
<1>2. StartInv'
  <2>1. PICK n \in 0 .. MaxPokers : /\ Started(n)
                                    /\ at = "scan" => n < MaxPokers
                                    /\ at = "wait" => n >= 1
    BY DEF StartInv
  <2>2. Started(n)'
    BY <2>1 DEF Started, PowerTypeOK
  <2> QED BY <2>1, <2>2 DEF StartInv
<1>3. PokerInv'
  BY DEF PokerInv, PokerReplacedSafely, PowerTypeOK, history
<1>4. FreqInv' /\ DeviceInv'
  BY SameFreq, SameDevice DEF files, history
<1> QED BY <1>1, <1>2, <1>3, <1>4

LEMMA PlugKeeps ==
  ASSUME PowerInv, NEW n \in Name, Plug(n)
  PROVE  PowerInv'
<1> USE DEF PowerInv, Plug
<1>0. nextId \in Id /\ nextId \in Nat
  BY BoundAssumption DEF PowerTypeOK, Id
<1>1. PowerTypeOK'
  <2>1. nextId' \in 0 .. MaxId + 1
    BY <1>0, BoundAssumption DEF PowerTypeOK
  <2>2. name' \in [Id -> Name \cup {Absent}]
    BY DEF PowerTypeOK
  <2> QED BY <2>1, <2>2 DEF PowerTypeOK, files, tables, history
<1>2. StartInv' /\ PokerInv' /\ FreqInv'
  BY SameStart, SamePoker, SameFreq DEF files, history
<1>3. DeviceInv'
  <2>1. name[nextId] = Absent /\ enabled[nextId]
    BY <1>0 DEF DeviceInv
  <2>2. ASSUME NEW p \in Panel, dev_id[p] # -1
        PROVE  dev_id[p] < nextId' /\ name'[dev_id[p]] \in {p, Absent}
    <3>1. dev_id[p] \in Id /\ dev_id[p] < nextId /\ name[dev_id[p]] \in {p, Absent}
      BY <2>2 DEF DeviceInv, PowerTypeOK
    <3>2. dev_id[p] \in Nat
      BY <3>1 DEF Id
    <3>3. dev_id[p] # nextId
      BY <1>0, <3>1, <3>2
    <3> QED BY <1>0, <3>1, <3>2, <3>3 DEF PowerTypeOK
  <2>3. ASSUME NEW i \in Id, i >= nextId' PROVE name'[i] = Absent
    <3>1. i \in Nat
      BY DEF Id
    <3>2. i # nextId /\ i >= nextId
      BY <2>3, <3>1, <1>0
    <3> QED BY <3>2 DEF DeviceInv, PowerTypeOK
  <2>4. ASSUME NEW i \in Id, name'[i] = Absent PROVE enabled[i]
    BY <2>1, <2>4 DEF DeviceInv, PowerTypeOK
  <2>5. ASSUME ~ excused, NEW i \in Id, ~ enabled[i]
        PROVE  /\ name'[i] \in Panel /\ name'[i] \in Enableable /\ dev_id[name'[i]] = i
               /\ pInfo = "set" /\ input_devs = "table" /\ screen = "off"
    <3>1. name'[i] = name[i]
      BY <2>1, <2>5 DEF PowerTypeOK
    <3> QED BY <2>5, <3>1 DEF DeviceInv
  <2> QED BY <2>2, <2>3, <2>4, <2>5 DEF DeviceInv, tables, history
<1> QED BY <1>1, <1>2, <1>3

LEMMA UnplugKeeps ==
  ASSUME PowerInv, NEW i \in Id, Unplug(i)
  PROVE  PowerInv'
<1> USE DEF PowerInv, Unplug
<1>1. PowerTypeOK'
  BY DEF PowerTypeOK, files, tables, history
<1>2. StartInv' /\ PokerInv' /\ FreqInv'
  BY SameStart, SamePoker, SameFreq DEF files, history
<1>3. DeviceInv'
  BY DEF DeviceInv, PowerTypeOK, tables, history
<1> QED BY <1>1, <1>2, <1>3

LEMMA PowerStep == PowerInv /\ [PowerNext]_powerVars => PowerInv'
<1> SUFFICES ASSUME PowerInv, [PowerNext]_powerVars PROVE PowerInv'
  OBVIOUS
<1>1. CASE UNCHANGED powerVars
  <2>1. PowerTypeOK'
    BY <1>1 DEF PowerInv, PowerTypeOK, powerVars, inputs, files, tables, history
  <2> QED BY <1>1, <2>1, SameStart, SamePoker, SameFreq, SameDevice
          DEF PowerInv, powerVars, files, history
<1>2. CASE crash = "no" /\ PowerNext
  <2>1. CASE tegra3_power_open \/ tegra3_power_init
    BY <2>1, SetUpStarts
  <2>2. CASE common_power_open
    BY <1>2, <2>2, ScanKeeps, WaitKeeps, ReadKeeps, BoostKeeps DEF common_power_open
  <2>3. CASE \E on \in BOOLEAN : tegra3_power_set_interactive(on)
    BY <1>2, <2>3, ScreenKeeps DEF tegra3_power_set_interactive
  <2>4. CASE \E on \in BOOLEAN : tegra3_set_feature(on)
    BY <2>4, FeatureKeeps
  <2>5. CASE tegra3_power_hint
    BY <1>2, <2>5, BoostKeeps DEF tegra3_power_hint
  <2>6. CASE \E k \in Poker : readyToRun(k)
    BY <2>6, ReadyKeeps
  <2>7. CASE \E n \in Name : Plug(n)
    BY <2>7, PlugKeeps
  <2>8. CASE \E i \in Id : Unplug(i)
    BY <2>8, UnplugKeeps
  <2> QED BY <1>2, <2>1, <2>2, <2>3, <2>4, <2>5, <2>6, <2>7, <2>8 DEF PowerNext
<1> QED BY <1>1, <1>2 DEF PowerNext

LEMMA PowerHolds == PowerSpec => []PowerInv
BY PowerInitial, PowerStep, PTL DEF PowerSpec

(* Whatever input devices come and go between the set-ups and the screen's *)
(* switches, for any panels and any drivers, the screen leaves no device   *)
(* dead but a panel while it is off (common_power_set_interactive,         *)
(* find_input_device_ids).                                                 *)
THEOREM PanelsComeBack == PowerSpec => []InputAlive
<1>1. PowerInv => InputAlive
  BY DEF PowerInv, DeviceInv, InputAlive
<1> QED BY <1>1, PowerHolds, PTL

(* For any file of frequencies and any errors, a hint that is served asks  *)
(* a poker with a looper for a frequency of the CPU, however the set-ups   *)
(* and failing reads interleave with it (common_power_open).               *)
THEOREM HintsAreServed == PowerSpec => []BoostsSound
<1>1. PowerInv => BoostsSound
  BY DEF PowerInv, PokerInv, FreqInv, BoostsSound
<1> QED BY <1>1, PowerHolds, PTL

-------------------------------------------------------------------------------
(***************************************************************************)
(* The keymaster's memory (KeyMemory).                                     *)
(***************************************************************************)
KeySpec == KeyInit /\ [][KeyNext]_keyVars

KeyStep == {"objId", "C_GenerateKeyPair", "blob", "pkcs8", "pkey", "get1_RSA", "modulus",
            "exponent", "C_CreateObject", "privateExponent", "extended", "normal",
            "prime1", "prime2", "exp1", "exp2", "coeff", "C_CreatePrivate",
            "sizes", "values", "RSA_new", "BN_bin2bn_n", "BN_bin2bn_e", "pkey_new",
            "assign_RSA", "i2d_length", "key", "i2d", "C_SignInit", "C_Sign", "finalSignature"}

Extra == {"prime1", "prime2", "exp1", "exp2", "coeff"}

(* What the scoped pointers that a step constructs own, and what a step    *)
(* takes from the ones there are.                                          *)
Owned(s) ==
  {o \in Heap : \/ s = o /\ o \notin {"blob", "finalSignature"}
                \/ s \in {"get1_RSA", "RSA_new"} /\ o = "rsa"
                \/ s = "pkey_new" /\ o = "pkey"
                \/ s = "sizes" /\ o \in Number
                \/ s \in {"normal", "extended"} /\ o = "privateKeyTemplate"}

Needs(s) ==
  {o \in Heap : \/ s = "assign_RSA" /\ o \in {"rsa", "pkey"}
                \/ s = "i2d" /\ o = "key"
                \/ s \in {"normal", "extended"}
                     /\ o \in {"objId", "modulus", "exponent", "privateExponent"}}

(* What every operation's steps, and what is left of them, look like.      *)
Shape(p) ==
  /\ p \in Seq(KeyStep)
  /\ \A i, j \in 1 .. Len(p) : i < j => Owned(p[i]) \cap Owned(p[j]) = {}
  /\ \A i \in 1 .. Len(p) : p[i] \in {"blob", "finalSignature", "i2d"} => i = Len(p)
  /\ \A i, j \in 1 .. Len(p) :
       i < j /\ p[j] \in {"pkey_new", "assign_RSA"} => p[i] \notin {"pkey", "assign_RSA"}
  /\ \A i \in 1 .. Len(p) : p[i] = "sizes" => i = 1
  /\ \A i \in 1 .. Len(p) : p[i] \in Extra => \E j \in 1 .. Len(p) : i < j /\ p[j] = "C_CreatePrivate"
  /\ \A i, j \in 1 .. Len(p) : i < j /\ p[j] \in {"normal", "extended"} => p[i] \notin Extra

(* An operation that has not begun: whatever a step needs, an earlier one  *)
(* provides.                                                               *)
TemplateAhead(p, j) ==
  \/ \E i \in 1 .. Len(p) : p[i] = "normal" /\ j = i + 1
  \/ \E i \in 1 .. Len(p) : /\ p[i] = "extended" /\ j = i + 6
                            /\ \A k \in 1 .. Len(p) : i < k /\ k < j => p[k] \in Extra

Whole(p) ==
  /\ Shape(p) /\ p # <<>>
  /\ \A j \in 1 .. Len(p) : \A o \in Needs(p[j]) :
       \E i \in 1 .. Len(p) : i < j /\ o \in Owned(p[i])
  /\ \A j \in 1 .. Len(p) : p[j] = "C_CreatePrivate" => TemplateAhead(p, j)
  /\ \A j \in 1 .. Len(p) : p[j] = "values" => j > 1 /\ p[1] = "sizes"
  /\ \A j \in 1 .. Len(p) : p[j] \in {"BN_bin2bn_n", "BN_bin2bn_e"} =>
       \E i \in 1 .. Len(p) : i < j /\ p[i] = "values"

(* The steps that are left find what they need.                            *)
RunInv ==
  /\ path # <<>> => given = {} /\ results < MaxResults
  /\ \A j \in 1 .. Len(path) : Owned(path[j]) \cap ToSet(scope) = {}
  /\ \A j \in 1 .. Len(path) : \A o \in Needs(path[j]) :
       o \in ToSet(scope) \/ \E i \in 1 .. Len(path) : i < j /\ o \in Owned(path[i])
  /\ \A j \in 1 .. Len(path) : path[j] \in {"pkey_new", "assign_RSA"} => ~ inside

(* Every reference to an object is a scoped pointer's, the EVP_PKEY's or   *)
(* the client's.                                                           *)
One(b) == IF b THEN 1 ELSE 0

RefsInv ==
  /\ \A i, j \in 1 .. Len(scope) : scope[i] = scope[j] => i = j
  /\ "wrapper" \notin ToSet(scope) /\ refs["wrapper"] >= 0
  /\ \A o \in Heap \ {"wrapper"} :
       refs[o] = One(o \in ToSet(scope)) + One(o = "rsa" /\ inside /\ "pkey" \in ToSet(scope))
                 + One(o \in given)

(* The template has room for what is still to be filled in.                *)
TemplateReady(p, j) ==
  \/ (\A i \in 1 .. Len(p) : i < j => p[i] \in Extra) /\ Len(attrs) + j - 1 = slots
  \/ TemplateAhead(p, j)

TemplateInv ==
  /\ Len(attrs) <= slots
  /\ path # <<>> => \A i \in 1 .. Len(attrs) :
       attrs[i] = "stack" \/ (attrs[i] \in ToSet(scope) /\ attrs[i] # "rsa")
  /\ \A j \in 1 .. Len(path) : path[j] = "C_CreatePrivate" => TemplateReady(path, j)

(* The arrays have room for the numbers, and then their lengths.           *)
Room == \A n \in Number : Actual[n] <= bytes[n].room
Exact == \A n \in Number : bytes[n].mLength = Actual[n] /\ bytes[n].mLength <= bytes[n].room

LengthInv ==
  /\ \A j \in 1 .. Len(path) : path[j] = "values" => (j > 1 /\ path[1] = "sizes") \/ Room
  /\ \A j \in 1 .. Len(path) : path[j] \in {"BN_bin2bn_n", "BN_bin2bn_e"} =>
       \/ \E i \in 1 .. Len(path) : i < j /\ path[i] = "values"
       \/ Exact /\ path[1] # "sizes"

KeyInv == KeyTypeOK /\ Shape(path) /\ RunInv /\ RefsInv /\ TemplateInv /\ LengthInv

(* What a sequence without duplicates holds after it is changed.           *)
LEMMA AppendSet ==
  ASSUME NEW S, NEW s \in Seq(S), NEW o \in S
  PROVE  /\ Append(s, o) \in Seq(S)
         /\ ToSet(Append(s, o)) = ToSet(s) \cup {o}
<1>1. /\ Append(s, o) \in Seq(S) /\ Len(Append(s, o)) = Len(s) + 1
      /\ \A i \in 1 .. Len(s) : Append(s, o)[i] = s[i]
      /\ Append(s, o)[Len(s) + 1] = o
  OBVIOUS
<1>2. DOMAIN s = 1 .. Len(s) /\ DOMAIN Append(s, o) = 1 .. Len(s) + 1 /\ Len(s) \in Nat
  OBVIOUS
<1>3. ASSUME NEW x \in ToSet(Append(s, o)) PROVE x \in ToSet(s) \cup {o}
  <2>1. PICK i \in 1 .. Len(s) + 1 : x = Append(s, o)[i]
    BY <1>2 DEF ToSet
  <2>2. CASE i = Len(s) + 1
    BY <1>1, <2>1, <2>2
  <2>3. CASE i \in 1 .. Len(s)
    BY <1>1, <1>2, <2>1, <2>3 DEF ToSet
  <2> QED BY <1>2, <2>2, <2>3
<1>4. ASSUME NEW x \in ToSet(s) \cup {o} PROVE x \in ToSet(Append(s, o))
  <2>1. CASE x = o
    <3>1. Len(s) + 1 \in 1 .. Len(s) + 1
      BY <1>2
    <3> QED BY <1>1, <1>2, <2>1, <3>1 DEF ToSet
  <2>2. CASE x \in ToSet(s)
    <3>1. PICK i \in 1 .. Len(s) : x = s[i]
      BY <1>2, <2>2 DEF ToSet
    <3>2. i \in 1 .. Len(s) + 1 /\ x = Append(s, o)[i]
      BY <1>1, <1>2, <3>1
    <3> QED BY <1>2, <3>2 DEF ToSet
  <2> QED BY <2>1, <2>2
<1> QED BY <1>1, <1>3, <1>4

Distinct(s) == \A i, j \in 1 .. Len(s) : s[i] = s[j] => i = j

LEMMA AppendDistinct ==
  ASSUME NEW S, NEW s \in Seq(S), NEW o \in S, Distinct(s), o \notin ToSet(s)
  PROVE  Distinct(Append(s, o))
<1>1. /\ Append(s, o) \in Seq(S) /\ Len(Append(s, o)) = Len(s) + 1
      /\ \A i \in 1 .. Len(s) : Append(s, o)[i] = s[i]
      /\ Append(s, o)[Len(s) + 1] = o
  OBVIOUS
<1>2. Len(s) \in Nat /\ \A i \in 1 .. Len(s) : s[i] # o
  BY DEF ToSet
<1> QED BY <1>1, <1>2 DEF Distinct

LEMMA FrontSet ==
  ASSUME NEW S, NEW s \in Seq(S), s # <<>>, Distinct(s)
  PROVE  /\ Front(s) \in Seq(S) /\ Distinct(Front(s))
         /\ Last(s) \in ToSet(s) /\ ToSet(Front(s)) = ToSet(s) \ {Last(s)}
<1>1. /\ Len(s) \in Nat /\ Len(s) >= 1 /\ DOMAIN s = 1 .. Len(s)
  OBVIOUS
<1>2. PICK n \in Nat : Len(s) = n + 1
  <2>1. Len(s) - 1 \in Nat /\ Len(s) = (Len(s) - 1) + 1
    BY <1>1
  <2> QED BY <2>1
<1>3. /\ Front(s) \in Seq(S) /\ Len(Front(s)) = n /\ DOMAIN Front(s) = 1 .. n
      /\ \A i \in 1 .. n : Front(s)[i] = s[i] /\ i \in 1 .. Len(s) /\ i # Len(s)
  <2>1. Len(s) - 1 = n
    BY <1>2
  <2>2. Front(s) = SubSeq(s, 1, n)
    BY <2>1 DEF Front
  <2>3. \A i \in 1 .. n : i \in 1 .. Len(s) /\ i # Len(s)
    BY <1>2
  <2> QED BY <1>1, <1>2, <2>2, <2>3
<1>4. Last(s) = s[Len(s)] /\ Len(s) \in 1 .. Len(s)
  BY <1>1 DEF Last
<1>5. Distinct(Front(s))
  BY <1>3 DEF Distinct
<1>6. \A i \in 1 .. Len(s) : i = Len(s) \/ i \in 1 .. n
  BY <1>1, <1>2
<1>7. ASSUME NEW x \in ToSet(Front(s)) PROVE x \in ToSet(s) \ {Last(s)}
  <2>1. PICK i \in 1 .. n : x = Front(s)[i]
    BY <1>3 DEF ToSet
  <2>2. x = s[i] /\ i \in 1 .. Len(s) /\ s[i] # s[Len(s)]
    BY <2>1, <1>3, <1>4 DEF Distinct
  <2> QED BY <1>1, <1>4, <2>2 DEF ToSet
<1>8. ASSUME NEW x \in ToSet(s) \ {Last(s)} PROVE x \in ToSet(Front(s))
  <2>1. PICK i \in 1 .. Len(s) : x = s[i]
    BY <1>1 DEF ToSet
  <2>2. i \in 1 .. n
    BY <2>1, <1>4, <1>6
  <2> QED BY <2>1, <2>2, <1>3 DEF ToSet
<1>9. Last(s) \in ToSet(s)
  BY <1>1, <1>4 DEF ToSet
<1> QED BY <1>3, <1>5, <1>7, <1>8, <1>9

LEMMA RemoveSet ==
  ASSUME NEW S, NEW s \in Seq(S), NEW k \in 1 .. Len(s), Distinct(s)
  PROVE  /\ RemoveAt(s, k) \in Seq(S) /\ Distinct(RemoveAt(s, k))
         /\ ToSet(RemoveAt(s, k)) = ToSet(s) \ {s[k]}
<1> DEFINE r == RemoveAt(s, k)
<1>1. Len(s) \in Nat /\ DOMAIN s = 1 .. Len(s)
  OBVIOUS
<1>2. PICK n \in Nat : Len(s) = n + 1
  <2>1. Len(s) - 1 \in Nat /\ Len(s) = (Len(s) - 1) + 1
    BY <1>1
  <2> QED BY <2>1
<1>3. /\ r \in Seq(S) /\ Len(r) = n /\ DOMAIN r = 1 .. n
      /\ \A i \in 1 .. n : r[i] = IF i < k THEN s[i] ELSE s[i + 1]
  <2> DEFINE a == SubSeq(s, 1, k - 1)
             b == SubSeq(s, k + 1, Len(s))
  <2>1. a \in Seq(S) /\ Len(a) = k - 1 /\ \A i \in 1 .. k - 1 : a[i] = s[i]
    BY <1>1
  <2>2. b \in Seq(S) /\ Len(b) = Len(s) - k /\ \A i \in 1 .. Len(s) - k : b[i] = s[k + i]
    <3>1. \A i \in k + 1 .. Len(s) : s[i] \in S
      BY <1>1
    <3>2. k + 1 \in Int /\ Len(s) \in Int
      BY <1>1
    <3>3. /\ b \in Seq(S) /\ Len(b) = IF k + 1 <= Len(s) THEN Len(s) - (k + 1) + 1 ELSE 0
          /\ \A i \in 1 .. Len(s) - (k + 1) + 1 : b[i] = s[(k + 1) + i - 1]
      BY <3>1, <3>2, SubSeqProperties
    <3> HIDE DEF b
    <3>4. Len(b) = Len(s) - k
      BY <3>3, <1>1
    <3>5. ASSUME NEW i \in 1 .. Len(s) - k PROVE b[i] = s[k + i]
      <4>1. i \in 1 .. Len(s) - (k + 1) + 1 /\ (k + 1) + i - 1 = k + i
        BY <1>1
      <4> QED BY <3>3, <4>1
    <3> QED BY <3>3, <3>4, <3>5
  <2>3. r = a \o b
    BY DEF RemoveAt
  <2> HIDE DEF a, b, r
  <2>4. /\ r \in Seq(S) /\ Len(r) = Len(a) + Len(b)
        /\ \A i \in 1 .. Len(r) : r[i] = IF i <= Len(a) THEN a[i] ELSE b[i - Len(a)]
    <3>1. /\ a \o b \in Seq(S) /\ Len(a \o b) = Len(a) + Len(b)
          /\ \A i \in 1 .. Len(a) + Len(b) : (a \o b)[i] = IF i <= Len(a) THEN a[i] ELSE b[i - Len(a)]
      BY <2>1, <2>2, ConcatProperties
    <3> QED BY <2>3, <3>1
  <2>5. Len(r) = n
    BY <1>1, <1>2, <2>1, <2>2, <2>4
  <2>6. ASSUME NEW i \in 1 .. n PROVE r[i] = IF i < k THEN s[i] ELSE s[i + 1]
    <3>1. CASE i < k
      BY <3>1, <2>1, <2>4, <2>5
    <3>2. CASE ~ (i < k)
      <4>1. i - Len(a) \in 1 .. Len(s) - k /\ k + (i - Len(a)) = i + 1 /\ ~ (i <= Len(a))
        BY <1>1, <1>2, <2>1, <3>2
      <4>2. b[i - Len(a)] = s[i + 1]
        BY <2>2, <4>1
      <4> QED BY <3>2, <4>1, <4>2, <2>4, <2>5
    <3> QED BY <3>1, <3>2
  <2>7. DOMAIN r = 1 .. n
    BY <2>4, <2>5
  <2> QED BY <2>4, <2>5, <2>6, <2>7
<1> HIDE DEF r
<1>4. Distinct(r)
  <2> SUFFICES ASSUME NEW i \in 1 .. n, NEW j \in 1 .. n, r[i] = r[j] PROVE i = j
    BY <1>3 DEF Distinct
  <2>1. i + 1 \in 1 .. Len(s) /\ i \in 1 .. Len(s) /\ j + 1 \in 1 .. Len(s) /\ j \in 1 .. Len(s)
    BY <1>1, <1>2
  <2>2. r[i] = (IF i < k THEN s[i] ELSE s[i + 1]) /\ r[j] = (IF j < k THEN s[j] ELSE s[j + 1])
    BY <1>3
  <2>3. \A x, y \in 1 .. Len(s) : s[x] = s[y] => x = y
    BY DEF Distinct
  <2> DEFINE x == IF i < k THEN i ELSE i + 1
             y == IF j < k THEN j ELSE j + 1
  <2>4. x \in 1 .. Len(s) /\ y \in 1 .. Len(s) /\ s[x] = s[y]
    BY <2>1, <2>2
  <2>5. x = y
    BY <2>3, <2>4
  <2>6. i \in Nat /\ j \in Nat /\ k \in Nat
    OBVIOUS
  <2> QED BY <2>5, <2>6
<1>5. ASSUME NEW x \in ToSet(r) PROVE x \in ToSet(s) \ {s[k]}
  <2>1. PICK i \in 1 .. n : x = r[i]
    BY <1>3 DEF ToSet
  <2>2. PICK j \in 1 .. Len(s) : x = s[j] /\ j # k
    <3>1. i \in 1 .. Len(s) /\ i + 1 \in 1 .. Len(s)
      BY <1>1, <1>2
    <3> QED BY <3>1, <2>1, <1>3
  <2>3. s[j] # s[k]
    BY <2>2 DEF Distinct
  <2> QED BY <1>1, <2>2, <2>3 DEF ToSet
<1>6. ASSUME NEW x \in ToSet(s) \ {s[k]} PROVE x \in ToSet(r)
  <2>1. PICK j \in 1 .. Len(s) : x = s[j]
    BY <1>1 DEF ToSet
  <2>2. j # k
    BY <2>1
  <2>3. CASE j < k
    <3>1. j \in 1 .. n /\ r[j] = s[j]
      BY <2>3, <1>1, <1>2, <1>3
    <3> QED BY <2>1, <3>1, <1>3 DEF ToSet
  <2>4. CASE j > k
    <3>1. j - 1 \in 1 .. n /\ ~ (j - 1 < k) /\ (j - 1) + 1 = j
      BY <2>4, <1>1, <1>2
    <3>2. r[j - 1] = s[j]
      BY <3>1, <1>3
    <3> QED BY <2>1, <3>1, <3>2, <1>3 DEF ToSet
  <2> QED BY <2>2, <2>3, <2>4
<1> QED BY <1>3, <1>4, <1>5, <1>6 DEF r

-------------------------------------------------------------------------------
LEMMA HeapIs ==
  /\ ToSet(Crt) = Extra
  /\ Heap = {"pkcs8", "pkey", "rsa", "objId", "privateExponent", "privateKeyTemplate",
             "wrapper", "blob", "key", "finalSignature", "modulus", "exponent",
             "prime1", "prime2", "exp1", "exp2", "coeff"}
<1>1. ToSet(Crt) = Extra
  <2>1. DOMAIN Crt = 1 .. 5
    BY DEF Crt
  <2>2. ToSet(Crt) = {Crt[1], Crt[2], Crt[3], Crt[4], Crt[5]}
    BY <2>1 DEF ToSet
  <2> QED BY <2>2 DEF Crt, Extra
<1> QED BY <1>1 DEF Heap, Number, Extra

LEMMA OwnedIs ==
  /\ \A o \in Heap \ {"blob", "finalSignature"} : Owned(o) = {o}
  /\ Owned("get1_RSA") = {"rsa"} /\ Owned("RSA_new") = {"rsa"} /\ Owned("pkey_new") = {"pkey"}
  /\ Owned("sizes") = {"modulus", "exponent"}
  /\ Owned("normal") = {"privateKeyTemplate"} /\ Owned("extended") = {"privateKeyTemplate"}
  /\ \A s \in {"blob", "finalSignature", "assign_RSA", "values", "i2d", "C_GenerateKeyPair",
               "C_CreateObject", "C_CreatePrivate", "BN_bin2bn_n", "BN_bin2bn_e", "i2d_length",
               "C_SignInit", "C_Sign"} : Owned(s) = {}
<1> USE HeapIs
<1>1. \A o \in Heap \ {"blob", "finalSignature"} : Owned(o) = {o}
  BY DEF Owned
<1>2. /\ Owned("get1_RSA") = {"rsa"} /\ Owned("RSA_new") = {"rsa"} /\ Owned("pkey_new") = {"pkey"}
      /\ Owned("sizes") = {"modulus", "exponent"}
      /\ Owned("normal") = {"privateKeyTemplate"} /\ Owned("extended") = {"privateKeyTemplate"}
  BY DEF Owned, Number
<1>3. \A s \in {"blob", "finalSignature", "assign_RSA", "values", "i2d", "C_GenerateKeyPair",
               "C_CreateObject", "C_CreatePrivate", "BN_bin2bn_n", "BN_bin2bn_e", "i2d_length",
               "C_SignInit", "C_Sign"} : Owned(s) = {}
  BY DEF Owned
<1> QED BY <1>1, <1>2, <1>3

LEMMA NeedsIs ==
  /\ Needs("assign_RSA") = {"rsa", "pkey"} /\ Needs("i2d") = {"key"}
  /\ Needs("normal") = {"objId", "modulus", "exponent", "privateExponent"}
  /\ Needs("extended") = {"objId", "modulus", "exponent", "privateExponent"}
  /\ \A s \in KeyStep \ {"assign_RSA", "i2d", "normal", "extended"} : Needs(s) = {}
<1>1. \A s \in KeyStep \ {"assign_RSA", "i2d", "normal", "extended"} : Needs(s) = {}
  BY DEF Needs
<1> QED BY <1>1, HeapIs DEF Needs

LEMMA SmallShapes == Whole(tee_generate_keypair) /\ Whole(tee_sign_data)
<1> USE OwnedIs, HeapIs
<1>1. Whole(tee_generate_keypair)
  <2>1. /\ tee_generate_keypair \in Seq(KeyStep) /\ Len(tee_generate_keypair) = 3
    BY DEF tee_generate_keypair, KeyStep
  <2>2. Shape(tee_generate_keypair)
    BY <2>1 DEF Shape, tee_generate_keypair, Extra
  <2>3. \A j \in 1 .. 3 : Needs(tee_generate_keypair[j]) = {}
    BY NeedsIs DEF tee_generate_keypair, KeyStep
  <2> QED BY <2>1, <2>2, <2>3 DEF Whole, tee_generate_keypair
<1>2. Whole(tee_sign_data)
  <2>1. /\ tee_sign_data \in Seq(KeyStep) /\ Len(tee_sign_data) = 3
    BY DEF tee_sign_data, KeyStep
  <2>2. Shape(tee_sign_data)
    BY <2>1 DEF Shape, tee_sign_data, Extra
  <2>3. \A j \in 1 .. 3 : Needs(tee_sign_data[j]) = {}
    BY NeedsIs DEF tee_sign_data, KeyStep
  <2> QED BY <2>1, <2>2, <2>3 DEF Whole, tee_sign_data
<1> QED BY <1>1, <1>2

LEMMA PublicShape == Whole(tee_get_keypair_public)
<1> DEFINE p == tee_get_keypair_public
<1>1. /\ p \in Seq(KeyStep) /\ Len(p) = 10
  BY DEF tee_get_keypair_public, KeyStep
<1>2. /\ p[1] = "sizes" /\ p[2] = "values" /\ p[3] = "RSA_new" /\ p[4] = "BN_bin2bn_n"
      /\ p[5] = "BN_bin2bn_e" /\ p[6] = "pkey_new" /\ p[7] = "assign_RSA" /\ p[8] = "i2d_length"
      /\ p[9] = "key" /\ p[10] = "i2d"
  BY DEF tee_get_keypair_public
<1> HIDE DEF p
<1>3. \A i \in 1 .. 10 : i = 1 \/ i = 2 \/ i = 3 \/ i = 4 \/ i = 5 \/ i = 6 \/ i = 7 \/ i = 8 \/ i = 9 \/ i = 10
  OBVIOUS
<1>4. \A i, j \in 1 .. Len(p) : i < j => Owned(p[i]) \cap Owned(p[j]) = {}
  <2>1. /\ Owned(p[1]) = {"modulus", "exponent"} /\ Owned(p[2]) = {} /\ Owned(p[3]) = {"rsa"}
        /\ Owned(p[4]) = {} /\ Owned(p[5]) = {} /\ Owned(p[6]) = {"pkey"} /\ Owned(p[7]) = {}
        /\ Owned(p[8]) = {} /\ Owned(p[9]) = {"key"} /\ Owned(p[10]) = {}
    BY <1>2, OwnedIs, HeapIs
  <2> QED BY <2>1, <1>1, <1>3
<1>5. /\ \A i \in 1 .. Len(p) : p[i] \in {"blob", "finalSignature", "i2d"} => i = Len(p)
      /\ \A i, j \in 1 .. Len(p) :
           i < j /\ p[j] \in {"pkey_new", "assign_RSA"} => p[i] \notin {"pkey", "assign_RSA"}
      /\ \A i \in 1 .. Len(p) : p[i] = "sizes" => i = 1
      /\ \A i \in 1 .. Len(p) : p[i] \notin Extra
  BY <1>1, <1>2, <1>3 DEF Extra
<1>6. Shape(p)
  BY <1>1, <1>4, <1>5 DEF Shape
<1>7. ASSUME NEW j \in 1 .. Len(p), NEW o \in Needs(p[j])
      PROVE  \E i \in 1 .. Len(p) : i < j /\ o \in Owned(p[i])
  <2>1. \A i \in 1 .. 10 : i \notin {7, 10} => Needs(p[i]) = {}
    BY <1>1, <1>2, <1>3, NeedsIs DEF KeyStep
  <2>2. CASE j = 7
    <3>1. o \in {"rsa", "pkey"}
      BY <2>2, <1>2, <1>7, NeedsIs
    <3>2. Owned(p[3]) = {"rsa"} /\ Owned(p[6]) = {"pkey"} /\ 3 \in 1 .. Len(p) /\ 6 \in 1 .. Len(p)
      BY <1>1, <1>2, OwnedIs
    <3> QED BY <2>2, <3>1, <3>2
  <2>3. CASE j = 10
    <3>1. o = "key"
      BY <2>3, <1>2, <1>7, NeedsIs
    <3>2. Owned(p[9]) = {"key"} /\ 9 \in 1 .. Len(p)
      BY <1>1, <1>2, OwnedIs, HeapIs
    <3> QED BY <2>3, <3>1, <3>2
  <2> QED BY <1>1, <1>7, <2>1, <2>2, <2>3
<1>8. /\ \A j \in 1 .. Len(p) : p[j] = "values" => j > 1 /\ p[1] = "sizes"
      /\ \A j \in 1 .. Len(p) : p[j] # "C_CreatePrivate"
  BY <1>1, <1>2, <1>3
<1>9. \A j \in 1 .. Len(p) : p[j] \in {"BN_bin2bn_n", "BN_bin2bn_e"} =>
        \E i \in 1 .. Len(p) : i < j /\ p[i] = "values"
  <2>1. \A j \in 1 .. Len(p) : p[j] \in {"BN_bin2bn_n", "BN_bin2bn_e"} => 2 < j
    BY <1>1, <1>2, <1>3
  <2>2. 2 \in 1 .. Len(p) /\ p[2] = "values"
    BY <1>1, <1>2
  <2> QED BY <2>1, <2>2
<1>10. p # <<>>
  <2>1. Len(p) = 10
    BY <1>1
  <2> QED BY <2>1
<1>11. Whole(p)
  BY <1>6, <1>7, <1>8, <1>9, <1>10 DEF Whole
<1> QED BY <1>11 DEF p

LEMMA ExtendedShape == Whole(tee_import_keypair(TRUE))
<1> DEFINE p == tee_import_keypair(TRUE)
<1>1. /\ p \in Seq(KeyStep) /\ Len(p) = 16
      /\ p[1] = "pkcs8" /\ p[2] = "pkey" /\ p[3] = "get1_RSA" /\ p[4] = "modulus"
      /\ p[5] = "exponent" /\ p[6] = "objId" /\ p[7] = "C_CreateObject"
      /\ p[8] = "privateExponent" /\ p[9] = "extended" /\ p[10] = "prime1"
      /\ p[11] = "prime2" /\ p[12] = "exp1" /\ p[13] = "exp2" /\ p[14] = "coeff"
      /\ p[15] = "C_CreatePrivate" /\ p[16] = "blob"
  BY DEF tee_import_keypair, KeyStep, Crt
<1> HIDE DEF p
<1>2. \A i \in 1 .. 16 : \/ i = 1 \/ i = 2 \/ i = 3 \/ i = 4 \/ i = 5 \/ i = 6 \/ i = 7 \/ i = 8
                       \/ i = 9 \/ i = 10 \/ i = 11 \/ i = 12 \/ i = 13 \/ i = 14 \/ i = 15
                       \/ i = 16
  OBVIOUS
<1>3. \A i, j \in 1 .. Len(p) : i < j => Owned(p[i]) \cap Owned(p[j]) = {}
  <2>1. /\ Owned(p[1]) = {"pkcs8"} /\ Owned(p[2]) = {"pkey"} /\ Owned(p[3]) = {"rsa"}
        /\ Owned(p[4]) = {"modulus"} /\ Owned(p[5]) = {"exponent"}
        /\ Owned(p[6]) = {"objId"} /\ Owned(p[7]) = {}
        /\ Owned(p[8]) = {"privateExponent"} /\ Owned(p[9]) = {"privateKeyTemplate"}
        /\ Owned(p[10]) = {"prime1"} /\ Owned(p[11]) = {"prime2"}
        /\ Owned(p[12]) = {"exp1"} /\ Owned(p[13]) = {"exp2"}
        /\ Owned(p[14]) = {"coeff"} /\ Owned(p[15]) = {} /\ Owned(p[16]) = {}
    BY <1>1, OwnedIs, HeapIs
  <2> DEFINE place == [pkcs8 |-> 1, pkey |-> 2, rsa |-> 3, modulus |-> 4, exponent |-> 5,
                       objId |-> 6, privateExponent |-> 8, privateKeyTemplate |-> 9,
                       prime1 |-> 10, prime2 |-> 11, exp1 |-> 12, exp2 |-> 13, coeff |-> 14]
  <2>2. \A i \in 1 .. 16 : \A o \in Owned(p[i]) : i = place[o]
    BY <2>1, <1>2
  <2> HIDE DEF place
  <2>3. ASSUME NEW i \in 1 .. 16, NEW j \in 1 .. 16, i < j, NEW o \in Owned(p[i])
        PROVE  o \notin Owned(p[j])
    BY <2>2, <2>3
  <2> QED BY <2>3, <1>1
<1>4. /\ \A i \in 1 .. Len(p) : p[i] \in {"blob", "finalSignature", "i2d"} => i = Len(p)
      /\ \A i \in 1 .. Len(p) : p[i] \notin {"pkey_new", "assign_RSA", "sizes"}
  BY <1>1, <1>2
<1>5. /\ \A i \in 1 .. Len(p) : p[i] \in Extra => \E j \in 1 .. Len(p) : i < j /\ p[j] = "C_CreatePrivate"
      /\ \A i, j \in 1 .. Len(p) : i < j /\ p[j] \in {"normal", "extended"} => p[i] \notin Extra
  <2>1. /\ \A i \in 1 .. 9 : p[i] \notin Extra
        /\ \A i \in 10 .. 16 : p[i] \notin {"normal", "extended"}
        /\ \A i \in 15 .. 16 : p[i] \notin Extra
    BY <1>1 DEF Extra
  <2>2. p[15] = "C_CreatePrivate" /\ Len(p) = 16
    BY <1>1
  <2>3. ASSUME NEW i \in 1 .. Len(p), p[i] \in Extra
        PROVE  \E j \in 1 .. Len(p) : i < j /\ p[j] = "C_CreatePrivate"
    <3>1. i < 15 /\ 15 \in 1 .. Len(p)
      BY <2>1, <2>2, <2>3
    <3> QED BY <2>2, <3>1
  <2>4. ASSUME NEW i \in 1 .. Len(p), NEW j \in 1 .. Len(p), i < j, p[j] \in {"normal", "extended"}
        PROVE  p[i] \notin Extra
    BY <2>1, <2>2, <2>4
  <2> QED BY <2>3, <2>4
<1>6. Shape(p)
  BY <1>1, <1>3, <1>4, <1>5 DEF Shape
<1>7. ASSUME NEW j \in 1 .. Len(p), NEW o \in Needs(p[j])
      PROVE  \E i \in 1 .. Len(p) : i < j /\ o \in Owned(p[i])
  <2>1. \A i \in 1 .. 16 : i # 9 => Needs(p[i]) = {}
    BY <1>1, <1>2, NeedsIs DEF KeyStep
  <2>2. j = 9
    BY <1>1, <1>7, <2>1
  <2>3. o \in {"objId", "modulus", "exponent", "privateExponent"}
    BY <2>2, <1>1, <1>7, NeedsIs
  <2>4. /\ Owned(p[4]) = {"modulus"} /\ Owned(p[5]) = {"exponent"} /\ Owned(p[6]) = {"objId"}
        /\ Owned(p[8]) = {"privateExponent"}
    BY <1>1, OwnedIs, HeapIs
  <2>5. 4 \in 1 .. Len(p) /\ 5 \in 1 .. Len(p) /\ 6 \in 1 .. Len(p) /\ 8 \in 1 .. Len(p)
    BY <1>1
  <2> QED BY <2>2, <2>3, <2>4, <2>5
<1>8. \A j \in 1 .. Len(p) : p[j] = "C_CreatePrivate" => TemplateAhead(p, j)
  <2>1. \A j \in 1 .. Len(p) : p[j] = "C_CreatePrivate" => j = 15
    BY <1>1, <1>2
  <2>2. 9 \in 1 .. Len(p) /\ p[9] = "extended" /\ 15 = 9 + 6
    BY <1>1
  <2>3. \A k \in 1 .. Len(p) : 9 < k /\ k < 15 => p[k] \in Extra
    BY <1>1 DEF Extra
  <2>4. TemplateAhead(p, 15)
    BY <2>2, <2>3 DEF TemplateAhead
  <2> QED BY <2>1, <2>4
<1>9. \A j \in 1 .. Len(p) : p[j] \notin {"values", "BN_bin2bn_n", "BN_bin2bn_e"}
  BY <1>1, <1>2
<1>10. p # <<>>
  <2>1. Len(p) = 16
    BY <1>1
  <2> QED BY <2>1
<1>11. Whole(p)
  BY <1>6, <1>7, <1>8, <1>9, <1>10 DEF Whole
<1> QED BY <1>11 DEF p

LEMMA NormalShape == Whole(tee_import_keypair(FALSE))
<1> DEFINE p == tee_import_keypair(FALSE)
<1>1. /\ p \in Seq(KeyStep) /\ Len(p) = 11
      /\ p[1] = "pkcs8" /\ p[2] = "pkey" /\ p[3] = "get1_RSA" /\ p[4] = "modulus"
      /\ p[5] = "exponent" /\ p[6] = "objId" /\ p[7] = "C_CreateObject"
      /\ p[8] = "privateExponent" /\ p[9] = "normal" /\ p[10] = "C_CreatePrivate"
      /\ p[11] = "blob"
  BY DEF tee_import_keypair, KeyStep, Crt
<1> HIDE DEF p
<1>2. \A i \in 1 .. 11 : \/ i = 1 \/ i = 2 \/ i = 3 \/ i = 4 \/ i = 5 \/ i = 6 \/ i = 7 \/ i = 8
                       \/ i = 9 \/ i = 10 \/ i = 11
  OBVIOUS
<1>3. \A i, j \in 1 .. Len(p) : i < j => Owned(p[i]) \cap Owned(p[j]) = {}
  <2>1. /\ Owned(p[1]) = {"pkcs8"} /\ Owned(p[2]) = {"pkey"} /\ Owned(p[3]) = {"rsa"}
        /\ Owned(p[4]) = {"modulus"} /\ Owned(p[5]) = {"exponent"}
        /\ Owned(p[6]) = {"objId"} /\ Owned(p[7]) = {}
        /\ Owned(p[8]) = {"privateExponent"} /\ Owned(p[9]) = {"privateKeyTemplate"}
        /\ Owned(p[10]) = {} /\ Owned(p[11]) = {}
    BY <1>1, OwnedIs, HeapIs
  <2> QED BY <2>1, <1>1, <1>2
<1>4. /\ \A i \in 1 .. Len(p) : p[i] \in {"blob", "finalSignature", "i2d"} => i = Len(p)
      /\ \A i \in 1 .. Len(p) : p[i] \notin {"pkey_new", "assign_RSA", "sizes"}
  BY <1>1, <1>2
<1>5. /\ \A i \in 1 .. Len(p) : p[i] \in Extra => \E j \in 1 .. Len(p) : i < j /\ p[j] = "C_CreatePrivate"
      /\ \A i, j \in 1 .. Len(p) : i < j /\ p[j] \in {"normal", "extended"} => p[i] \notin Extra
  <2>1. \A i \in 1 .. Len(p) : p[i] \notin Extra
    BY <1>1, <1>2 DEF Extra
  <2> QED BY <2>1
<1>6. Shape(p)
  BY <1>1, <1>3, <1>4, <1>5 DEF Shape
<1>7. ASSUME NEW j \in 1 .. Len(p), NEW o \in Needs(p[j])
      PROVE  \E i \in 1 .. Len(p) : i < j /\ o \in Owned(p[i])
  <2>1. \A i \in 1 .. 11 : i # 9 => Needs(p[i]) = {}
    BY <1>1, <1>2, NeedsIs DEF KeyStep
  <2>2. j = 9
    BY <1>1, <1>7, <2>1
  <2>3. o \in {"objId", "modulus", "exponent", "privateExponent"}
    BY <2>2, <1>1, <1>7, NeedsIs
  <2>4. /\ Owned(p[4]) = {"modulus"} /\ Owned(p[5]) = {"exponent"} /\ Owned(p[6]) = {"objId"}
        /\ Owned(p[8]) = {"privateExponent"}
    BY <1>1, OwnedIs, HeapIs
  <2>5. 4 \in 1 .. Len(p) /\ 5 \in 1 .. Len(p) /\ 6 \in 1 .. Len(p) /\ 8 \in 1 .. Len(p)
    BY <1>1
  <2> QED BY <2>2, <2>3, <2>4, <2>5
<1>8. \A j \in 1 .. Len(p) : p[j] = "C_CreatePrivate" => TemplateAhead(p, j)
  <2>1. \A j \in 1 .. Len(p) : p[j] = "C_CreatePrivate" => j = 10
    BY <1>1, <1>2
  <2>2. 9 \in 1 .. Len(p) /\ p[9] = "normal" /\ 10 = 9 + 1
    BY <1>1
  <2>3. TemplateAhead(p, 10)
    BY <2>2 DEF TemplateAhead
  <2> QED BY <2>1, <2>3
<1>9. \A j \in 1 .. Len(p) : p[j] \notin {"values", "BN_bin2bn_n", "BN_bin2bn_e"}
  BY <1>1, <1>2
<1>10. p # <<>>
  <2>1. Len(p) = 11
    BY <1>1
  <2> HIDE DEF p
  <2>2. SUFFICES ASSUME p = <<>> PROVE FALSE
    OBVIOUS
  <2>3. Len(p) = 0
    BY <2>2
  <2> QED BY <2>1, <2>3
<1>11. Whole(p)
  BY <1>6, <1>7, <1>8, <1>9, <1>10 DEF Whole
<1> QED BY <1>11 DEF p

-------------------------------------------------------------------------------
LEMMA KeyInitial == KeyInit => KeyInv
<1> SUFFICES ASSUME KeyInit PROVE KeyInv
  OBVIOUS
<1> USE DEF KeyInit
<1>0. path = <<>> /\ Len(path) = 0 /\ Len(scope) = 0 /\ Len(attrs) = 0 /\ ToSet(scope) = {}
  BY DEF ToSet
<1>1. KeyTypeOK
  <2>1. refs \in [Heap -> Int] /\ ulValueLen \in [Number -> Nat]
    OBVIOUS
  <2>2. bytes \in [Number -> [mLength : Nat, room : Nat]]
    BY DEF ByteArray
  <2>3. scope \in Seq(Heap) /\ attrs \in Seq(Heap \cup {"stack"})
    OBVIOUS
  <2>4. results \in 0 .. MaxResults
    BY KeyMemoryAssumption
  <2> QED BY <2>1, <2>2, <2>3, <2>4 DEF KeyTypeOK
<1>2. Shape(path)
  BY <1>0 DEF Shape
<1>3. RunInv
  BY <1>0 DEF RunInv
<1>4. RefsInv
  BY <1>0, HeapIs DEF RefsInv, One
<1>5. TemplateInv
  BY <1>0 DEF TemplateInv
<1>6. LengthInv
  BY <1>0 DEF LengthInv
<1> QED BY <1>1, <1>2, <1>3, <1>4, <1>5, <1>6 DEF KeyInv

(* A step taken off the path leaves a path of the same shape.              *)
LEMMA TailIs ==
  ASSUME NEW p \in Seq(KeyStep), p # <<>>
  PROVE  /\ Tail(p) \in Seq(KeyStep) /\ Len(p) \in Nat /\ Len(p) >= 1
         /\ Len(Tail(p)) = Len(p) - 1 /\ p[1] \in KeyStep /\ Head(p) = p[1]
         /\ \A i \in 1 .. Len(Tail(p)) : Tail(p)[i] = p[i + 1] /\ i + 1 \in 1 .. Len(p)
         /\ \A j \in 1 .. Len(p) : j = 1 \/ (j - 1 \in 1 .. Len(Tail(p)) /\ Tail(p)[j - 1] = p[j])
<1>1. Len(p) \in Nat /\ Len(p) >= 1
  OBVIOUS
<1>2. /\ Tail(p) \in Seq(KeyStep) /\ Len(Tail(p)) = Len(p) - 1
      /\ p[1] \in KeyStep /\ Head(p) = p[1]
      /\ \A i \in 1 .. Len(Tail(p)) : Tail(p)[i] = p[i + 1]
  BY <1>1
<1>3. \A i \in 1 .. Len(Tail(p)) : i + 1 \in 1 .. Len(p)
  BY <1>1, <1>2
<1>4. ASSUME NEW j \in 1 .. Len(p), j # 1
      PROVE  j - 1 \in 1 .. Len(Tail(p)) /\ Tail(p)[j - 1] = p[j]
  <2>1. j - 1 \in 1 .. Len(Tail(p)) /\ (j - 1) + 1 = j
    BY <1>1, <1>2, <1>4
  <2> QED BY <1>2, <2>1
<1> QED BY <1>1, <1>2, <1>3, <1>4

LEMMA TailShape ==
  ASSUME NEW p, Shape(p), p # <<>>
  PROVE  Shape(Tail(p))
<1> DEFINE q == Tail(p)
<1>0. p \in Seq(KeyStep)
  BY DEF Shape
<1>1. /\ q \in Seq(KeyStep) /\ Len(p) \in Nat /\ Len(q) = Len(p) - 1
      /\ \A i \in 1 .. Len(q) : q[i] = p[i + 1] /\ i + 1 \in 1 .. Len(p)
      /\ \A j \in 1 .. Len(p) : j = 1 \/ (j - 1 \in 1 .. Len(q) /\ q[j - 1] = p[j])
  BY <1>0, TailIs
<1> HIDE DEF q
<1>2. ASSUME NEW i \in 1 .. Len(q), NEW j \in 1 .. Len(q), i < j
      PROVE  /\ Owned(q[i]) \cap Owned(q[j]) = {}
             /\ q[j] \in {"pkey_new", "assign_RSA"} => q[i] \notin {"pkey", "assign_RSA"}
             /\ q[j] \in {"normal", "extended"} => q[i] \notin Extra
  <2>1. i + 1 \in 1 .. Len(p) /\ j + 1 \in 1 .. Len(p) /\ i + 1 < j + 1
    BY <1>1, <1>2
  <2> QED BY <1>1, <2>1 DEF Shape
<1>3. ASSUME NEW i \in 1 .. Len(q)
      PROVE  /\ q[i] \in {"blob", "finalSignature", "i2d"} => i = Len(q)
             /\ q[i] = "sizes" => i = 1
  <2>1. i + 1 \in 1 .. Len(p) /\ q[i] = p[i + 1] /\ i + 1 # 1
    BY <1>1
  <2>2. p[i + 1] \in {"blob", "finalSignature", "i2d"} => i + 1 = Len(p)
    BY <2>1 DEF Shape
  <2>3. p[i + 1] # "sizes"
    BY <2>1 DEF Shape
  <2> QED BY <1>1, <2>1, <2>2, <2>3
<1>4. ASSUME NEW i \in 1 .. Len(q), q[i] \in Extra
      PROVE  \E j \in 1 .. Len(q) : i < j /\ q[j] = "C_CreatePrivate"
  <2>1. i + 1 \in 1 .. Len(p) /\ p[i + 1] \in Extra
    BY <1>1, <1>4
  <2>2. PICK j \in 1 .. Len(p) : i + 1 < j /\ p[j] = "C_CreatePrivate"
    BY <2>1 DEF Shape
  <2>3. j # 1
    BY <2>1, <2>2
  <2>4. j - 1 \in 1 .. Len(q) /\ q[j - 1] = "C_CreatePrivate" /\ i < j - 1
    BY <1>1, <2>2, <2>3
  <2> QED BY <2>4
<1>5. Shape(q)
  BY <1>1, <1>2, <1>3, <1>4 DEF Shape
<1> QED BY <1>5 DEF q

(* What is left of a call after a step of it.                              *)
LEMMA RunMoves ==
  ASSUME KeyInv, path # <<>>, path' = Tail(path),
         \/ path' = <<>>
         \/ ToSet(scope') = ToSet(scope) \cup Owned(path[1])
         \/ path[1] = "assign_RSA" /\ ToSet(scope') = ToSet(scope) \ {"rsa"},
         inside' => inside \/ path[1] \in {"pkey", "assign_RSA"},
         path' = <<>> \/ UNCHANGED <<given, results>>
  PROVE  Shape(path)' /\ RunInv'
<1>0. Shape(path) /\ RunInv
  BY DEF KeyInv
<1>1. Shape(path)'
  BY <1>0, TailShape DEF Shape
<1>2. path \in Seq(KeyStep)
  BY <1>0 DEF Shape
<1>3. /\ Len(path) \in Nat /\ Len(path) >= 1 /\ Len(path') = Len(path) - 1 /\ path[1] \in KeyStep
      /\ \A i \in 1 .. Len(path') : path'[i] = path[i + 1] /\ i + 1 \in 1 .. Len(path)
      /\ \A j \in 1 .. Len(path) : j = 1 \/ (j - 1 \in 1 .. Len(path') /\ path'[j - 1] = path[j])
  BY <1>2, TailIs
<1>4. CASE path' = <<>>
  <2>1. Len(path') = 0
    <3>1. Len(<<>>) = 0
      OBVIOUS
    <3> QED BY <1>4, <3>1, Zenon
  <2> QED BY <1>1, <1>4, <2>1 DEF RunInv
<1>5. CASE path' # <<>>
  <2>0. \/ ToSet(scope') = ToSet(scope) \cup Owned(path[1])
        \/ path[1] = "assign_RSA" /\ ToSet(scope') = ToSet(scope) \ {"rsa"}
    BY <1>5
  <2>1. given' = {} /\ results' < MaxResults
    BY <1>0, <1>5 DEF RunInv
  <2>2. ASSUME NEW j \in 1 .. Len(path') PROVE Owned(path'[j]) \cap ToSet(scope') = {}
    <3>1. j + 1 \in 1 .. Len(path) /\ path'[j] = path[j + 1] /\ 1 \in 1 .. Len(path) /\ 1 < j + 1
      BY <1>3
    <3>2. Owned(path[j + 1]) \cap ToSet(scope) = {} /\ Owned(path[1]) \cap Owned(path[j + 1]) = {}
      BY <1>0, <3>1 DEF RunInv, Shape
    <3> QED BY <2>0, <3>1, <3>2
  <2>3. ASSUME NEW j \in 1 .. Len(path'), NEW o \in Needs(path'[j])
        PROVE  o \in ToSet(scope') \/ \E i \in 1 .. Len(path') : i < j /\ o \in Owned(path'[i])
    <3>1. j + 1 \in 1 .. Len(path) /\ path'[j] = path[j + 1] /\ 1 \in 1 .. Len(path) /\ 1 < j + 1
      BY <1>3
    <3>2. CASE o \in ToSet(scope)
      <4>1. CASE path[1] = "assign_RSA"
        <5>1. path[j + 1] # "assign_RSA"
          BY <1>0, <3>1, <4>1 DEF Shape
        <5>2. o # "rsa"
          BY <2>3, <3>1, <5>1 DEF Needs
        <5> QED BY <2>0, <3>2, <5>2
      <4> QED BY <2>0, <3>2, <4>1
    <3>3. CASE o \notin ToSet(scope)
      <4>1. PICK i \in 1 .. Len(path) : i < j + 1 /\ o \in Owned(path[i])
        BY <1>0, <2>3, <3>1, <3>3 DEF RunInv
      <4>2. CASE i = 1
        <5>1. path[1] # "assign_RSA"
          BY <4>1, <4>2, OwnedIs
        <5> QED BY <2>0, <4>1, <4>2, <5>1
      <4>3. CASE i # 1
        <5>1. i - 1 \in 1 .. Len(path') /\ i - 1 < j /\ o \in Owned(path'[i - 1])
          BY <1>3, <4>1, <4>3
        <5> QED BY <5>1
      <4> QED BY <4>2, <4>3
    <3> QED BY <3>2, <3>3
  <2>4. ASSUME NEW j \in 1 .. Len(path'), path'[j] \in {"pkey_new", "assign_RSA"} PROVE ~ inside'
    <3>1. j + 1 \in 1 .. Len(path) /\ path'[j] = path[j + 1] /\ 1 \in 1 .. Len(path) /\ 1 < j + 1
      BY <1>3
    <3>2. ~ inside /\ path[1] \notin {"pkey", "assign_RSA"}
      BY <1>0, <2>4, <3>1 DEF RunInv, Shape
    <3> QED BY <3>2
  <2>5. RunInv'
    BY <2>1, <2>2, <2>3, <2>4 DEF RunInv
  <2> QED BY <1>1, <2>5
<1> QED BY <1>4, <1>5

LEMMA TemplateMoves ==
  ASSUME KeyInv, path # <<>>, path' = Tail(path), UNCHANGED <<attrs, slots>>,
         path[1] \notin {"normal", "extended"} \cup Extra,
         path' = <<>> \/ ToSet(scope) \ {"rsa"} \subseteq ToSet(scope')
  PROVE  TemplateInv'
<1>0. Shape(path) /\ TemplateInv
  BY DEF KeyInv
<1>2. path \in Seq(KeyStep)
  BY <1>0 DEF Shape
<1>3. /\ Len(path) \in Nat /\ Len(path) >= 1 /\ Len(path') = Len(path) - 1 /\ path[1] \in KeyStep
      /\ \A i \in 1 .. Len(path') : path'[i] = path[i + 1] /\ i + 1 \in 1 .. Len(path)
      /\ \A j \in 1 .. Len(path) : j = 1 \/ (j - 1 \in 1 .. Len(path') /\ path'[j - 1] = path[j])
  BY <1>2, TailIs
<1>4. ASSUME NEW j \in 1 .. Len(path'), path'[j] = "C_CreatePrivate" PROVE TemplateReady(path, j)'
  <2>1. j + 1 \in 1 .. Len(path) /\ path[j + 1] = "C_CreatePrivate" /\ 1 < j + 1 /\ 1 \in 1 .. Len(path)
    BY <1>3, <1>4
  <2>2. TemplateReady(path, j + 1)
    BY <1>0, <2>1 DEF TemplateInv
  <2>3. TemplateAhead(path, j + 1)
    BY <2>1, <2>2 DEF TemplateReady
  <2>4. TemplateAhead(path', j)
    <3>1. CASE \E i \in 1 .. Len(path) : path[i] = "normal" /\ j + 1 = i + 1
      <4>1. PICK i \in 1 .. Len(path) : path[i] = "normal" /\ j + 1 = i + 1
        BY <3>1
      <4>2. i # 1
        BY <4>1
      <4>3. i - 1 \in 1 .. Len(path') /\ path'[i - 1] = "normal" /\ j = (i - 1) + 1
        BY <1>3, <4>1, <4>2
      <4> QED BY <4>3 DEF TemplateAhead
    <3>2. CASE \E i \in 1 .. Len(path) :
                 /\ path[i] = "extended" /\ j + 1 = i + 6
                 /\ \A k \in 1 .. Len(path) : i < k /\ k < j + 1 => path[k] \in Extra
      <4>1. PICK i \in 1 .. Len(path) :
                 /\ path[i] = "extended" /\ j + 1 = i + 6
                 /\ \A k \in 1 .. Len(path) : i < k /\ k < j + 1 => path[k] \in Extra
        BY <3>2
      <4>2. i # 1
        BY <4>1
      <4>3. i - 1 \in 1 .. Len(path') /\ path'[i - 1] = "extended" /\ j = (i - 1) + 6
        BY <1>3, <4>1, <4>2
      <4>4. ASSUME NEW k \in 1 .. Len(path'), i - 1 < k, k < j PROVE path'[k] \in Extra
        <5>1. k + 1 \in 1 .. Len(path) /\ i < k + 1 /\ k + 1 < j + 1 /\ path'[k] = path[k + 1]
          BY <1>3, <4>4
        <5> QED BY <4>1, <5>1
      <4> QED BY <4>3, <4>4 DEF TemplateAhead
    <3> QED BY <2>3, <3>1, <3>2 DEF TemplateAhead
  <2> QED BY <2>4 DEF TemplateReady
<1> QED BY <1>0, <1>4 DEF TemplateInv

LEMMA LengthMoves ==
  ASSUME KeyInv, path # <<>>, path' = Tail(path), UNCHANGED bytes,
         path[1] \notin {"sizes", "values"}
  PROVE  LengthInv'
<1>0. Shape(path) /\ LengthInv
  BY DEF KeyInv
<1>2. path \in Seq(KeyStep)
  BY <1>0 DEF Shape
<1>3. /\ Len(path) \in Nat /\ Len(path) >= 1 /\ Len(path') = Len(path) - 1 /\ path[1] \in KeyStep
      /\ \A i \in 1 .. Len(path') : path'[i] = path[i + 1] /\ i + 1 \in 1 .. Len(path)
      /\ \A j \in 1 .. Len(path) : j = 1 \/ (j - 1 \in 1 .. Len(path') /\ path'[j - 1] = path[j])
  BY <1>2, TailIs
<1>4. ASSUME NEW j \in 1 .. Len(path'), path'[j] = "values" PROVE Room'
  <2>1. j + 1 \in 1 .. Len(path) /\ path[j + 1] = "values"
    BY <1>3, <1>4
  <2>2. Room
    BY <1>0, <2>1 DEF LengthInv
  <2> QED BY <2>2 DEF Room
<1>5. ASSUME NEW j \in 1 .. Len(path'), path'[j] \in {"BN_bin2bn_n", "BN_bin2bn_e"}
      PROVE  \/ \E i \in 1 .. Len(path') : i < j /\ path'[i] = "values"
             \/ Exact' /\ path'[1] # "sizes"
  <2>1. j + 1 \in 1 .. Len(path) /\ path[j + 1] \in {"BN_bin2bn_n", "BN_bin2bn_e"}
    BY <1>3, <1>5
  <2>2. CASE \E i \in 1 .. Len(path) : i < j + 1 /\ path[i] = "values"
    <3>1. PICK i \in 1 .. Len(path) : i < j + 1 /\ path[i] = "values"
      BY <2>2
    <3>2. i - 1 \in 1 .. Len(path') /\ i - 1 < j /\ path'[i - 1] = "values"
      BY <1>3, <3>1
    <3> QED BY <3>2
  <2>3. CASE Exact
    <3>1. Exact'
      BY <2>3 DEF Exact
    <3>2. 1 \in 1 .. Len(path') /\ path'[1] = path[2] /\ 2 \in 1 .. Len(path)
      BY <1>3
    <3>3. path[2] # "sizes"
      BY <1>0, <3>2 DEF Shape
    <3> QED BY <3>1, <3>2, <3>3
  <2> QED BY <1>0, <2>1, <2>2, <2>3 DEF LengthInv
<1> QED BY <1>4, <1>5 DEF LengthInv

-------------------------------------------------------------------------------
LEMMA AtIs ==
  ASSUME Shape(path), NEW s, At(s)
  PROVE  path # <<>> /\ path[1] = s /\ Head(path) = s /\ 1 \in 1 .. Len(path)
<1>1. path \in Seq(KeyStep) /\ path # <<>> /\ Head(path) = s
  BY DEF Shape, At
<1> QED BY <1>1, TailIs

(* A scoped pointer to something new.                                      *)
LEMMA OwnKeeps ==
  ASSUME KeyInv, path # <<>>, NEW o \in Heap \ {"wrapper"}, Owned(path[1]) = {o}, Own(o),
         UNCHANGED <<inside, given>>, o = "pkey" => ~ inside
  PROVE  /\ RefsInv' /\ scope' \in Seq(Heap) /\ refs' \in [Heap -> Int]
         /\ ToSet(scope') = ToSet(scope) \cup Owned(path[1])
<1>0. RefsInv /\ scope \in Seq(Heap) /\ refs \in [Heap -> Int]
  BY DEF KeyInv, KeyTypeOK
<1>1. o \notin ToSet(scope)
  <2>1. path \in Seq(KeyStep) /\ 1 \in 1 .. Len(path)
    BY DEF KeyInv, Shape
  <2> QED BY <2>1 DEF KeyInv, RunInv
<1>2. scope' = Append(scope, o) /\ refs' = [refs EXCEPT ![o] = @ + 1]
  BY DEF Own
<1>3. scope' \in Seq(Heap) /\ ToSet(scope') = ToSet(scope) \cup {o}
  BY <1>0, <1>2, AppendSet
<1>4. \A i, j \in 1 .. Len(scope') : scope'[i] = scope'[j] => i = j
  <2>1. Distinct(scope)
    BY <1>0 DEF RefsInv, Distinct
  <2>2. Distinct(Append(scope, o))
    BY <2>1, <1>0, <1>1, AppendDistinct
  <2> QED BY <2>2, <1>2 DEF Distinct
<1>5. refs' \in [Heap -> Int]
  BY <1>0, <1>2
<1>6. "wrapper" \notin ToSet(scope') /\ refs'["wrapper"] >= 0
  BY <1>0, <1>2, <1>3, HeapIs DEF RefsInv
<1>7. ASSUME NEW x \in Heap \ {"wrapper"}
      PROVE  refs'[x] = One(x \in ToSet(scope'))
                        + One(x = "rsa" /\ inside /\ "pkey" \in ToSet(scope')) + One(x \in given)
  <2>1. refs[x] = One(x \in ToSet(scope))
                  + One(x = "rsa" /\ inside /\ "pkey" \in ToSet(scope)) + One(x \in given)
    BY <1>0 DEF RefsInv
  <2>2. inside => ("pkey" \in ToSet(scope') <=> "pkey" \in ToSet(scope))
    BY <1>3
  <2>3. One(x = "rsa" /\ inside /\ "pkey" \in ToSet(scope'))
          = One(x = "rsa" /\ inside /\ "pkey" \in ToSet(scope))
    BY <2>2 DEF One
  <2>4. refs'[x] = IF x = o THEN refs[x] + 1 ELSE refs[x]
    BY <1>0, <1>2
  <2>5. One(x \in ToSet(scope')) = IF x = o THEN One(x \in ToSet(scope)) + 1 ELSE One(x \in ToSet(scope))
    BY <1>1, <1>3 DEF One
  <2>6. /\ One(x \in ToSet(scope)) \in Int /\ One(x \in given) \in Int
        /\ One(x = "rsa" /\ inside /\ "pkey" \in ToSet(scope)) \in Int
    BY DEF One
  <2> QED BY <2>1, <2>3, <2>4, <2>5, <2>6
<1>8. RefsInv'
  BY <1>4, <1>6, <1>7 DEF RefsInv
<1> QED BY <1>3, <1>5, <1>8

(* A step that takes its place on the path and does nothing else that the  *)
(* rest of the call would notice.                                          *)
LEMMA PlainMoves ==
  ASSUME KeyInv, path # <<>>, path' = Tail(path), UNCHANGED <<attrs, slots, bytes, given, results>>,
         path[1] \notin {"normal", "extended", "sizes", "values", "assign_RSA"} \cup Extra,
         ToSet(scope') = ToSet(scope) \cup Owned(path[1]),
         inside' => inside \/ path[1] = "pkey"
  PROVE  Shape(path)' /\ RunInv' /\ TemplateInv' /\ LengthInv'
BY RunMoves, TemplateMoves, LengthMoves

LEMMA AllocateKeeps ==
  ASSUME KeyInv, NEW o \in {"pkcs8", "objId", "key", "modulus", "exponent", "privateExponent"},
         Allocate(o)
  PROVE  KeyInv'
<1>1. path # <<>> /\ path[1] = o
  BY AtIs DEF Allocate, KeyInv
<1>2. Owned(path[1]) = {o} /\ o \in Heap \ {"wrapper"}
  BY <1>1, OwnedIs, HeapIs
<1>3. /\ RefsInv' /\ scope' \in Seq(Heap) /\ refs' \in [Heap -> Int]
      /\ ToSet(scope') = ToSet(scope) \cup Owned(path[1])
  BY <1>1, <1>2, OwnKeeps DEF Allocate
<1>4. Shape(path)' /\ RunInv' /\ TemplateInv' /\ LengthInv'
  BY <1>1, <1>3, PlainMoves DEF Allocate, Done, Extra
<1>5. KeyTypeOK'
  BY <1>3 DEF KeyInv, KeyTypeOK, Allocate
<1> QED BY <1>3, <1>4, <1>5 DEF KeyInv

LEMMA EvpKeyKeeps ==
  ASSUME KeyInv, EvpKey
  PROVE  KeyInv'
<1>0. /\ path' = Tail(path)
      /\ UNCHANGED <<attrs, slots, ulValueLen, bytes, given, results, died>>
  BY DEF EvpKey, Done
<1>1. CASE At("pkey") /\ scope' = Append(scope, "pkey") /\ inside' = TRUE
           /\ refs' = [refs EXCEPT !["pkey"] = @ + 1, !["rsa"] = @ + 1]
  <2>1. path # <<>> /\ path[1] = "pkey" /\ 1 \in 1 .. Len(path)
    BY <1>1, AtIs DEF KeyInv
  <2>2. Owned(path[1]) = {"pkey"} /\ "pkey" \in Heap /\ "rsa" \in Heap
    BY <2>1, OwnedIs, HeapIs
  <2>3. "pkey" \notin ToSet(scope)
    BY <2>1, <2>2 DEF KeyInv, RunInv
  <2>4. RefsInv /\ scope \in Seq(Heap) /\ refs \in [Heap -> Int]
    BY DEF KeyInv, KeyTypeOK
  <2>5. scope' \in Seq(Heap) /\ ToSet(scope') = ToSet(scope) \cup {"pkey"}
    BY <1>1, <2>2, <2>4, AppendSet
  <2>6. \A i, j \in 1 .. Len(scope') : scope'[i] = scope'[j] => i = j
    <3>1. Distinct(scope)
      BY <2>4 DEF RefsInv, Distinct
    <3>2. Distinct(Append(scope, "pkey"))
      BY <3>1, <2>2, <2>3, <2>4, AppendDistinct
    <3> QED BY <3>2, <1>1 DEF Distinct
  <2>7. /\ refs' \in [Heap -> Int]
        /\ \A x \in Heap : refs'[x] = IF x \in {"pkey", "rsa"} THEN refs[x] + 1 ELSE refs[x]
    <3> DEFINE r == [refs EXCEPT !["pkey"] = @ + 1]
    <3>1. r \in [Heap -> Int] /\ \A x \in Heap : r[x] = IF x = "pkey" THEN refs[x] + 1 ELSE refs[x]
      BY <2>2, <2>4
    <3>2. refs' = [r EXCEPT !["rsa"] = @ + 1]
      BY <1>1
    <3> HIDE DEF r
    <3>3. /\ refs' \in [Heap -> Int]
          /\ \A x \in Heap : refs'[x] = IF x = "rsa" THEN r[x] + 1 ELSE r[x]
      BY <3>1, <3>2, <2>2
    <3> QED BY <3>1, <3>3
  <2>8. "wrapper" \notin ToSet(scope') /\ refs'["wrapper"] >= 0
    BY <2>4, <2>5, <2>7, HeapIs DEF RefsInv
  <2>9. ASSUME NEW x \in Heap \ {"wrapper"}
        PROVE  refs'[x] = One(x \in ToSet(scope'))
                          + One(x = "rsa" /\ inside' /\ "pkey" \in ToSet(scope')) + One(x \in given')
    <3>1. refs[x] = One(x \in ToSet(scope))
                    + One(x = "rsa" /\ inside /\ "pkey" \in ToSet(scope)) + One(x \in given)
      BY <2>4 DEF RefsInv
    <3>2. /\ One(x = "rsa" /\ inside /\ "pkey" \in ToSet(scope)) = 0
          /\ One(x = "rsa" /\ inside' /\ "pkey" \in ToSet(scope')) = IF x = "rsa" THEN 1 ELSE 0
      BY <1>1, <2>3, <2>5 DEF One
    <3>3. One(x \in ToSet(scope')) = IF x = "pkey" THEN One(x \in ToSet(scope)) + 1 ELSE One(x \in ToSet(scope))
      BY <2>3, <2>5 DEF One
    <3>4. One(x \in ToSet(scope)) \in Int /\ One(x \in given) \in Int /\ given' = given
      BY <1>0 DEF One
    <3>5. refs'[x] = IF x \in {"pkey", "rsa"} THEN refs[x] + 1 ELSE refs[x]
      BY <2>7
    <3>6. CASE x = "pkey"
      BY <3>1, <3>2, <3>3, <3>4, <3>5, <3>6
    <3>7. CASE x = "rsa"
      BY <3>1, <3>2, <3>3, <3>4, <3>5, <3>7
    <3>8. CASE x \notin {"pkey", "rsa"}
      BY <3>1, <3>2, <3>3, <3>4, <3>5, <3>8
    <3> QED BY <3>6, <3>7, <3>8
  <2>10. RefsInv'
    BY <2>6, <2>8, <2>9 DEF RefsInv
  <2>11. Shape(path)' /\ RunInv' /\ TemplateInv' /\ LengthInv'
    BY <1>0, <2>1, <2>2, <2>5, PlainMoves DEF Extra
  <2>12. KeyTypeOK'
    BY <1>0, <1>1, <2>5, <2>7 DEF KeyInv, KeyTypeOK
  <2> QED BY <2>10, <2>11, <2>12 DEF KeyInv
<1>2. CASE \E s \in {"get1_RSA", "RSA_new", "pkey_new"} :
             At(s) /\ Own(IF s = "pkey_new" THEN "pkey" ELSE "rsa") /\ UNCHANGED inside
  <2>1. PICK s \in {"get1_RSA", "RSA_new", "pkey_new"} :
             At(s) /\ Own(IF s = "pkey_new" THEN "pkey" ELSE "rsa") /\ UNCHANGED inside
    BY <1>2
  <2>2. PICK o \in {"rsa", "pkey"} : o = IF s = "pkey_new" THEN "pkey" ELSE "rsa"
    OBVIOUS
  <2>3. path # <<>> /\ path[1] = s /\ 1 \in 1 .. Len(path)
    BY <2>1, AtIs DEF KeyInv
  <2>4. Owned(path[1]) = {o} /\ o \in Heap \ {"wrapper"}
    BY <2>2, <2>3, OwnedIs, HeapIs
  <2>5. o = "pkey" => ~ inside
    BY <2>2, <2>3 DEF KeyInv, RunInv
  <2>6. /\ RefsInv' /\ scope' \in Seq(Heap) /\ refs' \in [Heap -> Int]
        /\ ToSet(scope') = ToSet(scope) \cup Owned(path[1])
    BY <1>0, <2>1, <2>2, <2>3, <2>4, <2>5, OwnKeeps
  <2>7. Shape(path)' /\ RunInv' /\ TemplateInv' /\ LengthInv'
    BY <1>0, <2>1, <2>3, <2>6, PlainMoves DEF Extra
  <2>8. KeyTypeOK'
    BY <1>0, <2>1, <2>6 DEF KeyInv, KeyTypeOK
  <2> QED BY <2>6, <2>7, <2>8 DEF KeyInv
<1> QED BY <1>1, <1>2 DEF EvpKey

LEMMA CallKeeps ==
  ASSUME KeyInv, NEW s, Call(s)
  PROVE  KeyInv'
<1>1. path # <<>> /\ path[1] = s
  BY AtIs DEF Call, KeyInv
<1>2. /\ s \in {"C_GenerateKeyPair", "C_CreateObject", "C_CreatePrivate", "BN_bin2bn_n",
               "BN_bin2bn_e", "i2d_length", "C_SignInit", "C_Sign"}
      /\ path' = Tail(path)
      /\ UNCHANGED <<refs, scope, inside, attrs, slots, ulValueLen, bytes, given, results, died>>
  BY DEF Call, Done
<1>3. Owned(path[1]) = {}
  BY <1>1, <1>2, OwnedIs
<1>4. Shape(path)' /\ RunInv' /\ TemplateInv' /\ LengthInv'
  BY <1>1, <1>2, <1>3, PlainMoves DEF Extra
<1>5. RefsInv'
  BY <1>2 DEF KeyInv, RefsInv
<1>6. KeyTypeOK'
  BY <1>2 DEF KeyInv, KeyTypeOK
<1> QED BY <1>4, <1>5, <1>6 DEF KeyInv

LEMMA AssignKeeps ==
  ASSUME KeyInv, AssignRsa
  PROVE  KeyInv'
<1>0. /\ path' = Tail(path) /\ inside' = TRUE
      /\ UNCHANGED <<refs, attrs, slots, ulValueLen, bytes, given, results, died>>
  BY DEF AssignRsa, Done
<1>1. path # <<>> /\ path[1] = "assign_RSA" /\ 1 \in 1 .. Len(path)
  BY AtIs DEF AssignRsa, KeyInv
<1>2. RefsInv /\ scope \in Seq(Heap) /\ refs \in [Heap -> Int]
  BY DEF KeyInv, KeyTypeOK
<1>3. PICK k \in 1 .. Len(scope) : scope[k] = "rsa" /\ scope' = RemoveAt(scope, k)
  BY <1>2 DEF AssignRsa, OWNERSHIP_TRANSFERRED
<1>4. /\ scope' \in Seq(Heap) /\ Distinct(scope') /\ ToSet(scope') = ToSet(scope) \ {"rsa"}
  <2>1. Distinct(scope)
    BY <1>2 DEF RefsInv, Distinct
  <2> QED BY <2>1, <1>2, <1>3, RemoveSet
<1>5. "rsa" \in ToSet(scope) /\ "pkey" \in ToSet(scope) /\ ~ inside
  <2>1. "rsa" \in Needs(path[1]) /\ "pkey" \in Needs(path[1])
    BY <1>1, NeedsIs
  <2>2. ~ inside
    BY <1>1 DEF KeyInv, RunInv
  <2>3. ~ \E i \in 1 .. Len(path) : i < 1
    OBVIOUS
  <2> QED BY <1>1, <2>1, <2>2, <2>3 DEF KeyInv, RunInv
<1>6. ASSUME NEW x \in Heap \ {"wrapper"}
      PROVE  refs'[x] = One(x \in ToSet(scope'))
                        + One(x = "rsa" /\ inside' /\ "pkey" \in ToSet(scope')) + One(x \in given')
  <2>1. refs[x] = One(x \in ToSet(scope))
                  + One(x = "rsa" /\ inside /\ "pkey" \in ToSet(scope)) + One(x \in given)
    BY <1>2 DEF RefsInv
  <2>2. One(x \in given) \in Int /\ given' = given /\ refs' = refs
    BY <1>0 DEF One
  <2>3. CASE x = "rsa"
    <3>1. /\ One(x \in ToSet(scope)) = 1 /\ One(x = "rsa" /\ inside /\ "pkey" \in ToSet(scope)) = 0
      BY <1>5, <2>3 DEF One
    <3>2. /\ One(x \in ToSet(scope')) = 0 /\ One(x = "rsa" /\ inside' /\ "pkey" \in ToSet(scope')) = 1
      BY <1>0, <1>4, <1>5, <2>3 DEF One
    <3> QED BY <2>1, <2>2, <3>1, <3>2
  <2>4. CASE x # "rsa"
    <3>1. /\ One(x \in ToSet(scope)) = One(x \in ToSet(scope'))
          /\ One(x = "rsa" /\ inside /\ "pkey" \in ToSet(scope)) = 0
          /\ One(x = "rsa" /\ inside' /\ "pkey" \in ToSet(scope')) = 0
      BY <1>4, <2>4 DEF One
    <3> QED BY <2>1, <2>2, <3>1
  <2> QED BY <2>3, <2>4
<1>7. RefsInv'
  BY <1>0, <1>2, <1>4, <1>6 DEF RefsInv, Distinct
<1>8. Shape(path)' /\ RunInv' /\ TemplateInv' /\ LengthInv'
  <2>1. ToSet(scope) \ {"rsa"} \subseteq ToSet(scope')
    BY <1>4
  <2> QED BY <1>0, <1>1, <1>4, <2>1, RunMoves, TemplateMoves, LengthMoves DEF Extra
<1>9. KeyTypeOK'
  BY <1>0, <1>4 DEF KeyInv, KeyTypeOK
<1> QED BY <1>7, <1>8, <1>9 DEF KeyInv

LEMMA TemplateKeeps ==
  ASSUME KeyInv, PrivateKeyTemplate
  PROVE  KeyInv'
<1>0. /\ path' = Tail(path) /\ Own("privateKeyTemplate")
      /\ attrs' = <<"objId", "stack", "stack", "stack", "stack", "stack", "modulus", "exponent",
                    "privateExponent">>
      /\ UNCHANGED <<inside, ulValueLen, bytes, given, results, died>>
  BY DEF PrivateKeyTemplate, Done
<1>a. PICK s \in {"normal", "extended"} : /\ At(s)
                                          /\ slots' = IF s = "extended" THEN 14 ELSE 9
  BY DEF PrivateKeyTemplate, PRIV_ATTRIB_EXTENDED_NUM, PRIV_ATTRIB_NORMAL_NUM
<1>1. path # <<>> /\ path[1] = s /\ 1 \in 1 .. Len(path)
  BY <1>a, AtIs DEF KeyInv
<1>2. Owned(path[1]) = {"privateKeyTemplate"} /\ "privateKeyTemplate" \in Heap \ {"wrapper"}
  BY <1>1, OwnedIs, HeapIs
<1>3. /\ RefsInv' /\ scope' \in Seq(Heap) /\ refs' \in [Heap -> Int]
      /\ ToSet(scope') = ToSet(scope) \cup Owned(path[1])
  BY <1>0, <1>1, <1>2, OwnKeeps
<1>4. Shape(path)' /\ RunInv'
  BY <1>0, <1>1, <1>3, RunMoves
<1>5. LengthInv'
  BY <1>0, <1>1, LengthMoves
<1>6. Len(attrs') = 9 /\ \A i \in 1 .. 9 :
        attrs'[i] \in {"stack", "objId", "modulus", "exponent", "privateExponent"}
  BY <1>0
<1>7. {"objId", "modulus", "exponent", "privateExponent"} \subseteq ToSet(scope')
  <2>1. Needs(path[1]) = {"objId", "modulus", "exponent", "privateExponent"}
    BY <1>1, NeedsIs
  <2>2. ~ \E i \in 1 .. Len(path) : i < 1
    OBVIOUS
  <2>3. Needs(path[1]) \subseteq ToSet(scope)
    BY <1>1, <2>2 DEF KeyInv, RunInv
  <2> QED BY <1>3, <2>1, <2>3
<1>8. ASSUME NEW j \in 1 .. Len(path'), path'[j] = "C_CreatePrivate" PROVE TemplateReady(path, j)'
  <2>0. path \in Seq(KeyStep)
    BY DEF KeyInv, Shape
  <2>1. /\ Len(path) \in Nat /\ Len(path) >= 1 /\ Len(path') = Len(path) - 1
        /\ \A i \in 1 .. Len(path') : path'[i] = path[i + 1] /\ i + 1 \in 1 .. Len(path)
        /\ \A i \in 1 .. Len(path) : i = 1 \/ (i - 1 \in 1 .. Len(path') /\ path'[i - 1] = path[i])
    BY <1>0, <1>1, <2>0, TailIs
  <2>2. j + 1 \in 1 .. Len(path) /\ path[j + 1] = "C_CreatePrivate" /\ 1 < j + 1
    BY <1>8, <2>1
  <2>3. TemplateReady(path, j + 1)
    BY <2>2 DEF KeyInv, TemplateInv
  <2>4. path[1] \notin Extra
    BY <1>1 DEF Extra
  <2>5. TemplateAhead(path, j + 1)
    BY <1>1, <2>2, <2>3, <2>4 DEF TemplateReady
  <2>6. CASE \E i \in 1 .. Len(path) : path[i] = "normal" /\ j + 1 = i + 1
    <3>1. PICK i \in 1 .. Len(path) : path[i] = "normal" /\ j + 1 = i + 1
      BY <2>6
    <3>2. CASE i = 1
      <4>1. j = 1 /\ slots' = 9
        BY <1>1, <1>a, <3>1, <3>2
      <4>2. Len(attrs') + j - 1 = slots' /\ \A k \in 1 .. Len(path') : ~ (k < j)
        BY <1>6, <4>1
      <4> QED BY <4>2 DEF TemplateReady
    <3>3. CASE i # 1
      <4>1. i - 1 \in 1 .. Len(path') /\ path'[i - 1] = "normal" /\ j = (i - 1) + 1
        BY <2>1, <3>1, <3>3
      <4> QED BY <4>1 DEF TemplateReady, TemplateAhead
    <3> QED BY <3>2, <3>3
  <2>7. CASE \E i \in 1 .. Len(path) :
               /\ path[i] = "extended" /\ j + 1 = i + 6
               /\ \A k \in 1 .. Len(path) : i < k /\ k < j + 1 => path[k] \in Extra
    <3>1. PICK i \in 1 .. Len(path) :
               /\ path[i] = "extended" /\ j + 1 = i + 6
               /\ \A k \in 1 .. Len(path) : i < k /\ k < j + 1 => path[k] \in Extra
      BY <2>7
    <3>2. ASSUME NEW k \in 1 .. Len(path'), i - 1 < k, k < j PROVE path'[k] \in Extra
      <4>1. k + 1 \in 1 .. Len(path) /\ i < k + 1 /\ k + 1 < j + 1 /\ path'[k] = path[k + 1]
        BY <2>1, <3>2
      <4> QED BY <3>1, <4>1
    <3>3. CASE i = 1
      <4>1. j = 6 /\ slots' = 14
        BY <1>1, <1>a, <3>1, <3>3
      <4>2. Len(attrs') + j - 1 = slots'
        BY <1>6, <4>1
      <4>3. \A k \in 1 .. Len(path') : k < j => path'[k] \in Extra
        BY <3>2, <3>3
      <4> QED BY <4>2, <4>3 DEF TemplateReady
    <3>4. CASE i # 1
      <4>1. i - 1 \in 1 .. Len(path') /\ path'[i - 1] = "extended" /\ j = (i - 1) + 6
        BY <2>1, <3>1, <3>4
      <4> QED BY <4>1, <3>2 DEF TemplateReady, TemplateAhead
    <3> QED BY <3>3, <3>4
  <2> QED BY <2>5, <2>6, <2>7 DEF TemplateAhead
<1>9. TemplateInv'
  <2>1. Len(attrs') <= slots'
    BY <1>a, <1>6
  <2>2. \A i \in 1 .. Len(attrs') :
          attrs'[i] = "stack" \/ (attrs'[i] \in ToSet(scope') /\ attrs'[i] # "rsa")
    BY <1>6, <1>7
  <2> QED BY <1>8, <2>1, <2>2 DEF TemplateInv
<1>10. KeyTypeOK'
  <2>1. attrs' \in Seq(Heap \cup {"stack"})
    BY <1>0, HeapIs
  <2>2. slots' \in {0, PRIV_ATTRIB_NORMAL_NUM, PRIV_ATTRIB_EXTENDED_NUM}
    BY <1>a DEF PRIV_ATTRIB_EXTENDED_NUM, PRIV_ATTRIB_NORMAL_NUM
  <2> QED BY <1>0, <1>3, <2>1, <2>2 DEF KeyInv, KeyTypeOK
<1> QED BY <1>3, <1>4, <1>5, <1>9, <1>10 DEF KeyInv

LEMMA ExtraKeeps ==
  ASSUME KeyInv, NEW o \in Heap, ExtraData(o)
  PROVE  KeyInv'
<1>0. /\ path' = Tail(path) /\ Own(o) /\ attrs' = Append(attrs, o)
      /\ UNCHANGED <<inside, slots, ulValueLen, bytes, given, results, died>>
  BY DEF ExtraData, Done, set_attribute
<1>1. path # <<>> /\ path[1] = o /\ 1 \in 1 .. Len(path) /\ o \in Extra
  BY AtIs, HeapIs DEF KeyInv, ExtraData
<1>2. Owned(path[1]) = {o} /\ o \in Heap \ {"wrapper"} /\ o # "pkey" /\ o # "rsa"
      /\ o \notin {"sizes", "values"}
  BY <1>1, OwnedIs, HeapIs DEF Extra
<1>3. /\ RefsInv' /\ scope' \in Seq(Heap) /\ refs' \in [Heap -> Int]
      /\ ToSet(scope') = ToSet(scope) \cup Owned(path[1])
  BY <1>0, <1>1, <1>2, OwnKeeps
<1>4. Shape(path)' /\ RunInv'
  BY <1>0, <1>1, <1>3, RunMoves
<1>5. LengthInv'
  BY <1>0, <1>1, <1>2, LengthMoves
<1>6. /\ attrs \in Seq(Heap \cup {"stack"}) /\ o \in Heap \cup {"stack"} /\ Shape(path) /\ TemplateInv
      /\ slots \in Nat
  BY DEF KeyInv, KeyTypeOK, PRIV_ATTRIB_EXTENDED_NUM, PRIV_ATTRIB_NORMAL_NUM
<1>7. /\ attrs' \in Seq(Heap \cup {"stack"}) /\ Len(attrs') = Len(attrs) + 1 /\ Len(attrs) \in Nat
      /\ \A i \in 1 .. Len(attrs) : attrs'[i] = attrs[i]
      /\ attrs'[Len(attrs) + 1] = o
  BY <1>0, <1>6
<1>8. path \in Seq(KeyStep)
  BY <1>6 DEF Shape
<1>9. /\ Len(path) \in Nat /\ Len(path) >= 1 /\ Len(path') = Len(path) - 1
      /\ \A i \in 1 .. Len(path') : path'[i] = path[i + 1] /\ i + 1 \in 1 .. Len(path)
      /\ \A i \in 1 .. Len(path) : i = 1 \/ (i - 1 \in 1 .. Len(path') /\ path'[i - 1] = path[i])
  BY <1>0, <1>1, <1>8, TailIs
<1>10. ASSUME NEW j \in 1 .. Len(path'), path'[j] = "C_CreatePrivate"
       PROVE  /\ \A i \in 1 .. Len(path') : i < j => path'[i] \in Extra
              /\ Len(attrs') + j - 1 = slots
  <2>2. j + 1 \in 1 .. Len(path) /\ path[j + 1] = "C_CreatePrivate" /\ 1 < j + 1
    BY <1>9, <1>10
  <2>3. TemplateReady(path, j + 1)
    BY <2>2, <1>6 DEF TemplateInv
  <2>4. CASE (\A i \in 1 .. Len(path) : i < j + 1 => path[i] \in Extra) /\ Len(attrs) + (j + 1) - 1 = slots
    <3>1. \A i \in 1 .. Len(path') : i < j => path'[i] \in Extra
      BY <1>9, <2>4
    <3>2. Len(attrs') + j - 1 = slots
      BY <1>7, <2>4
    <3> QED BY <3>1, <3>2
  <2>5. CASE TemplateAhead(path, j + 1)
    <3>1. PICK i \in 1 .. Len(path) : path[i] \in {"normal", "extended"} /\ i < j + 1
      BY <2>2, <2>5 DEF TemplateAhead
    <3>2. i # 1
      BY <1>1, <3>1 DEF Extra
    <3>3. FALSE
      BY <1>1, <1>6, <1>9, <3>1, <3>2 DEF Shape
    <3> QED BY <3>3
  <2> QED BY <2>3, <2>4, <2>5 DEF TemplateReady
<1>11. Len(attrs') <= slots
  <2>1. PICK j \in 1 .. Len(path) : 1 < j /\ path[j] = "C_CreatePrivate"
    BY <1>1, <1>6 DEF Shape
  <2>2. TemplateReady(path, j)
    BY <2>1, <1>6 DEF TemplateInv
  <2>3. CASE Len(attrs) + j - 1 = slots
    BY <1>6, <1>7, <2>1, <2>3
  <2>4. CASE TemplateAhead(path, j)
    <3>1. PICK i \in 1 .. Len(path) : path[i] \in {"normal", "extended"} /\ i < j
      BY <2>1, <2>4 DEF TemplateAhead
    <3>2. i # 1
      BY <1>1, <3>1 DEF Extra
    <3>3. FALSE
      BY <1>1, <1>6, <1>9, <3>1, <3>2 DEF Shape
    <3> QED BY <3>3
  <2> QED BY <2>2, <2>3, <2>4 DEF TemplateReady
<1>12. TemplateInv'
  <2>1. ASSUME NEW i \in 1 .. Len(attrs')
        PROVE  attrs'[i] = "stack" \/ (attrs'[i] \in ToSet(scope') /\ attrs'[i] # "rsa")
    <3>1. CASE i = Len(attrs) + 1
      BY <1>2, <1>3, <1>7, <3>1
    <3>2. CASE i \in 1 .. Len(attrs)
      BY <1>1, <1>3, <1>6, <1>7, <3>2 DEF TemplateInv
    <3> QED BY <1>7, <3>1, <3>2
  <2> QED BY <1>0, <1>10, <1>11, <2>1 DEF TemplateInv, TemplateReady
<1>13. KeyTypeOK'
  BY <1>0, <1>3, <1>7 DEF KeyInv, KeyTypeOK
<1> QED BY <1>3, <1>4, <1>5, <1>12, <1>13 DEF KeyInv

LEMMA SizesKeep ==
  ASSUME KeyInv, C_GetAttributeValue, At("sizes")
  PROVE  KeyInv'
<1>1. path # <<>> /\ path[1] = "sizes" /\ 1 \in 1 .. Len(path)
  BY AtIs DEF KeyInv
<1>2. ~ At("values")
  BY <1>1, AtIs DEF KeyInv
<1>0. /\ path' = Tail(path)
      /\ \E more \in [Number -> Slack] : ulValueLen' = [n \in Number |-> Actual[n] + more[n]]
      /\ bytes' = [n \in Number |-> ByteArray(ulValueLen'[n])]
      /\ scope' = scope \o <<"modulus", "exponent">>
      /\ refs' = [o \in Heap |-> IF o \in Number THEN refs[o] + 1 ELSE refs[o]]
      /\ UNCHANGED <<inside, attrs, slots, given, results, died>>
  BY <1>2 DEF C_GetAttributeValue, Done
<1>3. Owned(path[1]) = Number /\ Number \subseteq Heap /\ {"modulus", "exponent"} = Number
  BY <1>1, OwnedIs, HeapIs DEF Number
<1>4. RefsInv /\ scope \in Seq(Heap) /\ refs \in [Heap -> Int]
  BY DEF KeyInv, KeyTypeOK
<1>5. "modulus" \notin ToSet(scope) /\ "exponent" \notin ToSet(scope)
  BY <1>1, <1>3 DEF KeyInv, RunInv
<1>6. /\ scope' \in Seq(Heap) /\ Distinct(scope')
      /\ ToSet(scope') = ToSet(scope) \cup Number
  <2> DEFINE one == Append(scope, "modulus")
  <2>1. scope' = Append(one, "exponent")
    BY <1>0, <1>4
  <2>2. Distinct(scope)
    BY <1>4 DEF RefsInv, Distinct
  <2>3. one \in Seq(Heap) /\ Distinct(one) /\ ToSet(one) = ToSet(scope) \cup {"modulus"}
    BY <1>3, <1>4, <1>5, <2>2, AppendSet, AppendDistinct
  <2> HIDE DEF one
  <2>4. "exponent" \notin ToSet(one)
    BY <1>5, <2>3
  <2> QED BY <1>3, <2>1, <2>3, <2>4, AppendSet, AppendDistinct
<1>7. refs' \in [Heap -> Int]
  BY <1>0, <1>4
<1>8. "wrapper" \notin ToSet(scope') /\ refs'["wrapper"] >= 0
  BY <1>0, <1>4, <1>6, HeapIs DEF RefsInv, Number
<1>9. ASSUME NEW x \in Heap \ {"wrapper"}
      PROVE  refs'[x] = One(x \in ToSet(scope'))
                        + One(x = "rsa" /\ inside /\ "pkey" \in ToSet(scope')) + One(x \in given)
  <2>1. refs[x] = One(x \in ToSet(scope))
                  + One(x = "rsa" /\ inside /\ "pkey" \in ToSet(scope)) + One(x \in given)
    BY <1>4 DEF RefsInv
  <2>2. One(x = "rsa" /\ inside /\ "pkey" \in ToSet(scope'))
          = One(x = "rsa" /\ inside /\ "pkey" \in ToSet(scope))
    BY <1>6 DEF One, Number
  <2>3. refs'[x] = IF x \in Number THEN refs[x] + 1 ELSE refs[x]
    BY <1>0
  <2>4. One(x \in ToSet(scope')) = IF x \in Number THEN One(x \in ToSet(scope)) + 1 ELSE One(x \in ToSet(scope))
    BY <1>3, <1>5, <1>6 DEF One
  <2>5. /\ One(x \in ToSet(scope)) \in Int /\ One(x \in given) \in Int
        /\ One(x = "rsa" /\ inside /\ "pkey" \in ToSet(scope)) \in Int
    BY DEF One
  <2> QED BY <2>1, <2>2, <2>3, <2>4, <2>5
<1>10. RefsInv'
  BY <1>0, <1>6, <1>8, <1>9 DEF RefsInv, Distinct
<1>11. Shape(path)' /\ RunInv' /\ TemplateInv'
  BY <1>0, <1>1, <1>3, <1>6, RunMoves, TemplateMoves DEF Extra
<1>12. /\ ulValueLen' \in [Number -> Nat] /\ \A n \in Number : Actual[n] <= ulValueLen'[n]
  <2>1. PICK more \in [Number -> Slack] : ulValueLen' = [n \in Number |-> Actual[n] + more[n]]
    BY <1>0
  <2>2. \A n \in Number : more[n] \in Nat /\ Actual[n] \in Nat
    BY KeyMemoryAssumption DEF Number
  <2> QED BY <2>1, <2>2
<1>13. bytes' \in [Number -> [mLength : Nat, room : Nat]] /\ Room'
  BY <1>0, <1>12 DEF ByteArray, Room
<1>14. LengthInv'
  <2>0. Shape(path) /\ LengthInv /\ path \in Seq(KeyStep)
    BY DEF KeyInv, Shape
  <2>1. /\ Len(path) \in Nat /\ Len(path') = Len(path) - 1
        /\ \A i \in 1 .. Len(path') : path'[i] = path[i + 1] /\ i + 1 \in 1 .. Len(path)
        /\ \A i \in 1 .. Len(path) : i = 1 \/ (i - 1 \in 1 .. Len(path') /\ path'[i - 1] = path[i])
    BY <1>0, <1>1, <2>0, TailIs
  <2>2. ASSUME NEW j \in 1 .. Len(path'), path'[j] \in {"BN_bin2bn_n", "BN_bin2bn_e"}
        PROVE  \E i \in 1 .. Len(path') : i < j /\ path'[i] = "values"
    <3>1. j + 1 \in 1 .. Len(path) /\ path[j + 1] \in {"BN_bin2bn_n", "BN_bin2bn_e"}
      BY <2>1, <2>2
    <3>2. PICK i \in 1 .. Len(path) : i < j + 1 /\ path[i] = "values"
      BY <1>1, <2>0, <3>1 DEF LengthInv
    <3>3. i # 1
      BY <1>1, <3>2
    <3>4. i - 1 \in 1 .. Len(path') /\ i - 1 < j /\ path'[i - 1] = "values"
      BY <2>1, <3>2, <3>3
    <3> QED BY <3>4
  <2> QED BY <1>13, <2>2 DEF LengthInv
<1>15. KeyTypeOK'
  BY <1>0, <1>6, <1>7, <1>12, <1>13 DEF KeyInv, KeyTypeOK
<1> QED BY <1>10, <1>11, <1>14, <1>15 DEF KeyInv

LEMMA ValuesKeep ==
  ASSUME KeyInv, C_GetAttributeValue, At("values")
  PROVE  KeyInv'
<1>1. path # <<>> /\ path[1] = "values" /\ 1 \in 1 .. Len(path)
  BY AtIs DEF KeyInv
<1>2. ~ At("sizes")
  BY <1>1, AtIs DEF KeyInv
<1>0. /\ path' = Tail(path) /\ ulValueLen' = Actual
      /\ bytes' = [n \in Number |-> setLength(bytes[n], ulValueLen'[n])]
      /\ UNCHANGED <<refs, scope, inside, attrs, slots, given, results, died>>
  BY <1>2 DEF C_GetAttributeValue, Done
<1>3. Owned(path[1]) = {}
  BY <1>1, OwnedIs
<1>4. RefsInv'
  BY <1>0 DEF KeyInv, RefsInv
<1>5. Shape(path)' /\ RunInv' /\ TemplateInv'
  BY <1>0, <1>1, <1>3, RunMoves, TemplateMoves DEF Extra
<1>6. Actual \in [Number -> Nat]
  BY KeyMemoryAssumption DEF Number
<1>7. /\ bytes' \in [Number -> [mLength : Nat, room : Nat]]
      /\ \A n \in Number : bytes'[n].mLength = Actual[n] /\ bytes'[n].room = bytes[n].room
  BY <1>0, <1>6 DEF setLength, KeyInv, KeyTypeOK
<1>8. Room
  BY <1>1 DEF KeyInv, LengthInv
<1>9. Room' /\ Exact'
  BY <1>7, <1>8 DEF Room, Exact
<1>10. LengthInv'
  <2>0. Shape(path) /\ path \in Seq(KeyStep)
    BY DEF KeyInv, Shape
  <2>1. /\ Len(path) \in Nat /\ Len(path') = Len(path) - 1
        /\ \A i \in 1 .. Len(path') : path'[i] = path[i + 1] /\ i + 1 \in 1 .. Len(path)
    BY <1>0, <1>1, <2>0, TailIs
  <2>2. Len(path') >= 1 => path'[1] # "sizes"
    <3>1. Len(path') >= 1 => path'[1] = path[2] /\ 2 \in 1 .. Len(path)
      BY <2>1
    <3> QED BY <2>0, <3>1 DEF Shape
  <2> QED BY <1>9, <2>1, <2>2 DEF LengthInv
<1>11. KeyTypeOK'
  BY <1>0, <1>6, <1>7 DEF KeyInv, KeyTypeOK
<1> QED BY <1>4, <1>5, <1>10, <1>11 DEF KeyInv

(* The last step of a call gives its result to the client.                 *)
LEMMA LastStep ==
  ASSUME KeyInv, NEW s \in {"blob", "finalSignature", "i2d"}, At(s), path' = Tail(path)
  PROVE  path # <<>> /\ path[1] = s /\ path' = <<>> /\ given = {} /\ results < MaxResults
<1>1. path # <<>> /\ path[1] = s /\ 1 \in 1 .. Len(path)
  BY AtIs DEF KeyInv
<1>2. Len(path) = 1 /\ path \in Seq(KeyStep)
  BY <1>1 DEF KeyInv, Shape
<1>3. path' = <<>>
  BY <1>2
<1> QED BY <1>1, <1>3 DEF KeyInv, RunInv

LEMMA BareResult ==
  ASSUME KeyInv, keyblob_save \/ Signature
  PROVE  KeyInv'
<1>0. /\ path' = Tail(path) /\ results' = results + 1
      /\ UNCHANGED <<scope, inside, attrs, slots, ulValueLen, bytes, died>>
  BY DEF keyblob_save, Signature, Done, Hand
<1>a. PICK o \in {"blob", "finalSignature"} :
        /\ At(o) /\ given' = given \cup {o}
        /\ \A x \in Heap \ {"wrapper"} : refs'[x] = IF x = o THEN refs[x] + 1 ELSE refs[x]
        /\ refs'["wrapper"] \in {refs["wrapper"], refs["wrapper"] + 1} /\ refs' \in [Heap -> Int]
  <2>1. refs \in [Heap -> Int] /\ "blob" \in Heap /\ "finalSignature" \in Heap /\ "wrapper" \in Heap
    BY HeapIs DEF KeyInv, KeyTypeOK
  <2>2. CASE keyblob_save
    <3> DEFINE r == [refs EXCEPT !["blob"] = @ + 1]
    <3>1. r \in [Heap -> Int] /\ \A x \in Heap : r[x] = IF x = "blob" THEN refs[x] + 1 ELSE refs[x]
      BY <2>1
    <3>2. refs' = [r EXCEPT !["wrapper"] = @ + 1]
      BY <2>2 DEF keyblob_save
    <3> HIDE DEF r
    <3>3. /\ refs' \in [Heap -> Int]
          /\ \A x \in Heap : refs'[x] = IF x = "wrapper" THEN r[x] + 1 ELSE r[x]
      BY <2>1, <3>1, <3>2
    <3>4. /\ \A x \in Heap \ {"wrapper"} : refs'[x] = IF x = "blob" THEN refs[x] + 1 ELSE refs[x]
          /\ refs'["wrapper"] = refs["wrapper"] + 1
      BY <2>1, <3>1, <3>3
    <3>5. At("blob") /\ given' = given \cup {"blob"}
      BY <2>2 DEF keyblob_save, Hand
    <3> QED BY <3>3, <3>4, <3>5
  <2>3. CASE Signature
    <3>1. At("finalSignature") /\ given' = given \cup {"finalSignature"}
      BY <2>3 DEF Signature, Hand
    <3>2. /\ refs' \in [Heap -> Int]
          /\ \A x \in Heap : refs'[x] = IF x = "finalSignature" THEN refs[x] + 1 ELSE refs[x]
      BY <2>1, <2>3 DEF Signature
    <3> QED BY <2>1, <3>1, <3>2
  <2> QED BY <2>2, <2>3
<1>1. path # <<>> /\ path[1] = o /\ path' = <<>> /\ given = {} /\ results < MaxResults
  BY <1>0, <1>a, LastStep
<1>2. Shape(path)' /\ RunInv'
  BY <1>0, <1>1, <1>a, RunMoves
<1>3. TemplateInv' /\ LengthInv'
  BY <1>0, <1>1, TemplateMoves, LengthMoves DEF Extra
<1>4. RefsInv'
  <2>1. refs \in [Heap -> Int] /\ "wrapper" \in Heap /\ RefsInv /\ o # "rsa"
    BY HeapIs DEF KeyInv, KeyTypeOK
  <2>2. refs'["wrapper"] >= 0
    BY <1>a, <2>1 DEF RefsInv
  <2>3. ASSUME NEW x \in Heap \ {"wrapper"}
        PROVE  refs'[x] = One(x \in ToSet(scope))
                          + One(x = "rsa" /\ inside /\ "pkey" \in ToSet(scope)) + One(x \in given')
    <3>1. refs[x] = One(x \in ToSet(scope))
                    + One(x = "rsa" /\ inside /\ "pkey" \in ToSet(scope)) + One(x \in given)
      BY <2>1 DEF RefsInv
    <3>2. One(x \in given') = (IF x = o THEN 1 ELSE 0) /\ One(x \in given) = 0
      BY <1>a, <1>1 DEF One
    <3>3. /\ One(x \in ToSet(scope)) \in Int
          /\ One(x = "rsa" /\ inside /\ "pkey" \in ToSet(scope)) \in Int
      BY DEF One
    <3>4. refs'[x] = IF x = o THEN refs[x] + 1 ELSE refs[x]
      BY <1>a
    <3> QED BY <3>1, <3>2, <3>3, <3>4
  <2> QED BY <1>0, <2>1, <2>2, <2>3 DEF RefsInv
<1>5. KeyTypeOK'
  <2>1. results' \in 0 .. MaxResults
    BY <1>0, <1>1, KeyMemoryAssumption DEF KeyInv, KeyTypeOK
  <2>2. given' \subseteq Result
    BY <1>a, <1>1 DEF Result
  <2> QED BY <1>0, <1>a, <2>1, <2>2 DEF KeyInv, KeyTypeOK
<1> QED BY <1>2, <1>3, <1>4, <1>5 DEF KeyInv

LEMMA PublicKeyKeeps ==
  ASSUME KeyInv, PublicKey
  PROVE  KeyInv'
<1>0. /\ At("i2d") /\ path' = Tail(path) /\ results' = results + 1 /\ given' = given \cup {"key"}
      /\ UNCHANGED <<refs, inside, attrs, slots, ulValueLen, bytes, died>>
  BY DEF PublicKey, Done, Hand
<1>1. path # <<>> /\ path[1] = "i2d" /\ path' = <<>> /\ given = {} /\ results < MaxResults
  BY <1>0, LastStep
<1>2. RefsInv /\ scope \in Seq(Heap) /\ refs \in [Heap -> Int]
  BY DEF KeyInv, KeyTypeOK
<1>3. PICK k \in 1 .. Len(scope) : scope[k] = "key" /\ scope' = RemoveAt(scope, k)
  BY <1>2 DEF PublicKey, OWNERSHIP_TRANSFERRED
<1>4. /\ scope' \in Seq(Heap) /\ Distinct(scope') /\ ToSet(scope') = ToSet(scope) \ {"key"}
  <2>1. Distinct(scope)
    BY <1>2 DEF RefsInv, Distinct
  <2> QED BY <2>1, <1>2, <1>3, RemoveSet
<1>5. "key" \in ToSet(scope)
  BY <1>2, <1>3 DEF ToSet
<1>6. ASSUME NEW x \in Heap \ {"wrapper"}
      PROVE  refs[x] = One(x \in ToSet(scope'))
                       + One(x = "rsa" /\ inside /\ "pkey" \in ToSet(scope')) + One(x \in given')
  <2>1. refs[x] = One(x \in ToSet(scope))
                  + One(x = "rsa" /\ inside /\ "pkey" \in ToSet(scope)) + One(x \in given)
    BY <1>2 DEF RefsInv
  <2>2. /\ One(x = "rsa" /\ inside /\ "pkey" \in ToSet(scope))
             = One(x = "rsa" /\ inside /\ "pkey" \in ToSet(scope'))
        /\ One(x = "rsa" /\ inside /\ "pkey" \in ToSet(scope)) \in Int
    BY <1>4 DEF One
  <2>3. CASE x = "key"
    <3>1. /\ One(x \in ToSet(scope)) = 1 /\ One(x \in ToSet(scope')) = 0
          /\ One(x \in given) = 0 /\ One(x \in given') = 1
      BY <1>0, <1>1, <1>4, <1>5, <2>3 DEF One
    <3> QED BY <2>1, <2>2, <3>1
  <2>4. CASE x # "key"
    <3>1. /\ One(x \in ToSet(scope)) = One(x \in ToSet(scope'))
          /\ One(x \in given) = One(x \in given')
      BY <1>0, <1>4, <2>4 DEF One
    <3> QED BY <2>1, <2>2, <3>1
  <2> QED BY <2>3, <2>4
<1>7. RefsInv'
  BY <1>0, <1>2, <1>4, <1>6 DEF RefsInv, Distinct
<1>8. Shape(path)' /\ RunInv' /\ TemplateInv' /\ LengthInv'
  BY <1>0, <1>1, RunMoves, TemplateMoves, LengthMoves DEF Extra
<1>9. KeyTypeOK'
  <2>1. results' \in 0 .. MaxResults
    BY <1>0, <1>1, KeyMemoryAssumption DEF KeyInv, KeyTypeOK
  <2>2. given' \subseteq Result
    BY <1>0, <1>1 DEF Result
  <2> QED BY <1>0, <1>4, <2>1, <2>2 DEF KeyInv, KeyTypeOK
<1> QED BY <1>7, <1>8, <1>9 DEF KeyInv

(* No call runs: only what is left to destroy, or the client's results.    *)
LEMMA Resting ==
  ASSUME KeyInv, path' = <<>>, UNCHANGED <<attrs, slots>>
  PROVE  Shape(path)' /\ RunInv' /\ TemplateInv' /\ LengthInv'
<1>1. Len(path') = 0 /\ path' \in Seq(KeyStep)
  <2>1. Len(<<>>) = 0 /\ <<>> \in Seq(KeyStep)
    OBVIOUS
  <2> QED BY <2>1, Zenon
<1>2. Shape(path)'
  BY <1>1 DEF Shape
<1>3. RunInv' /\ LengthInv'
  BY <1>1 DEF RunInv, LengthInv
<1>4. TemplateInv'
  BY <1>1 DEF KeyInv, TemplateInv
<1> QED BY <1>2, <1>3, <1>4

LEMMA FailKeeps ==
  ASSUME KeyInv, Fail
  PROVE  KeyInv'
<1>1. Shape(path)' /\ RunInv' /\ TemplateInv' /\ LengthInv'
  BY Resting DEF Fail
<1>2. RefsInv'
  BY DEF Fail, KeyInv, RefsInv
<1>3. KeyTypeOK'
  BY DEF Fail, KeyInv, KeyTypeOK
<1> QED BY <1>1, <1>2, <1>3 DEF KeyInv

LEMMA DestroyKeeps ==
  ASSUME KeyInv, Destroy
  PROVE  KeyInv'
<1>0. /\ path' = <<>> /\ scope # <<>> /\ scope' = Front(scope)
      /\ refs' = [o \in Heap |-> IF o \in Delete(Last(scope)) THEN refs[o] - 1 ELSE refs[o]]
      /\ UNCHANGED <<inside, attrs, slots, ulValueLen, bytes, given, results, died>>
  BY DEF Destroy
<1>1. RefsInv /\ scope \in Seq(Heap) /\ refs \in [Heap -> Int] /\ Distinct(scope)
  BY DEF KeyInv, KeyTypeOK, RefsInv, Distinct
<1>2. /\ scope' \in Seq(Heap) /\ Distinct(scope')
      /\ Last(scope) \in ToSet(scope) /\ ToSet(scope') = ToSet(scope) \ {Last(scope)}
  BY <1>0, <1>1, FrontSet
<1>3. PICK l : l = Last(scope)
  OBVIOUS
<1>4. Delete(l) = IF l = "pkey" /\ inside THEN {"pkey", "rsa"} ELSE {l}
  BY DEF Delete, EVP_PKEY_free
<1>5. ASSUME NEW x \in Heap \ {"wrapper"}
      PROVE  refs'[x] = One(x \in ToSet(scope'))
                        + One(x = "rsa" /\ inside /\ "pkey" \in ToSet(scope')) + One(x \in given)
  <2>1. refs[x] = One(x \in ToSet(scope))
                  + One(x = "rsa" /\ inside /\ "pkey" \in ToSet(scope)) + One(x \in given)
    BY <1>1 DEF RefsInv
  <2>2. refs'[x] = IF x \in Delete(l) THEN refs[x] - 1 ELSE refs[x]
    BY <1>0, <1>3
  <2>3. /\ One(x \in ToSet(scope')) = IF x = l THEN One(x \in ToSet(scope)) - 1 ELSE One(x \in ToSet(scope))
        /\ One(x \in ToSet(scope)) \in Int /\ One(x \in given) \in Int
    BY <1>2, <1>3 DEF One
  <2>4. CASE l = "pkey" /\ inside
    <3>1. /\ One(x = "rsa" /\ inside /\ "pkey" \in ToSet(scope)) = IF x = "rsa" THEN 1 ELSE 0
          /\ One(x = "rsa" /\ inside /\ "pkey" \in ToSet(scope')) = 0
      BY <1>2, <1>3, <2>4 DEF One
    <3>2. refs'[x] = IF x \in {"pkey", "rsa"} THEN refs[x] - 1 ELSE refs[x]
      BY <1>4, <2>2, <2>4
    <3>3. CASE x = "pkey"
      BY <2>1, <2>3, <2>4, <3>1, <3>2, <3>3
    <3>4. CASE x = "rsa"
      BY <2>1, <2>3, <2>4, <3>1, <3>2, <3>4
    <3>5. CASE x \notin {"pkey", "rsa"}
      BY <2>1, <2>3, <2>4, <3>1, <3>2, <3>5
    <3> QED BY <3>3, <3>4, <3>5
  <2>5. CASE ~ (l = "pkey" /\ inside)
    <3>1. /\ One(x = "rsa" /\ inside /\ "pkey" \in ToSet(scope))
               = One(x = "rsa" /\ inside /\ "pkey" \in ToSet(scope'))
          /\ One(x = "rsa" /\ inside /\ "pkey" \in ToSet(scope)) \in Int
      BY <1>2, <1>3, <2>5 DEF One
    <3>2. refs'[x] = IF x = l THEN refs[x] - 1 ELSE refs[x]
      BY <1>4, <2>2, <2>5
    <3> QED BY <2>1, <2>3, <3>1, <3>2
  <2> QED BY <2>4, <2>5
<1>6. "wrapper" \notin ToSet(scope') /\ refs'["wrapper"] >= 0
  <2>1. "wrapper" \in Heap /\ "wrapper" \notin Delete(l)
    BY <1>1, <1>2, <1>3, <1>4, HeapIs DEF RefsInv
  <2> QED BY <1>0, <1>1, <1>2, <1>3, <2>1 DEF RefsInv
<1>7. RefsInv'
  BY <1>0, <1>2, <1>5, <1>6 DEF RefsInv, Distinct
<1>8. Shape(path)' /\ RunInv' /\ TemplateInv' /\ LengthInv'
  BY <1>0, Resting
<1>9. KeyTypeOK'
  <2>1. refs' \in [Heap -> Int]
    BY <1>0, <1>1
  <2> QED BY <1>0, <1>2, <2>1 DEF KeyInv, KeyTypeOK
<1> QED BY <1>7, <1>8, <1>9 DEF KeyInv

LEMMA ClientKeeps ==
  ASSUME KeyInv, NEW o \in Result, ClientFrees(o)
  PROVE  KeyInv'
<1>0. /\ path' = <<>> /\ o \in given /\ given' = given \ {o}
      /\ refs' = [refs EXCEPT ![o] = @ - 1]
      /\ UNCHANGED <<scope, inside, attrs, slots, ulValueLen, bytes, results, died>>
  BY DEF ClientFrees, NoCall, call
<1>1. RefsInv /\ refs \in [Heap -> Int] /\ o \in Heap /\ o # "wrapper" /\ "wrapper" \in Heap
  BY HeapIs DEF KeyInv, KeyTypeOK, Result
<1>2. refs' \in [Heap -> Int] /\ \A x \in Heap : refs'[x] = IF x = o THEN refs[x] - 1 ELSE refs[x]
  BY <1>0, <1>1
<1>3. ASSUME NEW x \in Heap \ {"wrapper"}
      PROVE  refs'[x] = One(x \in ToSet(scope))
                        + One(x = "rsa" /\ inside /\ "pkey" \in ToSet(scope)) + One(x \in given')
  <2>1. refs[x] = One(x \in ToSet(scope))
                  + One(x = "rsa" /\ inside /\ "pkey" \in ToSet(scope)) + One(x \in given)
    BY <1>1 DEF RefsInv
  <2>2. One(x \in given') = IF x = o THEN One(x \in given) - 1 ELSE One(x \in given)
    BY <1>0 DEF One
  <2>3. /\ One(x \in ToSet(scope)) \in Int /\ One(x \in given) \in Int
        /\ One(x = "rsa" /\ inside /\ "pkey" \in ToSet(scope)) \in Int
    BY DEF One
  <2> QED BY <1>2, <2>1, <2>2, <2>3
<1>4. RefsInv'
  BY <1>0, <1>1, <1>2, <1>3 DEF RefsInv
<1>5. Shape(path)' /\ RunInv' /\ TemplateInv' /\ LengthInv'
  BY <1>0, Resting
<1>6. KeyTypeOK'
  BY <1>0, <1>2 DEF KeyInv, KeyTypeOK
<1> QED BY <1>4, <1>5, <1>6 DEF KeyInv

LEMMA BeginKeeps ==
  ASSUME KeyInv, NEW steps, Whole(steps), Begin(steps)
  PROVE  KeyInv'
<1>0. /\ path' = steps /\ scope = <<>> /\ given = {} /\ results < MaxResults
      /\ attrs' = <<>> /\ slots' = 0 /\ inside' = FALSE
      /\ UNCHANGED <<refs, scope, ulValueLen, bytes, given, results, died>>
  BY DEF Begin, NoCall
<1>1. ToSet(scope) = {} /\ Len(attrs') = 0
  BY <1>0 DEF ToSet
<1>2. Shape(path)'
  BY <1>0 DEF Whole
<1>3. RunInv'
  BY <1>0, <1>1 DEF RunInv, Whole
<1>4. RefsInv'
  <2>1. RefsInv
    BY DEF KeyInv
  <2>2. \A x \in Heap \ {"wrapper"} :
          One(x = "rsa" /\ inside /\ "pkey" \in ToSet(scope)) = One(x = "rsa" /\ inside' /\ "pkey" \in ToSet(scope'))
    BY <1>0, <1>1 DEF One
  <2> QED BY <1>0, <2>1, <2>2 DEF RefsInv
<1>5. TemplateInv'
  BY <1>0, <1>1 DEF TemplateInv, TemplateReady, Whole
<1>6. LengthInv'
  BY <1>0 DEF LengthInv, Whole
<1>7. KeyTypeOK'
  <2>1. attrs' \in Seq(Heap \cup {"stack"})
    BY <1>0
  <2> QED BY <1>0, <2>1 DEF KeyInv, KeyTypeOK
<1> QED BY <1>2, <1>3, <1>4, <1>5, <1>6, <1>7 DEF KeyInv

LEMMA KeyStepKeeps == KeyInv /\ [KeyNext]_keyVars => KeyInv'
<1> SUFFICES ASSUME KeyInv, [KeyNext]_keyVars PROVE KeyInv'
  OBVIOUS
<1>1. CASE UNCHANGED keyVars
  <2>0. UNCHANGED <<refs, scope, inside, path, attrs, slots, ulValueLen, bytes, given, results, died>>
    BY <1>1 DEF keyVars, call
  <2>1. KeyTypeOK'
    BY <2>0 DEF KeyInv, KeyTypeOK
  <2>2. Shape(path)' /\ RunInv'
    BY <2>0 DEF KeyInv, Shape, RunInv
  <2>3. RefsInv'
    BY <2>0 DEF KeyInv, RefsInv
  <2>4. TemplateInv'
    BY <2>0 DEF KeyInv, TemplateInv, TemplateReady
  <2>5. LengthInv'
    BY <2>0 DEF KeyInv, LengthInv, Room, Exact
  <2> QED BY <2>1, <2>2, <2>3, <2>4, <2>5 DEF KeyInv
<1>2. CASE KeyNext
  <2>1. CASE Begin(tee_generate_keypair) \/ Begin(tee_get_keypair_public) \/ Begin(tee_sign_data)
    BY <2>1, BeginKeeps, SmallShapes, PublicShape
  <2>2. CASE \E has_extra_data \in BOOLEAN : Begin(tee_import_keypair(has_extra_data))
    BY <2>2, BeginKeeps, ExtendedShape, NormalShape
  <2>3. CASE \E o \in {"pkcs8", "objId", "key"} : Allocate(o)
    BY <2>3, AllocateKeeps
  <2>4. CASE \E o \in Heap : bignum_to_array(o)
    BY <2>4, AllocateKeeps DEF bignum_to_array, Number
  <2>5. CASE \E o \in Heap : ExtraData(o)
    BY <2>5, ExtraKeeps
  <2>6. CASE EvpKey \/ AssignRsa \/ PrivateKeyTemplate
    BY <2>6, EvpKeyKeeps, AssignKeeps, TemplateKeeps
  <2>7. CASE C_GetAttributeValue
    <3>1. At("sizes") \/ At("values")
      BY <2>7 DEF C_GetAttributeValue
    <3> QED BY <2>7, <3>1, SizesKeep, ValuesKeep
  <2>8. CASE Call(Head(path))
    BY <2>8, CallKeeps
  <2>9. CASE keyblob_save \/ Signature \/ PublicKey
    BY <2>9, BareResult, PublicKeyKeeps
  <2>10. CASE Fail \/ Destroy
    BY <2>10, FailKeeps, DestroyKeeps
  <2>11. CASE \E o \in Result : ClientFrees(o)
    BY <2>11, ClientKeeps
  <2> QED BY <1>2, <2>1, <2>2, <2>3, <2>4, <2>5, <2>6, <2>7, <2>8, <2>9, <2>10, <2>11 DEF KeyNext
<1> QED BY <1>1, <1>2

LEMMA KeyHolds == KeySpec => []KeyInv
BY KeyInitial, KeyStepKeeps, PTL DEF KeySpec

(* For keys of any length, however much the TEE overstates it and          *)
(* whichever call fails, what an operation took is freed once or handed    *)
(* over, and the template and the public key it builds are whole           *)
(* (keymaster_grouper.cpp's scoped pointers).                              *)
THEOREM NothingLeaks == KeySpec => []MemorySound
<1>1. KeyInv => MemorySound
  <2> SUFFICES ASSUME KeyInv PROVE MemorySound
    OBVIOUS
  <2>1. Shape(path) /\ RunInv /\ RefsInv /\ TemplateInv /\ LengthInv /\ KeyTypeOK
    BY DEF KeyInv
  <2>2. \A x \in Heap \ {"wrapper"} : refs[x] >= 0 /\ (x \in ToSet(scope) => refs[x] > 0)
    <3> TAKE x \in Heap \ {"wrapper"}
    <3>1. refs[x] = One(x \in ToSet(scope))
                    + One(x = "rsa" /\ inside /\ "pkey" \in ToSet(scope)) + One(x \in given)
      BY <2>1 DEF RefsInv
    <3>2. /\ One(x \in ToSet(scope)) \in Nat /\ One(x \in given) \in Nat
          /\ One(x = "rsa" /\ inside /\ "pkey" \in ToSet(scope)) \in Nat
          /\ x \in ToSet(scope) => One(x \in ToSet(scope)) = 1
      BY DEF One
    <3> QED BY <3>1, <3>2
  <2>3. FreedOnce
    BY <2>1, <2>2 DEF FreedOnce, RefsInv
  <2>4. NothingLost
    <3> SUFFICES ASSUME NoCall, NEW o \in Heap \ {"wrapper"} PROVE refs[o] = IF o \in given THEN 1 ELSE 0
      BY DEF NothingLost
    <3>1. ToSet(scope) = {}
      BY DEF NoCall, ToSet
    <3>2. refs[o] = One(o \in ToSet(scope))
                    + One(o = "rsa" /\ inside /\ "pkey" \in ToSet(scope)) + One(o \in given)
      BY <2>1 DEF RefsInv
    <3> QED BY <3>1, <3>2 DEF One
  <2>5. TemplateSound
    <3>1. Len(attrs) <= slots
      BY <2>1 DEF TemplateInv
    <3>2. ASSUME At("C_CreatePrivate")
          PROVE  Len(attrs) = slots /\ \A v \in ToSet(attrs) : v = "stack" \/ refs[v] > 0
      <4>1. path # <<>> /\ path[1] = "C_CreatePrivate" /\ 1 \in 1 .. Len(path)
        BY <2>1, <3>2, AtIs
      <4>2. TemplateReady(path, 1)
        BY <2>1, <4>1 DEF TemplateInv
      <4>3. ~ TemplateAhead(path, 1)
        BY DEF TemplateAhead
      <4>4. attrs \in Seq(Heap \cup {"stack"}) /\ slots \in Nat
        BY <2>1 DEF KeyTypeOK, PRIV_ATTRIB_EXTENDED_NUM, PRIV_ATTRIB_NORMAL_NUM
      <4>5. Len(attrs) = slots
        BY <4>2, <4>3, <4>4 DEF TemplateReady
      <4>6. ASSUME NEW v \in ToSet(attrs), v # "stack" PROVE refs[v] > 0
        <5>1. PICK i \in 1 .. Len(attrs) : v = attrs[i]
          BY <4>4 DEF ToSet
        <5>2. v \in ToSet(scope) /\ v \in Heap
          BY <2>1, <4>1, <4>4, <4>6, <5>1 DEF TemplateInv
        <5>3. v # "wrapper"
          BY <2>1, <5>2 DEF RefsInv
        <5> QED BY <2>2, <5>2, <5>3
      <4> QED BY <4>5, <4>6
    <3> QED BY <3>1, <3>2 DEF TemplateSound
  <2>6. LengthsTrue
    <3> SUFFICES ASSUME NEW s \in {"BN_bin2bn_n", "BN_bin2bn_e"}, At(s) PROVE Exact
      BY DEF LengthsTrue, Exact
    <3>1. path # <<>> /\ path[1] = s /\ 1 \in 1 .. Len(path)
      BY <2>1, AtIs
    <3>2. ~ \E i \in 1 .. Len(path) : i < 1
      OBVIOUS
    <3> QED BY <2>1, <3>1, <3>2 DEF LengthInv
  <2> QED BY <2>3, <2>4, <2>5, <2>6 DEF MemorySound
<1> QED BY <1>1, KeyHolds, PTL

-------------------------------------------------------------------------------
(***************************************************************************)
(* The board: a behaviour of it is one of each part.                       *)
(***************************************************************************)
LEMMA PartsMove == Init /\ [][Next]_vars =>
  PowerSpec /\ LightsSpec /\ OmxSpec /\ NfcSpec /\ GpsSpec /\ DimmerSpec /\ KeySpec
<1>1. Init => PowerInit /\ LightsInit /\ OmxInit /\ NfcInit /\ GpsInit /\ DimmerInit /\ KeyInit
  BY DEF Init
<1>2. [Next]_vars => [PowerNext]_powerVars
  BY DEF Next, vars
<1>3. [Next]_vars => [LightsNext]_lightVars
  BY DEF Next, vars
<1>4. [Next]_vars => [OmxNext]_omxVars
  BY DEF Next, vars
<1>5. [Next]_vars => [NfcNext]_nfcVars
  BY DEF Next, vars
<1>6. [Next]_vars => [GpsNext]_gpsVars
  BY DEF Next, vars
<1>7. [Next]_vars => [DimmerNext]_dimmerVars
  BY DEF Next, vars
<1>8. [Next]_vars => [KeyNext]_keyVars
  BY DEF Next, vars
<1> QED BY <1>1, <1>2, <1>3, <1>4, <1>5, <1>6, <1>7, <1>8, PTL
        DEF PowerSpec, LightsSpec, OmxSpec, NfcSpec, GpsSpec, DimmerSpec, KeySpec

(* Every variable of the board keeps its type.                             *)
THEOREM BoardTypeCorrect == Spec => []TypeOK
<1>1. Spec => [](moving \in Part)
  <2>1. Init => moving \in Part
    BY DEF Init
  <2>2. moving \in Part /\ [Next]_vars => (moving \in Part)'
    BY DEF Next, vars
  <2> QED BY <2>1, <2>2, PTL DEF Spec
<1>2. LightsInv => LightsTypeOK
  BY DEF LightsInv
<1>3. OmxInv => OmxTypeOK
  BY DEF OmxInv
<1>4. NfcInv => NfcTypeOK
  BY DEF NfcInv
<1>5. GpsInv => GpsTypeOK
  BY DEF GpsInv
<1>6. DimmerInv => DimmerTypeOK
  BY DEF DimmerInv
<1>7. PowerInv => PowerTypeOK
  BY DEF PowerInv
<1>8. KeyInv => KeyTypeOK
  BY DEF KeyInv
<1>9. moving \in Part /\ PowerTypeOK /\ LightsTypeOK /\ OmxTypeOK /\ NfcTypeOK /\ GpsTypeOK
        /\ DimmerTypeOK /\ KeyTypeOK => TypeOK
  BY DEF TypeOK
<1> QED BY <1>1, <1>2, <1>3, <1>4, <1>5, <1>6, <1>7, <1>8, <1>9, PartsMove, PowerHolds, LightsSpecInv,
           OmxSpecInv, NfcSpecInv, GpsSpecInv, DimmerSpecInv, KeyHolds, PTL DEF Spec

(* On the whole board: what each HAL promises on its own it keeps beside   *)
(* the others.                                                             *)
THEOREM BoardSound ==
  Spec => /\ [](InputAlive /\ BoostsSound /\ LockWorks /\ PluginSound)
          /\ [](SetUpForGood /\ ManagerFreedOnce /\ ProbeKeepsSetting /\ MemorySound)
          /\ BacklightRight
BY PartsMove, PanelsComeBack, HintsAreServed, LockSound, PluginSafe, SettingsKept, ManagersFreedOnce,
   ProbesHarmless, NothingLeaks, BacklightSound, PTL DEF Spec
================================================================================
