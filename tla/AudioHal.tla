------------------------------- MODULE AudioHal -------------------------------
(***************************************************************************)
(* Streams, PCMs, routing and locking of the audio HAL (audio/audio_hw.c). *)
(*                                                                         *)
(* AudioFlinger calls the HAL from several threads.  The device mutex      *)
(* adev->lock and one mutex per stream protect the state; every operation  *)
(* that needs several mutexes takes the device mutex first.  The output    *)
(* and the input half of the code are mirror images, so the steps take the *)
(* stream s as a parameter and each API function is an instance of them.   *)
(*                                                                         *)
(* A stretch of code between two lock operations is one step.  Waiting for *)
(* adev->lock is part of "idle": no operation holds anything before it.    *)
(***************************************************************************)
EXTENDS Integers

CONSTANTS
    Threads,        \* the threads of AudioFlinger that call the HAL
    NoThread,       \* the owner of a mutex nobody holds
    OutRoutes,      \* the routing= values out_set_parameters() is given
    InRoutes,       \* ... and in_set_parameters(); {} stands for routing=0
    Orientations,   \* the orientation= values adev_set_parameters() is given
    InRates         \* the sampling rates capture is opened with

OutDevices == {"speaker", "headset", "headphone", "dock", "sco", "sco_carkit"}
InDevices  == {"mic", "sco"}
Sco == {"sco", "sco_carkit"}      \* AUDIO_DEVICE_{OUT,IN}_ALL_SCO

ASSUME ThreadsAssumption == NoThread \notin Threads
ASSUME RoutesAssumption  == /\ OutRoutes \subseteq SUBSET OutDevices
                            /\ InRoutes \subseteq SUBSET InDevices
ASSUME RatesAssumption   == InRates \subseteq Nat

VARIABLES
    \* struct audio_device
    adevLock,       \* owner of adev->lock
    device,         \* device[s]: the devices stream s is routed to
    active,         \* active[s]: adev->active_out / active_in points to s
    orientation,
    mixer,          \* the mixer paths last written to the codec
    \* struct stream_out and struct stream_in
    open,           \* open[s]: the stream structure is allocated
    lock,           \* lock[s]: owner of the stream mutex
    standby,
    pcm,            \* the pcm pointer: "null", "open", or "freed" (not NULL)
    cfg,            \* the pcm_config pointer
    nonSco,         \* pcm_config_non_sco
    rate,           \* the rate the client reads or writes at
    resampler,      \* resampler[s]: resampler # NULL
    buffer,         \* buffer[s]: buffer # NULL
    \* the kernel
    hw,             \* hw[s]: the configuration its PCM is open with
    \* the calling threads
    pc, strm, arg   \* program counter, stream argument, a saved device mask

devVars    == <<device, orientation, mixer>>
pcmVars    == <<active, standby, pcm, resampler, buffer, hw>>
openVars   == <<open, nonSco, rate>>
threadVars == <<pc, strm, arg>>
vars == <<adevLock, lock, cfg, devVars, pcmVars, openVars, threadVars>>

Streams == {"out", "in"}
Peer(s) == IF s = "out" THEN "in" ELSE "out"
-----------------------------------------------------------------------------
(* PCM configurations: the four static structures, told apart by rate.     *)

Configs == {"main_out", "main_in", "low_latency_in", "sco"}
OUT_SAMPLING_RATE == 44100
IN_SAMPLING_RATE  == 44100
SCO_SAMPLING_RATE == 8000
Rate(c) == IF c = "sco" THEN SCO_SAMPLING_RATE
           ELSE IF c = "main_out" THEN OUT_SAMPLING_RATE ELSE IN_SAMPLING_RATE

IsSco(devices) == devices \cap Sco # {}

\* The configuration start_{output,input}_stream() picks for s.
PcmConfig(s) == IF IsSco(device[s]) THEN "sco" ELSE nonSco[s]

\* Mutant: only a stream that starts on SCO looks at its peer.
Conflict_ScoOnly(c, p) == Rate(c) % 8000 = 0 /\ Rate(p) % 8000 # 0

\* start_*_stream(): the open peer p cannot stay open beside c.
Conflict(c, p) == \/ Rate(c) % 8000 = 0 /\ Rate(p) % 8000 # 0
                  \/ Rate(c) % 11025 = 0 /\ Rate(p) % 11025 # 0

\* select_devices(): the mixer paths for a routing and an orientation.
SelectDevices(d, o) ==
       (IF "speaker" \in d["out"] THEN {"speaker"} ELSE {})
  \cup (IF d["out"] \cap {"headset", "headphone"} # {} THEN {"headphone"} ELSE {})
  \cup (IF "dock" \in d["out"] THEN {"dock"} ELSE {})
  \cup (IF "mic" \in d["in"]
          THEN {IF o = "landscape" THEN "main-mic-left" ELSE "main-mic-top"}
          ELSE {})

\* do_out_standby() and do_in_standby(), called with both mutexes held.
DoStandby(s) ==
  IF standby[s] THEN UNCHANGED pcmVars
  ELSE /\ hw' = [hw EXCEPT ![s] = "none"]
       /\ pcm' = [pcm EXCEPT ![s] = "null"]
       /\ active' = [active EXCEPT ![s] = FALSE]
       /\ resampler' = [resampler EXCEPT ![s] = FALSE]
       /\ buffer' = [buffer EXCEPT ![s] = FALSE]
       /\ standby' = [standby EXCEPT ![s] = TRUE]
-----------------------------------------------------------------------------
InitialDevice == [s \in Streams |-> IF s = "out" THEN {"speaker"} ELSE {"mic"}]
Fresh(v) == [s \in Streams |-> v]

\* adev_open(): the device as the audio server first sees it.
Init ==
  /\ adevLock = NoThread
  /\ device = InitialDevice
  /\ orientation = "undefined"
  /\ mixer = SelectDevices(InitialDevice, "undefined")
  /\ active = Fresh(FALSE) /\ open = Fresh(FALSE) /\ lock = Fresh(NoThread)
  /\ standby = Fresh(TRUE) /\ pcm = Fresh("null") /\ cfg = Fresh("none")
  /\ nonSco = Fresh("none") /\ rate = Fresh(0)
  /\ resampler = Fresh(FALSE) /\ buffer = Fresh(FALSE)
  /\ hw = Fresh("none")
  /\ pc = [t \in Threads |-> "idle"]
  /\ strm = [t \in Threads |-> "none"]
  /\ arg = [t \in Threads |-> {}]

\* The audio server dies and is restarted: the kernel closes its PCMs and
\* adev_open() runs again.
Restart ==
  /\ adevLock' = NoThread
  /\ device' = InitialDevice
  /\ orientation' = "undefined"
  /\ mixer' = SelectDevices(InitialDevice, "undefined")
  /\ active' = Fresh(FALSE) /\ open' = Fresh(FALSE) /\ lock' = Fresh(NoThread)
  /\ standby' = Fresh(TRUE) /\ pcm' = Fresh("null") /\ cfg' = Fresh("none")
  /\ nonSco' = Fresh("none") /\ rate' = Fresh(0)
  /\ resampler' = Fresh(FALSE) /\ buffer' = Fresh(FALSE)
  /\ hw' = Fresh("none")
  /\ pc' = [t \in Threads |-> "idle"]
  /\ strm' = [t \in Threads |-> "none"]
  /\ arg' = [t \in Threads |-> {}]
-----------------------------------------------------------------------------
(* Steps shared by the operations of a stream.                             *)

Goto(t, l) == pc' = [pc EXCEPT ![t] = l]
At(t, s, l) == pc[t] = l /\ strm[t] = s

\* The operation returns.
Return(t) == /\ Goto(t, "idle")
             /\ strm' = [strm EXCEPT ![t] = "none"]
             /\ arg' = [arg EXCEPT ![t] = {}]

\* AudioFlinger closes a stream only when no other thread uses it, and uses
\* no stream it is closing.
Closing(s) == \E t \in Threads : strm[t] = s /\ pc[t] \in {"c_stream", "c_free"}
InUse(s)   == \E t \in Threads : strm[t] = s

\* An operation on s enters the HAL and gets adev->lock.
Enter(t, s, l, a) ==
  /\ pc[t] = "idle" /\ open[s] /\ ~Closing(s)
  /\ adevLock = NoThread /\ adevLock' = t
  /\ Goto(t, l)
  /\ strm' = [strm EXCEPT ![t] = s]
  /\ arg' = [arg EXCEPT ![t] = a]
  /\ UNCHANGED <<lock, cfg, devVars, pcmVars, openVars>>

\* Lock the stream.  Running: release the device and transfer, remembering
\* whether SCO was on (sco_on).  In standby: pick the configuration; another
\* active stream has to be looked at first.
LockStream(t, s) ==
  /\ At(t, s, "x_stream") /\ lock[s] = NoThread
  /\ lock' = [lock EXCEPT ![s] = t]
  /\ \/ /\ ~standby[s]
        /\ adevLock' = NoThread
        /\ Goto(t, "x_io")
        /\ arg' = [arg EXCEPT ![t] = device[s] \cap Sco]
        /\ UNCHANGED cfg
     \/ /\ standby[s]
        /\ cfg' = [cfg EXCEPT ![s] = PcmConfig(s)]
        /\ Goto(t, IF active[Peer(s)] THEN "x_peer" ELSE "x_open")
        /\ UNCHANGED <<adevLock, arg>>
  /\ UNCHANGED <<strm, devVars, pcmVars, openVars>>

\* Mutant: the peer is put in standby without its mutex.
SuspendPeer_Unlocked(t, s) ==
  /\ At(t, s, "x_peer")
  /\ IF Conflict(cfg[s], cfg[Peer(s)]) THEN DoStandby(Peer(s)) ELSE UNCHANGED pcmVars
  /\ Goto(t, "x_open")
  /\ UNCHANGED <<adevLock, lock, cfg, strm, arg, devVars, openVars>>

\* Mutant: the active peer is always put in standby.
SuspendPeer_Always(t, s) ==
  /\ At(t, s, "x_peer") /\ lock[Peer(s)] = NoThread
  /\ DoStandby(Peer(s))
  /\ Goto(t, "x_open")
  /\ UNCHANGED <<adevLock, lock, cfg, strm, arg, devVars, openVars>>

\* Lock the active peer, put it in standby if its rate group differs, unlock.
SuspendPeer(t, s) ==
  /\ At(t, s, "x_peer") /\ lock[Peer(s)] = NoThread
  /\ IF Conflict(cfg[s], cfg[Peer(s)]) THEN DoStandby(Peer(s)) ELSE UNCHANGED pcmVars
  /\ Goto(t, "x_open")
  /\ UNCHANGED <<adevLock, lock, cfg, strm, arg, devVars, openVars>>

\* pcm_open() succeeds.  The result of create_resampler() is not looked at.
OpenPcm(t, s) ==
  /\ At(t, s, "x_open")
  /\ hw' = [hw EXCEPT ![s] = cfg[s]]
  /\ pcm' = [pcm EXCEPT ![s] = "open"]
  /\ \E created \in BOOLEAN :
        resampler' = [resampler EXCEPT ![s] = rate[s] # Rate(cfg[s]) /\ created]
  /\ buffer' = [buffer EXCEPT ![s] = s = "in" \/ rate[s] # Rate(cfg[s])]
  /\ active' = [active EXCEPT ![s] = TRUE]
  /\ standby' = [standby EXCEPT ![s] = FALSE]
  /\ adevLock' = NoThread
  /\ arg' = [arg EXCEPT ![t] = device[s] \cap Sco]
  /\ Goto(t, "x_io")
  /\ UNCHANGED <<lock, cfg, strm, devVars, openVars>>

\* Mutant: the stream leaves standby although its PCM did not open.
OpenPcmFails_LeavesStandby(t, s) ==
  /\ At(t, s, "x_open")
  /\ pcm' = [pcm EXCEPT ![s] = "freed"]
  /\ standby' = [standby EXCEPT ![s] = FALSE]
  /\ adevLock' = NoThread
  /\ \/ s = "out" /\ lock' = [lock EXCEPT ![s] = NoThread] /\ Return(t)
     \/ s = "in"  /\ Goto(t, "x_fail") /\ UNCHANGED <<lock, strm, arg>>
  /\ UNCHANGED <<cfg, active, resampler, buffer, hw, devVars, openVars>>

\* Mutant: the error path of out_write() forgets the stream mutex.
OpenPcmFails_KeepsLock(t, s) ==
  /\ At(t, s, "x_open")
  /\ pcm' = [pcm EXCEPT ![s] = "freed"]
  /\ adevLock' = NoThread
  /\ \/ s = "out" /\ Return(t) /\ UNCHANGED lock
     \/ s = "in"  /\ Goto(t, "x_fail") /\ UNCHANGED <<lock, strm, arg>>
  /\ UNCHANGED <<cfg, active, standby, resampler, buffer, hw, devVars, openVars>>

\* pcm_open() fails: the handle is closed but the pointer keeps its value.
\* out_write() then unlocks before it sleeps, in_read() after.
OpenPcmFails(t, s) ==
  /\ At(t, s, "x_open")
  /\ pcm' = [pcm EXCEPT ![s] = "freed"]
  /\ adevLock' = NoThread
  /\ \/ s = "out" /\ lock' = [lock EXCEPT ![s] = NoThread] /\ Return(t)
     \/ s = "in"  /\ Goto(t, "x_fail") /\ UNCHANGED <<lock, strm, arg>>
  /\ UNCHANGED <<cfg, active, standby, resampler, buffer, hw, devVars, openVars>>

\* The transfer ends: unlock the stream and return.
UnlockStream(t, s, l) ==
  /\ At(t, s, l)
  /\ lock' = [lock EXCEPT ![s] = NoThread]
  /\ Return(t)
  /\ UNCHANGED <<adevLock, cfg, devVars, pcmVars, openVars>>

\* out_write() converts the rate through a resampler it takes for granted.
ResamplerMissing == rate["out"] # Rate(cfg["out"]) /\ ~resampler["out"]

\* Standby: lock the stream under the device lock, stand by, unlock both.
StandBy(t, s) ==
  /\ At(t, s, "s_stream") /\ lock[s] = NoThread
  /\ DoStandby(s)
  /\ adevLock' = NoThread
  /\ Return(t)
  /\ UNCHANGED <<lock, cfg, devVars, openVars>>

\* The new device is stored and the mixer written.
SetDevice(s, d) ==
  /\ device' = [device EXCEPT ![s] = d]
  /\ mixer' = SelectDevices(device', orientation)
  /\ UNCHANGED orientation

\* Mutant: the device is changed under a running stream.
Reroute_WithoutStandby(t, s, d) ==
  /\ pc[t] = "idle" /\ open[s] /\ ~Closing(s) /\ adevLock = NoThread
  /\ d # device[s] /\ d # {}
  /\ SetDevice(s, d)
  /\ UNCHANGED <<adevLock, lock, cfg, pcmVars, openVars, threadVars>>

\* routing=d on s, when no Bluetooth SCO link appears or disappears.
Reroute(t, s, d) ==
  /\ pc[t] = "idle" /\ open[s] /\ ~Closing(s) /\ adevLock = NoThread
  /\ d # device[s] /\ d # {}
  /\ d \cap Sco = device[s] \cap Sco
  /\ SetDevice(s, d)
  /\ UNCHANGED <<adevLock, lock, cfg, pcmVars, openVars, threadVars>>

\* routing=d on s otherwise: SCO uses another PCM, so the stream stands by.
RerouteSco(t, s, d) ==
  /\ d # device[s] /\ d # {}
  /\ d \cap Sco # device[s] \cap Sco
  /\ Enter(t, s, "r_stream", d)

StandByAndReroute(t, s) ==
  /\ At(t, s, "r_stream") /\ lock[s] = NoThread
  /\ DoStandby(s)
  /\ SetDevice(s, arg[t])
  /\ adevLock' = NoThread
  /\ Return(t)
  /\ UNCHANGED <<lock, cfg, openVars>>

\* A stream is allocated; c is its pcm_config, n the one outside SCO.
Allocate(t, s, c, n, r) ==
  /\ pc[t] = "idle" /\ ~open[s]
  /\ open' = [open EXCEPT ![s] = TRUE]
  /\ cfg' = [cfg EXCEPT ![s] = c]
  /\ nonSco' = [nonSco EXCEPT ![s] = n]
  /\ rate' = [rate EXCEPT ![s] = r]
  /\ UNCHANGED <<adevLock, lock, devVars, pcmVars, threadVars>>

\* Mutant: close frees a stream that still runs.
CloseStandBy_Skipped(t, s) ==
  /\ At(t, s, "c_stream") /\ lock[s] = NoThread
  /\ adevLock' = NoThread
  /\ Goto(t, "c_free")
  /\ UNCHANGED <<lock, cfg, strm, arg, devVars, pcmVars, openVars>>

\* Close: first the stream's standby ...
CloseStandBy(t, s) ==
  /\ At(t, s, "c_stream") /\ lock[s] = NoThread
  /\ DoStandby(s)
  /\ adevLock' = NoThread
  /\ Goto(t, "c_free")
  /\ UNCHANGED <<lock, cfg, strm, arg, devVars, openVars>>

\* ... then free(), without any lock; what the fields held is gone.
Free(t, s) ==
  /\ At(t, s, "c_free")
  /\ open' = [open EXCEPT ![s] = FALSE]
  /\ cfg' = [cfg EXCEPT ![s] = "none"]
  /\ nonSco' = [nonSco EXCEPT ![s] = "none"]
  /\ rate' = [rate EXCEPT ![s] = 0]
  /\ pcm' = [pcm EXCEPT ![s] = "null"]
  /\ Return(t)
  /\ UNCHANGED <<adevLock, lock, devVars, active, standby, resampler, buffer, hw>>
-----------------------------------------------------------------------------
(* The API, function by function.                                          *)

\* The streams start: steps of out_write() and in_read() when in standby.
start_output_stream(t) ==
  SuspendPeer(t, "out") \/ OpenPcm(t, "out") \/ OpenPcmFails(t, "out")
start_input_stream(t) ==
  SuspendPeer(t, "in") \/ OpenPcm(t, "in") \/ OpenPcmFails(t, "in")

\* Mutant: a running stream is written to under its own mutex alone.
out_write_StreamLockOnly(t) ==
  \/ Enter(t, "out", "x_stream", {})
  \/ /\ pc[t] = "idle" /\ open["out"] /\ ~Closing("out") /\ ~standby["out"]
     /\ lock["out"] = NoThread /\ lock' = [lock EXCEPT !["out"] = t]
     /\ Goto(t, "x_io") /\ strm' = [strm EXCEPT ![t] = "out"]
     /\ arg' = [arg EXCEPT ![t] = device["out"] \cap Sco]
     /\ UNCHANGED <<adevLock, cfg, devVars, pcmVars, openVars>>
  \/ LockStream(t, "out")
  \/ start_output_stream(t)
  \/ ~ResamplerMissing /\ UnlockStream(t, "out", "x_io")
  \/ ResamplerMissing /\ At(t, "out", "x_io") /\ Restart

out_write(t) ==
  \/ Enter(t, "out", "x_stream", {})
  \/ LockStream(t, "out")
  \/ start_output_stream(t)
  \/ ~ResamplerMissing /\ UnlockStream(t, "out", "x_io")
  \/ ResamplerMissing /\ At(t, "out", "x_io") /\ Restart

in_read(t) ==
  \/ Enter(t, "in", "x_stream", {})
  \/ LockStream(t, "in")
  \/ start_input_stream(t)
  \/ UnlockStream(t, "in", "x_io")
  \/ UnlockStream(t, "in", "x_fail")

out_standby(t) == Enter(t, "out", "s_stream", {}) \/ StandBy(t, "out")
in_standby(t)  == Enter(t, "in", "s_stream", {}) \/ StandBy(t, "in")

out_set_parameters(t) ==
  \/ \E d \in OutRoutes : Reroute(t, "out", d) \/ RerouteSco(t, "out", d)
  \/ StandByAndReroute(t, "out")

in_set_parameters(t) ==
  \/ \E d \in InRoutes : Reroute(t, "in", d) \/ RerouteSco(t, "in", d)
  \/ StandByAndReroute(t, "in")

adev_open_output_stream(t) ==
  Allocate(t, "out", "none", "main_out", OUT_SAMPLING_RATE)

\* Only a capture at the native rate gets the low latency configuration.
adev_open_input_stream(t) ==
  \E r \in InRates, fast \in BOOLEAN :
    LET c == IF r = IN_SAMPLING_RATE /\ fast THEN "low_latency_in" ELSE "main_in"
    IN  Allocate(t, "in", c, c, r)

adev_close_output_stream(t) ==
  \/ ~InUse("out") /\ Enter(t, "out", "c_stream", {})
  \/ CloseStandBy(t, "out")
  \/ Free(t, "out")

adev_close_input_stream(t) ==
  \/ ~InUse("in") /\ Enter(t, "in", "c_stream", {})
  \/ CloseStandBy(t, "in")
  \/ Free(t, "in")

KnownOrientations == {"landscape", "portrait", "square"}
Orientation(value) == IF value \in KnownOrientations THEN value ELSE "undefined"

\* Mutant: the mixer waits for the next change of the input device.
adev_set_parameters_NoMixer(t) ==
  /\ pc[t] = "idle" /\ adevLock = NoThread
  /\ \E value \in Orientations :
        /\ Orientation(value) # orientation
        /\ orientation' = Orientation(value)
  /\ UNCHANGED <<adevLock, lock, cfg, device, mixer, pcmVars, openVars, threadVars>>

\* The orientation moves the microphone; it changes with the input closed too.
adev_set_parameters(t) ==
  /\ pc[t] = "idle" /\ adevLock = NoThread
  /\ \E value \in Orientations :
        /\ Orientation(value) # orientation
        /\ orientation' = Orientation(value)
        /\ mixer' = SelectDevices(device, orientation')
  /\ UNCHANGED <<adevLock, lock, cfg, device, pcmVars, openVars, threadVars>>

\* The stream mutex is taken without adev->lock, and standby is not looked at.
LockForPosition(t) ==
  /\ pc[t] = "idle" /\ open["out"] /\ ~Closing("out")
  /\ lock["out"] = NoThread /\ lock' = [lock EXCEPT !["out"] = t]
  /\ Goto(t, "p_read")
  /\ strm' = [strm EXCEPT ![t] = "out"]
  /\ UNCHANGED <<adevLock, cfg, arg, devVars, pcmVars, openVars>>

\* The mutex is held over pcm_get_htimestamp().  In standby that goes through
\* a NULL pointer, which kills the server, or through the one a failed
\* pcm_open() left, after which anything may happen.
out_get_presentation_position(t) ==
  \/ LockForPosition(t)
  \/ pcm["out"] # "null" /\ UnlockStream(t, "out", "p_read")
  \/ pcm["out"] # "open" /\ At(t, "out", "p_read") /\ Restart

\* The last client lets go of the device when its streams are closed, and the
\* next one opens it: routes and orientation start afresh, also in the mixer.
adev_close(t) ==
  /\ \A u \in Threads : pc[u] = "idle"
  /\ \A s \in Streams : ~open[s]
  /\ Restart

Step(t) ==
  \/ out_write(t) \/ in_read(t)
  \/ out_standby(t) \/ in_standby(t)
  \/ out_set_parameters(t) \/ in_set_parameters(t)
  \/ adev_open_output_stream(t) \/ adev_open_input_stream(t)
  \/ adev_close_output_stream(t) \/ adev_close_input_stream(t)
  \/ adev_set_parameters(t)
  \/ out_get_presentation_position(t)
  \/ adev_close(t)

Next == \E t \in Threads : Step(t)

\* A thread that is inside the HAL keeps running; nobody has to call it.
Fairness == \A t \in Threads : WF_vars(pc[t] # "idle" /\ Step(t))

Spec == Init /\ [][Next]_vars
FairSpec == Spec /\ Fairness
-----------------------------------------------------------------------------
Labels == {"idle", "x_stream", "x_peer", "x_open", "x_io", "x_fail",
           "s_stream", "r_stream", "c_stream", "c_free", "p_read"}

\* Every variable has the type of its C counterpart.
TypeOK ==
  /\ adevLock \in Threads \cup {NoThread}
  /\ device \in [Streams -> SUBSET (OutDevices \cup InDevices)]
  /\ orientation \in KnownOrientations \cup {"undefined"}
  /\ mixer \subseteq {"speaker", "headphone", "dock", "main-mic-left", "main-mic-top"}
  /\ active \in [Streams -> BOOLEAN] /\ open \in [Streams -> BOOLEAN]
  /\ lock \in [Streams -> Threads \cup {NoThread}]
  /\ standby \in [Streams -> BOOLEAN]
  /\ pcm \in [Streams -> {"null", "open", "freed"}]
  /\ cfg \in [Streams -> Configs \cup {"none"}]
  /\ nonSco \in [Streams -> (Configs \ {"sco"}) \cup {"none"}]
  /\ rate \in [Streams -> Nat]
  /\ resampler \in [Streams -> BOOLEAN] /\ buffer \in [Streams -> BOOLEAN]
  /\ hw \in [Streams -> Configs \cup {"none"}]
  /\ pc \in [Threads -> Labels]
  /\ strm \in [Threads -> Streams \cup {"none"}]
  /\ arg \in [Threads -> SUBSET (OutDevices \cup InDevices)]

\* "All open PCMs can only use a single group of rates at once": whatever
\* the two streams' threads and the routing do, the PCMs the kernel has open
\* belong to one group (start_output_stream(), start_input_stream()).
RateGroups == {{11025, 22050, 44100}, {8000, 16000, 32000, 48000}}
OneRateGroup ==
  \E g \in RateGroups : \A s \in Streams : hw[s] # "none" => Rate(hw[s]) \in g

\* A stream that runs is on the PCM its current route asks for, and the
\* sco_on flag out_write() read before it dropped adev->lock still holds
\* while it transfers (out_set_parameters() forces a standby in between).
PcmMatchesRoute ==
  /\ \A s \in Streams : hw[s] # "none" => (hw[s] = "sco" <=> IsSco(device[s]))
  /\ \A t \in Threads :
        At(t, "out", "x_io") => (arg[t] # {} <=> hw["out"] = "sco")

\* A transfer has its PCM and its buffer from the moment adev->lock is
\* dropped until the stream is unlocked, although another stream's start,
\* a reroute or a standby may be trying to take them away.
TransferHasPcm ==
  \A t \in Threads, s \in Streams : At(t, s, "x_io") =>
     /\ lock[s] = t /\ pcm[s] = "open" /\ hw[s] = cfg[s] /\ cfg[s] # "none"
     /\ s = "in" => buffer[s]

\* Neither a PCM, a resampler nor a buffer is lost: the kernel has a PCM open
\* exactly for the streams the device lists as active, and each of them can
\* still close it; a stream in standby holds nothing.
NothingLeaks ==
  \A s \in Streams :
     /\ hw[s] # "none" <=> active[s]
     /\ active[s] <=> ~standby[s]
     /\ active[s] => pcm[s] = "open"
     /\ standby[s] => ~resampler[s] /\ ~buffer[s]

\* A freed stream structure is reachable neither through active_out /
\* active_in nor by a thread that starts the other stream, and its mutex is
\* not held.
NoUseAfterFree ==
  \A s \in Streams : ~open[s] =>
     /\ ~active[s] /\ lock[s] = NoThread
     /\ \A t \in Threads : strm[t] # s /\ ~At(t, Peer(s), "x_peer")

\* Any thread may close, park or reroute a stream under another, and still no
\* PCM, resampler or buffer is lost or given back twice, and no freed stream
\* structure is reached.  The pointer that a failed pcm_open() leaves in a
\* stream is not covered: in standby out_get_presentation_position() goes
\* through it ("p_read" with pcm["out"] = "freed" is reachable).
MemorySafe == NothingLeaks /\ NoUseAfterFree

\* The codec is set up for the current routes and orientation, also when the
\* orientation changes while nothing is captured (adev_set_parameters()).
MixerInSync == adevLock = NoThread => mixer = SelectDevices(device, orientation)

\* t waits for a stream mutex somebody holds.
Blocked(t) ==
  \/ pc[t] \in {"x_stream", "s_stream", "r_stream", "c_stream"} /\ lock[strm[t]] # NoThread
  \/ pc[t] = "x_peer" /\ lock[Peer(strm[t])] # NoThread

\* "always take the audio_device mutex first": the threads inside the HAL are
\* never all waiting for each other.
NoDeadlock ==
  (\E t \in Threads : pc[t] # "idle") =>
     \E t \in Threads : pc[t] # "idle" /\ ~Blocked(t)

\* Whoever holds the device mutex gives it back, although a client may call
\* out_write() or in_read() over and over: they queue up behind adev->lock
\* ("acquiring hw device mutex systematically is useful if a low priority
\* thread is waiting on the output stream mutex").  That leaves the one caller
\* that goes for the stream mutex alone: while out_get_presentation_position()
\* is polled for ever nothing is promised.
DeviceLockReleased ==
  <>[](\A u \in Threads : pc[u] # "p_read")
     => \A t \in Threads : adevLock = t ~> adevLock # t

\* What RateArbiter speaks of: the group of a configuration, and for each
\* stream the group its start has settled on and that of its open PCM.
Group(c) == IF c = "none" THEN "none"
            ELSE IF Rate(c) % 8000 = 0 THEN "8000" ELSE "11025"
Starting(s) == \E t \in Threads : At(t, s, "x_peer") \/ At(t, s, "x_open")
Claims  == [s \in Streams |-> IF Starting(s) THEN Group(cfg[s]) ELSE "none"]
Playing == [s \in Streams |-> Group(hw[s])]
Moving  == {s \in Streams : \E t \in Threads : At(t, s, "x_io")}

Arbiter == INSTANCE RateArbiter WITH
  Stream <- Streams, Groups <- {"8000", "11025"},
  claim <- Claims, playing <- Playing, moving <- Moving

\* The two start functions together arbitrate the rate as RateArbiter says:
\* between the look at the peer and pcm_open() nobody else starts, stops or
\* begins a transfer, a start parks its peer only when their rates clash, and
\* no step takes the PCM from under a transfer.
RateArbitrated == Arbiter!Spec
=============================================================================
