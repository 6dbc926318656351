# TLA+ models of the grouper device tree

The repository is the LineageOS device tree of the Nexus 7 (2012): the hardware
abstraction layers (HALs) the Android framework loads for audio, power, key
storage, lights, NFC, media and GPS, and the configuration and build files
around them. This directory specifies the parts that keep state, checks them with
TLC on small instances and proves their safety properties with TLAPS for every
instance. `PROJECT.json` lists the components,
runs, hazards, theorems, findings and, for each definition, the source lines it
models.

## 1. Inventory

| part | source | state it keeps | what is hard about it |
|---|---|---|---|
| audio: streams, routing, locks | `audio/audio_hw.c` | three mutexes, two streams, their PCM, resampler and buffer, devices, orientation, mixer | two streams start and park each other, taking each other's mutex; PCMs cannot mix rate groups; routes change under running streams; starts fail half-way |
| audio: output write path | same, `out_write` | target and working threshold, buffer type, sleep counters, kernel queue | a sleeping loop steered by the kernel, the screen and capture; an unassigned variable |
| audio: presentation position | same, `out_get_presentation_position` | frames written | underruns, standby and SCO change the queue behind the counter |
| audio: input data path | same, `in_read`, `get_next_buffer`, `release_buffer` | one period buffer, `frames_in`, `read_status`, mute flag | state that survives calls and restarts, failing reads, an unlocked flag |
| power: TimeoutPoker | `power/timeoutpoker.*`, `barrier.h` | event queue, looper, descriptors, pipes | a constraint lasts as long as a descriptor; numbers are reused at once; clients wait for the looper |
| power: hints | `power/nvpowerhal.cpp`, `tegra3_power.cpp` | `hint_time`, the boosts | no lock, a torn 64-bit store, a clock that wraps |
| power: set-up and screen | same, `powerhal_utils.cpp` | table of touch panels, frequencies, the poker in use | set up twice, while hints arrive and input devices come and go; sysfs text that may be an error message |
| keymaster | `keymaster/keymaster_grouper.cpp` | token objects, sessions, handles, searches | several TEE calls per operation, each may be refused; no lock; the token outlives the process; every return must free what it holds, once |
| lights | `liblights/lights.c` | a mutex | re-initialised by every open; the brightness map |
| NFC | `nfc/nfc_hw.c` | the table of EEPROM settings, the controller's EEPROM | a set-up may break off anywhere; one address is in the table twice |
| OMX plugin | `libstagefrighthw/NVOMXPlugin.cpp` | library handle, function pointers, role buffers | the library may be missing or incomplete, and is asked the same twice |
| GPS shim | `libgpsd-compat/libgpsd-compat.c` | the sensor manager singleton | two libraries clean up the same object |
| adaptive backlight | `cmhw/.../AdaptiveBacklight.java` | one sysfs switch | the probe writes back what it read, without a lock |
| healthd, dumpstate | `libhealthd/`, `dumpstate/` | none | - |
| scripts, policy, overlays, build files | the rest | none of their own | - |

How they interact. AudioFlinger calls the audio HAL from a mixer thread, a
record thread and control threads; inside, `start_output_stream` and
`start_input_stream` reach into the other stream. `AudioHal` has that
concurrency; the other audio modules take from it that the stream mutex is held
for the whole of a read or write and model what happens in between. The power
HAL's hints call the TimeoutPoker; `PowerHal` uses what `PmQos` promises and
`TimeoutPoker` is proved to keep that promise; `PowerSetup` has the set-up that
starts the poker, and the hints that reach it meanwhile. Keymaster talks to the
TEE only; `Keymaster` has what its calls do to the token, `KeyMemory` what the
same operations do to their own memory. The smaller HALs share no state with the
others and meet only in `Board`, which lets one of them move at a time.

What makes each part correct:

- audio: locks never deadlock and are given back; open PCMs are of one rate
  group and of the current route; a transfer has a PCM; nothing leaks, and no
  freed stream is reached; the mixer shows the current devices; a write
  sleeps a bounded time, the backlog stays near the threshold, and the threshold
  converges in small steps; positions never go back; captured frames are handed
  on once and in order; errors and mute take effect in the read they belong to.
- power: a descriptor is closed once, by its owner; every constraint lasts as
  long as asked and then goes; every caller is answered; hints are limited but
  never shut out; a set-up returns, however often it runs, and never takes the
  poker away under a hint; boosts ask for frequencies the CPU has; no input
  device stays dead when the screen is on.
- keymaster: a key the client was given stays until its deletion is asked for;
  a finished deletion leaves nothing and an unfinished one never the private
  key alone; every return closes what it opened and frees what it owns, once; an operation
  does not fail for what another thread does to another key; templates and lengths given to the TEE are what they claim.
- lights: a brighter colour never dims, the power save holds, one writer at a
  time and no sleeper forgotten.
- NFC, OMX, GPS, backlight toggle: a finished set-up lasts; a missing library is
  harmless; buffers and managers are freed once; a probe keeps the setting.

## 2. Modules

| module | models | composed with |
|---|---|---|
| `AudioHal` | every stream and device operation of `audio_hw.c`, lock by lock; output and input are the same steps with the stream as parameter | implements `RateArbiter` |
| `RateArbiter` | the promise of the two start functions: one rate group at a time, the last start wins, a transfer keeps its PCM | instantiated by `AudioHal` |
| `OutputPath` | `out_write` inside the stream mutex | holds the mutex as `AudioHal` says |
| `OutPosition` | `out_get_presentation_position` and what changes `written` and the kernel's queue | same |
| `InputPath` | `in_read` inside the stream mutex | same |
| `TimeoutPoker` | the looper thread step by step, its clients, the descriptor table | implements `PmQos` |
| `PmQos` | the promise of the poker's interface: granted, in force for its time, released | instantiated by `TimeoutPoker` |
| `PowerHal` | hints, interval check, unlocked time stamps, boosts | assumes `PmQos` |
| `PowerSetup` | `common_power_open` and its two callers, `set_interactive`, `set_feature`, the sysfs helpers | `Board` |
| `Keymaster` | open, close and the six key operations, one step per TEE call | implements `KeyLife` |
| `KeyLife` | what a client is promised about a key: made, given, condemned, deleted, and never back | instantiated by `Keymaster` |
| `KeyMemory` | references, scoped pointers and returns of the key operations | `Board` |
| `Lights`, `NfcHal`, `OmxPlugin`, `GpsCompat`, `AdaptiveBacklight` | one HAL each | `Board` |
| `Board` | the seven parts above side by side | extends them |
| `MC...` | TLC's sets and symmetry | extend the above |
| `..._proofs` | inductive invariants and theorems | extend the above |

Correspondence. A variable has the name of the field it stands for where TLA+
allows it; a step is the code between two points where another thread, the
kernel or a failure can come in: lock operations in `AudioHal`, probes and sleeps
in `OutputPath`, system calls in `TimeoutPoker`, PKCS#11 calls in `Keymaster`.
Variables marked *history* are not in the program and only serve properties.
Operators commented *Mutant* are wrong variants of the next definition; no
specification uses them.

Assumptions and abstractions, part by part:

- `AudioHal`: one output and one input stream, as `audio_policy.conf` has one
  profile of each on the primary module. AudioFlinger does not use a stream it is
  closing. `Restart` is the audio server dying and coming back. The device
  is closed when both streams are. Memory exhaustion is left out.
  `out_get_presentation_position` takes the stream mutex alone and holds it over
  its ioctl (`p_read`); in standby the pointer it goes through may be NULL or of a
  PCM whose `pcm_open` failed, and the call returns or ends the server.
- `OutputPath`: frames are counted, samples are not. Period and rate are scaled
  so that their ratio, hence the times, are the code's. `kernel_frames` is
  unassigned until the first probe succeeds: `Garbage` is what it may hold.
- `OutPosition`: a write is one step; the position is not asked for in standby.
- `InputPath`: a sample is the number and channel of the captured frame it comes
  from. The client reads with the size it was told when it opened the stream, or
  when it asked again (`AskSize`): the answer is for the configuration of the moment. A
  resampler that cannot be made is not noticed, and the read is then direct. A direct
  read past the end of the buffer goes into the memory behind it (`Memory`), and the
  server may die of it.
  The resampler asks for input when it has less than `Need`, as libaudioutils'
  does; each round produces at least one frame. A failed `pcm_read` leaves the
  buffer as it was.
- `TimeoutPoker`: the values written to a node are left out, and the result of
  that write is ignored by the code. Messages run in the order of their due
  times and at most `MaxLag` ticks late. `Looper::prepare` does not fail.
- `PowerHal`: a call takes at most `MaxLag` ticks, which is at most a quarter of the
  time in which the 32-bit clock wraps (some 18 minutes); a boost's two floors count as
  one. A process has finitely many threads (`ThreadAssumption`). `Word` and `Wide` scale 2^32 and 2^64.
  Stores of `hint_time` are torn, loads are not. Hints begin when `init` is over: those that
  fall into the first set-up, whose intervals are still 0 (`nvpowerhal.cpp:127-187`), are
  in `PowerSetup` only.
- `PowerSetup`: the power manager's calls come one at a time, hints at any
  moment. A text file is its words as `atoi` reads them; a read that fails leaves
  the words of `strerror_r`, at least two that `atoi` reads as 0. What lies before an empty array is `Garbage`. A
  driver may refuse a switch; the code does not look.
- `Keymaster`: threads of one process, no lock. The process may die between any
  two calls; the TEE then drops its sessions and keeps its token.
  `C_GenerateKeyPair` makes both objects or none. Ids are 32 random bytes, drawn
  at most once. Calls that close succeed. A call fails because the TEE refuses it,
  because its session went with the library, or because its object is gone; only
  the first counts as a cause of its own (`cause`, `Served`). Arguments rejected before a session is
  opened change nothing and have no action.
- `KeyMemory`: an operation is the list of its steps; any of them that the code
  tests may fail, and the destructors then run one by one, in reverse. Of a number
  only the length matters. The ByteArray around a blob, which `keyblob_save` gives
  up with `release()`, is excepted from `NothingLost`: it does leak.
- `Lights`: `g_lock` is bionic's normal mutex with its three values. An open that
  falls into a call is recorded (`reinit`), and what the lock promises ends there.
- `NfcHal`: the stack writes the table in order and may break off. The table
  itself is translated in full.
- `OmxPlugin`, `GpsCompat`: the vendor libraries are external and do anything the
  plug-in's code allows for: missing, lacking a function, failing, changing their
  answers; cleaning up or not.
- `AdaptiveBacklight`: any read or write of the file may fail, and all do where there is none.

## 3. Runs

| run | instance | shows |
|---|---|---|
| `audio_hal` | 3 threads, 4 output routes (one of them `routing=0`) and 2 input routes, one recording rate | `OneRateGroup`, `PcmMatchesRoute`, `TransferHasPcm`, `MemorySafe`, `MixerInSync`, `NoDeadlock`, `DeviceLockReleased`, the refinement `RateArbitrated` |
| `output_path` | period 8 at 689 Hz | `SleepCapped`, `QueueBounded`, `NoAbruptChange`, `SettlesHonestly` |
| `output_path_reset` | as `output_path` | *violation* of `ResetJustAboveFill` |
| `out_position` | period 4, 30 frames | `PositionConsistent`, `PositionMonotone` |
| `input_path` | periods 4, 2 and 2, PCM rates 5 and 2, client rates 2, 3, 5 and 7, 9 frames | `BufferFits`, `InOrder`, `ResultHonest`, `ReadReturns` |
| `timeout_poker` | 2 clients, 5 descriptors, 3 requests, all failures | `FdsOwned`, the refinement `KeepsPromise` |
| `timeout_poker_live` | 4 descriptors, `addFd` succeeds | `NoConstraintLeaks`, `PokerDelivers` |
| `timeout_poker_addfd` | as `timeout_poker` | *violation* of `NoConstraintLeaks` |
| `power_hal` | 2 threads, VSYNC hints, one wake-up, a clock of 20 values | `BoostsBounded`, `NeverDeaf` |
| `power_hal_gap` | 1 thread, INTERACTION hints | *violation* of `BoostMaintained` |
| `key_master` | 2 threads, 2 key ids | `PrivateHasPublic`, `KeysKept`, `DeletedForGood`, `NothingStranded`, `FailsOnlyForCause`, the refinement `KeysLive` |
| `board` | 2 panels and another device under 3 numbers, 2 set-ups; 3 threads on the lights; 2 roles; 39 settings; 3 managers; 2 threads on the toggle; 2 key results | `InputAlive`, `BoostsSound`, `SetupReturns`; `LockWorks`, `BacklightRight`; `PluginSound`; `SetUpForGood`; `ManagerFreedOnce`; `ProbeKeepsSetting`; `MemorySound` |

Several of these are conjunctions of properties with a name and a meaning of
their own, and each part has a mutant of its own that breaks it:

| property | parts |
|---|---|
| `MemorySafe` | `NothingLeaks`, `NoUseAfterFree` |
| `QueueBounded` | `ThresholdBounded`, `BacklogBounded` |
| `SettlesHonestly` | `ThresholdConverges`, `LatencyHonest` |
| `ResultHonest` | `FailureIsFresh`, `MutedReadSilent` |
| `FdsOwned` | `ClosedByOneHolder`, `ClientKeepsItsFd` |
| `PokerDelivers` | `CallReturns`, `ConstraintGoes` |
| `NothingStranded` | `NothingLeftOpen`, `LibraryHasOwner` |
| `BoostsSound` | `PokerReplacedSafely`, `FloorsReal`, `TopFrequency` |
| `LockWorks` | `OneWriter`, `NoLostWakeup` |
| `BacklightRight` | `PowerSave`, `BrighterNeverDims` |
| `PluginSound` | `MissingLibraryHarmless`, `RolesFresh`, `BuffersFreed` |
| `MemorySound` | `FreedOnce`, `NothingLost`, `TemplateSound`, `LengthsTrue` |

That every variable keeps its type (`TypeOK`) is a theorem about each specification
(section 5), and the runs leave it out.

What they do not say. `MemorySafe` is about the stream structures and what they own; the
pointer that a failed `pcm_open` leaves is outside it. `DeviceLockReleased` assumes
that the position is not polled for ever. `BufferFits` names two overruns that do happen.
`FailsOnlyForCause` ends where a refused subsession has finalised the library.
`NothingStranded` means sessions, searches, handles and the library, not the public
object that a failed import leaves on the token. `FloorsReal` excepts an empty
frequency table.

Why the bounds are enough. Three threads are a player, a recorder and a
controller: every lock is contended and both start functions can meet. Eight
periods of buffer are kept as in the code, so both thresholds, every quarter
step and every way out of the loop occur; `PlayUnit` only groups the frames the
kernel plays. `MaxWritten` and `MaxCaptured` allow several starts, underruns and
switches to SCO and back. The rates of `input_path` are SCO's, the microphone's, one
between and one above, so that every client rate is met with and without a resampler, and
both overruns occur. Five descriptors hold one constraint with its pipe and
leave too few for a second, so exhaustion occurs with a request half done; three
requests let a number be reused while an older time-out is pending. The clock of
`power_hal` wraps several times within the interval. Two threads and two ids let
two operations meet on one key and on different keys, with a crash anywhere; a
third thread adds no new kind of conflict, and the theorems cover any number.
In `board` the two set-ups are `open` and `init`; three input numbers let a panel go
and come back above a gap; the greys lie on both ends of the squeezed range
(`Board_proofs` covers every colour); three threads are a writer, a sleeper and a
third that comes between; two results let an operation follow a failed one.
`board` does not check for deadlock: its parts stop when a bound is used up.

Fairness. Safety runs assume none. `AudioHal`: a thread inside the HAL that can
take its next step takes it (weak fairness per thread); pthread mutexes are not
fair, so nothing is claimed about one particular call returning, only that the
device mutex is given back, and that only if from some time on nobody is inside
`out_get_presentation_position`: it goes past the device mutex to the stream's, which a
caller that polls without pause may win again and again. `OutputPath`: the mixer thread keeps writing while the stream is in
use. `InputPath` (`FairSpec`): a read that has begun goes on, since `pcm_read` returns with
frames or an error. `TimeoutPoker`: its looper thread runs, time passes, a woken
client returns. `Board` (`PowerFairness`): a call of the power manager goes on, and a
poker's thread that was started runs.

## 4. Findings

1. `output_path_reset`: when `pcm_get_htimestamp` fails in the first round,
   `out_write` computes the threshold from the unassigned `kernel_frames`
   (`audio_hw.c:749`); the comment promises a reset just above the fill.
   `ThresholdBounded` and `BacklogBounded` say what still holds then.
2. `timeout_poker_addfd`: `createHandleForFd` ignores the result of
   `listenForHandleToCloseFd` and tests that of `pipe` again
   (`timeoutpoker.cpp:42`): after a failing `addFd` the constraint stays for good.
3. `power_hal_gap`: interval and boost of INTERACTION are both 100 ms
   (`nvpowerhal.cpp:188`), the comment wants the interval shorter: a hint just
   refused leaves a gap.

Met while modelling, without a document that says otherwise: a read that fails
(`audio_hw.c:974`) returns its full length with whatever the buffers held, and is
not cleared when the microphone is muted (line 991 asks for `ret == 0`;
`MutedReadSilent` is about reads that succeed); a deletion cut half-way leaves a
public object that no retry removes, since `keyblob_restore` wants both; one
failed subsession finalises the library under the operations of all other threads
(`keymaster_grouper.cpp:129`), and the keymaster device is dead until it is opened again;
`out_get_presentation_position` goes past the device mutex, against the rule of the comment
at `audio_hw.c:637`, so that polling it can starve a thread that holds the device mutex and
waits for the stream's, and in standby it goes through a NULL or freed PCM (line 809); a
client that asks for its buffer size while on SCO and then records from the microphone
at 44.1 kHz reads 1424 frames into a buffer of 1024 (lines 848 and 975), as does, with
other numbers, one above 44.1 kHz whose resampler could not be made (line 390); each
blob leaks the ByteArray around it (`keymaster_grouper.cpp:264`); `open_lights`
initialises a mutex that may be in use (`lights.c:124`); a second answer of the OMX
core with more roles overruns the array (`NVOMXPlugin.cpp:131`); and a screen that
goes off between `open` and `init` of the power HAL turns every input device off,
of which only the panels are turned on again (`nvpowerhal.cpp:230`). The modules'
properties say what holds up to these points.

## 5. Proofs

All theorems are about `Spec` without fairness and hold for every value of the
constants that satisfies the modules' named assumptions. Each rests on one
inductive invariant; its conjuncts are proved step by step, one case per action.

- `AudioHal_proofs`: the types and all invariants of `audio_hal`, for any threads, routes
  and rates. A safe start depends on nobody touching the peer after it was
  looked at, hence on which mutexes a label implies (`LockInv`), on who uses a
  stream that is being closed (`UseInv`; a call for the position counts as one that uses
  it), on what an active or parked stream
  holds (`StreamInv`) and on what a starting thread has established (`StartInv`).
  `NoDeadlock` follows from the lock order these state.
  `Arbitrates` is the refinement `Spec => RateArbitrated`. A claim is read off the label of
  the thread between the look at its peer and `pcm_open`, a transfer off the label of the
  thread inside `pcm_write` or `pcm_read`. That nobody else claims (`OneClaims`,
  `NobodyClaims`) and that an unlocked stream transfers nothing (`UnlockedIdle`) follow from
  `LockInv`; that only a clashing peer is parked, from `StreamInv` and from the two rate
  tests being one (`ConflictIsSco`).
- `OutputPath_proofs`: the types and all safety properties of `output_path`, for every period
  that is a multiple of four, every rate and every garbage value. `SleepInv` ties
  the two sleep counters together, `BufferInv` bounds the kernel's fill and the
  last answer, `CurInv` bounds the working threshold.
- `InputPath_proofs`: the types and all invariants of `input_path`, for every period, rate
  and need of the resampler that satisfies `SizesAssumption`, wherever the client asks for
  its size, and without a bound on what is captured. `RunInv` says that what is left in the buffer is what follows
  what was handed on; `OpenInv` ties the client's read size to the configuration it
  was asked for, from which `Sizes` and the arithmetic of rounding give
  `BufferFits`; `StatusInv` says that an old error goes with an empty buffer and
  resampler, so that the next read asks the PCM and clears it before it can end.
- `OutPosition`: both properties; the position is consistent with
  `written - fill`, from which it cannot fall back.
- `TimeoutPoker_proofs`: types, `FdsOwned` (its two parts first), and
  `NoConstraintLeaks` if `addFd` is not among the failures. The invariant says
  that each descriptor has one holder among the queued time-outs (`ExpiryInv`),
  the polled pipes (`WatchInv`), the looper's locals (`WorkerInv`) and the clients
  (`CallerInv`, `ClientInv`).
  `Implements` is the refinement: `Spec => KeepsPromise`. The mapping reads the state of
  a promise off the descriptor table by the key of its request, so the proof needs
  what ties the two together: the key of an open file is neither queued nor free
  (`FileKeyInv`), names one node and one handle (`OneFileInv`), the request being served
  has the files its label says (`ServeInv`), and a constraint that is timed or being
  closed has no handle (`HandleInv`). Each step of looper, client and time then is a
  step of `PmQos` on one key, or changes none.
- `PowerHal_proofs`: the types, `NeverDeaf` and `BoostsBounded`, for any threads, hints, word
  sizes and length of a call. For `NeverDeaf` the argument is about the low half of `hint_time` alone: the two
  halves may come from different threads, but the difference `check_hint` compares
  agrees with the age of the low half up to a multiple of 2^32 (`TooSoonLow`). A run
  of dropped hints is no longer than that half is old (`LimitInv`), because a half
  that is written during the run belongs to a call older than the run (`StoreInv`), as
  `CallInv` says how a thread's reading of the clock and its age go together.
  `BoostsBounded` is a count, proved from how the boosts of one thread are spaced
  (`SpacedInv`): the next comes an interval less the length of a call later, or after
  the 32-bit time has changed its sign, which happens twice in 2^32 ticks. That holds
  although other threads store their times too: from a boost on, each half anyone writes is
  at least as recent as the boost, and has the present sign unless that changed meanwhile
  (`HeldInv`, `ReadInv`, `FreshInv`), so that the thread's next call within the interval is
  dropped however `hint_time` is torn (`PushInv`). Spaced so, the boosts of a thread fit
  into `2 + MaxLag` places, and the map from boosts to threads and places is an
  injection. `BoostsDiffer` says that the set of boosts loses none: no request equals one in force.
- `Board_proofs`: the types and all invariants of `board` and `BacklightRight`, for each
  HAL's own specification first and then, since a step of `Board` is a step of one part
  (`PartsMove`), for the whole (`BoardTypeCorrect`, `BoardSound`).
  - Lights, for any threads and colours: `ShownInv` ties the backlight to the colour
    written, `LockInv` the value of `g_lock` to who writes and who sleeps; the arithmetic
    lemmas show the map monotone.
  - OMX plug-in: `OmxInv` has what is true between the core's two answers.
    GPS shim: `GpsInv`, that nothing is unloaded while a manager is being made.
  - NFC: `NfcInv`, that what this set-up has written is there and after a whole one
    all of it. It rests on a lemma about the table: the address that occurs twice has
    one value. Adaptive backlight, for any threads: `DimmerInv`, that what a probe has
    read is what the file still says.
  - Power set-up, for any panels, drivers, frequency files and error texts: `StartInv` and
    `PokerInv` say that pokers start one after the other and that the one in use has its
    looper, `FreqInv` that the table read twice yields frequencies of the CPU, `DeviceInv`
    that a device number is never another device's and that what is disabled is in the
    table, from which the screen enables it again.
  - `KeyMemory`, for any lengths: `Shape` says what the list of steps and every rest of it
    look like, `RunInv` that the steps left find what they need, `RefsInv` that each
    reference is a scoped pointer's, the EVP_PKEY's or the client's, `TemplateInv` and
    `LengthInv` that template and arrays have room for what is still to come. An
    operation is not one induction over its list: the lemmas show that dropping the
    first step keeps every part.
- `Keymaster_proofs`: the types and all invariants of `key_master`, for any threads and
  ids. `IdInv` says that a key in the making is known to one thread only and that
  only ids whose deletion was asked for are destroyed, `TokenInv` how far each
  operation has come on the token, `OwnInv` that what the TEE has open is what
  the C++ destructors will close. `SessionInv`, that a thread in a TEE call has its session
  while the library stands and that the device is opened with nobody else at work, gives
  `FailsOnlyForCause`: a call can fail without a refusal only after `C_Finalize` or on an
  object that is gone, and `KeptInv` says whose objects those are. `KeysLiveAsPromised` is the refinement
  `Spec => KeysLive`: the stage of a key is read off the ids drawn, given out, condemned
  and reported; `IdInv` makes the step of any thread a step on one key only, `TokenInv`
  gives the order in which its objects come and go.

Only model-checked:

- the liveness properties `DeviceLockReleased`, `SettlesHonestly`, `ReadReturns`,
  `PokerDelivers` and `SetupReturns`: fairness is outside the prover's reach;
- the three violations.

## 6. Not modelled

`nfc/pn544_fw.c` is half of the repository's C: the bytes of a firmware image, with
no code. `pkcs11.h`, `cryptoki.h` and `s_type.h` hold the constants and types of the
TEE's interface. healthd and dumpstate hooks fill in a configuration or name files
to dump. The property helpers of `powerhal_utils.cpp` have no caller. Scripts,
policy, overlays and build files are data for other programs or run on the build
host. Sample arithmetic, key material, OpenSSL's conversions and log output are data
no property here tells apart. Failing memory allocation is left out everywhere but
where the code looks at it.

## 7. Plan

Done, in this order: `AudioHal`, `OutputPath`, `OutPosition`, `TimeoutPoker` with
`PmQos`, `PowerHal`, `Keymaster`, `InputPath`, then `PowerSetup`, the smaller HALs,
`KeyMemory` and `Board`; the proofs about each of them; the refinements of `PmQos`,
`KeyLife` and `RateArbiter`. Every invariant, every action property and every refinement a
passing run checks is stated by a theorem.

Worth adding, with a prover for temporal properties: the liveness properties of section 5
under the fairness of section 3.
