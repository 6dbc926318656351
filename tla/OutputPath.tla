------------------------------ MODULE OutputPath ------------------------------
(***************************************************************************)
(* How out_write() keeps the kernel's playback buffer filled               *)
(* (audio/audio_hw.c): the buffer gets long when the screen is off, the    *)
(* threshold moves there in small steps, and a write sleeps while more     *)
(* than the threshold is queued.                                           *)
(*                                                                         *)
(* One output stream and its writer.  AudioHal has the locks: the stream   *)
(* mutex is held from WriteStart to the end of the write, so standby       *)
(* happens between writes; screen_off and active_in change at any time.    *)
(* The kernel side of the PCM is external.                                 *)
(***************************************************************************)
EXTENDS Integers

CONSTANTS
    PeriodSize,     \* OUT_PERIOD_SIZE (512 frames)
    SamplingRate,   \* OUT_SAMPLING_RATE (44100)
    ScoFrames,      \* frames one write becomes on the 8 kHz SCO PCM
    ScoBuffer,      \* the SCO PCM's buffer, SCO_PERIOD_SIZE * SCO_PERIOD_COUNT
    Word,           \* the number of values of a C int (2^32)
    Garbage,        \* what an int that was never assigned may hold
    PlayUnit        \* the kernel plays in chunks of this size (bound)

OUT_SHORT_PERIOD_COUNT == 2
OUT_LONG_PERIOD_COUNT  == 8
MIN_WRITE_SLEEP_US == 2000
MAX_WRITE_SLEEP_US ==
  (PeriodSize * OUT_SHORT_PERIOD_COUNT * 1000000) \div SamplingRate

ShortBuffer == PeriodSize * OUT_SHORT_PERIOD_COUNT
LongBuffer  == PeriodSize * OUT_LONG_PERIOD_COUNT
Quarter     == PeriodSize \div 4

ASSUME PeriodAssumption == PeriodSize \in Nat /\ Quarter > 0 /\ PeriodSize = 4 * Quarter
ASSUME RateAssumption   == SamplingRate \in Nat \ {0}
ASSUME WordAssumption   == Word \in Nat /\ Word > 4 * LongBuffer
ASSUME ScoAssumption    == ScoFrames \in Nat /\ ScoBuffer \in Nat /\ ScoFrames <= ScoBuffer
ASSUME GarbageAssumption == Garbage \subseteq Int
ASSUME BoundsAssumption == PlayUnit \in Nat \ {0}

VARIABLES
    \* struct audio_device, as out_write() reads it
    screenOff, activeIn, sco,
    \* struct stream_out
    standby, scoPcm,        \* scoPcm: pcm_config is the SCO one
    bufferType, writeThreshold, curThreshold,
    \* the kernel's PCM
    state, fill,            \* fill: frames queued and not yet played
    \* locals of out_write()
    pc, kernelFrames, totalSleep,
    \* history
    slept,                  \* microseconds really slept in this write
    tainted                 \* curThreshold comes from an unassigned variable

envVars    == <<screenOff, activeIn, sco>>
streamVars == <<standby, scoPcm, bufferType, writeThreshold>>
localVars  == <<pc, kernelFrames, totalSleep, slept>>
vars == <<envVars, streamVars, curThreshold, state, fill, localVars, tainted>>

MinOf(a, b) == IF a < b THEN a ELSE b
MaxOf(a, b) == IF a > b THEN a ELSE b

Init ==
  /\ screenOff = FALSE /\ activeIn = FALSE /\ sco = FALSE
  /\ standby = TRUE /\ scoPcm = FALSE
  /\ bufferType = "unknown" /\ writeThreshold = 0 /\ curThreshold = 0
  /\ state = "closed" /\ fill = 0
  /\ pc = "idle" /\ kernelFrames = 0 /\ totalSleep = 0 /\ slept = 0
  /\ tainted = FALSE
-----------------------------------------------------------------------------
(* The kernel and the rest of the HAL.                                     *)

BufferSize == IF scoPcm THEN ScoBuffer ELSE LongBuffer

\* The PCM plays; when it runs dry it stops in XRUN.
Play ==
  /\ state = "running"
  /\ fill' = MaxOf(fill - PlayUnit, 0)
  /\ state' = IF fill' = 0 THEN "xrun" ELSE "running"
  /\ UNCHANGED <<envVars, streamVars, curThreshold, localVars, tainted>>

\* adev_set_parameters(screen_state=...), and the input stream starts or stops.
SetScreen == screenOff' = ~screenOff /\ UNCHANGED <<activeIn, sco>>
InputStartsOrStops == activeIn' = ~activeIn /\ UNCHANGED <<screenOff, sco>>
Environment ==
  /\ SetScreen \/ InputStartsOrStops
  /\ UNCHANGED <<streamVars, curThreshold, state, fill, localVars, tainted>>

\* do_out_standby(): the PCM is closed and drops what it holds.  A change of
\* the SCO route always comes with it, also when the stream already stands by.
Standby ==
  /\ pc = "idle"
  /\ standby' = TRUE /\ state' = "closed" /\ fill' = 0
  /\ sco' \in BOOLEAN
  /\ UNCHANGED <<screenOff, activeIn, scoPcm, bufferType, writeThreshold, curThreshold,
                 localVars, tainted>>
-----------------------------------------------------------------------------
(* out_write(), from the start of the stream to the end of pcm_write().    *)

\* The buffer type the device asks for.
DesiredType == IF screenOff /\ ~activeIn THEN "long" ELSE "short"
Threshold(type) == PeriodSize * (IF type = "long" THEN OUT_LONG_PERIOD_COUNT
                                                  ELSE OUT_SHORT_PERIOD_COUNT)

\* Mutant: forgets the long buffer.
out_get_latency_Short ==
  (PeriodSize * OUT_SHORT_PERIOD_COUNT * 1000) \div SamplingRate

\* The latency told to the audio server, in milliseconds.
out_get_latency ==
  (PeriodSize * (IF screenOff /\ ~activeIn /\ ~sco
                   THEN OUT_LONG_PERIOD_COUNT ELSE OUT_SHORT_PERIOD_COUNT) * 1000)
    \div SamplingRate

\* Leave standby if need be (start_output_stream()), then adapt the target
\* threshold to the screen state, but not on SCO.
WriteStart ==
  /\ pc = "idle"
  /\ standby' = FALSE
  /\ scoPcm' = IF standby THEN sco ELSE scoPcm
  /\ state' = IF standby THEN "prepared" ELSE state
  /\ LET old     == IF standby /\ ~sco THEN "unknown" ELSE bufferType
         changed == ~sco /\ old # DesiredType
         target  == IF changed THEN Threshold(DesiredType) ELSE writeThreshold
     IN  /\ bufferType' = IF changed THEN DesiredType ELSE old
         /\ writeThreshold' = target
         /\ curThreshold' = IF changed /\ old = "unknown" THEN target ELSE curThreshold
         /\ tainted' = (tainted /\ ~(changed /\ old = "unknown"))
  /\ pc' = IF sco THEN "write" ELSE "probe"
  /\ UNCHANGED <<envVars, fill, kernelFrames, totalSleep, slept>>

\* pcm_open() fails: the stream stays in standby, its configuration chosen.
WriteStartFails ==
  /\ pc = "idle" /\ standby
  /\ scoPcm' = sco
  /\ bufferType' = IF sco THEN bufferType ELSE "unknown"
  /\ UNCHANGED <<envVars, standby, writeThreshold, curThreshold, state, fill, localVars, tainted>>

\* The value of a C int after unsigned arithmetic.
ToInt(u) == LET m == u % Word IN IF 2 * m >= Word THEN m - Word ELSE m

\* Mutant: rounds down to a period, not up.
JustAbove_NoExtraPeriod(k) == ToInt(((k % Word) \div PeriodSize) * PeriodSize + Quarter)

\* (kernel_frames / period_size + 1) * period_size + period_size / 4, where
\* period_size is unsigned and makes everything unsigned.
JustAbove(k) == ToInt((((k % Word) \div PeriodSize) + 1) * PeriodSize + Quarter)

\* The kernel's buffer is "really depleted".
Depleted(k) == k < writeThreshold /\ ToInt(writeThreshold - k) > ShortBuffer

\* Mutant: the threshold jumps to its target.
AdjustThreshold_AtOnce(k, from) ==
  /\ curThreshold' = IF curThreshold # writeThreshold THEN writeThreshold
                     ELSE IF Depleted(k) THEN JustAbove(k)
                     ELSE curThreshold
  /\ tainted' = (curThreshold' # writeThreshold /\
                  (tainted \/ (from = "unassigned" /\ curThreshold = writeThreshold)))

\* Mutant: the threshold is lowered but never raised again.
AdjustThreshold_DownOnly(k, from) ==
  /\ curThreshold' =
       IF curThreshold > writeThreshold
         THEN MaxOf(curThreshold - Quarter, writeThreshold)
       ELSE IF curThreshold = writeThreshold /\ Depleted(k) THEN JustAbove(k)
       ELSE curThreshold
  /\ tainted' = (curThreshold' # writeThreshold /\
                  (tainted \/ (from = "unassigned" /\ curThreshold = writeThreshold)))

\* One step towards the target; at the target, restart from the filling
\* status if the buffer is depleted.  k is kernel_frames, from says whether it
\* was ever assigned.
AdjustThreshold(k, from) ==
  /\ curThreshold' =
       IF curThreshold > writeThreshold
         THEN MaxOf(curThreshold - Quarter, writeThreshold)
       ELSE IF curThreshold < writeThreshold
              THEN MinOf(curThreshold + Quarter, writeThreshold)
       ELSE IF Depleted(k) THEN JustAbove(k)
       ELSE curThreshold
  /\ tainted' = (curThreshold' # writeThreshold /\
                  (tainted \/ (from = "unassigned" /\ curThreshold = writeThreshold)))

\* The sleep loop is left with k in kernel_frames.
LeaveLoop(k, from) ==
  /\ AdjustThreshold(k, from)
  /\ pc' = "write"
  /\ kernelFrames' = 0 /\ totalSleep' = 0
  /\ UNCHANGED <<envVars, streamVars, state, fill, slept>>

SleepTime(k) == ((k - curThreshold) * 1000000) \div SamplingRate

\* pcm_get_htimestamp() fails unless the PCM runs.  In the first round
\* kernel_frames then was never assigned; later it holds the last answer.
ProbeFails ==
  /\ pc = "probe" /\ state # "running"
  /\ \/ totalSleep = 0 /\ \E k \in Garbage : LeaveLoop(k, "unassigned")
     \/ totalSleep # 0 /\ LeaveLoop(kernelFrames, "assigned")

\* It answers: enough room, or too little missing to sleep for.
ProbeEnough ==
  /\ pc = "probe" /\ state = "running"
  /\ fill > curThreshold => SleepTime(fill) < MIN_WRITE_SLEEP_US
  /\ LeaveLoop(fill, "assigned")

\* Mutant: the last sleep is not cut short.
ProbeSleep_NoLimit ==
  /\ pc = "probe" /\ state = "running" /\ fill > curThreshold
  /\ SleepTime(fill) >= MIN_WRITE_SLEEP_US
  /\ kernelFrames' = fill
  /\ totalSleep' = totalSleep + SleepTime(fill)
  /\ slept' = slept + SleepTime(fill)
  /\ pc' = "sleep"
  /\ UNCHANGED <<envVars, streamVars, curThreshold, state, fill, tainted>>

\* It answers: sleep until the excess has been played, within the limit.
ProbeSleep ==
  /\ pc = "probe" /\ state = "running" /\ fill > curThreshold
  /\ SleepTime(fill) >= MIN_WRITE_SLEEP_US
  /\ kernelFrames' = fill
  /\ totalSleep' = totalSleep + SleepTime(fill)
  /\ slept' = slept + IF totalSleep' > MAX_WRITE_SLEEP_US
                        THEN MAX_WRITE_SLEEP_US - (totalSleep' - SleepTime(fill))
                        ELSE SleepTime(fill)
  /\ pc' = "sleep"
  /\ UNCHANGED <<envVars, streamVars, curThreshold, state, fill, tainted>>

\* Mutant: the loop ends after the first sleep.
WakeUp_Once ==
  /\ pc = "sleep"
  /\ LeaveLoop(kernelFrames, "assigned")

\* usleep() returns; the loop goes on while the limit is not exceeded.
WakeUp ==
  /\ pc = "sleep"
  /\ \/ /\ totalSleep <= MAX_WRITE_SLEEP_US
        /\ pc' = "probe"
        /\ UNCHANGED <<envVars, streamVars, curThreshold, state, fill,
                       kernelFrames, totalSleep, slept, tainted>>
     \/ totalSleep > MAX_WRITE_SLEEP_US /\ LeaveLoop(kernelFrames, "assigned")

Frames == IF scoPcm THEN ScoFrames ELSE PeriodSize
StartThreshold == IF scoPcm THEN ScoBuffer \div 2 ELSE ShortBuffer

\* pcm_write() with PCM_NORESTART: a PCM that is not running is prepared and
\* started once enough is queued; a running one is waited for until it has room.
PcmWrite ==
  /\ pc = "write" /\ state \in {"prepared", "running"}
  /\ fill + Frames <= BufferSize
  /\ fill' = fill + Frames
  /\ state' = IF state = "running" \/ fill' >= StartThreshold THEN "running" ELSE "prepared"
  /\ pc' = "idle" /\ slept' = 0
  /\ UNCHANGED <<envVars, streamVars, curThreshold, kernelFrames, totalSleep, tainted>>

\* It underran (-EPIPE, and the next write prepares the PCM) or failed.
PcmWriteFails ==
  /\ pc = "write"
  /\ IF state = "xrun" THEN state' = "prepared" /\ fill' = 0 ELSE UNCHANGED <<state, fill>>
  /\ pc' = "idle" /\ slept' = 0
  /\ UNCHANGED <<envVars, streamVars, curThreshold, kernelFrames, totalSleep, tainted>>
-----------------------------------------------------------------------------
\* The steps of the writing thread.
out_write ==
  \/ WriteStart \/ WriteStartFails
  \/ ProbeFails \/ ProbeEnough \/ ProbeSleep \/ WakeUp
  \/ PcmWrite \/ PcmWriteFails

Next == Play \/ Environment \/ Standby \/ out_write

Spec == Init /\ [][Next]_vars

\* The mixer thread writes as long as the stream is in use.
FairSpec == Spec /\ WF_vars(out_write)
-----------------------------------------------------------------------------
\* Every variable has the type of its C counterpart.
FlagsOK ==
  /\ screenOff \in BOOLEAN /\ activeIn \in BOOLEAN /\ sco \in BOOLEAN
  /\ standby \in BOOLEAN /\ scoPcm \in BOOLEAN /\ tainted \in BOOLEAN
TypeOK ==
  /\ FlagsOK
  /\ bufferType \in {"unknown", "short", "long"}
  /\ writeThreshold \in {0, ShortBuffer, LongBuffer}
  /\ curThreshold \in Int
  /\ state \in {"closed", "prepared", "running", "xrun"}
  /\ fill \in Nat /\ kernelFrames \in Nat /\ totalSleep \in Nat /\ slept \in Nat
  /\ pc \in {"idle", "probe", "sleep", "write"}

\* One write never sleeps longer than MAX_WRITE_SLEEP_US in all, however
\* often the loop of out_write() goes round.
SleepCapped == slept <= MAX_WRITE_SLEEP_US

\* Unless it was computed from the unassigned kernel_frames, the current
\* threshold lies between one and a quarter period and the whole buffer, so
\* that a write neither starves the kernel nor waits for room for ever.
ThresholdBounded ==
  bufferType # "unknown" /\ ~tainted =>
     PeriodSize + Quarter <= curThreshold /\ curThreshold <= LongBuffer

\* At most a quarter period apart.
Near(a, b) == a <= b + Quarter /\ b <= a + Quarter

\* "do not allow abrupt changes on buffer size": while the stream runs the
\* threshold moves by at most a quarter period, except when it restarts below
\* the target from the filling status of a depleted buffer.
NoAbruptChange ==
  [][~standby /\ ~tainted' /\ curThreshold' # curThreshold =>
       \/ Near(curThreshold', curThreshold)
       \/ curThreshold = writeThreshold /\ curThreshold' < writeThreshold]_vars

\* An excess of x frames plays in less than the shortest sleep.
TooShortToSleepFor(x) == x * 1000000 < MIN_WRITE_SLEEP_US * SamplingRate

\* "do not allow more than out->cur_write_threshold frames in kernel pcm
\* driver buffer": what the kernel holds when a write is handed to it exceeds
\* the threshold by less than a step and the shortest sleep, unless this
\* write has already slept as long as it may.
BacklogBounded ==
  pc = "write" /\ ~sco /\ ~tainted =>
     \/ slept = MAX_WRITE_SLEEP_US
     \/ TooShortToSleepFor(fill - curThreshold - Quarter)

\* The kernel's queue stays near a threshold that itself stays in range.
QueueBounded == ThresholdBounded /\ BacklogBounded

\* The threshold reaches its target again and again while the stream plays,
\* even if it started from the unassigned kernel_frames, once the screen and
\* the input stream stay as they are ("smooth catching up with target").
ThresholdConverges ==
  /\ <>[]screenOff \/ <>[]~screenOff
  /\ <>[]activeIn \/ <>[]~activeIn
  => []<>(curThreshold = writeThreshold \/ standby \/ sco)

\* What the kernel holds at a write plays within the latency reported (rounded
\* down to a millisecond), a quarter period and the shortest sleep, unless the
\* write has slept as long as it may.
WithinLatency ==
  pc = "write" /\ ~sco /\ ~tainted =>
    \/ slept = MAX_WRITE_SLEEP_US
    \/ (fill - Quarter) * 1000
         < (out_get_latency + 1 + MIN_WRITE_SLEEP_US \div 1000) * SamplingRate

\* The latency told to the audio server becomes true: out_get_latency() reads
\* the screen and the input stream of the moment, while the buffer follows
\* them in quarter periods; once they stay as they are, every write finds a
\* kernel buffer within that latency in the end.
LatencyHonest ==
  /\ <>[]screenOff \/ <>[]~screenOff
  /\ <>[]activeIn \/ <>[]~activeIn
  => <>[]WithinLatency

\* Once the screen and the input stream stay as they are, the write path
\* settles: the threshold is at its target again and again, and the latency
\* reported becomes the true one.
SettlesHonestly == ThresholdConverges /\ LatencyHonest

\* "Also reset current threshold just above current filling status when
\* kernel buffer is really depleted": the restart leaves the threshold above
\* what the kernel holds, by at most a period and a quarter.
ResetJustAboveFill ==
  [][pc = "probe" /\ curThreshold = writeThreshold /\ curThreshold' # curThreshold =>
       fill < curThreshold' /\ curThreshold' <= fill + PeriodSize + Quarter]_vars
=============================================================================
