------------------------------- MODULE InputPath -------------------------------
(***************************************************************************)
(* The capture data path of the audio HAL (audio/audio_hw.c): in_read()    *)
(* gets mono frames at the client's rate from a PCM that is stereo         *)
(* (microphone) or mono (SCO) and runs at its own rate.  With equal rates  *)
(* it reads the PCM directly; otherwise a resampler pulls its input        *)
(* through get_next_buffer() and release_buffer(), which hand out one      *)
(* period at a time from in->buffer.  A PCM read may fail anywhere, and    *)
(* the mute flag is written and read without a lock.                       *)
(*                                                                         *)
(* The rest of the stream is under its mutex for a whole in_read()         *)
(* (AudioHal), so only the mute flag changes during a read.  A sample is   *)
(* <<n, channel>> of the n-th frame the driver delivered; what the         *)
(* resampler makes of its input is stamped with the last sample it took.   *)
(* The branch of read_frames() without a resampler and the test for a NULL *)
(* PCM cannot be reached from in_read().  The driver and the resampler are *)
(* external.                                                               *)
(***************************************************************************)
EXTENDS Integers, Sequences

CONSTANTS
    InPeriod, LowPeriod, ScoPeriod,     \* frames: 1024, 512, 256
    InRate, ScoRate,                    \* 44100, 8000
    Rates,                              \* what clients record at
    Align,                              \* buffers are multiples of 16 frames
    Need,                               \* input frames the resampler wants at least
    MaxCaptured                         \* no read begins after that (bound)

ASSUME SizesAssumption ==
  /\ {InPeriod, LowPeriod, ScoPeriod, InRate, ScoRate, Align, Need} \subseteq Nat \ {0}
  /\ Rates \subseteq Nat \ {0} /\ MaxCaptured \in Nat
  /\ InPeriod % Align = 0 /\ LowPeriod % Align = 0 /\ ScoPeriod % Align = 0
  /\ LowPeriod <= InPeriod
  /\ \A r \in Rates : InPeriod * r >= InRate /\ ScoPeriod * r >= ScoRate

VARIABLES
    rate, nonSco,   \* requested_rate, pcm_config_non_sco
    frames_rq,      \* the frames the client reads at a time
    asked,          \* the configuration when it asked for that size (history)
    sco,            \* the input is routed to SCO
    mic_mute,
    standby, config, resampler,
    buffer, frames_in, read_status,     \* of stream_in
    held,           \* frames waiting inside the resampler
    captured,       \* frames the driver has delivered
    at,             \* where in_read() is
    client,         \* the samples this read has put into the client's buffer
    ret,            \* its result so far
    broke,          \* a call of this read failed (history)
    quiet,          \* muted since this read's transfer ended (history)
    base, taken     \* captured at the last start; samples passed on since (history)

open    == <<rate, nonSco, frames_rq, asked>>
stream  == <<standby, config, resampler, buffer, frames_in, read_status>>
reading == <<at, client, ret, broke, quiet>>
vars    == <<rate, nonSco, frames_rq, asked, sco, mic_mute, standby, config, resampler,
             buffer, frames_in, read_status, held, captured,
             at, client, ret, broke, quiet, base, taken>>

Configs == {"in", "low_latency", "sco"}

period_size(c) == IF c = "in" THEN InPeriod ELSE IF c = "low_latency" THEN LowPeriod ELSE ScoPeriod
pcm_rate(c)    == IF c = "sco" THEN ScoRate ELSE InRate
channels(c)    == IF c = "sco" THEN 1 ELSE 2

(* One period at the client's rate, rounded up.                            *)
in_get_buffer_size(c, r) ==
  LET size == (period_size(c) * r) \div pcm_rate(c)
  IN  ((size + Align - 1) \div Align) * Align

(* What the device tells a client before there is a stream: the buffer it  *)
(* needs at least, for a microphone that is not low latency.               *)
adev_get_input_buffer_size(r) ==
  LET size == (InPeriod * r) \div InRate
  IN  ((size + Align - 1) \div Align) * Align

Errors  == {-1, -2}             \* of pcm_read(); two stand for all
Junk    == <<0, "junk">>        \* what malloc() returns
Silence == <<0, "zero">>

(* Only a capture at the native rate may be a low latency one.             *)
NonSco(r) == IF r = InRate THEN {"in", "low_latency"} ELSE {"in"}

(* adev_open_input_stream().  The client reads with the size it asks for   *)
(* when it has opened the stream, until it asks again.                     *)
Init ==
  /\ rate \in Rates /\ nonSco \in NonSco(rate)
  /\ frames_rq = in_get_buffer_size(nonSco, rate) /\ asked = nonSco
  /\ sco = FALSE /\ mic_mute = FALSE
  /\ standby = TRUE /\ config = nonSco /\ resampler = FALSE
  /\ buffer = <<>> /\ frames_in = 0 /\ read_status = 0
  /\ held = 0 /\ captured = 0
  /\ at = "idle" /\ client = <<>> /\ ret = "none" /\ broke = FALSE /\ quiet = FALSE
  /\ base = 0 /\ taken = <<>>

(* The audio server died and a client opens a stream again.                *)
Restart ==
  /\ rate' \in Rates /\ nonSco' \in NonSco(rate')
  /\ frames_rq' = in_get_buffer_size(nonSco', rate') /\ asked' = nonSco'
  /\ sco' = FALSE /\ mic_mute' = FALSE
  /\ standby' = TRUE /\ config' = nonSco' /\ resampler' = FALSE
  /\ buffer' = <<>> /\ frames_in' = 0 /\ read_status' = 0
  /\ held' = 0 /\ captured' = 0
  /\ at' = "idle" /\ client' = <<>> /\ ret' = "none" /\ broke' = FALSE /\ quiet' = FALSE
  /\ base' = 0 /\ taken' = <<>>

-------------------------------------------------------------------------------
(* The client asks for its buffer size again: in_get_buffer_size() answers *)
(* for the configuration of the moment, which is SCO's after a start there.*)
AskSize ==
  /\ at = "idle"
  /\ frames_rq' = in_get_buffer_size(config, rate) /\ asked' = config
  /\ UNCHANGED <<rate, nonSco, sco, mic_mute, stream, held, captured, reading, base, taken>>

(* adev_set_mic_mute(), at any time.                                       *)
adev_set_mic_mute ==
  /\ mic_mute' = ~ mic_mute
  /\ quiet' = (quiet /\ mic_mute')
  /\ UNCHANGED <<open, sco, stream, held, captured, at, client, ret, broke, base, taken>>

(* do_in_standby(): for in_standby(), for an output stream that needs the  *)
(* other rate group, and when the route goes to or from SCO.               *)
do_in_standby ==
  /\ at = "idle"
  /\ standby' = TRUE /\ resampler' = FALSE /\ buffer' = <<>> /\ held' = 0
  /\ sco' \in BOOLEAN
  /\ UNCHANGED <<open, mic_mute, config, frames_in, read_status, captured, reading, base, taken>>

-------------------------------------------------------------------------------
(* in_read() up to where it gives the device mutex back.                   *)

Begin(label, r) ==
  /\ at = "idle" /\ captured <= MaxCaptured
  /\ at' = label /\ ret' = r
  /\ client' = <<>> /\ broke' = (r = "failed") /\ quiet' = FALSE

AfterStart(hasResampler) == IF hasResampler THEN "resample" ELSE "direct"

(* Mutant: the buffer is one period of mono frames.                        *)
NewBuffer_Mono(c) == [i \in 1..period_size(c) |-> Junk]

NewBuffer(c) == [i \in 1..(period_size(c) * channels(c)) |-> Junk]

(* The PCM is open: a resampler if the rates differ and one can be made,   *)
(* which is not looked at; a buffer of one period, nothing in it.          *)
(* read_status stays as it was.                                            *)
start_input_stream ==
  /\ standby /\ standby' = FALSE
  /\ config' = IF sco THEN "sco" ELSE nonSco
  /\ \E created \in BOOLEAN : resampler' = (rate # pcm_rate(config') /\ created)
  /\ buffer' = NewBuffer(config')
  /\ frames_in' = 0 /\ held' = 0
  /\ base' = captured /\ taken' = <<>>
  /\ Begin(AfterStart(resampler'), "none")
  /\ UNCHANGED <<open, sco, mic_mute, captured, read_status>>

start_input_stream_fails ==
  /\ standby
  /\ config' = IF sco THEN "sco" ELSE nonSco
  /\ Begin("return", "failed")
  /\ UNCHANGED <<open, sco, mic_mute, standby, resampler, buffer, frames_in, read_status,
                 held, captured, base, taken>>

NoStart ==
  /\ ~ standby
  /\ Begin(AfterStart(resampler), "none")
  /\ UNCHANGED <<open, sco, mic_mute, stream, held, captured, base, taken>>

-------------------------------------------------------------------------------
(* The driver delivers k frames, interleaved if there are two channels.    *)
Frames(k) ==
  IF channels(config) = 2
  THEN [j \in 1..(2 * k) |-> <<captured + (j + 1) \div 2, IF j % 2 = 1 THEN "left" ELSE "right">>]
  ELSE [j \in 1..k |-> <<captured + j, "left">>]

Overwrite(b, s) == [j \in 1..Len(b) |-> IF j <= Len(s) THEN s[j] ELSE b[j]]

(* The right channel is discarded.                                         *)
Left(s, k) == [j \in 1..k |-> s[2 * j - 1]]

(* The transfer is over; the flag is looked at next.                       *)
Transferred(r) == at' = "mute" /\ ret' = r /\ quiet' = mic_mute

(* The memory from b on: n samples at least, whatever lies behind b.       *)
Memory(b, n) == [j \in 1..(IF n > Len(b) THEN n ELSE Len(b)) |->
                   IF j <= Len(b) THEN b[j] ELSE Junk]

(* The client reads more at a time than in->buffer holds.                  *)
Overruns == channels(config) = 2 /\ frames_rq * 2 > Len(buffer)

(* pcm_read() of twice the frames into in->buffer, and past its end if it  *)
(* is too short; every other sample goes to the client, also when the read *)
(* failed.  Or, from a mono PCM, straight into the client's buffer.        *)
ReadDirect(ok) ==
  /\ at = "direct"
  /\ captured' = IF ok THEN captured + frames_rq ELSE captured
  /\ IF channels(config) = 2
     THEN LET m == Memory(buffer, frames_rq * 2)
              n == IF ok THEN Overwrite(m, Frames(frames_rq)) ELSE m
          IN  /\ buffer' = SubSeq(n, 1, Len(buffer))
              /\ client' = Left(n, frames_rq)
     ELSE /\ client' = IF ok THEN Frames(frames_rq) ELSE client
          /\ UNCHANGED buffer
  /\ taken' = IF ok THEN taken \o client' ELSE taken
  /\ broke' = ~ ok
  /\ Transferred(IF ok THEN "ok" ELSE "failed")
  /\ UNCHANGED <<open, sco, mic_mute, standby, config, resampler, frames_in, read_status,
                 held, base>>

(* What lies behind in->buffer is damaged: the server may die of it.       *)
OverrunKills == at = "direct" /\ Overruns /\ Restart

(* The frames of in->buffer still to be handed out, after a PCM read if    *)
(* there are none.                                                         *)
Filled ==
  LET s == Overwrite(buffer, Frames(period_size(config)))
  IN  IF channels(config) = 2 THEN Overwrite(s, Left(s, period_size(config))) ELSE s

(* Mutant: a period is handed out from its beginning every time.           *)
Offered_FromStart(b, left, n) == SubSeq(b, 1, IF n > left THEN left ELSE n)

(* What the resampler is given: n frames of b at most, of which left are   *)
(* still to be handed out.                                                 *)
Offered(b, left, n) ==
  LET first == period_size(config) - left
  IN  SubSeq(b, first + 1, first + (IF n > left THEN left ELSE n))

(* The resampler has room to fill and not enough input.                    *)
Asks == at = "resample" /\ Len(client) < frames_rq /\ held < Need

(* Mutant: read_status is assigned only when the read fails.               *)
Status_Kept(refill) == read_status

Status(refill) == IF refill THEN 0 ELSE read_status

(* get_next_buffer(), the resampler's copy, release_buffer().              *)
get_next_buffer ==
  /\ Asks
  /\ LET refill == frames_in = 0
         left   == IF refill THEN period_size(config) ELSE frames_in
         buf    == Offered(IF refill THEN Filled ELSE buffer, left, Need - held)
     IN  /\ buffer' = IF refill THEN Filled ELSE buffer
         /\ captured' = IF refill THEN captured + period_size(config) ELSE captured
         /\ read_status' = Status(refill)
         /\ frames_in' = left - Len(buf)
         /\ taken' = taken \o buf
         /\ held' = held + Len(buf)
  /\ UNCHANGED <<open, sco, mic_mute, standby, config, resampler, reading, base>>

(* Mutant: the loop of read_frames() does not look at read_status.         *)
get_next_buffer_fails_Ignored ==
  /\ Asks /\ frames_in = 0
  /\ read_status' \in Errors
  /\ broke' = TRUE
  /\ UNCHANGED <<open, sco, mic_mute, standby, config, resampler, buffer, frames_in,
                 held, captured, at, client, ret, quiet, base, taken>>

(* The PCM read fails: no buffer, the resampler stops where it is, and     *)
(* read_frames() returns the status.                                       *)
get_next_buffer_fails ==
  /\ Asks /\ frames_in = 0
  /\ read_status' \in Errors
  /\ broke' = TRUE
  /\ Transferred("failed")
  /\ UNCHANGED <<open, sco, mic_mute, standby, config, resampler, buffer, frames_in,
                 held, captured, client, base, taken>>

(* The resampler turns its input into one frame or several.                *)
resample_from_provider ==
  /\ at = "resample" /\ held >= Need /\ Len(client) < frames_rq
  /\ \E m \in 1..(frames_rq - Len(client)) :
       client' = client \o [j \in 1..m |-> taken[Len(taken)]]
  /\ held' = 0
  /\ UNCHANGED <<open, sco, mic_mute, stream, captured, at, ret, broke, quiet, base, taken>>

(* All frames are there; read_frames() looks at read_status.               *)
read_frames ==
  /\ at = "resample" /\ Len(client) = frames_rq
  /\ Transferred(IF read_status = 0 THEN "ok" ELSE "failed")
  /\ UNCHANGED <<open, sco, mic_mute, stream, held, captured, client, broke, base, taken>>

(* Mutant: a muted read is cleared only in the direct case.                *)
Mute_DirectOnly ==
  /\ at = "mute" /\ at' = "return"
  /\ client' = IF ret = "ok" /\ mic_mute /\ ~ resampler
               THEN [j \in 1..frames_rq |-> Silence] ELSE client
  /\ UNCHANGED <<open, sco, mic_mute, stream, held, captured, ret, broke, quiet, base, taken>>

Mute ==
  /\ at = "mute" /\ at' = "return"
  /\ client' = IF ret = "ok" /\ mic_mute THEN [j \in 1..frames_rq |-> Silence] ELSE client
  /\ UNCHANGED <<open, sco, mic_mute, stream, held, captured, ret, broke, quiet, base, taken>>

(* A read that failed sleeps as long as it would have taken; every read    *)
(* returns the bytes it was asked for.                                     *)
Return ==
  /\ at = "return" /\ at' = "idle"
  /\ client' = <<>> /\ ret' = "none" /\ broke' = FALSE /\ quiet' = FALSE
  /\ UNCHANGED <<open, sco, mic_mute, stream, held, captured, base, taken>>

in_read ==
  \/ start_input_stream \/ start_input_stream_fails \/ NoStart
  \/ \E ok \in BOOLEAN : ReadDirect(ok)
  \/ OverrunKills
  \/ get_next_buffer \/ get_next_buffer_fails
  \/ resample_from_provider \/ read_frames
  \/ Mute \/ Return

Next == AskSize \/ adev_set_mic_mute \/ do_in_standby \/ in_read

Spec == Init /\ [][Next]_vars

(* A call of in_read() that has begun goes on: pcm_read() returns, with    *)
(* frames or with an error, and the thread is scheduled.                   *)
FairSpec == Spec /\ WF_vars(at # "idle" /\ in_read)

-------------------------------------------------------------------------------
(* Every variable holds a value of its kind; the unsigned frames_in never  *)
(* leaves 0..period_size while the stream runs.                            *)
TypeOK ==
  /\ rate \in Rates /\ nonSco \in Configs \ {"sco"} /\ frames_rq \in Nat
  /\ asked \in {nonSco, "sco"} /\ sco \in BOOLEAN /\ mic_mute \in BOOLEAN
  /\ standby \in BOOLEAN /\ config \in Configs /\ resampler \in BOOLEAN
  /\ frames_in \in Nat /\ (standby \/ frames_in <= period_size(config))
  /\ read_status \in Errors \cup {0}
  /\ held \in 0..Need /\ captured \in Nat /\ base \in Nat
  /\ at \in {"idle", "direct", "resample", "mute", "return"}
  /\ ret \in {"none", "ok", "failed"}
  /\ broke \in BOOLEAN /\ quiet \in BOOLEAN

(* What get_next_buffer() reads always fits in->buffer, made for a period  *)
(* of the PCM.  What in_read() reads into it directly fits, except in the  *)
(* two cases in which the code does overrun it: the client asked for its   *)
(* size while the PCM was SCO's and now reads from the microphone, or it   *)
(* records faster than the microphone runs and no resampler could be made. *)
(* And unless it asked on SCO a read puts no more into the client's buffer *)
(* than the device told it to make room for.                               *)
BufferFits ==
  /\ at = "resample" => period_size(config) * channels(config) <= Len(buffer)
  /\ at = "direct" /\ Overruns => asked = "sco" \/ (rate > InRate /\ ~ resampler)
  /\ asked # "sco" => Len(client) <= adev_get_input_buffer_size(rate)

(* Between two starts of the stream the client or its resampler is given   *)
(* the left channel of every frame the driver delivered, each once and in  *)
(* order, and nothing left over from an earlier capture: get_next_buffer() *)
(* and release_buffer() agree on where they are, also after failed reads.  *)
InOrder == \A i \in 1..Len(taken) : taken[i] = <<base + i, "left">>

(* in_read() fails only if the PCM could not be opened or read in this     *)
(* very call: the read_status of an earlier failure, which nothing clears  *)
(* at a restart, is never taken for a new one.                             *)
FailureIsFresh == ret = "failed" => broke

(* A read that succeeds gives silence if the microphone is muted from the  *)
(* moment its data has arrived until it returns.                           *)
MutedReadSilent ==
  at = "return" /\ ret = "ok" /\ quiet => \A i \in 1..Len(client) : client[i] = Silence

(* What in_read() returns is about this read: its failure is one of its    *)
(* own, and its data is silent if the mute lasted.                         *)
ResultHonest == FailureIsFresh /\ MutedReadSilent

(* Every call of in_read() returns, however often the PCM fails.           *)
ReadReturns == at # "idle" ~> at = "idle"
================================================================================
