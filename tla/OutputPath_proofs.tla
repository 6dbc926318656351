--------------------------- MODULE OutputPath_proofs ---------------------------
(***************************************************************************)
(* Proofs about OutputPath for every period size, sampling rate and value  *)
(* the unassigned kernel_frames may have.                                  *)
(*                                                                         *)
(* SleepCapped needs to know what the two sleep counters have to do with   *)
(* each other (SleepInv); ThresholdBounded needs the kernel's fill level   *)
(* and the target to be bounded (BufferInv) and the bound itself at every  *)
(* step of the threshold (CurInv).  BacklogBounded needs both, and that a  *)
(* PCM that does not run yet holds at most one period.                     *)
(***************************************************************************)
EXTENDS OutputPath, TLAPS

\* What was really slept is the sum of the sleeps, cut at the limit.
SleepInv ==
  /\ slept <= MAX_WRITE_SLEEP_US
  /\ pc = "idle" => slept = 0
  /\ pc \in {"idle", "write"} => totalSleep = 0
  /\ pc \in {"probe", "sleep"} =>
        slept = IF totalSleep > MAX_WRITE_SLEEP_US THEN MAX_WRITE_SLEEP_US ELSE totalSleep
  /\ pc = "probe" => totalSleep <= MAX_WRITE_SLEEP_US

\* The kernel holds at most its buffer, and the last answer was such a level.
BufferInv ==
  /\ fill <= BufferSize
  /\ standby <=> state = "closed"
  /\ standby => fill = 0 /\ pc = "idle"
  /\ ~standby => scoPcm = sco
  /\ pc \in {"probe", "sleep"} => ~sco
  /\ state = "xrun" => fill = 0
  /\ state = "prepared" /\ ~scoPcm => fill \in {0, PeriodSize}
  /\ (pc = "probe" /\ totalSleep # 0) \/ pc = "sleep" => state \in {"running", "xrun"}
  /\ (pc = "probe" /\ totalSleep # 0) \/ pc = "sleep" => kernelFrames > curThreshold

\* The target is that of the buffer type, and the threshold respects it.
CurInv ==
  /\ bufferType = "short" => writeThreshold = ShortBuffer
  /\ bufferType = "long" => writeThreshold = LongBuffer
  /\ ~standby /\ ~scoPcm => bufferType # "unknown"
  /\ ThresholdBounded

IndInv == TypeOK /\ SleepInv /\ BufferInv /\ CurInv /\ BacklogBounded
-----------------------------------------------------------------------------
(* Arithmetic.                                                             *)

LEMMA DivNat ==
  ASSUME NEW a \in Nat, NEW b \in Nat \ {0}
  PROVE  /\ a \div b \in Nat
         /\ (a \div b) * b <= a /\ a < (a \div b) * b + b
OBVIOUS

LEMMA ModSmall ==
  ASSUME NEW a \in Nat, NEW b \in Nat, a < b
  PROVE  a % b = a
OBVIOUS

\* The sizes of the buffers in terms of a quarter period.
LEMMA Sizes ==
  /\ Quarter \in Nat \ {0} /\ PeriodSize = 4 * Quarter
  /\ ShortBuffer = 8 * Quarter /\ LongBuffer = 32 * Quarter
  /\ Threshold("short") = ShortBuffer /\ Threshold("long") = LongBuffer
BY PeriodAssumption
DEF Quarter, ShortBuffer, LongBuffer, Threshold, OUT_SHORT_PERIOD_COUNT, OUT_LONG_PERIOD_COUNT

LEMMA StepIsNear ==
  ASSUME NEW a \in Int, NEW b \in Int, a = b \/ a = b + Quarter \/ a = b - Quarter
  PROVE  Near(a, b)
<1>1. Quarter \in Nat
  BY Sizes
<1> QED
  BY <1>1 DEF Near

LEMMA MaxSleepNat == MAX_WRITE_SLEEP_US \in Nat
<1>1. PeriodSize * OUT_SHORT_PERIOD_COUNT * 1000000 \in Nat
  BY PeriodAssumption DEF OUT_SHORT_PERIOD_COUNT
<1> QED
  BY <1>1, RateAssumption, DivNat DEF MAX_WRITE_SLEEP_US

\* The time to sleep for an excess of the backlog, rounded down.
LEMMA SleepTimeNat ==
  ASSUME NEW k \in Nat, curThreshold \in Int, k > curThreshold
  PROVE  /\ SleepTime(k) \in Nat
         /\ SleepTime(k) < MIN_WRITE_SLEEP_US => TooShortToSleepFor(k - curThreshold)
<1> DEFINE a == (k - curThreshold) * 1000000
<1>1. a \in Nat
  OBVIOUS
<1>2. SleepTime(k) = a \div SamplingRate
  BY DEF SleepTime
<1> HIDE DEF a
<1>3. SleepTime(k) \in Nat /\ a < SleepTime(k) * SamplingRate + SamplingRate
  BY <1>1, <1>2, RateAssumption, DivNat
<1>4. SleepTime(k) < 2000 => SleepTime(k) * SamplingRate + SamplingRate <= 2000 * SamplingRate
  BY <1>3, RateAssumption, SMT
<1> QED
  BY <1>1, <1>3, <1>4, RateAssumption, SMT DEF a, MIN_WRITE_SLEEP_US, TooShortToSleepFor

LEMMA TooShortMonotone ==
  ASSUME NEW x \in Int, NEW y \in Int, x <= y \/ x <= 0, TooShortToSleepFor(y) \/ x <= 0
  PROVE  TooShortToSleepFor(x)
BY RateAssumption, SMT DEF TooShortToSleepFor, MIN_WRITE_SLEEP_US

\* One step of the threshold does not make a tolerable excess intolerable.
LEMMA ExcessAfterStep ==
  ASSUME NEW f \in Nat, NEW a \in Int, NEW b \in Int, Near(a, b),
         TooShortToSleepFor(f - b) \/ f <= b
  PROVE  TooShortToSleepFor(f - a - Quarter)
<1>1. Quarter \in Nat
  BY Sizes
<1> DEFINE x == f - a - Quarter
           y == f - b
<1>2. x \in Int /\ y \in Int /\ x <= y /\ (f <= b => x <= 0)
  BY <1>1 DEF Near
<1>3. TooShortToSleepFor(y) \/ x <= 0
  BY <1>2
<1> HIDE DEF x, y
<1>4. TooShortToSleepFor(x)
  BY <1>2, <1>3, TooShortMonotone
<1> QED
  BY <1>4 DEF x

\* For a real fill level the unsigned arithmetic of the restart is harmless.
LEMMA JustAboveFill ==
  ASSUME NEW k \in Nat, k <= LongBuffer, writeThreshold \in {0, ShortBuffer, LongBuffer},
         Depleted(k)
  PROVE  /\ JustAbove(k) \in Int
         /\ PeriodSize + Quarter <= JustAbove(k) /\ JustAbove(k) < writeThreshold
         /\ k < JustAbove(k)
<1> DEFINE q == k \div PeriodSize
           u == (q + 1) * PeriodSize + Quarter
<1>1. \A n \in Nat : n <= 2 * LongBuffer => ToInt(n) = n
  <2> SUFFICES ASSUME NEW n \in Nat, n <= 2 * LongBuffer PROVE ToInt(n) = n
    OBVIOUS
  <2>1. n % Word = n
    BY ModSmall, Sizes, WordAssumption
  <2> QED
    BY <2>1, Sizes, WordAssumption DEF ToInt
<1>2. k < writeThreshold /\ writeThreshold - k > ShortBuffer
  BY <1>1, Sizes DEF Depleted
<1>3. k + ShortBuffer < writeThreshold /\ writeThreshold = LongBuffer
  BY <1>2, Sizes
<1>4. q \in Nat /\ q * PeriodSize <= k /\ k < q * PeriodSize + PeriodSize
  <2>1. PeriodSize \in Nat \ {0}
    BY Sizes
  <2> QED
    BY <2>1, DivNat
<1>5. u \in Nat /\ PeriodSize + Quarter <= u /\ k < u /\ u <= k + PeriodSize + Quarter
  <2> HIDE DEF q
  <2>1. u = q * PeriodSize + PeriodSize + Quarter
    BY <1>4, Sizes
  <2>2. q * PeriodSize \in Nat
    BY <1>4, Sizes
  <2> QED
    BY <1>4, <2>1, <2>2, Sizes
<1>6. JustAbove(k) = u
  <2>1. k % Word = k
    BY ModSmall, Sizes, WordAssumption
  <2>2. JustAbove(k) = ToInt(u)
    BY <2>1 DEF JustAbove
  <2> HIDE DEF u
  <2> QED
    BY <1>1, <1>3, <1>5, <2>2, Sizes
<1> HIDE DEF u
<1> QED
  BY <1>3, <1>5, <1>6, Sizes
-----------------------------------------------------------------------------
(* The steps of the specification.                                         *)

LEMMA InitInv == Init => IndInv
<1> SUFFICES ASSUME Init PROVE IndInv
  OBVIOUS
<1> USE DEF Init
<1>1. TypeOK
  <2>1. FlagsOK
    BY Zenon DEF FlagsOK
  <2> QED
    BY <2>1, Sizes DEF TypeOK
<1>2. SleepInv
  BY MaxSleepNat DEF SleepInv
<1>3. BufferInv
  BY Sizes, ScoAssumption DEF BufferInv, BufferSize
<1>4. CurInv /\ BacklogBounded
  BY DEF CurInv, ThresholdBounded, BacklogBounded
<1> QED
  BY <1>1, <1>2, <1>3, <1>4 DEF IndInv

LEMMA PlayInv == IndInv /\ Play => IndInv'
<1> SUFFICES ASSUME IndInv, Play PROVE IndInv'
  OBVIOUS
<1> USE DEF IndInv, Play, envVars, streamVars, localVars
<1>1. fill' \in Nat /\ fill' <= fill
  BY BoundsAssumption DEF TypeOK, FlagsOK, MaxOf
<1>2. TypeOK' /\ SleepInv' /\ CurInv'
  BY <1>1 DEF TypeOK, FlagsOK, SleepInv, CurInv, ThresholdBounded
<1>3. BufferInv'
  BY <1>1, Sizes, ScoAssumption DEF TypeOK, FlagsOK, BufferInv, BufferSize
<1>4. BacklogBounded'
  BY <1>1, Sizes, TooShortMonotone DEF TypeOK, FlagsOK, BacklogBounded
<1> QED
  BY <1>2, <1>3, <1>4

LEMMA EnvironmentInv == IndInv /\ Environment => IndInv'
<1> SUFFICES ASSUME IndInv, Environment PROVE IndInv'
  OBVIOUS
<1> USE DEF IndInv, Environment, streamVars, localVars
<1>1. sco' = sco
  BY DEF SetScreen, InputStartsOrStops
<1>2. TypeOK'
  <2>1. FlagsOK'
    BY Zenon DEF TypeOK, FlagsOK, SetScreen, InputStartsOrStops
  <2> QED
    BY <2>1 DEF TypeOK
<1>3. SleepInv' /\ CurInv'
  BY DEF SleepInv, CurInv, ThresholdBounded
<1>4. BufferInv' /\ BacklogBounded'
  BY <1>1 DEF BufferInv, BufferSize, BacklogBounded
<1> QED
  BY <1>2, <1>3, <1>4

LEMMA StandbyInv == IndInv /\ Standby => IndInv'
<1> SUFFICES ASSUME IndInv, Standby PROVE IndInv'
  OBVIOUS
<1> USE DEF IndInv, Standby, localVars
<1>1. TypeOK' /\ SleepInv' /\ CurInv' /\ BacklogBounded'
  BY DEF TypeOK, FlagsOK, SleepInv, CurInv, ThresholdBounded, BacklogBounded
<1>2. BufferInv'
  BY Sizes, ScoAssumption DEF TypeOK, FlagsOK, BufferInv, BufferSize
<1> QED
  BY <1>1, <1>2

LEMMA WriteStartInv == IndInv /\ WriteStart => IndInv'
<1> SUFFICES ASSUME IndInv, WriteStart PROVE IndInv'
  OBVIOUS
<1> USE Sizes DEF IndInv, WriteStart, envVars
<1>1. TypeOK'
  <2>1. FlagsOK'
    <3>1. scoPcm' \in BOOLEAN
      BY DEF TypeOK, FlagsOK
    <3>2. tainted' \in BOOLEAN /\ standby' \in BOOLEAN
      BY Zenon
    <3> QED
      BY <3>1, <3>2, Zenon DEF TypeOK, FlagsOK
  <2> QED
    BY <2>1 DEF TypeOK, FlagsOK, DesiredType
<1>2. SleepInv' /\ BacklogBounded'
  <2>1. SleepInv'
    BY MaxSleepNat DEF TypeOK, FlagsOK, SleepInv
  <2>2. BacklogBounded'
    BY DEF BacklogBounded
  <2> QED
    BY <2>1, <2>2
<1>3. BufferInv'
  BY ScoAssumption DEF TypeOK, FlagsOK, SleepInv, BufferInv, BufferSize
<1>4. CurInv'
  BY DEF TypeOK, FlagsOK, BufferInv, CurInv, ThresholdBounded, DesiredType
<1> QED
  BY <1>1, <1>2, <1>3, <1>4

LEMMA WriteStartFailsInv == IndInv /\ WriteStartFails => IndInv'
<1> SUFFICES ASSUME IndInv, WriteStartFails PROVE IndInv'
  OBVIOUS
<1> USE DEF IndInv, WriteStartFails, envVars, localVars
<1>1. TypeOK' /\ SleepInv' /\ CurInv' /\ BacklogBounded'
  BY DEF TypeOK, FlagsOK, SleepInv, CurInv, ThresholdBounded, BacklogBounded
<1>2. BufferInv'
  BY Sizes, ScoAssumption DEF TypeOK, FlagsOK, BufferInv, BufferSize
<1> QED
  BY <1>1, <1>2

\* What one move of the threshold guarantees, for any kernel_frames k: a
\* restart from an assigned k goes to a sound value below the target, and
\* otherwise the threshold moves by at most a quarter towards the target.
LEMMA AdjustStep ==
  ASSUME IndInv, bufferType # "unknown", NEW k \in Int, NEW from \in {"assigned", "unassigned"},
         from = "assigned" => k \in Nat /\ (k <= LongBuffer \/ k > curThreshold),
         AdjustThreshold(k, from)
  PROVE  /\ curThreshold' \in Int /\ tainted' \in BOOLEAN
         /\ ~tainted' =>
               /\ PeriodSize + Quarter <= curThreshold' /\ curThreshold' <= LongBuffer
               /\ \/ Near(curThreshold', curThreshold)
                  \/ /\ curThreshold = writeThreshold /\ curThreshold' < writeThreshold
                     /\ from = "assigned" /\ Depleted(k)
<1> USE Sizes
<1>1. writeThreshold \in {ShortBuffer, LongBuffer} /\ curThreshold \in Int
  BY DEF IndInv, TypeOK, CurInv
<1>2. CASE curThreshold # writeThreshold
  <2>1. tainted' \in BOOLEAN /\ (~tainted' /\ curThreshold' # writeThreshold => ~tainted)
    BY Zenon DEF AdjustThreshold
  <2>2. CASE curThreshold' = writeThreshold
    BY <1>1, <1>2, <2>1, <2>2 DEF AdjustThreshold, MaxOf, MinOf, Near
  <2>3. CASE curThreshold' # writeThreshold
    <3>1. ~tainted' => PeriodSize + Quarter <= curThreshold /\ curThreshold <= LongBuffer
      BY <2>1, <2>3, Zenon DEF IndInv, CurInv, ThresholdBounded
    <3>2. /\ curThreshold' \in Int
          /\ \/ curThreshold > writeThreshold /\ curThreshold' = curThreshold - Quarter
                /\ curThreshold' > writeThreshold
             \/ curThreshold < writeThreshold /\ curThreshold' = curThreshold + Quarter
                /\ curThreshold' < writeThreshold
      BY <1>1, <1>2, <2>3 DEF AdjustThreshold, MaxOf, MinOf
    <3>3. Near(curThreshold', curThreshold)
      BY <1>1, <3>2, StepIsNear
    <3>4. ~tainted' => PeriodSize + Quarter <= curThreshold' /\ curThreshold' <= LongBuffer
      <4> SUFFICES ASSUME ~tainted'
                   PROVE  PeriodSize + Quarter <= curThreshold' /\ curThreshold' <= LongBuffer
        OBVIOUS
      <4>1. PeriodSize + Quarter <= curThreshold /\ curThreshold <= LongBuffer
        BY <3>1
      <4> QED
        BY <1>1, <3>2, <4>1
    <3> QED
      BY <2>1, <3>2, <3>3, <3>4, Zenon
  <2> QED
    BY <2>2, <2>3
<1>3. CASE curThreshold = writeThreshold /\ ~Depleted(k)
  BY <1>1, <1>3, StepIsNear DEF AdjustThreshold, IndInv, TypeOK, FlagsOK, CurInv, ThresholdBounded
<1>4. CASE curThreshold = writeThreshold /\ Depleted(k)
  <2>1. curThreshold' = JustAbove(k)
    BY <1>1, <1>4 DEF AdjustThreshold
  <2>2. JustAbove(k) \in Int
    BY WordAssumption, PeriodAssumption DEF JustAbove, ToInt
  <2>3. CASE from = "unassigned"
    <3>1. CASE curThreshold' = writeThreshold
      BY <1>1, <1>4, <3>1, StepIsNear DEF AdjustThreshold
    <3>2. CASE curThreshold' # writeThreshold
      <4>1. tainted' = TRUE
        BY <1>4, <2>3, <3>2, Zenon DEF AdjustThreshold
      <4> QED
        BY <4>1, <2>1, <2>2
    <3> QED
      BY <3>1, <3>2
  <2>4. CASE from = "assigned"
    <3>1. k \in Nat /\ k <= LongBuffer
      BY <1>1, <1>4, <2>4 DEF Depleted
    <3>2. PeriodSize + Quarter <= JustAbove(k) /\ JustAbove(k) < writeThreshold
      BY <1>1, <1>4, <3>1, JustAboveFill
    <3> QED
      BY <1>1, <1>4, <2>1, <2>2, <2>4, <3>2 DEF AdjustThreshold, IndInv, TypeOK
  <2> QED
    BY <2>3, <2>4
<1> QED
  BY <1>2, <1>3, <1>4

\* The loop is left: everything but the backlog.
LEMMA LeaveLoopInv ==
  ASSUME IndInv, pc \in {"probe", "sleep"}, NEW k \in Int, NEW from \in {"assigned", "unassigned"},
         from = "assigned" => k \in Nat /\ (k <= LongBuffer \/ k > curThreshold),
         LeaveLoop(k, from)
  PROVE  TypeOK' /\ SleepInv' /\ BufferInv' /\ CurInv'
<1> USE DEF LeaveLoop, envVars, streamVars
<1>1. bufferType # "unknown"
  BY DEF IndInv, BufferInv, CurInv
<1>2. /\ curThreshold' \in Int /\ tainted' \in BOOLEAN
      /\ ~tainted' => PeriodSize + Quarter <= curThreshold' /\ curThreshold' <= LongBuffer
  BY <1>1, AdjustStep
<1> HIDE DEF LeaveLoop
<1>3. TypeOK'
  <2>1. FlagsOK'
    BY <1>2, Zenon DEF LeaveLoop, IndInv, TypeOK, FlagsOK
  <2> QED
    BY <1>2, <2>1 DEF LeaveLoop, IndInv, TypeOK
<1>4. SleepInv'
  BY MaxSleepNat DEF LeaveLoop, IndInv, TypeOK, SleepInv
<1>5. BufferInv'
  BY DEF LeaveLoop, IndInv, TypeOK, BufferInv, BufferSize
<1>6. CurInv'
  BY <1>2 DEF LeaveLoop, IndInv, CurInv, ThresholdBounded
<1> QED
  BY <1>3, <1>4, <1>5, <1>6

LEMMA ProbeFailsInv == IndInv /\ ProbeFails => IndInv'
<1> SUFFICES ASSUME IndInv, ProbeFails PROVE IndInv'
  OBVIOUS
<1>1. PICK k \in Int, from \in {"assigned", "unassigned"} :
        /\ LeaveLoop(k, from)
        /\ from = "unassigned" <=> totalSleep = 0
        /\ from = "assigned" => k = kernelFrames
  <2>1. CASE totalSleep = 0
    BY <2>1, GarbageAssumption DEF ProbeFails
  <2>2. CASE totalSleep # 0
    BY <2>2 DEF ProbeFails, IndInv, TypeOK
  <2> QED
    BY <2>1, <2>2
<1>2. /\ pc = "probe" /\ bufferType # "unknown" /\ state # "running" /\ ~standby /\ ~scoPcm
      /\ from = "assigned" => k \in Nat /\ k > curThreshold
  BY <1>1 DEF ProbeFails, IndInv, TypeOK, FlagsOK, BufferInv, CurInv
<1>3. TypeOK' /\ SleepInv' /\ BufferInv' /\ CurInv'
  BY <1>1, <1>2, LeaveLoopInv
\* What the PCM holds while it does not run is less than any threshold.
<1>4. fill <= PeriodSize
  BY <1>2, Sizes DEF IndInv, TypeOK, BufferInv
<1>5. ~tainted' => PeriodSize + Quarter <= curThreshold'
  BY <1>1, <1>2, AdjustStep DEF LeaveLoop
<1>6. BacklogBounded'
  <2> SUFFICES ASSUME ~tainted' PROVE TooShortToSleepFor(fill - curThreshold' - Quarter)
    BY <1>1 DEF BacklogBounded, LeaveLoop
  <2> QED
    BY <1>3, <1>4, <1>5, Sizes, TooShortMonotone DEF IndInv, TypeOK
<1> QED
  BY <1>3, <1>6 DEF IndInv

LEMMA ProbeEnoughInv == IndInv /\ ProbeEnough => IndInv'
<1> SUFFICES ASSUME IndInv, ProbeEnough PROVE IndInv'
  OBVIOUS
<1>1. /\ pc = "probe" /\ bufferType # "unknown" /\ LeaveLoop(fill, "assigned")
      /\ fill \in Nat /\ fill <= LongBuffer /\ curThreshold \in Int
  BY DEF ProbeEnough, IndInv, TypeOK, FlagsOK, BufferInv, CurInv, BufferSize
<1>2. TypeOK' /\ SleepInv' /\ BufferInv' /\ CurInv'
  BY <1>1, LeaveLoopInv
<1>3. TooShortToSleepFor(fill - curThreshold) \/ fill <= curThreshold
  BY <1>1, SleepTimeNat DEF ProbeEnough
<1>4. BacklogBounded'
  <2> SUFFICES ASSUME ~tainted' PROVE TooShortToSleepFor(fill - curThreshold' - Quarter)
    BY <1>1 DEF BacklogBounded, LeaveLoop
  <2>1. curThreshold' \in Int /\
        (Near(curThreshold', curThreshold) \/
           /\ curThreshold = writeThreshold /\ Depleted(fill)
           /\ curThreshold' = JustAbove(fill))
    <3>1. \/ Near(curThreshold', curThreshold)
          \/ curThreshold = writeThreshold /\ Depleted(fill)
      BY <1>1, AdjustStep DEF LeaveLoop
    <3> QED
      BY <1>1, <1>2, <3>1 DEF LeaveLoop, AdjustThreshold, TypeOK, IndInv
  <2>2. CASE Near(curThreshold', curThreshold)
    BY <1>1, <1>3, <2>1, <2>2, ExcessAfterStep
  <2>3. CASE Depleted(fill) /\ curThreshold' = JustAbove(fill)
    <3>1. fill <= JustAbove(fill)
      BY <1>1, <2>3, JustAboveFill DEF IndInv, TypeOK
    <3> QED
      BY <1>1, <2>1, <2>3, <3>1, Sizes, TooShortMonotone
  <2> QED
    BY <2>1, <2>2, <2>3
<1> QED
  BY <1>2, <1>4 DEF IndInv

LEMMA ProbeSleepInv == IndInv /\ ProbeSleep => IndInv'
<1> SUFFICES ASSUME IndInv, ProbeSleep PROVE IndInv'
  OBVIOUS
<1> DEFINE d == SleepTime(fill)
<1>1. d \in Nat /\ fill \in Nat /\ fill > curThreshold
  BY SleepTimeNat DEF ProbeSleep, IndInv, TypeOK
<1>2. totalSleep' = totalSleep + d /\ pc = "probe" /\ pc' = "sleep"
  BY DEF ProbeSleep
<1>3. slept' = IF totalSleep' > MAX_WRITE_SLEEP_US THEN MAX_WRITE_SLEEP_US ELSE totalSleep'
  <2>1. slept = totalSleep /\ totalSleep \in Nat
    BY <1>2 DEF IndInv, SleepInv, TypeOK
  <2>2. slept' = slept + IF totalSleep' > MAX_WRITE_SLEEP_US
                           THEN MAX_WRITE_SLEEP_US - (totalSleep' - d) ELSE d
    BY DEF ProbeSleep
  <2> HIDE DEF d
  <2> QED
    BY <1>1, <1>2, <2>1, <2>2, MaxSleepNat
<1> HIDE DEF d
<1>4. TypeOK' /\ SleepInv' /\ BacklogBounded'
  <2>1. slept' \in Nat /\ slept' <= MAX_WRITE_SLEEP_US /\ totalSleep' \in Nat
    BY <1>1, <1>2, <1>3, MaxSleepNat DEF IndInv, TypeOK
  <2>2. TypeOK'
    BY <2>1 DEF ProbeSleep, IndInv, TypeOK, FlagsOK, envVars, streamVars
  <2>3. SleepInv' /\ BacklogBounded'
    BY <1>2, <1>3, <2>1 DEF SleepInv, BacklogBounded
  <2> QED
    BY <2>2, <2>3
<1>5. BufferInv' /\ CurInv'
  BY <1>1 DEF ProbeSleep, IndInv, TypeOK, BufferInv, CurInv, ThresholdBounded, BufferSize,
              envVars, streamVars
<1> QED
  BY <1>4, <1>5 DEF IndInv

LEMMA WakeUpInv == IndInv /\ WakeUp => IndInv'
<1> SUFFICES ASSUME IndInv, WakeUp PROVE IndInv'
  OBVIOUS
<1>1. CASE totalSleep <= MAX_WRITE_SLEEP_US /\ pc' = "probe"
  <2>1. TypeOK' /\ SleepInv' /\ BacklogBounded'
    BY <1>1, MaxSleepNat DEF WakeUp, IndInv, TypeOK, FlagsOK, SleepInv, BacklogBounded,
                             LeaveLoop, envVars, streamVars
  <2>2. BufferInv' /\ CurInv'
    BY <1>1, MaxSleepNat DEF WakeUp, IndInv, TypeOK, BufferInv, CurInv, ThresholdBounded,
                             BufferSize, LeaveLoop, envVars, streamVars
  <2> QED
    BY <2>1, <2>2 DEF IndInv
<1>2. CASE totalSleep > MAX_WRITE_SLEEP_US /\ LeaveLoop(kernelFrames, "assigned")
  <2>1. TypeOK' /\ SleepInv' /\ BufferInv' /\ CurInv'
    BY <1>2, LeaveLoopInv DEF WakeUp, IndInv, TypeOK, BufferInv
  <2>2. slept' = MAX_WRITE_SLEEP_US
    BY <1>2 DEF WakeUp, LeaveLoop, IndInv, SleepInv
  <2> QED
    BY <2>1, <2>2 DEF IndInv, BacklogBounded
<1>3. \/ totalSleep <= MAX_WRITE_SLEEP_US /\ pc' = "probe"
      \/ totalSleep > MAX_WRITE_SLEEP_US /\ LeaveLoop(kernelFrames, "assigned")
  BY DEF WakeUp
<1> QED
  BY <1>1, <1>2, <1>3

LEMMA PcmWriteInv == IndInv /\ PcmWrite => IndInv'
<1> SUFFICES ASSUME IndInv, PcmWrite PROVE IndInv'
  OBVIOUS
<1> USE Sizes, ScoAssumption DEF PcmWrite, IndInv, envVars, streamVars
<1>1. fill' \in Nat
  BY DEF TypeOK, Frames
<1>2. TypeOK' /\ SleepInv' /\ CurInv' /\ BacklogBounded'
  BY <1>1, MaxSleepNat DEF TypeOK, FlagsOK, SleepInv, CurInv, ThresholdBounded, BacklogBounded
<1>3. BufferInv'
  BY <1>1 DEF TypeOK, FlagsOK, SleepInv, BufferInv, BufferSize, Frames, StartThreshold
<1> QED
  BY <1>2, <1>3

LEMMA PcmWriteFailsInv == IndInv /\ PcmWriteFails => IndInv'
<1> SUFFICES ASSUME IndInv, PcmWriteFails PROVE IndInv'
  OBVIOUS
<1> USE DEF PcmWriteFails, IndInv, envVars, streamVars
<1>1. TypeOK' /\ SleepInv' /\ CurInv' /\ BacklogBounded'
  BY MaxSleepNat DEF TypeOK, FlagsOK, SleepInv, CurInv, ThresholdBounded, BacklogBounded
<1>2. BufferInv'
  BY Sizes, ScoAssumption DEF TypeOK, FlagsOK, SleepInv, BufferInv, BufferSize
<1> QED
  BY <1>1, <1>2

LEMMA StutterInv == IndInv /\ UNCHANGED vars => IndInv'
BY DEF IndInv, TypeOK, FlagsOK, SleepInv, BufferInv, CurInv, ThresholdBounded, BacklogBounded,
       BufferSize, vars, envVars, streamVars, localVars

LEMMA NextInv == IndInv /\ [Next]_vars => IndInv'
BY StutterInv, PlayInv, EnvironmentInv, StandbyInv, WriteStartInv, WriteStartFailsInv,
   ProbeFailsInv, ProbeEnoughInv, ProbeSleepInv, WakeUpInv, PcmWriteInv, PcmWriteFailsInv
DEF Next, out_write

LEMMA SpecIndInv == Spec => []IndInv
BY InitInv, NextInv, PTL DEF Spec
-----------------------------------------------------------------------------
\* Every variable of the playback model keeps its type.
THEOREM TypeCorrect == Spec => []TypeOK
BY SpecIndInv, PTL DEF IndInv

\* A write sleeps at most MAX_WRITE_SLEEP_US, for every period and rate.
THEOREM SleepSafe == Spec => []SleepCapped
<1>1. IndInv => SleepCapped
  BY DEF IndInv, SleepInv, SleepCapped
<1> QED
  BY <1>1, SpecIndInv, PTL

\* The threshold stays within the buffer unless it was computed from the
\* unassigned kernel_frames.
THEOREM ThresholdSafe == Spec => []ThresholdBounded
<1>1. IndInv => ThresholdBounded
  BY DEF IndInv, CurInv
<1> QED
  BY <1>1, SpecIndInv, PTL

\* out_write() hands a buffer over only when the backlog is near the
\* threshold or the write has slept its full share.
THEOREM BacklogSafe == Spec => []BacklogBounded
BY SpecIndInv, PTL DEF IndInv

\* out_write() keeps the kernel's queue near a threshold that is in range.
THEOREM QueueSafe == Spec => []QueueBounded
BY ThresholdSafe, BacklogSafe, PTL DEF QueueBounded

\* While the stream runs, the threshold never jumps, except downwards from
\* its target when the buffer is depleted.
THEOREM ThresholdSmooth == Spec => NoAbruptChange
<1> DEFINE Smooth == ~standby /\ ~tainted' /\ curThreshold' # curThreshold =>
                       \/ Near(curThreshold', curThreshold)
                       \/ curThreshold = writeThreshold /\ curThreshold' < writeThreshold
<1>1. ASSUME IndInv, Next PROVE Smooth
  <2> USE <1>1
  <2>1. ASSUME NEW k \in Int, NEW from \in {"assigned", "unassigned"},
               pc \in {"probe", "sleep"}, LeaveLoop(k, from),
               from = "assigned" => k \in Nat /\ (k <= LongBuffer \/ k > curThreshold)
        PROVE  Smooth
    <3>1. bufferType # "unknown"
      BY <2>1 DEF IndInv, BufferInv, CurInv
    <3> QED
      BY <2>1, <3>1, AdjustStep DEF LeaveLoop
  <2>2. CASE Play \/ Environment \/ Standby \/ WriteStartFails \/ PcmWrite \/ PcmWriteFails
    BY <2>2 DEF Play, Environment, Standby, WriteStartFails, PcmWrite, PcmWriteFails
  <2>3. CASE WriteStart
    BY <2>3 DEF WriteStart, IndInv, BufferInv, CurInv
  <2>4. CASE ProbeFails
    <3>1. CASE totalSleep = 0
      BY <2>1, <2>4, <3>1, GarbageAssumption DEF ProbeFails
    <3>2. CASE totalSleep # 0
      BY <2>1, <2>4, <3>2 DEF ProbeFails, IndInv, TypeOK, BufferInv
    <3> QED
      BY <3>1, <3>2
  <2>5. CASE ProbeEnough
    BY <2>1, <2>5 DEF ProbeEnough, IndInv, TypeOK, FlagsOK, BufferInv, BufferSize
  <2>6. CASE ProbeSleep
    BY <2>6 DEF ProbeSleep
  <2>7. CASE WakeUp
    <3>1. \/ UNCHANGED curThreshold
          \/ pc = "sleep" /\ LeaveLoop(kernelFrames, "assigned")
      BY <2>7 DEF WakeUp
    <3> QED
      BY <2>1, <3>1 DEF IndInv, TypeOK, BufferInv
  <2> QED
    BY <2>2, <2>3, <2>4, <2>5, <2>6, <2>7 DEF Next, out_write
<1>2. IndInv /\ [Next]_vars => [Smooth]_vars
  BY <1>1
<1> QED
  BY <1>2, SpecIndInv, PTL DEF Spec, NoAbruptChange
=============================================================================
