--------------------------- MODULE InputPath_proofs ----------------------------
(***************************************************************************)
(* Proofs about InputPath: for all periods, rates and resampler needs, and *)
(* however many frames are captured, in_read() hands on the driver's       *)
(* frames in order, within its buffers, and blames only its own failures.  *)
(***************************************************************************)
EXTENDS InputPath, SequenceTheorems, TLAPS

Sample == Nat \X {"left", "right", "junk", "zero"}

(* A frame number and a channel make a sample.                             *)
LEMMA SampleIntro ==
  ASSUME NEW n \in Nat, NEW c \in {"left", "right", "junk", "zero"}
  PROVE  <<n, c>> \in Sample
BY DEF Sample

(* The resampler needs something.                                          *)
LEMMA NeedType == Need \in Nat \ {0}
BY SizesAssumption

(* Periods and channels are positive numbers.                              *)
LEMMA ConfigType ==
  ASSUME NEW c \in Configs
  PROVE  /\ period_size(c) \in Nat \ {0}
         /\ channels(c) \in {1, 2}
         /\ pcm_rate(c) \in Nat \ {0}
BY SizesAssumption DEF Configs, period_size, channels, pcm_rate

(* A new buffer has room for one period of all channels.                   *)
LEMMA NewBufferType ==
  ASSUME NEW c \in Configs
  PROVE  /\ NewBuffer(c) \in Seq(Sample)
         /\ Len(NewBuffer(c)) = period_size(c) * channels(c)
<1>1. period_size(c) * channels(c) \in Nat  BY ConfigType
<1>2. Junk \in Sample  BY SampleIntro DEF Junk
<1> QED  BY <1>1, <1>2 DEF NewBuffer

(* What the driver delivers for k frames.                                  *)
LEMMA FramesType ==
  ASSUME NEW k \in Nat, captured \in Nat, config \in Configs
  PROVE  /\ Frames(k) \in Seq(Sample)
         /\ Len(Frames(k)) = k * channels(config)
         /\ channels(config) = 2 => \A j \in 1..k : Frames(k)[2 * j - 1] = <<captured + j, "left">>
         /\ channels(config) = 1 => \A j \in 1..k : Frames(k)[j] = <<captured + j, "left">>
<1>1. CASE channels(config) = 2
  <2> DEFINE F == [j \in 1..(2 * k) |->
                     <<captured + (j + 1) \div 2, IF j % 2 = 1 THEN "left" ELSE "right">>]
  <2>1. Frames(k) = F  BY <1>1 DEF Frames
  <2>2. ASSUME NEW j \in 1..(2 * k)  PROVE F[j] \in Sample
    <3>1. captured + (j + 1) \div 2 \in Nat  OBVIOUS
    <3>2. (IF j % 2 = 1 THEN "left" ELSE "right") \in {"left", "right", "junk", "zero"}  OBVIOUS
    <3>3. <<captured + (j + 1) \div 2, IF j % 2 = 1 THEN "left" ELSE "right">> \in Sample
      BY <3>1, <3>2, SampleIntro
    <3> QED  BY <3>3
  <2>3. F \in Seq(Sample) /\ Len(F) = 2 * k
    BY <2>2
  <2>4. ASSUME NEW j \in 1..k  PROVE F[2 * j - 1] = <<captured + j, "left">>
    <3>1. 2 * j - 1 \in 1..(2 * k)  OBVIOUS
    <3>2. (2 * j - 1 + 1) \div 2 = j /\ (2 * j - 1) % 2 = 1  OBVIOUS
    <3> QED  BY <3>1, <3>2
  <2> HIDE DEF F
  <2> QED  BY <1>1, <2>1, <2>3, <2>4
<1>2. CASE channels(config) # 2
  <2> DEFINE F == [j \in 1..k |-> <<captured + j, "left">>]
  <2>1. Frames(k) = F /\ channels(config) = 1  BY <1>2, ConfigType DEF Frames
  <2>2. ASSUME NEW j \in 1..k  PROVE F[j] = <<captured + j, "left">> /\ F[j] \in Sample
    <3>1. captured + j \in Nat  OBVIOUS
    <3>2. <<captured + j, "left">> \in Sample  BY <3>1, SampleIntro
    <3> QED  BY <3>2
  <2>3. F \in Seq(Sample) /\ Len(F) = k  BY <2>2
  <2> HIDE DEF F
  <2> QED  BY <2>1, <2>2, <2>3
<1> QED  BY <1>1, <1>2

(* Overwriting keeps the length; the front is the new data.                *)
LEMMA OverwriteType ==
  ASSUME NEW b \in Seq(Sample), NEW s \in Seq(Sample)
  PROVE  /\ Overwrite(b, s) \in Seq(Sample)
         /\ Len(Overwrite(b, s)) = Len(b)
         /\ \A j \in 1..Len(b) : j <= Len(s) => Overwrite(b, s)[j] = s[j]
<1>1. \A j \in 1..Len(b) : (IF j <= Len(s) THEN s[j] ELSE b[j]) \in Sample  OBVIOUS
<1> QED  BY <1>1 DEF Overwrite

(* Discarding the right channel.                                           *)
LEMMA LeftType ==
  ASSUME NEW s \in Seq(Sample), NEW k \in Nat, 2 * k <= Len(s)
  PROVE  /\ Left(s, k) \in Seq(Sample)
         /\ Len(Left(s, k)) = k
         /\ \A j \in 1..k : Left(s, k)[j] = s[2 * j - 1]
<1>1. \A j \in 1..k : s[2 * j - 1] \in Sample  OBVIOUS
<1> QED  BY <1>1 DEF Left

(* A period after a PCM read: the left channel of the frames read.         *)
LEMMA FilledType ==
  ASSUME captured \in Nat, config \in Configs, buffer \in Seq(Sample),
         Len(buffer) = period_size(config) * channels(config)
  PROVE  /\ Filled \in Seq(Sample)
         /\ Len(Filled) = Len(buffer)
         /\ \A j \in 1..period_size(config) : Filled[j] = <<captured + j, "left">>
<1> DEFINE P == period_size(config)
           F == Frames(P)
           S == Overwrite(buffer, F)
           L == Left(S, P)
<1>1. P \in Nat /\ channels(config) \in {1, 2}  BY ConfigType
<1>2. /\ F \in Seq(Sample) /\ Len(F) = P * channels(config)
      /\ channels(config) = 2 => \A j \in 1..P : F[2 * j - 1] = <<captured + j, "left">>
      /\ channels(config) = 1 => \A j \in 1..P : F[j] = <<captured + j, "left">>
  BY <1>1, FramesType
<1>3. /\ S \in Seq(Sample) /\ Len(S) = Len(buffer)
      /\ \A j \in 1..Len(buffer) : j <= Len(F) => S[j] = F[j]
  BY <1>2, OverwriteType
<1>4. Filled = IF channels(config) = 2 THEN Overwrite(S, L) ELSE S  BY DEF Filled
<1> HIDE DEF P, F, S, L
<1>5. CASE channels(config) = 1
  <2>1. Filled = S /\ Len(buffer) = P /\ Len(F) = P  BY <1>1, <1>2, <1>4, <1>5 DEF P
  <2> QED  BY <1>1, <1>2, <1>3, <1>5, <2>1 DEF P
<1>6. CASE channels(config) = 2
  <2>1. Len(buffer) = 2 * P /\ Len(F) = 2 * P  BY <1>1, <1>2, <1>6 DEF P
  <2>2. L \in Seq(Sample) /\ Len(L) = P /\ \A j \in 1..P : L[j] = S[2 * j - 1]
    BY <1>1, <1>3, <2>1, LeftType DEF L
  <2>3. /\ Overwrite(S, L) \in Seq(Sample) /\ Len(Overwrite(S, L)) = Len(S)
        /\ \A j \in 1..Len(S) : j <= Len(L) => Overwrite(S, L)[j] = L[j]
    BY <1>3, <2>2, OverwriteType
  <2>4. ASSUME NEW j \in 1..P  PROVE Overwrite(S, L)[j] = <<captured + j, "left">>
    <3>1. j \in 1..Len(S) /\ j <= Len(L) /\ 2 * j - 1 \in 1..Len(buffer) /\ 2 * j - 1 <= Len(F)
      BY <1>1, <1>3, <2>1, <2>2
    <3>2. Overwrite(S, L)[j] = S[2 * j - 1]  BY <2>2, <2>3, <3>1
    <3>3. S[2 * j - 1] = F[2 * j - 1]  BY <1>3, <3>1
    <3> QED  BY <1>2, <1>6, <3>2, <3>3
  <2> QED  BY <1>3, <1>4, <1>6, <2>3, <2>4 DEF P
<1> QED  BY <1>1, <1>5, <1>6

(* What the resampler is offered: the next frames of the period, as many   *)
(* as it wants or as there are.                                            *)
LEMMA OfferedType ==
  ASSUME config \in Configs, NEW b \in Seq(Sample), NEW left \in Nat, NEW n \in Nat,
         left <= period_size(config), period_size(config) <= Len(b)
  PROVE  /\ Offered(b, left, n) \in Seq(Sample)
         /\ Len(Offered(b, left, n)) = IF n > left THEN left ELSE n
         /\ \A i \in 1..Len(Offered(b, left, n)) :
              Offered(b, left, n)[i] = b[period_size(config) - left + i]
<1> DEFINE first == period_size(config) - left
           m == IF n > left THEN left ELSE n
<1>1. first \in Nat /\ m \in Nat /\ first + m <= Len(b)  BY ConfigType
<1>2. Offered(b, left, n) = SubSeq(b, first + 1, first + m)  BY DEF Offered
<1> HIDE DEF first, m
<1>3. /\ SubSeq(b, first + 1, first + m) \in Seq(Sample)
      /\ Len(SubSeq(b, first + 1, first + m)) = m
      /\ \A i \in 1..m : SubSeq(b, first + 1, first + m)[i] = b[first + i]
  <2>1. Len(SubSeq(b, first + 1, first + m)) = m  BY <1>1, SubSeqProperties
  <2>2. SubSeq(b, first + 1, first + m) \in Seq(Sample)  BY <1>1, SubSeqProperties
  <2>3. ASSUME NEW i \in 1..m  PROVE SubSeq(b, first + 1, first + m)[i] = b[first + i]
    <3>1. SubSeq(b, first + 1, first + m)[i] = b[first + 1 + i - 1]
      BY <1>1, SubSeqProperties
    <3>2. first + 1 + i - 1 = first + i  BY <1>1
    <3> QED  BY <3>1, <3>2
  <2> QED  BY <2>1, <2>2, <2>3
<1> QED  BY <1>2, <1>3 DEF first, m

(* Multiplying and dividing by a rate.                                     *)
LEMMA MulDiv ==
  ASSUME NEW p \in Nat, NEW r \in Nat \ {0}
  PROVE  (p * r) \div r = p
OBVIOUS

(* A quotient of a number by a smaller one.                                *)
LEMMA DivPositive ==
  ASSUME NEW a \in Nat, NEW b \in Nat \ {0}, a >= b
  PROVE  a \div b \in Nat /\ a \div b >= 1
<1> DEFINE q == a \div b
<1>1. q \in Int /\ b * q <= a /\ a < b * q + b  OBVIOUS
<1> HIDE DEF q
<1>2. SUFFICES q >= 1  BY <1>1 DEF q
<1>3. SUFFICES ASSUME q <= 0 PROVE FALSE  BY <1>1
<1>4. b * q <= 0 /\ b * q \in Int  BY <1>1, <1>3
<1> QED  BY <1>1, <1>4

(* A positive factor can be cancelled.                                     *)
LEMMA MulCancel ==
  ASSUME NEW a \in Nat \ {0}, NEW x \in Int, NEW y \in Int, a * x < a * y
  PROVE  x < y
<1> SUFFICES ASSUME y <= x PROVE FALSE  OBVIOUS
<1>1. PICK d \in Nat : x = y + d
  <2> WITNESS x - y \in Nat
  <2> QED  OBVIOUS
<1>2. a * x = a * y + a * d  BY <1>1
<1>3. a * d >= 0 /\ a * d \in Int  OBVIOUS
<1>4. a * y \in Int /\ a * x \in Int  OBVIOUS
<1> QED  BY <1>2, <1>3, <1>4

(* Rounding up to a multiple does not lower, and keeps a multiple.         *)
LEMMA AlignUp ==
  ASSUME NEW s \in Nat, NEW a \in Nat \ {0}
  PROVE  /\ ((s + a - 1) \div a) * a \in Nat
         /\ ((s + a - 1) \div a) * a >= s
         /\ s % a = 0 => ((s + a - 1) \div a) * a = s
         /\ \A p \in Nat : s <= p /\ p % a = 0 => ((s + a - 1) \div a) * a <= p
<1> DEFINE q == (s + a - 1) \div a
           k == s \div a
<1>1. q \in Int /\ a * q <= s + a - 1 /\ s + a - 1 < a * q + a  OBVIOUS
<1>2. q >= 0  OBVIOUS
<1>3. q * a = a * q /\ q * a \in Int  BY <1>1
<1>4. q * a >= s  BY <1>1, <1>3
<1>5. ASSUME s % a = 0  PROVE q = k /\ s = k * a
  <2>1. k \in Int  OBVIOUS
  <2>2. s = a * k  BY <1>5
  <2>3. a * k + a = a * (k + 1) /\ a * q + a = a * (q + 1)  BY <1>1, <2>1
  <2>4. a * q < a * (k + 1) /\ a * k < a * (q + 1)  BY <1>1, <2>2, <2>3, <2>1
  <2>5. q < k + 1 /\ k < q + 1
    <3> HIDE DEF q, k
    <3> QED  BY <1>1, <2>1, <2>4, MulCancel
  <2> QED  BY <1>1, <2>1, <2>2, <2>5
<1>7. ASSUME NEW p \in Nat, s <= p, p % a = 0  PROVE q * a <= p
  <2> DEFINE m == p \div a
  <2>1. m \in Int /\ p = a * m  BY <1>7
  <2>2. a * q < a * m + a  BY <1>1, <1>7, <2>1
  <2>3. a * m + a = a * (m + 1)  BY <2>1
  <2> HIDE DEF q, m
  <2>4. q < m + 1  BY <1>1, <2>1, <2>2, <2>3, MulCancel
  <2>5. ~ (a * m < a * q)
    <3> SUFFICES ASSUME a * m < a * q PROVE FALSE  OBVIOUS
    <3>1. m < q  BY <1>1, <2>1, MulCancel
    <3> QED  BY <1>1, <2>1, <2>4, <3>1
  <2>6. a * m \in Int /\ a * q \in Int  BY <1>1, <2>1
  <2> QED  BY <1>3, <2>1, <2>5, <2>6
<1> HIDE DEF q, k
<1>6. q * a \in Nat  BY <1>3, <1>4
<1> QED  BY <1>4, <1>5, <1>6, <1>7 DEF q

(* Scaling by at most one does not raise.                                  *)
LEMMA DivBounded ==
  ASSUME NEW p \in Nat, NEW r \in Nat, NEW d \in Nat \ {0}, r <= d
  PROVE  (p * r) \div d \in Nat /\ (p * r) \div d <= p
<1> DEFINE q == (p * r) \div d
<1>1. PICK e \in Nat : d = r + e
  <2> WITNESS d - r \in Nat
  <2> QED  OBVIOUS
<1>2. p * r \in Nat /\ p * e \in Nat /\ p * d = p * r + p * e  BY <1>1
<1>3. q \in Int /\ d * q <= p * r /\ q >= 0  BY <1>2
<1>4. d * (p + 1) = p * d + d /\ p * d \in Int  OBVIOUS
<1> HIDE DEF q
<1>5. d * q \in Int  BY <1>3
<1>6. d * q < d * (p + 1)  BY <1>2, <1>3, <1>4, <1>5
<1>7. q < p + 1  BY <1>3, <1>6, MulCancel
<1> QED  BY <1>3, <1>7 DEF q

(* The frames of a client that asked off SCO: at least one, no more than   *)
(* the device told it, and no more than a period up to the PCM's rate.     *)
LEMMA Sizes ==
  ASSUME NEW c \in {"in", "low_latency"}, NEW r \in Rates, c = "low_latency" => r = InRate
  PROVE  /\ in_get_buffer_size(c, r) \in Nat \ {0}
         /\ in_get_buffer_size(c, r) <= adev_get_input_buffer_size(r)
         /\ r <= InRate => in_get_buffer_size(c, r) <= period_size(c)
<1>0. /\ r \in Nat \ {0} /\ InRate \in Nat \ {0} /\ Align \in Nat \ {0}
      /\ InPeriod \in Nat \ {0} /\ LowPeriod \in Nat \ {0} /\ LowPeriod <= InPeriod
      /\ InPeriod % Align = 0 /\ LowPeriod % Align = 0
      /\ InPeriod * r >= InRate
  BY SizesAssumption
<1>1. ASSUME NEW p \in {InPeriod, LowPeriod}
      PROVE  (((p * InRate) \div InRate + Align - 1) \div Align) * Align = p
  <2>1. (p * InRate) \div InRate = p  BY <1>0, MulDiv
  <2> QED  BY <1>0, <2>1, AlignUp
<1>2. /\ r = InRate => in_get_buffer_size(c, r) = period_size(c)
      /\ r = InRate => adev_get_input_buffer_size(r) = InPeriod
      /\ period_size(c) \in {InPeriod, LowPeriod}
  BY <1>1 DEF in_get_buffer_size, adev_get_input_buffer_size, period_size, pcm_rate
<1>3. CASE r = InRate
  BY <1>0, <1>2, <1>3
<1>4. CASE r # InRate
  <2>1. in_get_buffer_size(c, r) = adev_get_input_buffer_size(r)
    BY <1>4 DEF in_get_buffer_size, adev_get_input_buffer_size, period_size, pcm_rate
  <2> DEFINE size == (InPeriod * r) \div InRate
  <2>2. size \in Nat /\ size >= 1
    <3>1. InPeriod * r \in Nat  BY <1>0
    <3> QED  BY <1>0, <3>1, DivPositive
  <2>3. /\ adev_get_input_buffer_size(r) \in Nat
        /\ adev_get_input_buffer_size(r) >= size
    <3>1. adev_get_input_buffer_size(r) = ((size + Align - 1) \div Align) * Align
      BY DEF adev_get_input_buffer_size
    <3> HIDE DEF size
    <3> QED  BY <1>0, <2>2, <3>1, AlignUp
  <2>4. ASSUME r <= InRate PROVE adev_get_input_buffer_size(r) <= InPeriod
    <3>1. adev_get_input_buffer_size(r) = ((size + Align - 1) \div Align) * Align
      BY DEF adev_get_input_buffer_size
    <3>2. size <= InPeriod  BY <1>0, <2>4, DivBounded
    <3> HIDE DEF size
    <3> DEFINE up == ((size + Align - 1) \div Align) * Align
    <3>3. Align \in Nat \ {0}  BY <1>0
    <3>4. \A p \in Nat : size <= p /\ p % Align = 0 => up <= p  BY <2>2, <3>3, AlignUp
    <3> HIDE DEF up
    <3>5. InPeriod \in Nat /\ InPeriod % Align = 0  BY <1>0
    <3>6. up <= InPeriod  BY <3>2, <3>4, <3>5
    <3> QED  BY <3>1, <3>6 DEF up
  <2>5. period_size(c) = InPeriod  BY <1>4 DEF period_size
  <2> HIDE DEF size
  <2> QED  BY <1>4, <2>1, <2>2, <2>3, <2>4, <2>5
<1> QED  BY <1>3, <1>4

(* A client that asked on SCO reads at least one frame.                    *)
LEMMA ScoSize ==
  ASSUME NEW r \in Rates
  PROVE  in_get_buffer_size("sco", r) \in Nat \ {0}
<1> DEFINE size == (ScoPeriod * r) \div ScoRate
<1>1. /\ r \in Nat /\ ScoRate \in Nat \ {0} /\ ScoPeriod \in Nat /\ Align \in Nat \ {0}
      /\ ScoPeriod * r >= ScoRate
  BY SizesAssumption
<1>2. ScoPeriod * r \in Nat  BY <1>1
<1>3. size \in Nat /\ size >= 1  BY <1>1, <1>2, DivPositive
<1>4. in_get_buffer_size("sco", r) = ((size + Align - 1) \div Align) * Align
  BY DEF in_get_buffer_size, period_size, pcm_rate
<1> HIDE DEF size
<1> QED  BY <1>1, <1>3, <1>4, AlignUp

(* The memory a direct read goes over: the buffer, then what is behind it. *)
LEMMA MemoryType ==
  ASSUME NEW b \in Seq(Sample), NEW n \in Nat
  PROVE  /\ Memory(b, n) \in Seq(Sample)
         /\ Len(Memory(b, n)) \in Nat /\ Len(Memory(b, n)) >= n /\ Len(Memory(b, n)) >= Len(b)
<1> DEFINE m == IF n > Len(b) THEN n ELSE Len(b)
<1>1. m \in Nat /\ m >= n /\ m >= Len(b)  OBVIOUS
<1>2. Junk \in Sample  BY SampleIntro DEF Junk
<1>3. \A j \in 1..m : (IF j <= Len(b) THEN b[j] ELSE Junk) \in Sample  BY <1>2
<1>4. Memory(b, n) = [j \in 1..m |-> IF j <= Len(b) THEN b[j] ELSE Junk]  BY DEF Memory
<1> HIDE DEF m
<1>5. Memory(b, n) \in Seq(Sample) /\ Len(Memory(b, n)) = m  BY <1>1, <1>3, <1>4
<1> QED  BY <1>1, <1>5
--------------------------------------------------------------------------------
SeqTypes == buffer \in Seq(Sample) /\ client \in Seq(Sample) /\ taken \in Seq(Sample)

(* What the client asked, and when, decides how much it reads.             *)
OpenInv ==
  /\ nonSco = "low_latency" => rate = InRate
  /\ frames_rq = in_get_buffer_size(asked, rate)
  /\ config \in {nonSco, "sco"}
  /\ Len(client) <= frames_rq
  /\ at = "idle" => client = <<>>

(* A running stream: its buffer holds one period, and every frame captured *)
(* since the start was passed on or is still in the buffer, in order.      *)
RunInv ==
  ~ standby =>
    /\ Len(buffer) = period_size(config) * channels(config)
    /\ ~ resampler => frames_in = 0
    /\ captured = base + Len(taken) + frames_in
    /\ held <= Len(taken)
    /\ \A i \in 1..frames_in :
         buffer[period_size(config) - frames_in + i] = <<base + Len(taken) + i, "left">>

(* Where in_read() is.                                                     *)
ReadInv ==
  /\ at \in {"direct", "resample"} => ~ standby /\ ret = "none"
  /\ at = "direct" => ~ resampler
  /\ at = "resample" => resampler
  /\ quiet => mic_mute

(* An old failure is forgotten before a read can end with it.              *)
StatusInv ==
  read_status # 0 =>
    /\ held < Need
    /\ ~ standby => frames_in = 0
    /\ at = "resample" => client = <<>>

IndInv == /\ TypeOK /\ SeqTypes /\ OpenInv /\ RunInv /\ ReadInv /\ StatusInv
          /\ InOrder /\ FailureIsFresh /\ MutedReadSilent

(* The invariant holds when the stream is opened.                          *)
LEMMA InitInv == Init => IndInv
<1> SUFFICES ASSUME Init PROVE IndInv  OBVIOUS
<1> USE DEF Init, NonSco
<1>1. nonSco \in {"in", "low_latency"} /\ (nonSco = "low_latency" => rate = InRate)
  OBVIOUS
<1>2. in_get_buffer_size(nonSco, rate) \in Nat \ {0}  BY <1>1, Sizes
<1>3. TypeOK
  <2>1. /\ rate \in Rates /\ nonSco \in Configs \ {"sco"} /\ config \in Configs
        /\ asked \in {nonSco, "sco"}
    BY <1>1 DEF Configs
  <2>2. frames_rq \in Nat  BY <1>2
  <2>3. frames_in \in Nat /\ (standby \/ frames_in <= period_size(config))  OBVIOUS
  <2>4. read_status \in Errors \cup {0}  BY DEF Errors
  <2>5. held \in 0..Need /\ captured \in Nat /\ base \in Nat  BY NeedType
  <2> QED  BY <2>1, <2>2, <2>3, <2>4, <2>5, Zenon DEF TypeOK
<1>4. SeqTypes  BY DEF SeqTypes
<1>5. OpenInv  BY <1>1, <1>2 DEF OpenInv
<1>6. RunInv /\ ReadInv /\ StatusInv  BY DEF RunInv, ReadInv, StatusInv
<1>7. InOrder /\ FailureIsFresh /\ MutedReadSilent
  BY DEF InOrder, FailureIsFresh, MutedReadSilent
<1> QED  BY <1>3, <1>4, <1>5, <1>6, <1>7 DEF IndInv

--------------------------------------------------------------------------------
(* A client asks for its size again.                                       *)
LEMMA AskSizeInv == IndInv /\ AskSize => IndInv'
<1> SUFFICES ASSUME IndInv, AskSize PROVE IndInv'  OBVIOUS
<1> USE DEF AskSize, stream, reading
<1>1. /\ nonSco \in {"in", "low_latency"} /\ rate \in Rates /\ client = <<>>
      /\ config = nonSco \/ config = "sco"
      /\ nonSco = "low_latency" => rate = InRate
  BY DEF IndInv, OpenInv, TypeOK, Configs
<1>2. in_get_buffer_size(config, rate) \in Nat \ {0}  BY <1>1, Sizes, ScoSize
<1>3. TypeOK'  BY <1>1, <1>2 DEF IndInv, TypeOK
<1>4. SeqTypes'  BY DEF IndInv, SeqTypes
<1>5. OpenInv'
  <2>1. Len(client') = 0 /\ frames_rq' \in Nat  BY <1>1, <1>2
  <2> QED  BY <1>1, <2>1 DEF IndInv, OpenInv
<1>6. RunInv'  BY DEF IndInv, RunInv
<1>7. ReadInv' /\ StatusInv'  BY DEF IndInv, ReadInv, StatusInv
<1>8. InOrder' /\ FailureIsFresh' /\ MutedReadSilent'
  BY DEF IndInv, InOrder, FailureIsFresh, MutedReadSilent
<1> QED  BY <1>3, <1>4, <1>5, <1>6, <1>7, <1>8 DEF IndInv

(* After an overrun that kills the server a stream is opened afresh.       *)
LEMMA RestartInv == Restart => IndInv'
<1> SUFFICES ASSUME Restart PROVE IndInv'  OBVIOUS
<1> USE DEF Restart, NonSco
<1>1. nonSco' \in {"in", "low_latency"} /\ (nonSco' = "low_latency" => rate' = InRate)
  OBVIOUS
<1>2. in_get_buffer_size(nonSco', rate') \in Nat \ {0}  BY <1>1, Sizes
<1>3. TypeOK'
  <2>1. /\ rate' \in Rates /\ nonSco' \in Configs \ {"sco"} /\ config' \in Configs
        /\ asked' \in {nonSco', "sco"}
    BY <1>1 DEF Configs
  <2>2. frames_rq' \in Nat  BY <1>2
  <2>3. frames_in' \in Nat /\ standby'  OBVIOUS
  <2>4. read_status' \in Errors \cup {0}  BY DEF Errors
  <2>5. held' \in 0..Need /\ captured' \in Nat /\ base' \in Nat  BY NeedType
  <2> QED  BY <2>1, <2>2, <2>3, <2>4, <2>5, Zenon DEF TypeOK
<1>4. SeqTypes'  BY DEF SeqTypes
<1>5. OpenInv'
  <2>1. frames_rq' = in_get_buffer_size(asked', rate')  OBVIOUS
  <2> QED  BY <1>1, <1>2, <2>1 DEF OpenInv
<1>6. RunInv' /\ ReadInv' /\ StatusInv'  BY DEF RunInv, ReadInv, StatusInv
<1>7. InOrder' /\ FailureIsFresh' /\ MutedReadSilent'
  BY DEF InOrder, FailureIsFresh, MutedReadSilent
<1> QED  BY <1>3, <1>4, <1>5, <1>6, <1>7 DEF IndInv

(* Unmuting ends the quiet.                                                *)
LEMMA MuteFlagInv == IndInv /\ adev_set_mic_mute => IndInv'
<1> SUFFICES ASSUME IndInv, adev_set_mic_mute PROVE IndInv'  OBVIOUS
<1> USE DEF adev_set_mic_mute, open, stream
<1>1. TypeOK'
  <2>1. mic_mute' \in BOOLEAN /\ quiet' \in BOOLEAN  BY DEF IndInv, TypeOK
  <2> QED  BY <2>1 DEF IndInv, TypeOK
<1>2. SeqTypes' /\ OpenInv'  BY DEF IndInv, SeqTypes, OpenInv
<1>3. RunInv'  BY DEF IndInv, RunInv
<1>4. ReadInv' /\ StatusInv'  BY DEF IndInv, ReadInv, StatusInv
<1>5. InOrder' /\ FailureIsFresh' /\ MutedReadSilent'
  BY DEF IndInv, InOrder, FailureIsFresh, MutedReadSilent
<1> QED  BY <1>1, <1>2, <1>3, <1>4, <1>5 DEF IndInv

(* Standing by drops the buffer.                                           *)
LEMMA StandbyInv == IndInv /\ do_in_standby => IndInv'
<1> SUFFICES ASSUME IndInv, do_in_standby PROVE IndInv'  OBVIOUS
<1> USE DEF do_in_standby, open, reading
<1>1. TypeOK'
  <2>1. held' \in 0..Need  BY NeedType
  <2> QED  BY <2>1 DEF IndInv, TypeOK
<1>2. SeqTypes' /\ OpenInv'  BY DEF IndInv, SeqTypes, OpenInv
<1>3. RunInv' /\ ReadInv'  BY DEF IndInv, RunInv, ReadInv
<1>4. StatusInv'  BY NeedType DEF IndInv, StatusInv
<1>5. InOrder' /\ FailureIsFresh' /\ MutedReadSilent'
  BY DEF IndInv, InOrder, FailureIsFresh, MutedReadSilent
<1> QED  BY <1>1, <1>2, <1>3, <1>4, <1>5 DEF IndInv

(* A start begins a new count of frames.                                   *)
LEMMA StartInv == IndInv /\ start_input_stream => IndInv'
<1> SUFFICES ASSUME IndInv, start_input_stream PROVE IndInv'  OBVIOUS
<1> USE DEF start_input_stream, Begin, open
<1>1. config' \in Configs /\ config' \in {nonSco, "sco"}
  BY DEF IndInv, TypeOK, Configs
<1>2. at' = (IF resampler' THEN "resample" ELSE "direct") /\ resampler' \in BOOLEAN
  BY DEF AfterStart
<1>3. /\ NewBuffer(config') \in Seq(Sample)
      /\ Len(NewBuffer(config')) = period_size(config') * channels(config')
  BY <1>1, NewBufferType
<1>4. TypeOK'
  <2>1. held' \in 0..Need /\ frames_in' \in Nat /\ frames_in' <= period_size(config')
    BY <1>1, NeedType, ConfigType
  <2> QED  BY <1>1, <1>2, <2>1 DEF IndInv, TypeOK
<1>5. SeqTypes'  BY <1>3 DEF SeqTypes
<1>6. OpenInv'  BY <1>1 DEF IndInv, OpenInv, TypeOK
<1>7. RunInv'
  <2>1. captured' = base' + Len(taken') + frames_in'  BY DEF IndInv, TypeOK
  <2> QED  BY <1>3, <2>1 DEF RunInv
<1>8. ReadInv'  BY <1>2 DEF ReadInv
<1>9. StatusInv'  BY NeedType DEF StatusInv
<1>10. InOrder' /\ FailureIsFresh' /\ MutedReadSilent'
  BY <1>2 DEF InOrder, FailureIsFresh, MutedReadSilent
<1> QED  BY <1>4, <1>5, <1>6, <1>7, <1>8, <1>9, <1>10 DEF IndInv

(* A start that fails changes no data.                                     *)
LEMMA StartFailsInv == IndInv /\ start_input_stream_fails => IndInv'
<1> SUFFICES ASSUME IndInv, start_input_stream_fails PROVE IndInv'  OBVIOUS
<1> USE DEF start_input_stream_fails, Begin, open
<1>1. config' \in Configs /\ config' \in {nonSco, "sco"}
  BY DEF IndInv, TypeOK, Configs
<1>2. TypeOK'  BY <1>1 DEF IndInv, TypeOK
<1>3. SeqTypes'  BY DEF IndInv, SeqTypes
<1>4. OpenInv'  BY <1>1 DEF IndInv, OpenInv, TypeOK
<1>5. RunInv' /\ ReadInv' /\ StatusInv'  BY DEF IndInv, RunInv, ReadInv, StatusInv
<1>6. InOrder' /\ FailureIsFresh' /\ MutedReadSilent'
  BY DEF IndInv, InOrder, FailureIsFresh, MutedReadSilent
<1> QED  BY <1>2, <1>3, <1>4, <1>5, <1>6 DEF IndInv

(* A read of a running stream goes on where the last one ended.            *)
LEMMA NoStartInv == IndInv /\ NoStart => IndInv'
<1> SUFFICES ASSUME IndInv, NoStart PROVE IndInv'  OBVIOUS
<1> USE DEF NoStart, Begin, open, stream
<1>1. at' = (IF resampler THEN "resample" ELSE "direct") /\ resampler \in BOOLEAN
  BY DEF AfterStart, IndInv, TypeOK
<1>2. TypeOK'  BY <1>1 DEF IndInv, TypeOK
<1>3. SeqTypes'  BY DEF IndInv, SeqTypes
<1>4. OpenInv'  BY DEF IndInv, OpenInv, TypeOK
<1>5. RunInv'  BY DEF IndInv, RunInv
<1>6. ReadInv' /\ StatusInv'  BY <1>1 DEF IndInv, ReadInv, StatusInv
<1>7. InOrder' /\ FailureIsFresh' /\ MutedReadSilent'
  BY <1>1 DEF IndInv, InOrder, FailureIsFresh, MutedReadSilent
<1> QED  BY <1>2, <1>3, <1>4, <1>5, <1>6, <1>7 DEF IndInv

(* A read without a resampler, stereo or mono, that succeeds or fails.     *)
LEMMA ReadDirectInv == ASSUME NEW ok \in BOOLEAN PROVE IndInv /\ ReadDirect(ok) => IndInv'
<1> SUFFICES ASSUME IndInv, ReadDirect(ok) PROVE IndInv'  OBVIOUS
<1> USE DEF ReadDirect, open, Transferred
<1>0. /\ captured \in Nat /\ config \in Configs /\ frames_rq \in Nat /\ base \in Nat
      /\ channels(config) \in {1, 2} /\ period_size(config) \in Nat
      /\ buffer \in Seq(Sample) /\ client \in Seq(Sample) /\ taken \in Seq(Sample)
      /\ ~ standby /\ frames_in = 0 /\ Len(client) <= frames_rq
      /\ Len(buffer) = period_size(config) * channels(config)
      /\ captured = base + Len(taken) /\ held <= Len(taken) /\ held \in Nat
  BY ConfigType, NeedType DEF IndInv, TypeOK, SeqTypes, OpenInv, RunInv, ReadInv
<1> DEFINE F == Frames(frames_rq)
<1>2. /\ F \in Seq(Sample) /\ Len(F) = frames_rq * channels(config)
      /\ channels(config) = 2 =>
           \A j \in 1..frames_rq : F[2 * j - 1] = <<captured + j, "left">>
      /\ channels(config) = 1 => \A j \in 1..frames_rq : F[j] = <<captured + j, "left">>
  BY <1>0, FramesType
<1>3. /\ buffer' \in Seq(Sample) /\ Len(buffer') = Len(buffer)
      /\ client' \in Seq(Sample) /\ Len(client') <= frames_rq
      /\ ok => Len(client') = frames_rq
               /\ \A j \in 1..frames_rq : client'[j] = <<captured + j, "left">>
  <2>1. CASE channels(config) = 2
    <3> DEFINE M == Memory(buffer, frames_rq * 2)
               N == IF ok THEN Overwrite(M, F) ELSE M
    <3>1. buffer' = SubSeq(N, 1, Len(buffer)) /\ client' = Left(N, frames_rq)  BY <2>1
    <3>2. frames_rq * 2 \in Nat /\ frames_rq * 2 = 2 * frames_rq /\ Len(buffer) \in Nat  BY <1>0
    <3>3. /\ M \in Seq(Sample) /\ Len(M) \in Nat
          /\ Len(M) >= 2 * frames_rq /\ Len(M) >= Len(buffer)
      BY <1>0, <3>2, MemoryType
    <3> HIDE DEF F, M
    <3>4. /\ Overwrite(M, F) \in Seq(Sample) /\ Len(Overwrite(M, F)) = Len(M)
          /\ \A j \in 1..Len(M) : j <= Len(F) => Overwrite(M, F)[j] = F[j]
      BY <1>2, <3>3, OverwriteType
    <3>5. N \in Seq(Sample) /\ Len(N) = Len(M)  BY <3>3, <3>4
    <3>6. ok => N = Overwrite(M, F)  OBVIOUS
    <3> HIDE DEF N
    <3>7. buffer' \in Seq(Sample) /\ Len(buffer') = Len(buffer)
      <4>1. SubSeq(N, 1, Len(buffer)) \in Seq(Sample)  BY <3>2, <3>3, <3>5, SubSeqProperties
      <4>2. Len(SubSeq(N, 1, Len(buffer))) = Len(buffer)  BY <3>2, <3>3, <3>5, SubSeqProperties
      <4> QED  BY <3>1, <4>1, <4>2
    <3>8. /\ Left(N, frames_rq) \in Seq(Sample)
          /\ Len(Left(N, frames_rq)) = frames_rq
          /\ \A j \in 1..frames_rq : Left(N, frames_rq)[j] = N[2 * j - 1]
      BY <1>0, <3>3, <3>5, LeftType
    <3>9. ASSUME ok, NEW j \in 1..frames_rq  PROVE client'[j] = <<captured + j, "left">>
      <4>a. j \in Int /\ 1 <= j /\ j <= frames_rq /\ frames_rq \in Nat  BY <1>0, <3>9
      <4>b. 1 <= 2 * j - 1 /\ 2 * j - 1 <= 2 * frames_rq /\ 2 * j - 1 \in Int  BY <4>a
      <4>d. Len(F) = 2 * frames_rq  BY <1>0, <1>2, <2>1
      <4>1. 2 * j - 1 \in 1..Len(M) /\ 2 * j - 1 <= Len(F)
        BY <3>3, <4>a, <4>b, <4>d
      <4>2. N[2 * j - 1] = F[2 * j - 1]  BY <3>4, <3>6, <3>9, <4>1
      <4> QED  BY <1>2, <2>1, <3>1, <3>8, <4>2
    <3>10. client' \in Seq(Sample) /\ Len(client') = frames_rq  BY <3>1, <3>8
    <3>11. Len(client') <= frames_rq  BY <1>0, <3>10
    <3> QED  BY <3>7, <3>9, <3>10, <3>11
  <2>2. CASE channels(config) = 1
    <3>1. buffer' = buffer /\ client' = IF ok THEN F ELSE client  BY <2>2
    <3> HIDE DEF F
    <3> QED  BY <1>0, <1>2, <2>2, <3>1
  <2> QED  BY <1>0, <2>1, <2>2
<1>4. /\ taken' \in Seq(Sample)
      /\ captured' = base + Len(taken')
      /\ InOrder'
  <2>1. CASE ok
    <3>1. taken' = taken \o client' /\ captured' = captured + frames_rq /\ base' = base
      BY <2>1
    <3>2. /\ taken \o client' \in Seq(Sample)
          /\ Len(taken \o client') = Len(taken) + Len(client')
          /\ \A i \in 1..Len(taken \o client') : (taken \o client')[i] =
               IF i <= Len(taken) THEN taken[i] ELSE client'[i - Len(taken)]
      BY <1>0, <1>3, ConcatProperties
    <3>3. ASSUME NEW i \in 1..Len(taken')  PROVE taken'[i] = <<base + i, "left">>
      <4>1. CASE i <= Len(taken)
        <5>1. i \in Int /\ 1 <= i /\ Len(taken) \in Nat  BY <1>0, <3>1, <3>2, <3>3
        <5>2. i \in 1..Len(taken)  BY <4>1, <5>1
        <5>3. taken[i] = <<base + i, "left">>  BY <5>2 DEF IndInv, InOrder
        <5>4. taken'[i] = taken[i]  BY <3>1, <3>2, <3>3, <4>1
        <5> QED  BY <5>3, <5>4
      <4>2. CASE i > Len(taken)
        <5>a. Len(taken) \in Nat /\ frames_rq \in Nat /\ Len(client') = frames_rq
          BY <1>0, <1>3, <2>1
        <5>b. i \in Int /\ i <= Len(taken) + frames_rq  BY <3>1, <3>2, <3>3, <5>a
        <5>1. i - Len(taken) \in 1..frames_rq  BY <4>2, <5>a, <5>b
        <5>2. captured + (i - Len(taken)) = base + i  BY <1>0, <3>1, <3>2
        <5>c. ~ (i <= Len(taken))  BY <4>2, <5>a, <5>b
        <5>3. taken'[i] = client'[i - Len(taken)]  BY <3>1, <3>2, <3>3, <5>c
        <5>4. client'[i - Len(taken)] = <<captured + (i - Len(taken)), "left">>
          BY <1>3, <2>1, <5>1
        <5> QED  BY <5>2, <5>3, <5>4
      <4>3. Len(taken) \in Nat /\ i \in Int  BY <1>0, <1>3, <3>1, <3>2
      <4> QED  BY <4>1, <4>2, <4>3
    <3>4. InOrder'  BY <3>1, <3>3 DEF InOrder
    <3>5. taken' \in Seq(Sample)  BY <3>1, <3>2
    <3>6. Len(taken') = Len(taken) + frames_rq  BY <1>3, <2>1, <3>1, <3>2
    <3>7. Len(taken) \in Nat  BY <1>0
    <3>8. captured + frames_rq = base + (Len(taken) + frames_rq)  BY <1>0, <3>7
    <3>9. captured' = base + Len(taken')  BY <3>1, <3>6, <3>8
    <3> QED  BY <3>4, <3>5, <3>9
  <2>2. CASE ~ ok
    BY <1>0, <2>2 DEF IndInv, InOrder
  <2> QED  BY <2>1, <2>2
<1>5. TypeOK'
  <2>1. captured' \in Nat  BY <1>0, <1>4
  <2>2. broke' \in BOOLEAN /\ quiet' \in BOOLEAN  BY DEF IndInv, TypeOK
  <2>3. at' \in {"idle", "direct", "resample", "mute", "return"} /\ ret' \in {"none", "ok", "failed"}
    OBVIOUS
  <2> QED  BY <2>1, <2>2, <2>3 DEF IndInv, TypeOK
<1>6. SeqTypes'  BY <1>3, <1>4 DEF SeqTypes
<1>7. OpenInv'  BY <1>3 DEF IndInv, OpenInv
<1>8. RunInv'
  <2>1. held <= Len(taken')
    <3>1. Len(taken) \in Nat  BY <1>0
    <3>2. captured' >= captured  BY <1>0
    <3>3. Len(taken') \in Nat  BY <1>4
    <3> QED  BY <1>0, <1>4, <3>1, <3>2, <3>3
  <2>2. captured' = base' + Len(taken') + frames_in'
    <3>1. Len(taken') \in Nat  BY <1>4
    <3> QED  BY <1>0, <1>4, <3>1
  <2>3. frames_in' = 0 /\ held' = held /\ Len(buffer') = Len(buffer)  BY <1>0, <1>3
  <2> QED  BY <1>0, <2>1, <2>2, <2>3 DEF IndInv, RunInv
<1>9. ReadInv' /\ StatusInv'  BY <1>0 DEF IndInv, ReadInv, StatusInv
<1>10. FailureIsFresh' /\ MutedReadSilent'  BY DEF FailureIsFresh, MutedReadSilent
<1> QED  BY <1>4, <1>5, <1>6, <1>7, <1>8, <1>9, <1>10 DEF IndInv

(* The resampler is given the next frames of the period, which the driver  *)
(* fills first if it is used up.                                           *)
LEMMA NextBufferInv == IndInv /\ get_next_buffer => IndInv'
<1> SUFFICES ASSUME IndInv, get_next_buffer PROVE IndInv'  OBVIOUS
<1> DEFINE P == period_size(config)
           refill == frames_in = 0
           left == IF refill THEN P ELSE frames_in
           b == IF refill THEN Filled ELSE buffer
           buf == Offered(b, left, Need - held)
<1>0. /\ captured \in Nat /\ config \in Configs /\ base \in Nat /\ frames_in \in Nat
      /\ channels(config) \in {1, 2} /\ P \in Nat \ {0} /\ frames_in <= P
      /\ buffer \in Seq(Sample) /\ client \in Seq(Sample) /\ taken \in Seq(Sample)
      /\ ~ standby /\ resampler /\ at = "resample" /\ ret = "none"
      /\ Len(buffer) = P * channels(config) /\ P <= Len(buffer)
      /\ captured = base + Len(taken) + frames_in
      /\ Len(taken) \in Nat /\ held <= Len(taken) /\ held \in Nat /\ held < Need
      /\ Need \in Nat
  <2>1. at = "resample" /\ held < Need  BY DEF get_next_buffer, Asks
  <2>2. ~ standby /\ resampler /\ ret = "none"  BY <2>1 DEF IndInv, ReadInv
  <2>3. config \in Configs /\ held \in Nat /\ Need \in Nat
    BY NeedType DEF IndInv, TypeOK
  <2>4. channels(config) \in {1, 2} /\ P \in Nat \ {0}  BY <2>3, ConfigType
  <2>5. /\ captured \in Nat /\ base \in Nat /\ frames_in \in Nat /\ frames_in <= P
    BY <2>2 DEF IndInv, TypeOK
  <2>6. /\ buffer \in Seq(Sample) /\ client \in Seq(Sample) /\ taken \in Seq(Sample)
    BY DEF IndInv, SeqTypes
  <2>7. /\ Len(buffer) = P * channels(config)
        /\ captured = base + Len(taken) + frames_in /\ held <= Len(taken)
    BY <2>2 DEF IndInv, RunInv
  <2>8. Len(taken) \in Nat /\ P <= Len(buffer)  BY <2>4, <2>6, <2>7
  <2> QED  BY <2>1, <2>2, <2>3, <2>4, <2>5, <2>6, <2>7, <2>8
<1>a. /\ buffer' = b /\ captured' = (IF refill THEN captured + P ELSE captured)
      /\ read_status' = (IF refill THEN 0 ELSE read_status)
      /\ frames_in' = left - Len(buf) /\ taken' = taken \o buf /\ held' = held + Len(buf)
  BY DEF get_next_buffer, Status
<1>b. UNCHANGED <<rate, nonSco, frames_rq, asked, sco, mic_mute, standby, config, resampler, at,
                  client, ret, broke, quiet, base>>
  BY DEF get_next_buffer, open, reading
<1>1. /\ b \in Seq(Sample) /\ Len(b) = Len(buffer)
      /\ left \in 1..P
      /\ captured' = base + Len(taken) + left
      /\ \A i \in 1..left : b[P - left + i] = <<base + Len(taken) + i, "left">>
  <2>1. CASE refill
    <3>1. b = Filled /\ left = P /\ captured' = captured + P  BY <1>a, <2>1
    <3>2. /\ Filled \in Seq(Sample) /\ Len(Filled) = Len(buffer)
          /\ \A j \in 1..P : Filled[j] = <<captured + j, "left">>
      BY <1>0, FilledType
    <3>3. captured = base + Len(taken)  BY <1>0, <2>1
    <3>4. \A i \in 1..P : P - P + i = i  BY <1>0
    <3> HIDE DEF P, b, left
    <3>5. \A i \in 1..left : b[P - left + i] = <<base + Len(taken) + i, "left">>
      BY <3>1, <3>2, <3>3, <3>4
    <3>6. captured' = base + Len(taken) + left  BY <3>1, <3>3
    <3>7. b \in Seq(Sample) /\ Len(b) = Len(buffer)  BY <3>1, <3>2
    <3>8. left \in 1..P  BY <1>0, <3>1
    <3> QED  BY <3>5, <3>6, <3>7, <3>8
  <2>2. CASE ~ refill
    <3>1. b = buffer /\ left = frames_in /\ captured' = captured  BY <1>a, <2>2
    <3>2. \A i \in 1..frames_in :
            buffer[P - frames_in + i] = <<base + Len(taken) + i, "left">>
      BY <1>0 DEF IndInv, RunInv
    <3>3. frames_in \in 1..P  BY <1>0, <2>2
    <3> HIDE DEF P, b, left
    <3> QED  BY <1>0, <3>1, <3>2, <3>3
  <2> QED  BY <2>1, <2>2
<1>2. /\ buf \in Seq(Sample)
      /\ Len(buf) = IF Need - held > left THEN left ELSE Need - held
      /\ \A i \in 1..Len(buf) : buf[i] = b[P - left + i]
  <2>1. left \in Nat /\ Need - held \in Nat /\ left <= P /\ P <= Len(b)  BY <1>0, <1>1
  <2>2. b \in Seq(Sample) /\ config \in Configs  BY <1>0, <1>1
  <2> HIDE DEF left, b
  <2>3. /\ Offered(b, left, Need - held) \in Seq(Sample)
        /\ Len(Offered(b, left, Need - held)) = IF Need - held > left THEN left ELSE Need - held
        /\ \A i \in 1..Len(Offered(b, left, Need - held)) :
             Offered(b, left, Need - held)[i] = b[period_size(config) - left + i]
    BY <2>1, <2>2, OfferedType, Zenon
  <2> QED  BY <2>3
<1> HIDE DEF P, refill, left, b, buf
<1>3. Len(buf) \in 1..left /\ held + Len(buf) <= Need /\ left \in Nat
  <2>1. left \in Nat /\ 1 <= left  BY <1>0, <1>1
  <2>2. Need - held \in Nat /\ 1 <= Need - held  BY <1>0
  <2>3. Len(buf) \in Nat /\ 1 <= Len(buf) /\ Len(buf) <= left /\ Len(buf) <= Need - held
    BY <1>2, <2>1, <2>2
  <2>4. held \in Nat /\ Need \in Nat  BY <1>0
  <2> QED  BY <2>1, <2>3, <2>4
<1>4. /\ taken' \in Seq(Sample) /\ Len(taken') = Len(taken) + Len(buf)
      /\ \A i \in 1..Len(taken') :
           taken'[i] = IF i <= Len(taken) THEN taken[i] ELSE buf[i - Len(taken)]
  <2>1. /\ taken \o buf \in Seq(Sample) /\ Len(taken \o buf) = Len(taken) + Len(buf)
        /\ \A i \in 1..Len(taken) + Len(buf) : (taken \o buf)[i] =
              IF i <= Len(taken) THEN taken[i] ELSE buf[i - Len(taken)]
    BY <1>0, <1>2, ConcatProperties
  <2> QED  BY <1>a, <2>1
<1>5. InOrder'
  <2>1. SUFFICES ASSUME NEW i \in 1..Len(taken') PROVE taken'[i] = <<base + i, "left">>
    BY <1>b DEF InOrder
  <2>2. CASE i <= Len(taken)
    <3>1. i \in 1..Len(taken)  BY <1>0, <1>3, <1>4, <2>1, <2>2
    <3>2. taken[i] = <<base + i, "left">>  BY <3>1 DEF IndInv, InOrder
    <3> QED  BY <1>4, <2>1, <2>2, <3>2
  <2>3. CASE i > Len(taken)
    <3>a. Len(taken) \in Nat /\ Len(buf) \in Nat /\ Len(buf) <= left /\ left \in Nat
      BY <1>0, <1>3
    <3>b. i \in Int /\ i <= Len(taken) + Len(buf)  BY <1>4, <2>1, <3>a
    <3>1. i - Len(taken) \in 1..Len(buf) /\ i - Len(taken) \in 1..left
      BY <2>3, <3>a, <3>b
    <3>2. taken'[i] = buf[i - Len(taken)]  BY <1>0, <1>4, <2>1, <2>3
    <3>3. buf[i - Len(taken)] = b[P - left + (i - Len(taken))]  BY <1>2, <3>1
    <3>4. b[P - left + (i - Len(taken))] = <<base + Len(taken) + (i - Len(taken)), "left">>
      BY <1>1, <3>1
    <3>5. base + Len(taken) + (i - Len(taken)) = base + i  BY <1>0, <2>1, <1>4, <1>3
    <3> QED  BY <3>2, <3>3, <3>4, <3>5
  <2>4. i \in Int /\ Len(taken) \in Nat  BY <1>0, <1>3, <1>4, <2>1
  <2> QED  BY <2>2, <2>3, <2>4
<1>6. frames_in' \in Nat /\ frames_in' <= P /\ held' \in 0..Need /\ captured' \in Nat
  <2>1. left - Len(buf) \in Nat /\ left - Len(buf) <= P  BY <1>0, <1>1, <1>3
  <2>2. held + Len(buf) \in 0..Need  BY <1>0, <1>3
  <2>3. base + Len(taken) + left \in Nat  BY <1>0, <1>3
  <2> QED  BY <1>1, <1>a, <2>1, <2>2, <2>3
<1>7. TypeOK'
  <2>1. frames_in' <= period_size(config')  BY <1>6, <1>b DEF P
  <2>2. read_status' \in Errors \cup {0}  BY <1>a DEF IndInv, TypeOK
  <2> QED  BY <1>6, <1>b, <2>1, <2>2 DEF IndInv, TypeOK
<1>8. SeqTypes'  BY <1>0, <1>1, <1>4, <1>a, <1>b DEF SeqTypes
<1>9. OpenInv'  BY <1>b DEF IndInv, OpenInv
<1>10. RunInv'
  <2>1. Len(buffer') = period_size(config') * channels(config')
    BY <1>0, <1>1, <1>a, <1>b DEF P
  <2>2. captured' = base + Len(taken') + frames_in' /\ held' <= Len(taken')
    <3>1. base + Len(taken) + left = base + (Len(taken) + Len(buf)) + (left - Len(buf))
      BY <1>0, <1>3
    <3>2. held + Len(buf) <= Len(taken) + Len(buf)  BY <1>0, <1>3
    <3> QED  BY <1>1, <1>4, <1>a, <3>1, <3>2
  <2>3. ASSUME NEW i \in 1..frames_in'
        PROVE  buffer'[P - frames_in' + i] = <<base + Len(taken') + i, "left">>
    <3>1. Len(buf) + i \in 1..left  BY <1>3, <1>6, <1>a, <2>3
    <3>2. b[P - left + (Len(buf) + i)] = <<base + Len(taken) + (Len(buf) + i), "left">>
      BY <1>1, <3>1
    <3>3. /\ P - left + (Len(buf) + i) = P - frames_in' + i
          /\ base + Len(taken) + (Len(buf) + i) = base + Len(taken') + i
      BY <1>0, <1>3, <1>4, <1>6, <1>a, <2>3
    <3> QED  BY <1>a, <3>2, <3>3
  <2>4. resampler'  BY <1>0, <1>b
  <2>5. period_size(config') = P /\ base' = base  BY <1>b DEF P
  <2> QED  BY <2>1, <2>2, <2>3, <2>4, <2>5 DEF RunInv
<1>11. ReadInv'  BY <1>b DEF IndInv, ReadInv
<1>12. StatusInv'
  <2>1. CASE refill
    BY <1>a, <2>1 DEF StatusInv
  <2>2. CASE ~ refill
    <3>1. read_status' = 0  BY <1>0, <1>a, <2>2 DEF IndInv, StatusInv, refill
    <3> QED  BY <3>1 DEF StatusInv
  <2> QED  BY <2>1, <2>2
<1>13. FailureIsFresh' /\ MutedReadSilent'
  BY <1>b DEF IndInv, FailureIsFresh, MutedReadSilent
<1> QED  BY <1>5, <1>7, <1>8, <1>9, <1>10, <1>11, <1>12, <1>13 DEF IndInv

(* A failed PCM read leaves nothing behind but the status.                 *)
LEMMA NextBufferFailsInv == IndInv /\ get_next_buffer_fails => IndInv'
<1> SUFFICES ASSUME IndInv, get_next_buffer_fails PROVE IndInv'  OBVIOUS
<1> USE DEF get_next_buffer_fails, Asks, open, Transferred
<1>1. TypeOK'
  <2>1. quiet' \in BOOLEAN /\ read_status' \in Errors \cup {0}  BY DEF IndInv, TypeOK
  <2> QED  BY <2>1 DEF IndInv, TypeOK
<1>2. SeqTypes' /\ OpenInv'  BY DEF IndInv, SeqTypes, OpenInv
<1>3. RunInv'  BY DEF IndInv, RunInv
<1>4. ReadInv' /\ StatusInv'  BY DEF IndInv, ReadInv, StatusInv
<1>5. InOrder' /\ FailureIsFresh' /\ MutedReadSilent'
  BY DEF IndInv, InOrder, FailureIsFresh, MutedReadSilent
<1> QED  BY <1>1, <1>2, <1>3, <1>4, <1>5 DEF IndInv

(* The resampler turns what it was given into frames for the client.       *)
LEMMA ResampleInv == IndInv /\ resample_from_provider => IndInv'
<1> SUFFICES ASSUME IndInv, resample_from_provider PROVE IndInv'  OBVIOUS
<1> USE DEF resample_from_provider, open, stream
<1>0. /\ ~ standby /\ client \in Seq(Sample) /\ taken \in Seq(Sample)
      /\ held \in Nat /\ held >= Need /\ held <= Len(taken) /\ frames_rq \in Nat
  BY NeedType DEF IndInv, ReadInv, SeqTypes, TypeOK, RunInv
<1>1. taken[Len(taken)] \in Sample  BY <1>0, NeedType
<1>2. PICK m \in 1..(frames_rq - Len(client)) :
        client' = client \o [j \in 1..m |-> taken[Len(taken)]]
  OBVIOUS
<1> DEFINE more == [j \in 1..m |-> taken[Len(taken)]]
<1>3. m \in Nat /\ Len(client) \in Nat /\ Len(client) + m <= frames_rq  BY <1>0, <1>2
<1>4. more \in Seq(Sample) /\ Len(more) = m  BY <1>1, <1>3
<1>5. client' = client \o more  BY <1>2
<1> HIDE DEF more
<1>6. client' \in Seq(Sample) /\ Len(client') = Len(client) + m
  BY <1>0, <1>4, <1>5, ConcatProperties
<1>7. Len(client') <= frames_rq  BY <1>3, <1>6
<1>8. read_status = 0  BY <1>0, NeedType DEF IndInv, StatusInv
<1>9. TypeOK'
  <2>1. held' \in 0..Need  BY NeedType
  <2> QED  BY <2>1 DEF IndInv, TypeOK
<1>10. SeqTypes' /\ OpenInv'  BY <1>6, <1>7 DEF IndInv, SeqTypes, OpenInv
<1>11. RunInv'
  <2>1. held' <= Len(taken')  BY <1>0
  <2> QED  BY <2>1 DEF IndInv, RunInv
<1>12. ReadInv' /\ StatusInv'  BY <1>8 DEF IndInv, ReadInv, StatusInv
<1>13. InOrder' /\ FailureIsFresh' /\ MutedReadSilent'
  BY DEF IndInv, InOrder, FailureIsFresh, MutedReadSilent
<1> QED  BY <1>9, <1>10, <1>11, <1>12, <1>13 DEF IndInv

(* A full read has no old failure to report: it took input, and the read   *)
(* that filled the period cleared the status.                              *)
LEMMA ReadFramesInv == IndInv /\ read_frames => IndInv'
<1> SUFFICES ASSUME IndInv, read_frames PROVE IndInv'  OBVIOUS
<1> USE DEF read_frames, open, stream, Transferred
<1>1. read_status = 0
  <2>1. Len(client) = frames_rq /\ frames_rq = in_get_buffer_size(asked, rate)
    BY DEF IndInv, OpenInv
  <2>2. frames_rq \in Nat \ {0}
    <3>1. /\ nonSco \in {"in", "low_latency"} /\ rate \in Rates
          /\ asked = nonSco \/ asked = "sco"
      BY DEF IndInv, TypeOK, Configs
    <3>2. nonSco = "low_latency" => rate = InRate  BY DEF IndInv, OpenInv
    <3> QED  BY <2>1, <3>1, <3>2, Sizes, ScoSize
  <2>3. client # <<>>  BY <2>1, <2>2
  <2> QED  BY <2>3 DEF IndInv, StatusInv
<1>2. TypeOK'  BY <1>1 DEF IndInv, TypeOK
<1>3. SeqTypes' /\ OpenInv'  BY DEF IndInv, SeqTypes, OpenInv
<1>4. RunInv'  BY DEF IndInv, RunInv
<1>5. ReadInv' /\ StatusInv'  BY <1>1 DEF IndInv, ReadInv, StatusInv
<1>6. InOrder' /\ FailureIsFresh' /\ MutedReadSilent'
  BY <1>1 DEF IndInv, InOrder, FailureIsFresh, MutedReadSilent
<1> QED  BY <1>2, <1>3, <1>4, <1>5, <1>6 DEF IndInv

(* A muted read is cleared before it returns.                              *)
LEMMA MuteInv == IndInv /\ Mute => IndInv'
<1> SUFFICES ASSUME IndInv, Mute PROVE IndInv'  OBVIOUS
<1> USE DEF Mute, open, stream
<1> DEFINE zeros == [j \in 1..frames_rq |-> Silence]
<1>1. frames_rq \in Nat /\ client \in Seq(Sample) /\ Len(client) <= frames_rq
  BY DEF IndInv, TypeOK, SeqTypes, OpenInv
<1>2. Silence \in Sample  BY SampleIntro DEF Silence
<1>3. /\ zeros \in Seq(Sample) /\ Len(zeros) = frames_rq
      /\ \A i \in 1..Len(zeros) : zeros[i] = Silence
  BY <1>1, <1>2
<1>4. client' = IF ret = "ok" /\ mic_mute THEN zeros ELSE client  OBVIOUS
<1> HIDE DEF zeros
<1>5. client' \in Seq(Sample) /\ Len(client') <= frames_rq  BY <1>1, <1>3, <1>4
<1>6. MutedReadSilent'
  <2>1. SUFFICES ASSUME ret = "ok", quiet PROVE client' = zeros
    BY <1>3 DEF MutedReadSilent
  <2> QED  BY <1>4, <2>1 DEF IndInv, ReadInv
<1>7. TypeOK'  BY DEF IndInv, TypeOK
<1>8. SeqTypes' /\ OpenInv'  BY <1>5 DEF IndInv, SeqTypes, OpenInv
<1>9. RunInv'  BY DEF IndInv, RunInv
<1>10. ReadInv' /\ StatusInv' /\ InOrder' /\ FailureIsFresh'
  BY DEF IndInv, ReadInv, StatusInv, InOrder, FailureIsFresh
<1> QED  BY <1>6, <1>7, <1>8, <1>9, <1>10 DEF IndInv

(* in_read() returns.                                                      *)
LEMMA ReturnInv == IndInv /\ Return => IndInv'
<1> SUFFICES ASSUME IndInv, Return PROVE IndInv'  OBVIOUS
<1> USE DEF Return, open, stream
<1>1. TypeOK'  BY DEF IndInv, TypeOK
<1>2. SeqTypes' /\ OpenInv'  BY DEF IndInv, SeqTypes, OpenInv, TypeOK
<1>3. RunInv'  BY DEF IndInv, RunInv
<1>4. ReadInv' /\ StatusInv'  BY DEF IndInv, ReadInv, StatusInv
<1>5. InOrder' /\ FailureIsFresh' /\ MutedReadSilent'
  BY DEF IndInv, InOrder, FailureIsFresh, MutedReadSilent
<1> QED  BY <1>1, <1>2, <1>3, <1>4, <1>5 DEF IndInv

(* Every step keeps the invariant.                                         *)
LEMMA NextInv == IndInv /\ [Next]_vars => IndInv'
<1> SUFFICES ASSUME IndInv, [Next]_vars PROVE IndInv'  OBVIOUS
<1>1. CASE adev_set_mic_mute  BY <1>1, MuteFlagInv
<1>2. CASE do_in_standby  BY <1>2, StandbyInv
<1>3. CASE start_input_stream  BY <1>3, StartInv
<1>4. CASE start_input_stream_fails  BY <1>4, StartFailsInv
<1>5. CASE NoStart  BY <1>5, NoStartInv
<1>6. CASE \E ok \in BOOLEAN : ReadDirect(ok)  BY <1>6, ReadDirectInv
<1>7. CASE get_next_buffer  BY <1>7, NextBufferInv
<1>8. CASE get_next_buffer_fails  BY <1>8, NextBufferFailsInv
<1>9. CASE resample_from_provider  BY <1>9, ResampleInv
<1>10. CASE read_frames  BY <1>10, ReadFramesInv
<1>11. CASE Mute  BY <1>11, MuteInv
<1>12. CASE Return  BY <1>12, ReturnInv
<1>14. CASE AskSize  BY <1>14, AskSizeInv
<1>15. CASE OverrunKills  BY <1>15, RestartInv DEF OverrunKills
<1>13. CASE UNCHANGED vars
  <2>1. TypeOK' /\ SeqTypes' /\ OpenInv'
    BY <1>13 DEF vars, IndInv, TypeOK, SeqTypes, OpenInv
  <2>2. RunInv' /\ ReadInv' /\ StatusInv'
    BY <1>13 DEF vars, IndInv, RunInv, ReadInv, StatusInv
  <2>3. InOrder' /\ FailureIsFresh' /\ MutedReadSilent'
    BY <1>13 DEF vars, IndInv, InOrder, FailureIsFresh, MutedReadSilent
  <2> QED  BY <2>1, <2>2, <2>3 DEF IndInv
<1> QED
  BY <1>1, <1>2, <1>3, <1>4, <1>5, <1>6, <1>7, <1>8, <1>9, <1>10, <1>11, <1>12, <1>13,
     <1>14, <1>15 DEF Next, in_read

(* The inductive invariant holds throughout.                               *)
LEMMA SpecInv == Spec => []IndInv
BY InitInv, NextInv, PTL DEF Spec

--------------------------------------------------------------------------------
(* Every variable keeps its kind; frames_in never wraps below zero nor     *)
(* passes the period, for any period, rate and resampler.                  *)
THEOREM TypeCorrect == Spec => []TypeOK
<1>1. IndInv => TypeOK  BY DEF IndInv
<1> QED  BY <1>1, SpecInv, PTL

(* get_next_buffer() never overruns in->buffer; in_read() does only for a  *)
(* client that asked for its size on SCO, or one above the microphone's    *)
(* rate whose resampler could not be made; and off SCO no read overruns    *)
(* what the device told the client to make room for.                       *)
THEOREM BuffersLargeEnough == Spec => []BufferFits
<1>1. ASSUME IndInv PROVE BufferFits
  <2>1. nonSco \in {"in", "low_latency"} /\ rate \in Rates /\ config \in Configs
    BY <1>1 DEF IndInv, TypeOK, Configs
  <2>2. /\ nonSco = "low_latency" => rate = InRate
        /\ frames_rq = in_get_buffer_size(asked, rate) /\ asked \in {nonSco, "sco"}
        /\ Len(client) <= frames_rq /\ config \in {nonSco, "sco"}
        /\ client \in Seq(Sample)
    BY <1>1 DEF IndInv, OpenInv, SeqTypes, TypeOK
  <2>3. asked # "sco" =>
          /\ frames_rq \in Nat /\ frames_rq <= adev_get_input_buffer_size(rate)
          /\ rate <= InRate => frames_rq <= period_size(nonSco)
    BY <2>1, <2>2, Sizes
  <2>4. ASSUME asked # "sco" PROVE Len(client) <= adev_get_input_buffer_size(rate)
    <3>1. adev_get_input_buffer_size(rate) \in Int
      <4>1. /\ rate \in Nat /\ InRate \in Nat \ {0} /\ InPeriod \in Nat /\ Align \in Nat \ {0}
        BY <2>1, SizesAssumption
      <4> DEFINE size == (InPeriod * rate) \div InRate
      <4>2. InPeriod * rate \in Nat  BY <4>1
      <4>3. size \in Nat  BY <4>1, <4>2
      <4>4. adev_get_input_buffer_size(rate) = ((size + Align - 1) \div Align) * Align
        BY DEF adev_get_input_buffer_size
      <4> HIDE DEF size
      <4> QED  BY <4>1, <4>3, <4>4, AlignUp
    <3>2. Len(client) \in Nat  BY <2>2
    <3> QED  BY <2>2, <2>3, <2>4, <3>1, <3>2
  <2>5. ASSUME at \in {"direct", "resample"}
        PROVE  Len(buffer) = period_size(config) * channels(config)
    BY <1>1, <2>5 DEF IndInv, ReadInv, RunInv
  <2>6. ASSUME at = "direct", Overruns, asked # "sco" PROVE rate > InRate /\ ~ resampler
    <3>1. channels(config) = 2 /\ frames_rq * 2 > Len(buffer)  BY <2>6 DEF Overruns
    <3>2. config = nonSco  BY <2>2, <3>1 DEF channels
    <3>3. Len(buffer) = period_size(nonSco) * 2  BY <2>5, <2>6, <3>1, <3>2
    <3>4. period_size(nonSco) \in Nat /\ frames_rq \in Nat  BY <2>1, <2>3, <2>6, <3>2, ConfigType
    <3>5. frames_rq > period_size(nonSco)  BY <3>1, <3>3, <3>4
    <3>6. rate \in Nat /\ InRate \in Nat  BY <2>1, SizesAssumption
    <3>7. rate > InRate  BY <2>3, <2>6, <3>4, <3>5, <3>6
    <3> QED  BY <1>1, <2>6, <3>7 DEF IndInv, ReadInv
  <2>7. ASSUME at = "resample" PROVE period_size(config) * channels(config) <= Len(buffer)
    <3>1. period_size(config) * channels(config) \in Nat  BY <2>1, ConfigType
    <3> QED  BY <2>5, <2>7, <3>1
  <2> QED  BY <2>4, <2>6, <2>7 DEF BufferFits
<1> QED  BY <1>1, SpecInv, PTL

(* Nothing captured is lost, doubled, reordered or left over from before,  *)
(* however reads, failures, standbys and reroutes follow each other.       *)
THEOREM CaptureInOrder == Spec => []InOrder
<1>1. IndInv => InOrder  BY DEF IndInv
<1> QED  BY <1>1, SpecInv, PTL

(* A read_status left over from an earlier capture fails no later read.    *)
THEOREM FailuresFresh == Spec => []FailureIsFresh
<1>1. IndInv => FailureIsFresh  BY DEF IndInv
<1> QED  BY <1>1, SpecInv, PTL

(* A read under a mute that lasts returns silence.                         *)
THEOREM MuteHeard == Spec => []MutedReadSilent
<1>1. IndInv => MutedReadSilent  BY DEF IndInv
<1> QED  BY <1>1, SpecInv, PTL

(* What in_read() returns is about this very read.                         *)
THEOREM ResultsHonest == Spec => []ResultHonest
BY FailuresFresh, MuteHeard, PTL DEF ResultHonest
================================================================================
