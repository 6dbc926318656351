--------------------------- MODULE AudioHal_proofs ---------------------------
(***************************************************************************)
(* Proofs about AudioHal for any number of threads and any set of routes.  *)
(*                                                                         *)
(* The safety properties are not inductive: that a PCM opens beside a      *)
(* compatible peer depends on nobody having touched the peer since it was  *)
(* looked at, that is, on which mutex each label of a thread implies.      *)
(* LockInv states that; StreamInv and StartInv state what the mutexes      *)
(* protect.                                                                *)
(***************************************************************************)
EXTENDS AudioHal, TLAPS

HoldsDevice == {"x_stream", "x_peer", "x_open", "s_stream", "r_stream", "c_stream"}
HoldsStream == {"x_peer", "x_open", "x_io", "x_fail", "p_read"}

\* Which mutexes a thread holds follows from where it is.
LockInv ==
  /\ \A t \in Threads : adevLock = t <=> pc[t] \in HoldsDevice
  /\ \A t \in Threads, s \in Streams :
        lock[s] = t <=> strm[t] = s /\ pc[t] \in HoldsStream
  /\ \A t \in Threads : pc[t] = "idle" <=> strm[t] = "none"

\* A stream in use is allocated, and one being closed has one user.
UseInv ==
  /\ \A t \in Threads : strm[t] # "none" => open[strm[t]]
  /\ \A t, u \in Threads :
        strm[t] = strm[u] /\ pc[t] \in {"c_stream", "c_free"} => u = t
  /\ \A t \in Threads : pc[t] = "c_free" => standby[strm[t]]

\* A stream is active, or it holds nothing.
StreamInv ==
  /\ \A s \in Streams : active[s] <=> ~standby[s]
  /\ \A s \in Streams : ~active[s] => hw[s] = "none" /\ ~resampler[s] /\ ~buffer[s]
  /\ \A s \in Streams : active[s] => /\ open[s] /\ pcm[s] = "open"
                                     /\ hw[s] = cfg[s] /\ cfg[s] # "none"
                                     /\ cfg[s] = "sco" <=> IsSco(device[s])
  /\ active["in"] => buffer["in"]
  /\ \A s \in Streams : open[s] => nonSco[s] # "none"
  /\ active["out"] /\ active["in"] => (cfg["out"] = "sco" <=> cfg["in"] = "sco")

\* What a thread that starts or runs a stream relies on.
StartInv ==
  \A t \in Threads :
    /\ pc[t] \in {"x_peer", "x_open"} =>
          standby[strm[t]] /\ cfg[strm[t]] = PcmConfig(strm[t])
    /\ pc[t] = "x_open" /\ active[Peer(strm[t])] =>
          (cfg[strm[t]] = "sco" <=> cfg[Peer(strm[t])] = "sco")
    /\ pc[t] = "x_peer" => active[Peer(strm[t])]
    /\ pc[t] = "x_io" => /\ ~standby[strm[t]]
                         /\ arg[t] # {} <=> IsSco(device[strm[t]])
    /\ pc[t] = "r_stream" => arg[t] # {}

MixerInv == mixer = SelectDevices(device, orientation)

IndInv == TypeOK /\ LockInv /\ UseInv /\ StreamInv /\ StartInv /\ MixerInv
-----------------------------------------------------------------------------
\* The test of start_*_stream() is symmetric: it asks whether exactly one of
\* the two configurations is the SCO one.
LEMMA ConflictIsSco ==
  ASSUME NEW c \in Configs, NEW p \in Configs
  PROVE  Conflict(c, p) <=> ~(c = "sco" <=> p = "sco")
<1>1. /\ 8000 % 8000 = 0 /\ 44100 % 8000 # 0
      /\ 8000 % 11025 # 0 /\ 44100 % 11025 = 0
  OBVIOUS
<1>2. \A x \in Configs : Rate(x) = IF x = "sco" THEN 8000 ELSE 44100
  BY DEF Rate, Configs, OUT_SAMPLING_RATE, IN_SAMPLING_RATE, SCO_SAMPLING_RATE
<1> QED
  BY <1>1, <1>2 DEF Conflict

LEMMA InitInv == Init => IndInv
<1> SUFFICES ASSUME Init PROVE IndInv
  OBVIOUS
<1> USE ThreadsAssumption DEF Init, Fresh, Streams
<1>1. TypeOK
  BY DEF TypeOK, InitialDevice, SelectDevices, OutDevices, InDevices, Labels, KnownOrientations
<1>2. LockInv
  BY DEF LockInv, HoldsDevice, HoldsStream
<1>3. UseInv /\ StreamInv /\ StartInv /\ MixerInv
  BY DEF UseInv, StreamInv, StartInv, MixerInv
<1> QED
  BY <1>1, <1>2, <1>3 DEF IndInv

LEMMA RestartInv == Restart => IndInv'
<1> SUFFICES ASSUME Restart PROVE IndInv'
  OBVIOUS
<1> USE ThreadsAssumption DEF Restart, Fresh, Streams
<1>1. TypeOK'
  BY DEF TypeOK, InitialDevice, SelectDevices, OutDevices, InDevices, Labels, KnownOrientations
<1>2. LockInv'
  BY DEF LockInv, HoldsDevice, HoldsStream
<1>3. UseInv' /\ StreamInv' /\ StartInv' /\ MixerInv'
  BY DEF UseInv, StreamInv, StartInv, MixerInv
<1> QED
  BY <1>1, <1>2, <1>3 DEF IndInv

\* An operation gets the device mutex.
LEMMA EnterInv ==
  ASSUME IndInv, NEW t \in Threads, NEW s \in Streams,
         NEW l \in {"x_stream", "s_stream", "r_stream", "c_stream"},
         NEW a \in SUBSET (OutDevices \cup InDevices),
         Enter(t, s, l, a),
         l = "r_stream" => a # {},
         l = "c_stream" => ~InUse(s)
  PROVE  IndInv'
<1> USE ThreadsAssumption
    DEF IndInv, Enter, Goto, devVars, pcmVars, openVars, Streams
<1>1. TypeOK'
  BY DEF TypeOK, Labels
<1>2. LockInv'
  BY DEF TypeOK, LockInv, HoldsDevice, HoldsStream
<1>3. UseInv'
  BY DEF TypeOK, LockInv, UseInv, Closing, InUse
<1>4. StreamInv' /\ MixerInv'
  BY DEF StreamInv, MixerInv
<1>5. StartInv'
  BY DEF TypeOK, StartInv, PcmConfig
<1> QED
  BY <1>1, <1>2, <1>3, <1>4, <1>5

LEMMA LockStreamInv ==
  ASSUME IndInv, NEW t \in Threads, NEW s \in Streams, LockStream(t, s)
  PROVE  IndInv'
<1> USE ThreadsAssumption
    DEF IndInv, LockStream, At, Goto, devVars, pcmVars, openVars, Streams
<1>1. TypeOK'
  BY DEF TypeOK, Labels, PcmConfig, Configs, Sco, OutDevices, InDevices
<1>2. LockInv'
  BY DEF TypeOK, LockInv, HoldsDevice, HoldsStream
<1>3. UseInv'
  BY DEF TypeOK, LockInv, UseInv
<1>4. StreamInv' /\ MixerInv'
  BY DEF TypeOK, StreamInv, MixerInv
<1>5. StartInv'
  BY DEF TypeOK, LockInv, HoldsDevice, HoldsStream, StreamInv, StartInv, PcmConfig, IsSco, Peer
<1> QED
  BY <1>1, <1>2, <1>3, <1>4, <1>5

\* Standby keeps the types of what it changes.
LEMMA DoStandbyType ==
  ASSUME TypeOK, NEW s \in Streams, DoStandby(s)
  PROVE  /\ active' \in [Streams -> BOOLEAN] /\ standby' \in [Streams -> BOOLEAN]
         /\ pcm' \in [Streams -> {"null", "open", "freed"}]
         /\ resampler' \in [Streams -> BOOLEAN] /\ buffer' \in [Streams -> BOOLEAN]
         /\ hw' \in [Streams -> Configs \cup {"none"}]
<1>1. CASE standby[s]
  BY <1>1 DEF DoStandby, TypeOK, pcmVars
<1>2. CASE ~standby[s]
  BY <1>2, ZenonT(30) DEF DoStandby, TypeOK
<1> QED
  BY <1>1, <1>2

\* The peer is in standby or compatible when the PCM is opened.
LEMMA SuspendPeerInv ==
  ASSUME IndInv, NEW t \in Threads, NEW s \in Streams, SuspendPeer(t, s)
  PROVE  IndInv'
<1> USE ThreadsAssumption
    DEF IndInv, SuspendPeer, At, Goto, DoStandby, devVars, pcmVars, openVars, threadVars, Streams
<1>1. TypeOK'
  <2>1. CASE Conflict(cfg[s], cfg[Peer(s)])
    <3> HIDE DEF DoStandby
    <3>1. DoStandby(Peer(s)) /\ Peer(s) \in Streams
      BY <2>1 DEF Peer
    <3> QED
      BY <3>1, DoStandbyType DEF TypeOK, Labels
  <2>2. CASE ~Conflict(cfg[s], cfg[Peer(s)])
    BY <2>2 DEF TypeOK, Labels
  <2> QED
    BY <2>1, <2>2
<1>2. LockInv'
  BY DEF TypeOK, LockInv, HoldsDevice, HoldsStream
<1>3. UseInv'
  BY DEF TypeOK, LockInv, UseInv, Peer
<1>4. StreamInv' /\ MixerInv'
  BY DEF TypeOK, StreamInv, MixerInv, Peer
<1>5. cfg[s] \in Configs /\ (active[Peer(s)] => cfg[Peer(s)] \in Configs)
  BY DEF TypeOK, LockInv, UseInv, StreamInv, StartInv, PcmConfig, Configs, Peer
<1>6. StartInv'
  BY <1>5, ConflictIsSco DEF TypeOK, LockInv, HoldsDevice, HoldsStream, UseInv, StreamInv, StartInv, PcmConfig, Peer
<1> QED
  BY <1>1, <1>2, <1>3, <1>4, <1>5, <1>6

\* A PCM opens beside a peer of its own rate group only.
LEMMA OpenPcmInv ==
  ASSUME IndInv, NEW t \in Threads, NEW s \in Streams, OpenPcm(t, s)
  PROVE  IndInv'
<1> USE ThreadsAssumption
    DEF IndInv, OpenPcm, At, Goto, devVars, pcmVars, openVars, threadVars, Streams
<1>1. TypeOK'
  BY DEF TypeOK, Labels, Sco, OutDevices, InDevices
<1>2. LockInv'
  BY DEF TypeOK, LockInv, HoldsDevice, HoldsStream
<1>3. UseInv'
  BY DEF TypeOK, LockInv, UseInv
<1>4. StreamInv'
  BY DEF TypeOK, LockInv, UseInv, StreamInv, StartInv, PcmConfig, IsSco, Configs, Peer
<1>5. StartInv' /\ MixerInv'
  BY DEF TypeOK, LockInv, HoldsDevice, HoldsStream, StreamInv, StartInv, MixerInv, PcmConfig, IsSco, Peer
<1> QED
  BY <1>1, <1>2, <1>3, <1>4, <1>5

\* A start that fails leaves the stream in standby.
LEMMA OpenPcmFailsInv ==
  ASSUME IndInv, NEW t \in Threads, NEW s \in Streams, OpenPcmFails(t, s)
  PROVE  IndInv'
<1> USE ThreadsAssumption
    DEF IndInv, OpenPcmFails, At, Goto, Return, devVars, pcmVars, openVars, threadVars, Streams
<1>1. TypeOK'
  BY DEF TypeOK, Labels
<1>2. LockInv'
  BY DEF TypeOK, LockInv, HoldsDevice, HoldsStream
<1>3. UseInv'
  BY DEF TypeOK, LockInv, UseInv
<1>4. StreamInv' /\ MixerInv'
  BY DEF TypeOK, LockInv, UseInv, StreamInv, StartInv, MixerInv
<1>5. StartInv'
  BY DEF TypeOK, LockInv, HoldsDevice, HoldsStream, StartInv, PcmConfig
<1> QED
  BY <1>1, <1>2, <1>3, <1>4, <1>5

\* The position is asked for: the stream mutex without the device's.
LEMMA LockForPositionInv ==
  ASSUME IndInv, NEW t \in Threads, LockForPosition(t)
  PROVE  IndInv'
<1> USE ThreadsAssumption
    DEF IndInv, LockForPosition, Goto, devVars, pcmVars, openVars, Streams
<1>1. TypeOK'
  BY DEF TypeOK, Labels
<1>2. LockInv'
  BY DEF TypeOK, LockInv, HoldsDevice, HoldsStream
<1>3. UseInv'
  BY DEF TypeOK, LockInv, UseInv, Closing
<1>4. StreamInv' /\ MixerInv'
  BY DEF StreamInv, MixerInv
<1>5. StartInv'
  BY DEF TypeOK, StartInv, PcmConfig
<1> QED
  BY <1>1, <1>2, <1>3, <1>4, <1>5

\* A transfer, or the reading of the position, ends.
LEMMA UnlockStreamInv ==
  ASSUME IndInv, NEW t \in Threads, NEW s \in Streams,
         NEW l \in {"x_io", "x_fail", "p_read"},
         UnlockStream(t, s, l)
  PROVE  IndInv'
<1> USE ThreadsAssumption
    DEF IndInv, UnlockStream, At, Goto, Return, devVars, pcmVars, openVars, threadVars, Streams
<1>1. TypeOK'
  BY DEF TypeOK, Labels
<1>2. LockInv'
  BY DEF TypeOK, LockInv, HoldsDevice, HoldsStream
<1>3. UseInv'
  BY DEF TypeOK, LockInv, UseInv
<1>4. StreamInv' /\ MixerInv'
  BY DEF StreamInv, MixerInv
<1>5. StartInv'
  BY DEF TypeOK, LockInv, HoldsDevice, HoldsStream, StartInv, PcmConfig
<1> QED
  BY <1>1, <1>2, <1>3, <1>4, <1>5

\* A stream is put in standby.
LEMMA StandByInv ==
  ASSUME IndInv, NEW t \in Threads, NEW s \in Streams, StandBy(t, s)
  PROVE  IndInv'
<1> USE ThreadsAssumption
    DEF IndInv, StandBy, At, Goto, Return, DoStandby, devVars, pcmVars, openVars, threadVars, Streams
<1>1. TypeOK'
  <2> HIDE DEF DoStandby
  <2> QED
    BY DoStandbyType DEF TypeOK, Labels
<1>2. LockInv'
  BY DEF TypeOK, LockInv, HoldsDevice, HoldsStream
<1>3. UseInv'
  BY DEF TypeOK, LockInv, UseInv
<1>4. StreamInv' /\ MixerInv'
  BY DEF TypeOK, StreamInv, MixerInv, IsSco
<1>5. StartInv'
  BY DEF TypeOK, LockInv, HoldsDevice, HoldsStream, StartInv, PcmConfig, Peer
<1> QED
  BY <1>1, <1>2, <1>3, <1>4, <1>5

\* A stream is put in standby and its route changes.
LEMMA StandByAndRerouteInv ==
  ASSUME IndInv, NEW t \in Threads, NEW s \in Streams, StandByAndReroute(t, s)
  PROVE  IndInv'
<1> USE ThreadsAssumption
    DEF IndInv, StandByAndReroute, At, Goto, Return, DoStandby, SetDevice, devVars, pcmVars, openVars, threadVars, Streams
<1>1. TypeOK'
  <2> HIDE DEF DoStandby
  <2> QED
    BY DoStandbyType DEF TypeOK, Labels, SelectDevices
<1>2. LockInv'
  BY DEF TypeOK, LockInv, HoldsDevice, HoldsStream
<1>3. UseInv'
  BY DEF TypeOK, LockInv, UseInv
<1>4. StreamInv' /\ MixerInv'
  BY DEF TypeOK, StreamInv, MixerInv, IsSco
<1>5. StartInv'
  BY DEF TypeOK, LockInv, HoldsDevice, HoldsStream, StartInv, PcmConfig, Peer
<1> QED
  BY <1>1, <1>2, <1>3, <1>4, <1>5

\* A route changes with the same SCO links.
LEMMA RerouteInv ==
  ASSUME IndInv, NEW t \in Threads, NEW s \in Streams, NEW d \in SUBSET (OutDevices \cup InDevices),
         Reroute(t, s, d)
  PROVE  IndInv'
<1> USE ThreadsAssumption
    DEF IndInv, Reroute, SetDevice, devVars, pcmVars, openVars, threadVars, Streams
<1>1. TypeOK'
  BY DEF TypeOK, SelectDevices
<1>2. LockInv' /\ UseInv'
  BY DEF LockInv, UseInv
<1>3. StreamInv' /\ MixerInv'
  BY DEF TypeOK, StreamInv, MixerInv, IsSco
<1>4. StartInv'
  BY DEF TypeOK, LockInv, HoldsDevice, HoldsStream, StartInv, PcmConfig, IsSco
<1> QED
  BY <1>1, <1>2, <1>3, <1>4

\* A stream is allocated in standby.
LEMMA AllocateInv ==
  ASSUME IndInv, NEW t \in Threads, NEW s \in Streams, NEW c \in Configs \cup {"none"}, NEW n \in Configs \ {"sco"}, NEW r \in Nat,
         Allocate(t, s, c, n, r)
  PROVE  IndInv'
<1> USE ThreadsAssumption
    DEF IndInv, Allocate, devVars, pcmVars, openVars, threadVars, Streams
<1>1. TypeOK'
  BY DEF TypeOK
<1>2. LockInv' /\ MixerInv'
  BY DEF LockInv, MixerInv
<1>3. UseInv'
  BY DEF TypeOK, UseInv
<1>4. StreamInv'
  BY DEF TypeOK, StreamInv, Configs
<1>5. StartInv'
  BY DEF TypeOK, LockInv, UseInv, StreamInv, StartInv, PcmConfig, Peer
<1> QED
  BY <1>1, <1>2, <1>3, <1>4, <1>5

\* Close puts the stream in standby.
LEMMA CloseStandByInv ==
  ASSUME IndInv, NEW t \in Threads, NEW s \in Streams, CloseStandBy(t, s)
  PROVE  IndInv'
<1> USE ThreadsAssumption
    DEF IndInv, CloseStandBy, At, Goto, DoStandby, devVars, pcmVars, openVars, threadVars, Streams
<1>1. TypeOK'
  <2> HIDE DEF DoStandby
  <2> QED
    BY DoStandbyType DEF TypeOK, Labels
<1>2. LockInv'
  BY DEF TypeOK, LockInv, HoldsDevice, HoldsStream
<1>3. UseInv'
  BY DEF TypeOK, LockInv, UseInv
<1>4. StreamInv' /\ MixerInv'
  BY DEF TypeOK, StreamInv, MixerInv
<1>5. StartInv'
  BY DEF TypeOK, LockInv, HoldsDevice, HoldsStream, StartInv, PcmConfig, Peer
<1> QED
  BY <1>1, <1>2, <1>3, <1>4, <1>5

\* Close frees a stream nobody can reach.
LEMMA FreeInv ==
  ASSUME IndInv, NEW t \in Threads, NEW s \in Streams, Free(t, s)
  PROVE  IndInv'
<1> USE ThreadsAssumption
    DEF IndInv, Free, At, Goto, Return, devVars, pcmVars, openVars, threadVars, Streams
<1>1. TypeOK'
  BY DEF TypeOK, Labels
<1>2. LockInv'
  BY DEF TypeOK, LockInv, HoldsDevice, HoldsStream
<1>3. UseInv'
  BY DEF TypeOK, LockInv, UseInv
<1>4. StreamInv' /\ MixerInv'
  BY DEF TypeOK, LockInv, UseInv, StreamInv, MixerInv
<1>5. StartInv'
  BY DEF TypeOK, LockInv, HoldsDevice, HoldsStream, UseInv, StreamInv, StartInv, PcmConfig, Peer
<1> QED
  BY <1>1, <1>2, <1>3, <1>4, <1>5

\* The orientation changes.
LEMMA SetOrientationInv ==
  ASSUME IndInv, NEW t \in Threads, adev_set_parameters(t)
  PROVE  IndInv'
<1> USE ThreadsAssumption
    DEF IndInv, adev_set_parameters, devVars, pcmVars, openVars, threadVars, Streams
<1>1. TypeOK'
  BY DEF TypeOK, SelectDevices, Orientation, KnownOrientations
<1>2. LockInv' /\ UseInv' /\ StreamInv' /\ MixerInv'
  BY DEF LockInv, UseInv, StreamInv, MixerInv
<1>3. StartInv'
  BY DEF StartInv, PcmConfig
<1> QED
  BY <1>1, <1>2, <1>3

LEMMA StutterInv == IndInv /\ UNCHANGED vars => IndInv'
BY DEF IndInv, TypeOK, LockInv, UseInv, StreamInv, StartInv, MixerInv, PcmConfig,
       vars, devVars, pcmVars, openVars, threadVars

LEMMA NextInv == IndInv /\ [Next]_vars => IndInv'
<1> SUFFICES ASSUME IndInv, Next PROVE IndInv'
  BY StutterInv
<1> PICK t \in Threads : Step(t)
  BY DEF Next
<1> USE DEF Streams
<1>1. CASE out_write(t)
  BY <1>1, EnterInv, LockStreamInv, SuspendPeerInv, OpenPcmInv, OpenPcmFailsInv,
     UnlockStreamInv, RestartInv DEF out_write, start_output_stream
<1>2. CASE in_read(t)
  BY <1>2, EnterInv, LockStreamInv, SuspendPeerInv, OpenPcmInv, OpenPcmFailsInv,
     UnlockStreamInv DEF in_read, start_input_stream
<1>3. CASE out_standby(t) \/ in_standby(t)
  BY <1>3, EnterInv, StandByInv DEF out_standby, in_standby
<1>4. CASE out_set_parameters(t) \/ in_set_parameters(t)
  <2>1. ASSUME NEW s \in Streams, NEW d \in SUBSET (OutDevices \cup InDevices),
               RerouteSco(t, s, d)
        PROVE  IndInv'
    BY <2>1, EnterInv DEF RerouteSco
  <2>2. OutRoutes \cup InRoutes \subseteq SUBSET (OutDevices \cup InDevices)
    BY RoutesAssumption
  <2> QED
    BY <1>4, <2>1, <2>2, RerouteInv, StandByAndRerouteInv
    DEF out_set_parameters, in_set_parameters
<1>5. CASE adev_open_output_stream(t) \/ adev_open_input_stream(t)
  BY <1>5, AllocateInv, RatesAssumption
  DEF adev_open_output_stream, adev_open_input_stream, Configs, OUT_SAMPLING_RATE
<1>6. CASE adev_close_output_stream(t) \/ adev_close_input_stream(t)
  BY <1>6, EnterInv, CloseStandByInv, FreeInv
  DEF adev_close_output_stream, adev_close_input_stream
<1>7. CASE adev_set_parameters(t)
  BY <1>7, SetOrientationInv
<1>8. CASE out_get_presentation_position(t)
  BY <1>8, LockForPositionInv, UnlockStreamInv, RestartInv DEF out_get_presentation_position
<1>9. CASE adev_close(t)
  BY <1>9, RestartInv DEF adev_close
<1> QED
  BY <1>1, <1>2, <1>3, <1>4, <1>5, <1>6, <1>7, <1>8, <1>9 DEF Step

LEMMA SpecIndInv == Spec => []IndInv
BY InitInv, NextInv, PTL DEF Spec
-----------------------------------------------------------------------------
\* Every variable of the audio HAL model keeps its type.
THEOREM TypeCorrect == Spec => []TypeOK
BY SpecIndInv, PTL DEF IndInv

\* All PCMs the kernel has open belong to one group of sampling rates, for
\* any number of threads starting, stopping and rerouting the two streams.
THEOREM RateGroupSafe == Spec => []OneRateGroup
<1>1. IndInv => OneRateGroup
  <2> SUFFICES ASSUME IndInv PROVE OneRateGroup
    OBVIOUS
  <2>1. \A x \in Configs : Rate(x) = IF x = "sco" THEN 8000 ELSE 44100
    BY DEF Rate, Configs, OUT_SAMPLING_RATE, IN_SAMPLING_RATE, SCO_SAMPLING_RATE
  <2>2. \A s \in Streams : hw[s] # "none" => active[s] /\ hw[s] = cfg[s] /\ hw[s] \in Configs
    BY DEF IndInv, TypeOK, StreamInv
  <2>3. CASE \E s \in Streams : hw[s] = "sco"
    <3>1. \A s \in Streams : hw[s] # "none" => hw[s] = "sco"
      BY <2>2, <2>3 DEF IndInv, StreamInv, Streams, Configs
    <3> QED
      BY <2>1, <2>2, <3>1 DEF OneRateGroup, RateGroups
  <2>4. CASE ~\E s \in Streams : hw[s] = "sco"
    BY <2>1, <2>2, <2>4 DEF OneRateGroup, RateGroups
  <2> QED
    BY <2>3, <2>4
<1> QED
  BY <1>1, SpecIndInv, PTL

\* A running stream is on the PCM of its route, and the sco_on flag of
\* out_write() cannot go stale during the transfer.
THEOREM RouteSafe == Spec => []PcmMatchesRoute
<1>1. IndInv => PcmMatchesRoute
  BY DEF IndInv, TypeOK, StreamInv, StartInv, PcmMatchesRoute, At, Streams
<1> QED
  BY <1>1, SpecIndInv, PTL

\* Nobody takes the PCM or the buffer away from a transfer in progress.
THEOREM TransferSafe == Spec => []TransferHasPcm
<1>1. IndInv => TransferHasPcm
  BY DEF IndInv, TypeOK, LockInv, HoldsStream, StreamInv, StartInv, TransferHasPcm, At, Streams
<1> QED
  BY <1>1, SpecIndInv, PTL

\* No PCM, resampler or buffer is lost.
THEOREM LeakFree == Spec => []NothingLeaks
<1>1. IndInv => NothingLeaks
  BY DEF IndInv, StreamInv, NothingLeaks
<1> QED
  BY <1>1, SpecIndInv, PTL

\* A freed stream structure is out of everybody's reach.
THEOREM FreeSafe == Spec => []NoUseAfterFree
<1>1. IndInv => NoUseAfterFree
  BY DEF IndInv, TypeOK, LockInv, UseInv, StreamInv, StartInv, NoUseAfterFree, At, Peer, Streams
<1> QED
  BY <1>1, SpecIndInv, PTL

\* No PCM, resampler or buffer is lost or given back twice, and no freed stream
\* structure is reached, whatever the threads do to each other's streams.
THEOREM MemorySafety == Spec => []MemorySafe
BY LeakFree, FreeSafe, PTL DEF MemorySafe

\* The mixer always shows the current routes and orientation.
THEOREM MixerSafe == Spec => []MixerInSync
<1>1. IndInv => MixerInSync
  BY DEF IndInv, MixerInv, MixerInSync
<1> QED
  BY <1>1, SpecIndInv, PTL

\* The lock order works: some thread inside the HAL can always go on.
THEOREM DeadlockFree == Spec => []NoDeadlock
<1>1. IndInv => NoDeadlock
  <2> SUFFICES ASSUME IndInv, NEW u \in Threads, pc[u] # "idle"
               PROVE  \E t \in Threads : pc[t] # "idle" /\ ~Blocked(t)
    BY DEF NoDeadlock
  <2>1. CASE \E t \in Threads : pc[t] \in {"x_open", "x_io", "x_fail", "p_read", "c_free"}
    BY <2>1 DEF Blocked
  <2>2. CASE ~\E t \in Threads : pc[t] \in {"x_open", "x_io", "x_fail", "p_read", "c_free"}
    \* Then every thread inside holds adev->lock, so u is the only one.
    <3>1. \A t \in Threads : pc[t] # "idle" => t = u
      BY <2>2 DEF IndInv, TypeOK, Labels, LockInv, HoldsDevice
    <3>2. \A s \in Streams : lock[s] \in {NoThread, u}
      BY <3>1, ThreadsAssumption DEF IndInv, TypeOK, LockInv, HoldsStream
    <3>3. ~Blocked(u)
      BY <3>2, ThreadsAssumption
      DEF IndInv, TypeOK, LockInv, HoldsStream, Blocked, Peer, Streams
    <3> QED
      BY <3>3
  <2> QED
    BY <2>1, <2>2
<1> QED
  BY <1>1, SpecIndInv, PTL
-----------------------------------------------------------------------------
(* AudioHal implements RateArbiter.  The mapping reads a claim off the     *)
(* label of the thread that starts and a transfer off that of the thread   *)
(* that transfers, so each step needs what LockInv says of the others.     *)

ArbiterStep == Arbiter!Next \/ UNCHANGED Arbiter!vars

\* The group of a configuration tells SCO from the rest.
LEMMA GroupIsSco ==
  /\ Group("none") = "none"
  /\ \A c \in Configs : Group(c) = IF c = "sco" THEN "8000" ELSE "11025"
<1>1. 8000 % 8000 = 0 /\ 44100 % 8000 # 0
  OBVIOUS
<1>2. \A x \in Configs : x # "none" /\ Rate(x) = IF x = "sco" THEN 8000 ELSE 44100
  BY DEF Rate, Configs, OUT_SAMPLING_RATE, IN_SAMPLING_RATE, SCO_SAMPLING_RATE
<1> QED
  BY <1>1, <1>2 DEF Group

\* Who owns adev->lock without starting a stream is alone with it.
LEMMA NobodyClaims ==
  ASSUME IndInv, NEW t \in Threads, adevLock \in {t, NoThread},
         pc[t] \notin {"x_peer", "x_open"}
  PROVE  (\A s \in Streams : ~Starting(s)) /\ Claims = Arbiter!None
<1>1. \A s \in Streams : ~Starting(s)
  BY ThreadsAssumption DEF IndInv, LockInv, HoldsDevice, Starting, At
<1> QED
  BY <1>1 DEF Claims, Arbiter!None

\* A thread that starts a stream is the only one that does.
LEMMA OneClaims ==
  ASSUME IndInv, NEW t \in Threads, NEW s \in Streams,
         At(t, s, "x_peer") \/ At(t, s, "x_open")
  PROVE  /\ \A u \in Threads : pc[u] \in {"x_peer", "x_open"} => u = t
         /\ \A p \in Streams : Starting(p) <=> p = s
         /\ Claims = [p \in Streams |-> IF p = s THEN Group(cfg[s]) ELSE "none"]
<1>1. \A u \in Threads : pc[u] \in {"x_peer", "x_open"} => u = t
  BY DEF IndInv, LockInv, HoldsDevice, At
<1>2. \A p \in Streams : Starting(p) <=> p = s
  BY <1>1 DEF Starting, At
<1> QED
  BY <1>1, <1>2 DEF Claims

\* A stream whose mutex is free, or held for a start, transfers nothing.
LEMMA UnlockedIdle ==
  ASSUME IndInv, NEW t \in Threads, NEW s \in Streams,
         lock[s] \in {t, NoThread}, ~At(t, s, "x_io")
  PROVE  s \notin Moving
BY ThreadsAssumption DEF IndInv, LockInv, HoldsStream, Moving, At

\* A step that neither starts, opens nor transfers changes nothing.
LEMMA NoArbiterStep ==
  ASSUME \A s \in Streams : Starting(s)' <=> Starting(s),
         \A s \in Streams : Starting(s) => cfg'[s] = cfg[s],
         hw' = hw, Moving' = Moving
  PROVE  ArbiterStep
<1>1. Claims' = Claims
  BY DEF Claims
<1>2. Playing' = Playing
  BY DEF Playing
<1> QED
  BY <1>1, <1>2 DEF ArbiterStep, Arbiter!vars

\* The thread comes from and goes to a label that means nothing here.
LEMMA PlainLabels ==
  ASSUME TypeOK, NEW t \in Threads, NEW l, NEW st,
         pc[t] \notin {"x_peer", "x_open", "x_io"}, l \notin {"x_peer", "x_open", "x_io"},
         pc' = [pc EXCEPT ![t] = l], strm' = [strm EXCEPT ![t] = st]
  PROVE  (\A s \in Streams : Starting(s)' <=> Starting(s)) /\ Moving' = Moving
<1>1. \A u \in Threads, s \in Streams, x \in {"x_peer", "x_open", "x_io"} :
         At(u, s, x)' <=> At(u, s, x)
  BY DEF TypeOK, At
<1>2. \A s \in Streams : Starting(s)' <=> Starting(s)
  BY <1>1 DEF Starting
<1>3. Moving' = Moving
  BY <1>1 DEF Moving
<1> QED
  BY <1>2, <1>3

\* Standby, for whatever reason, with the device to itself: Stop.
LEMMA StandbyStops ==
  ASSUME IndInv, NEW t \in Threads, NEW s \in Streams, NEW l, NEW st,
         DoStandby(s), lock[s] = NoThread, adevLock = t,
         pc[t] \in {"s_stream", "r_stream", "c_stream"}, l \in {"idle", "c_free"},
         pc' = [pc EXCEPT ![t] = l], strm' = [strm EXCEPT ![t] = st], cfg' = cfg
  PROVE  ArbiterStep
<1>1. (\A u \in Streams : Starting(u)' <=> Starting(u)) /\ Moving' = Moving
  BY PlainLabels DEF IndInv
<1>2. Claims' = Claims
  BY <1>1 DEF Claims
<1>3. Claims = Arbiter!None
  BY NobodyClaims
<1>4. s \notin Moving
  BY UnlockedIdle DEF At
<1>5. CASE standby[s]
  <2>1. hw' = hw
    BY <1>5 DEF DoStandby, pcmVars
  <2> QED
    BY <1>1, <2>1, NoArbiterStep
<1>6. CASE ~standby[s]
  <2>1. Playing' = [Playing EXCEPT ![s] = "none"]
    <3>1. hw' = [hw EXCEPT ![s] = "none"]
      BY <1>6 DEF DoStandby
    <3> QED
      BY <3>1, GroupIsSco DEF Playing, IndInv, TypeOK
  <2>2. Arbiter!Stop(s)
    BY <1>1, <1>2, <1>3, <1>4, <2>1 DEF Arbiter!Stop
  <2> QED
    BY <2>2 DEF ArbiterStep, Arbiter!Next
<1> QED
  BY <1>5, <1>6

\* The audio server starts again.
LEMMA RestartArbiter == ASSUME Restart PROVE ArbiterStep
<1>1. \A s \in Streams : ~Starting(s)'
  BY DEF Restart, Starting, At
<1>2. Claims' = Arbiter!None
  BY <1>1 DEF Claims, Arbiter!None
<1>3. Playing' = Arbiter!None
  BY GroupIsSco DEF Restart, Fresh, Playing, Arbiter!None
<1>4. Moving' = {}
  BY DEF Restart, Moving, At
<1> QED
  BY <1>2, <1>3, <1>4 DEF ArbiterStep, Arbiter!Next, Arbiter!Reset

LEMMA EnterArbiter ==
  ASSUME IndInv, NEW t \in Threads, NEW s \in Streams,
         NEW l \in {"x_stream", "s_stream", "r_stream", "c_stream"}, NEW a,
         Enter(t, s, l, a)
  PROVE  ArbiterStep
<1>1. hw' = hw /\ cfg' = cfg
  BY DEF Enter, pcmVars
<1>2. (\A u \in Streams : Starting(u)' <=> Starting(u)) /\ Moving' = Moving
  BY PlainLabels DEF IndInv, Enter, Goto
<1> QED
  BY <1>1, <1>2, NoArbiterStep

\* The stream's mutex is taken: a transfer begins, or a start claims.
LEMMA LockStreamArbiter ==
  ASSUME IndInv, NEW t \in Threads, NEW s \in Streams, LockStream(t, s)
  PROVE  ArbiterStep
<1>1. /\ pc[t] = "x_stream" /\ strm[t] = s /\ lock[s] = NoThread
      /\ strm' = strm /\ hw' = hw
  BY DEF LockStream, At, pcmVars
<1>2. adevLock = t
  BY <1>1 DEF IndInv, LockInv, HoldsDevice
<1>3. (\A u \in Streams : ~Starting(u)) /\ Claims = Arbiter!None
  BY <1>1, <1>2, NobodyClaims
<1>4. s \notin Moving
  BY <1>1, UnlockedIdle DEF At
<1>5. Playing' = Playing
  BY <1>1 DEF Playing
<1>6. CASE ~standby[s]
  <2>1. pc' = [pc EXCEPT ![t] = "x_io"] /\ cfg' = cfg
    BY <1>6 DEF LockStream, Goto
  <2>2. \A u \in Threads, r \in Streams :
           /\ At(u, r, "x_peer")' <=> At(u, r, "x_peer")
           /\ At(u, r, "x_open")' <=> At(u, r, "x_open")
           /\ At(u, r, "x_io")' <=> At(u, r, "x_io") \/ (u = t /\ r = s)
    BY <1>1, <2>1 DEF At, IndInv, TypeOK
  <2>3. Claims' = Claims
    BY <2>1, <2>2 DEF Claims, Starting
  <2>4. Moving' = Moving \cup {s}
    BY <2>2 DEF Moving
  <2>5. Playing[s] # "none"
    <3>1. hw[s] \in Configs
      BY <1>6 DEF IndInv, TypeOK, StreamInv
    <3> QED
      BY <3>1, GroupIsSco DEF Playing
  <2>6. Arbiter!Begin(s)
    BY <1>3, <1>4, <1>5, <2>3, <2>4, <2>5 DEF Arbiter!Begin
  <2> QED
    BY <2>6 DEF ArbiterStep, Arbiter!Next
<1>7. CASE standby[s]
  <2>1. PICK l \in {"x_peer", "x_open"} : pc' = [pc EXCEPT ![t] = l]
    BY <1>7 DEF LockStream, Goto
  <2>2. cfg' = [cfg EXCEPT ![s] = PcmConfig(s)]
    BY <1>7 DEF LockStream
  <2>3. PcmConfig(s) \in Configs
    BY <1>1 DEF PcmConfig, IndInv, TypeOK, UseInv, StreamInv, Configs, Streams
  <2>4. \A u \in Threads, r \in Streams :
           /\ At(u, r, "x_peer")' \/ At(u, r, "x_open")'
                <=> At(u, r, "x_peer") \/ At(u, r, "x_open") \/ (u = t /\ r = s)
           /\ At(u, r, "x_io")' <=> At(u, r, "x_io")
    BY <1>1, <2>1 DEF At, IndInv, TypeOK
  <2>5. \A r \in Streams : Starting(r)' <=> r = s
    BY <1>3, <2>4 DEF Starting
  <2>6. cfg'[s] = PcmConfig(s)
    BY <2>2 DEF IndInv, TypeOK
  <2>7. Claims' = [Arbiter!None EXCEPT ![s] = Group(PcmConfig(s))]
    BY <2>5, <2>6 DEF Claims, Arbiter!None
  <2>8. Group(PcmConfig(s)) \in {"8000", "11025"}
    BY <2>3, GroupIsSco
  <2>9. Moving' = Moving
    BY <2>4 DEF Moving
  <2>10. Playing[s] = "none"
    BY <1>7, GroupIsSco DEF Playing, IndInv, StreamInv
  <2>11. Arbiter!Claim(s, Group(PcmConfig(s)))
    BY <1>3, <1>5, <2>7, <2>9, <2>10 DEF Arbiter!Claim
  <2> QED
    BY <2>8, <2>11 DEF ArbiterStep, Arbiter!Next
<1> QED
  BY <1>6, <1>7

\* The peer is looked at: it is evicted exactly when the rates clash.
LEMMA SuspendPeerArbiter ==
  ASSUME IndInv, NEW t \in Threads, NEW s \in Streams, SuspendPeer(t, s)
  PROVE  ArbiterStep
<1> DEFINE p == Peer(s)
<1>1. /\ At(t, s, "x_peer") /\ lock[p] = NoThread
      /\ pc' = [pc EXCEPT ![t] = "x_open"] /\ strm' = strm /\ cfg' = cfg
  BY DEF SuspendPeer, Goto
<1>2. p \in Streams
  BY DEF Peer, Streams
<1>3. \A u \in Threads, r \in Streams :
         /\ At(u, r, "x_peer")' \/ At(u, r, "x_open")'
              <=> At(u, r, "x_peer") \/ At(u, r, "x_open")
         /\ At(u, r, "x_io")' <=> At(u, r, "x_io")
  BY <1>1 DEF At, IndInv, TypeOK
<1>4. \A r \in Streams : Starting(r)' <=> Starting(r)
  BY <1>3 DEF Starting
<1>5. Moving' = Moving
  BY <1>3 DEF Moving
<1>6. CASE ~Conflict(cfg[s], cfg[p]) \/ standby[p]
  <2>1. hw' = hw
    BY <1>6 DEF SuspendPeer, DoStandby, pcmVars
  <2> QED
    BY <1>1, <1>4, <1>5, <2>1, NoArbiterStep
<1>7. CASE Conflict(cfg[s], cfg[p]) /\ ~standby[p]
  <2>1. hw' = [hw EXCEPT ![p] = "none"]
    BY <1>7 DEF SuspendPeer, DoStandby
  <2>2. Claims' = Claims
    BY <1>1, <1>4 DEF Claims
  <2>3. Playing' = [Playing EXCEPT ![p] = "none"]
    BY <1>2, <2>1, GroupIsSco DEF Playing, IndInv, TypeOK
  <2>4. hw[p] = cfg[p] /\ cfg[p] \in Configs
    BY <1>2, <1>7 DEF IndInv, TypeOK, StreamInv
  <2>5. cfg[s] \in Configs
    BY <1>1 DEF IndInv, TypeOK, UseInv, StreamInv, StartInv, PcmConfig, At, Configs, Streams
  <2>6. Group(cfg[s]) # Group(cfg[p]) /\ Group(cfg[s]) # "none"
    BY <1>7, <2>4, <2>5, GroupIsSco, ConflictIsSco
  <2>7. Claims[s] = Group(cfg[s])
    BY <1>1, OneClaims
  <2>8. Playing[p] = Group(cfg[p])
    BY <1>2, <2>4 DEF Playing
  <2>9. p \notin Moving
    <3>1. p # s
      BY DEF Peer, Streams
    <3> QED
      BY <1>1, <1>2, <3>1, UnlockedIdle DEF At
  <2>10. Arbiter!Evict(s, p)
    BY <1>5, <2>2, <2>3, <2>6, <2>7, <2>8, <2>9 DEF Arbiter!Evict
  <2> QED
    BY <1>2, <2>10 DEF ArbiterStep, Arbiter!Next
<1> QED
  BY <1>6, <1>7

\* After a start nobody claims.
LEMMA ClaimSettled ==
  ASSUME IndInv, NEW t \in Threads, NEW s \in Streams, NEW l, At(t, s, "x_open"),
         l \in {"idle", "x_io", "x_fail"}, pc' = [pc EXCEPT ![t] = l]
  PROVE  Claims' = Arbiter!None
<1>1. \A u \in Threads : pc'[u] \notin {"x_peer", "x_open"}
  BY OneClaims DEF IndInv, TypeOK
<1>2. \A r \in Streams : ~Starting(r)'
  BY <1>1 DEF Starting, At
<1> QED
  BY <1>2 DEF Claims, Arbiter!None

\* The PCM opens: what was claimed starts.
LEMMA OpenPcmArbiter ==
  ASSUME IndInv, NEW t \in Threads, NEW s \in Streams, OpenPcm(t, s)
  PROVE  ArbiterStep
<1>1. /\ At(t, s, "x_open") /\ pc' = [pc EXCEPT ![t] = "x_io"] /\ strm' = strm
      /\ hw' = [hw EXCEPT ![s] = cfg[s]]
  BY DEF OpenPcm, Goto
<1>2. Claims' = Arbiter!None
  BY <1>1, ClaimSettled
<1>3. cfg[s] \in Configs
  BY <1>1 DEF IndInv, TypeOK, UseInv, StreamInv, StartInv, PcmConfig, At, Configs, Streams
<1>4. Claims[s] = Group(cfg[s]) /\ Group(cfg[s]) # "none"
  BY <1>1, <1>3, OneClaims, GroupIsSco
<1>5. Playing' = [Playing EXCEPT ![s] = Group(cfg[s])]
  BY <1>1 DEF Playing, IndInv, TypeOK
<1>6. \A u \in Threads, r \in Streams :
         At(u, r, "x_io")' <=> At(u, r, "x_io") \/ (u = t /\ r = s)
  BY <1>1 DEF At, IndInv, TypeOK
<1>7. Moving' = Moving \cup {s}
  BY <1>6 DEF Moving
<1>8. ASSUME NEW p \in Streams PROVE Playing[p] \in {"none", Group(cfg[s])}
  <2>1. CASE ~active[p]
    BY <2>1, GroupIsSco DEF Playing, IndInv, StreamInv
  <2>2. CASE active[p]
    <3>1. hw[p] = cfg[p] /\ cfg[p] \in Configs /\ p = Peer(s)
      BY <1>1, <2>2 DEF IndInv, TypeOK, StreamInv, StartInv, At, Peer, Streams
    <3>2. cfg[s] = "sco" <=> cfg[p] = "sco"
      BY <1>1, <2>2, <3>1 DEF IndInv, StartInv, At
    <3> QED
      BY <1>3, <3>1, <3>2, GroupIsSco DEF Playing
  <2> QED
    BY <2>1, <2>2
<1>9. Arbiter!Start(s)
  BY <1>2, <1>4, <1>5, <1>7, <1>8 DEF Arbiter!Start
<1> QED
  BY <1>9 DEF ArbiterStep, Arbiter!Next

\* The PCM does not open: the claim is given up.
LEMMA OpenPcmFailsArbiter ==
  ASSUME IndInv, NEW t \in Threads, NEW s \in Streams, OpenPcmFails(t, s)
  PROVE  ArbiterStep
<1>1. At(t, s, "x_open") /\ hw' = hw
  BY DEF OpenPcmFails
<1>2. PICK l \in {"idle", "x_fail"}, st \in {s, "none"} :
         pc' = [pc EXCEPT ![t] = l] /\ strm' = [strm EXCEPT ![t] = st]
  <2>1. CASE s = "out"
    BY <2>1 DEF OpenPcmFails, Return, Goto
  <2>2. CASE s = "in"
    <3>1. pc' = [pc EXCEPT ![t] = "x_fail"] /\ strm' = [strm EXCEPT ![t] = s]
      BY <1>1, <2>2 DEF OpenPcmFails, Goto, At, IndInv, TypeOK
    <3> QED
      BY <3>1
  <2> QED
    BY <2>1, <2>2 DEF Streams
<1>3. Claims' = Arbiter!None
  BY <1>1, <1>2, ClaimSettled
<1>4. \A u \in Threads, r \in Streams : At(u, r, "x_io")' <=> At(u, r, "x_io")
  BY <1>1, <1>2 DEF At, IndInv, TypeOK
<1>5. Moving' = Moving
  BY <1>4 DEF Moving
<1>6. cfg[s] \in Configs
  BY <1>1 DEF IndInv, TypeOK, UseInv, StreamInv, StartInv, PcmConfig, At, Configs, Streams
<1>7. Claims[s] # "none"
  BY <1>1, <1>6, OneClaims, GroupIsSco
<1>8. Playing' = Playing
  BY <1>1 DEF Playing
<1>9. Arbiter!Refuse(s)
  BY <1>3, <1>5, <1>7, <1>8 DEF Arbiter!Refuse
<1> QED
  BY <1>9 DEF ArbiterStep, Arbiter!Next

\* The position is asked for.
LEMMA LockForPositionArbiter ==
  ASSUME IndInv, NEW t \in Threads, LockForPosition(t)
  PROVE  ArbiterStep
<1>1. hw' = hw /\ cfg' = cfg
  BY DEF LockForPosition, pcmVars
<1>2. (\A u \in Streams : Starting(u)' <=> Starting(u)) /\ Moving' = Moving
  BY PlainLabels DEF IndInv, LockForPosition, Goto
<1> QED
  BY <1>1, <1>2, NoArbiterStep

\* A transfer ends, or a failed read or the position call returns.
LEMMA UnlockStreamArbiter ==
  ASSUME IndInv, NEW t \in Threads, NEW s \in Streams,
         NEW l \in {"x_io", "x_fail", "p_read"}, UnlockStream(t, s, l)
  PROVE  ArbiterStep
<1>1. /\ At(t, s, l) /\ hw' = hw /\ cfg' = cfg
      /\ pc' = [pc EXCEPT ![t] = "idle"] /\ strm' = [strm EXCEPT ![t] = "none"]
  BY DEF UnlockStream, Return, Goto, pcmVars
<1>2. CASE l \in {"x_fail", "p_read"}
  <2>1. (\A u \in Streams : Starting(u)' <=> Starting(u)) /\ Moving' = Moving
    BY <1>1, <1>2, PlainLabels DEF At, IndInv
  <2> QED
    BY <1>1, <2>1, NoArbiterStep
<1>3. CASE l = "x_io"
  <2>1. \A u \in Threads, r \in Streams :
           /\ At(u, r, "x_peer")' <=> At(u, r, "x_peer")
           /\ At(u, r, "x_open")' <=> At(u, r, "x_open")
           /\ At(u, r, "x_io")' <=> At(u, r, "x_io") /\ u # t
    BY <1>1, <1>3 DEF At, IndInv, TypeOK
  <2>2. \A u \in Threads, r \in Streams :
           At(u, r, "x_io") => (u = t <=> r = s)
    BY <1>1, <1>3 DEF At, IndInv, LockInv, HoldsStream
  <2>3. Claims' = Claims
    BY <1>1, <2>1 DEF Claims, Starting
  <2>4. Moving' = Moving \ {s}
    BY <2>1, <2>2 DEF Moving
  <2>5. Playing' = Playing
    BY <1>1 DEF Playing
  <2> QED
    BY <2>3, <2>4, <2>5 DEF ArbiterStep, Arbiter!Next, Arbiter!End
<1> QED
  BY <1>2, <1>3

\* A standby, a change of route over SCO, the first half of a close.
LEMMA StandByArbiter ==
  ASSUME IndInv, NEW t \in Threads, NEW s \in Streams,
         StandBy(t, s) \/ StandByAndReroute(t, s) \/ CloseStandBy(t, s)
  PROVE  ArbiterStep
<1>1. /\ strm[t] = s /\ pc[t] \in {"s_stream", "r_stream", "c_stream"}
      /\ DoStandby(s) /\ lock[s] = NoThread /\ cfg' = cfg
  BY DEF StandBy, StandByAndReroute, CloseStandBy, At
<1>2. adevLock = t
  BY <1>1 DEF IndInv, LockInv, HoldsDevice
<1>3. PICK l \in {"idle", "c_free"}, st \in {s, "none"} :
         pc' = [pc EXCEPT ![t] = l] /\ strm' = [strm EXCEPT ![t] = st]
  <2>1. CASE StandBy(t, s) \/ StandByAndReroute(t, s)
    BY <2>1 DEF StandBy, StandByAndReroute, Return, Goto
  <2>2. CASE CloseStandBy(t, s)
    <3>1. pc' = [pc EXCEPT ![t] = "c_free"] /\ strm' = [strm EXCEPT ![t] = s]
      BY <1>1, <2>2 DEF CloseStandBy, Goto, IndInv, TypeOK
    <3> QED
      BY <3>1
  <2> QED
    BY <2>1, <2>2
<1> QED
  BY <1>1, <1>2, <1>3, StandbyStops

\* A stream is freed: nobody else uses it, so no claim goes with it.
LEMMA FreeArbiter ==
  ASSUME IndInv, NEW t \in Threads, NEW s \in Streams, Free(t, s)
  PROVE  ArbiterStep
<1>1. /\ pc[t] = "c_free" /\ strm[t] = s /\ hw' = hw
      /\ cfg' = [cfg EXCEPT ![s] = "none"]
      /\ pc' = [pc EXCEPT ![t] = "idle"] /\ strm' = [strm EXCEPT ![t] = "none"]
  BY DEF Free, At, Return, Goto
<1>2. (\A u \in Streams : Starting(u)' <=> Starting(u)) /\ Moving' = Moving
  BY <1>1, PlainLabels DEF IndInv
<1>3. ~Starting(s)
  BY <1>1 DEF IndInv, UseInv, Starting, At
<1>4. \A r \in Streams : Starting(r) => cfg'[r] = cfg[r]
  BY <1>1, <1>3 DEF IndInv, TypeOK
<1> QED
  BY <1>1, <1>2, <1>4, NoArbiterStep

\* A stream is allocated: nobody uses it yet.
LEMMA AllocateArbiter ==
  ASSUME IndInv, NEW t \in Threads, NEW s \in Streams, NEW c, NEW n, NEW r,
         Allocate(t, s, c, n, r)
  PROVE  ArbiterStep
<1>1. /\ ~open[s] /\ hw' = hw /\ pc' = pc /\ strm' = strm
      /\ cfg' = [cfg EXCEPT ![s] = c]
  BY DEF Allocate, pcmVars, threadVars
<1>2. ~Starting(s)
  BY <1>1 DEF IndInv, UseInv, Starting, At, Streams
<1>3. (\A u \in Streams : Starting(u)' <=> Starting(u)) /\ Moving' = Moving
  BY <1>1 DEF Starting, Moving, At
<1>4. \A u \in Streams : Starting(u) => cfg'[u] = cfg[u]
  BY <1>1, <1>2 DEF IndInv, TypeOK
<1> QED
  BY <1>1, <1>3, <1>4, NoArbiterStep

\* A change of route without SCO or of orientation, and a stutter.
LEMMA QuietArbiter ==
  ASSUME pc' = pc, strm' = strm, hw' = hw, cfg' = cfg PROVE ArbiterStep
<1>1. (\A s \in Streams : Starting(s)' <=> Starting(s)) /\ Moving' = Moving
  BY DEF Starting, Moving, At
<1> QED
  BY <1>1, NoArbiterStep

LEMMA NextArbiter == IndInv /\ [Next]_vars => ArbiterStep
<1> SUFFICES ASSUME IndInv, [Next]_vars PROVE ArbiterStep
  OBVIOUS
<1>1. CASE UNCHANGED vars
  BY <1>1, QuietArbiter DEF vars, pcmVars, threadVars
<1>2. CASE Next
  <2> PICK t \in Threads : Step(t)
    BY <1>2 DEF Next
  <2>0. "out" \in Streams /\ "in" \in Streams
    BY DEF Streams
  <2>1. CASE out_write(t)
    BY <2>0, <2>1, EnterArbiter, LockStreamArbiter, SuspendPeerArbiter, OpenPcmArbiter,
       OpenPcmFailsArbiter, UnlockStreamArbiter, RestartArbiter
    DEF out_write, start_output_stream
  <2>2. CASE in_read(t)
    BY <2>0, <2>2, EnterArbiter, LockStreamArbiter, SuspendPeerArbiter, OpenPcmArbiter,
       OpenPcmFailsArbiter, UnlockStreamArbiter DEF in_read, start_input_stream
  <2>3. CASE out_standby(t) \/ in_standby(t)
    BY <2>0, <2>3, EnterArbiter, StandByArbiter DEF out_standby, in_standby
  <2>4. CASE out_set_parameters(t) \/ in_set_parameters(t)
    <3>1. ASSUME NEW s \in Streams, NEW d, RerouteSco(t, s, d) PROVE ArbiterStep
      BY <3>1, EnterArbiter DEF RerouteSco
    <3>2. ASSUME NEW s \in Streams, NEW d, Reroute(t, s, d) PROVE ArbiterStep
      BY <3>2, QuietArbiter DEF Reroute, pcmVars, threadVars
    <3> QED
      BY <2>0, <2>4, <3>1, <3>2, StandByArbiter DEF out_set_parameters, in_set_parameters
  <2>5. CASE adev_open_output_stream(t) \/ adev_open_input_stream(t)
    BY <2>0, <2>5, AllocateArbiter DEF adev_open_output_stream, adev_open_input_stream
  <2>6. CASE adev_close_output_stream(t) \/ adev_close_input_stream(t)
    BY <2>0, <2>6, EnterArbiter, StandByArbiter, FreeArbiter
    DEF adev_close_output_stream, adev_close_input_stream
  <2>7. CASE adev_set_parameters(t)
    BY <2>7, QuietArbiter DEF adev_set_parameters, pcmVars, threadVars
  <2>8. CASE out_get_presentation_position(t) \/ adev_close(t)
    BY <2>8, LockForPositionArbiter, UnlockStreamArbiter, RestartArbiter
    DEF out_get_presentation_position, adev_close, Streams
  <2> QED
    BY <2>1, <2>2, <2>3, <2>4, <2>5, <2>6, <2>7, <2>8 DEF Step
<1> QED
  BY <1>1, <1>2

LEMMA InitArbiter == Init => Arbiter!Init
<1> SUFFICES ASSUME Init PROVE Arbiter!Init
  OBVIOUS
<1>1. \A s \in Streams : ~Starting(s)
  BY DEF Init, Starting, At
<1>2. Claims = Arbiter!None
  BY <1>1 DEF Claims, Arbiter!None
<1>3. Playing = Arbiter!None
  BY GroupIsSco DEF Init, Fresh, Playing, Arbiter!None
<1>4. Moving = {}
  BY DEF Init, Moving, At
<1> QED
  BY <1>2, <1>3, <1>4 DEF Arbiter!Init

\* AudioHal implements RateArbiter, for any threads, routes and rates: each
\* step of an operation claims, evicts, starts, refuses, begins, ends or stops
\* as the arbiter allows, or does none of these.
THEOREM Arbitrates == Spec => RateArbitrated
<1>1. IndInv /\ [Next]_vars => [Arbiter!Next]_(Arbiter!vars)
  BY NextArbiter DEF ArbiterStep
<1> QED
  BY <1>1, InitArbiter, SpecIndInv, PTL DEF Spec, RateArbitrated, Arbiter!Spec
=============================================================================
