------------------------------ MODULE OutPosition ------------------------------
(***************************************************************************)
(* The presentation position of the output stream (audio/audio_hw.c):      *)
(* out_get_presentation_position() derives it from the frames written and  *)
(* from the room the kernel reports, while writes succeed, underrun or     *)
(* fail, and while standby and SCO change the PCM underneath.              *)
(*                                                                         *)
(* Everything here happens under the stream mutex (AudioHal), so a write   *)
(* is one step; how long it waits is OutputPath's subject.  The kernel     *)
(* side of the PCM is external.                                            *)
(***************************************************************************)
EXTENDS Integers, TLAPS

CONSTANTS
    PeriodSize, PeriodCount,    \* pcm_config_out (512 x 8)
    StartThreshold,             \* ... its start_threshold
    ScoFrames,                  \* frames one write becomes on the SCO PCM
    ScoBuffer,                  \* the SCO PCM's buffer (256 x 4)
    MaxWritten                  \* the writer stops there (bound)

ASSUME SizesAssumption ==
  /\ PeriodSize \in Nat /\ PeriodCount \in Nat /\ StartThreshold \in Nat
  /\ ScoFrames \in Nat /\ ScoBuffer \in Nat /\ MaxWritten \in Nat

VARIABLES
    sco,        \* the output is routed to SCO
    standby,
    scoPcm,     \* pcm_config is the SCO one
    written,    \* frames written since the stream was opened
    state, fill,    \* the kernel's PCM and the frames it has queued
    position    \* what the client was told last

vars == <<sco, standby, scoPcm, written, state, fill, position>>

BufferSize(s) == IF s THEN ScoBuffer ELSE PeriodSize * PeriodCount
Frames(s)     == IF s THEN ScoFrames ELSE PeriodSize
StartAt(s)    == IF s THEN ScoBuffer \div 2 ELSE StartThreshold

Init ==
  /\ sco = FALSE /\ standby = TRUE /\ scoPcm = FALSE
  /\ written = 0 /\ position = 0
  /\ state = "closed" /\ fill = 0

\* out_write(): leave standby on the PCM of the route, hand over one buffer.
\* pcm_write() prepares a PCM that underran only in the next call.
Write ==
  /\ standby' = FALSE
  /\ scoPcm' = IF standby THEN sco ELSE scoPcm
  /\ \/ /\ state # "xrun" /\ written < MaxWritten
        /\ fill + Frames(scoPcm') <= BufferSize(scoPcm')
        /\ fill' = fill + Frames(scoPcm')
        /\ state' = IF state = "running" \/ fill' >= StartAt(scoPcm') THEN "running" ELSE "prepared"
        /\ written' = written + Frames(scoPcm')
     \/ /\ state = "xrun" /\ state' = "prepared" /\ fill' = 0
        /\ UNCHANGED written
     \/ /\ state # "xrun"
        /\ state' = IF standby THEN "prepared" ELSE state
        /\ UNCHANGED <<fill, written>>
  /\ UNCHANGED <<sco, position>>

\* start_output_stream() fails: the PCM is chosen but not open.
WriteStartFails ==
  /\ standby /\ scoPcm' = sco
  /\ UNCHANGED <<sco, standby, written, state, fill, position>>

\* The PCM plays; when it runs dry it stops in XRUN.
Play ==
  /\ state = "running" /\ fill > 0
  /\ fill' = fill - 1
  /\ state' = IF fill' = 0 THEN "xrun" ELSE "running"
  /\ UNCHANGED <<sco, standby, scoPcm, written, position>>

\* Mutant: the frame counter starts again after standby.
Standby_ClearsWritten ==
  /\ ~standby /\ standby' = TRUE
  /\ state' = "closed" /\ fill' = 0
  /\ sco' \in BOOLEAN
  /\ written' = 0
  /\ UNCHANGED <<scoPcm, position>>

\* do_out_standby(), also on behalf of a route to or from SCO or of an input
\* stream that starts: the kernel drops what it has queued.
Standby ==
  /\ ~standby /\ standby' = TRUE
  /\ state' = "closed" /\ fill' = 0
  /\ sco' \in BOOLEAN
  /\ UNCHANGED <<scoPcm, written, position>>

\* Mutant: what is still queued counts as presented.
GetPresentationPosition_IgnoresQueue ==
  /\ state = "running" /\ position' = written
  /\ UNCHANGED <<sco, standby, scoPcm, written, state, fill>>

\* pcm_get_htimestamp() answers for a running PCM only.
GetPresentationPosition ==
  /\ state = "running"
  /\ LET kernel_buffer_size == BufferSize(scoPcm)
         avail         == kernel_buffer_size - fill
         signed_frames == written - kernel_buffer_size + avail
     IN  signed_frames >= 0 /\ position' = signed_frames
  /\ UNCHANGED <<sco, standby, scoPcm, written, state, fill>>

Next == Write \/ WriteStartFails \/ Play \/ Standby \/ GetPresentationPosition

Spec == Init /\ [][Next]_vars
-----------------------------------------------------------------------------
\* Clients see the presentation position move forward only, across underruns,
\* standby and the switch to and from SCO ("total frames written, not cleared
\* when entering standby").
PositionMonotone == [][position' >= position]_vars

\* What out_write() counts and what the kernel still holds never contradict
\* each other: the frames not yet played were counted, a position can always
\* be given, and it does not overtake the frames written.
PositionConsistent == fill <= written /\ position <= written - fill
-----------------------------------------------------------------------------
(* Proof, for all buffer sizes.  PositionConsistent says why a position    *)
(* never falls back: the next one is written - fill.                       *)

IndInv ==
  /\ written \in Nat /\ fill \in Nat /\ position \in Nat
  /\ state = "closed" => fill = 0
  /\ PositionConsistent

LEMMA SizesNat == \A s : BufferSize(s) \in Nat /\ Frames(s) \in Nat
BY SizesAssumption DEF BufferSize, Frames

LEMMA SpecIndInv == Spec => []IndInv
<1>1. Init => IndInv
  BY DEF Init, IndInv, PositionConsistent
<1>2. ASSUME IndInv, Next PROVE IndInv'
  <2> USE <1>2 DEF IndInv, PositionConsistent
  <2>1. CASE Write
    BY <2>1, SizesNat DEF Write
  <2>2. CASE WriteStartFails
    BY <2>2 DEF WriteStartFails
  <2>3. CASE Play
    BY <2>3 DEF Play
  <2>4. CASE Standby
    BY <2>4 DEF Standby
  <2>5. CASE GetPresentationPosition
    BY <2>5, SizesNat DEF GetPresentationPosition
  <2> QED
    BY <2>1, <2>2, <2>3, <2>4, <2>5 DEF Next
<1>3. IndInv /\ UNCHANGED vars => IndInv'
  BY DEF IndInv, PositionConsistent, vars
<1> QED
  BY <1>1, <1>2, <1>3, PTL DEF Spec

\* The frame counter of out_write() and the kernel's queue never contradict
\* each other, whatever underruns, failures, standbys and SCO switches occur.
THEOREM PositionSound == Spec => []PositionConsistent
BY SpecIndInv, PTL DEF IndInv

\* The position out_get_presentation_position() reports never moves back.
THEOREM PositionForward == Spec => PositionMonotone
<1>1. IndInv /\ [Next]_vars => [position' >= position]_vars
  <2> SUFFICES ASSUME IndInv, Next PROVE position' >= position
    OBVIOUS
  <2>1. CASE GetPresentationPosition
    BY <2>1, SizesNat DEF GetPresentationPosition, IndInv, PositionConsistent
  <2>2. CASE Write \/ WriteStartFails \/ Play \/ Standby
    BY <2>2 DEF Write, WriteStartFails, Play, Standby, IndInv
  <2> QED
    BY <2>1, <2>2 DEF Next
<1> QED
  BY <1>1, SpecIndInv, PTL DEF Spec, PositionMonotone
=============================================================================
