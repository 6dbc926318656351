------------------------------ MODULE RateArbiter -----------------------------
(***************************************************************************)
(* What the audio HAL promises about its PCMs (audio/audio_hw.c).  The     *)
(* codec serves one group of sampling rates at a time.  A stream that      *)
(* starts claims the group of its PCM; nobody else starts, stops or begins *)
(* a transfer until the claim is settled.  The last start wins: it stops   *)
(* the streams of the other group, but no stream of its own, and it waits  *)
(* for a transfer to end before it takes the PCM away.                     *)
(***************************************************************************)
CONSTANTS
    Stream,     \* the streams
    Groups      \* groups of sampling rates

VARIABLES
    claim,      \* claim[s]: the group stream s is about to start with, or "none"
    playing,    \* playing[s]: the group of its open PCM, or "none"
    moving      \* the streams with a transfer under way

vars == <<claim, playing, moving>>

None == [s \in Stream |-> "none"]

Init == claim = None /\ playing = None /\ moving = {}

\* A stream that does not play asks for group g.
Claim(s, g) ==
  /\ claim = None /\ playing[s] = "none"
  /\ claim' = [claim EXCEPT ![s] = g]
  /\ UNCHANGED <<playing, moving>>

\* Of the others, the claim stops what plays in another group, when its
\* transfer is over.
Evict(s, p) ==
  /\ claim[s] # "none" /\ playing[p] # claim[s] /\ p \notin moving
  /\ playing' = [playing EXCEPT ![p] = "none"]
  /\ UNCHANGED <<claim, moving>>

\* The PCM opens beside those of its group, and the transfer begins.
Start(s) ==
  /\ claim[s] # "none"
  /\ \A p \in Stream : playing[p] \in {"none", claim[s]}
  /\ playing' = [playing EXCEPT ![s] = claim[s]]
  /\ claim' = None
  /\ moving' = moving \cup {s}

\* The PCM does not open; what was stopped for it stays stopped.
Refuse(s) ==
  /\ claim[s] # "none"
  /\ claim' = None
  /\ UNCHANGED <<playing, moving>>

Begin(s) ==
  /\ claim = None /\ playing[s] # "none" /\ s \notin moving
  /\ moving' = moving \cup {s}
  /\ UNCHANGED <<claim, playing>>

End(s) ==
  /\ moving' = moving \ {s}
  /\ UNCHANGED <<claim, playing>>

\* The stream is put in standby, rerouted or closed.
Stop(s) ==
  /\ claim = None /\ s \notin moving
  /\ playing' = [playing EXCEPT ![s] = "none"]
  /\ UNCHANGED <<claim, moving>>

\* The audio server starts again.
Reset == claim' = None /\ playing' = None /\ moving' = {}

Next ==
  \/ \E s \in Stream :
        \/ \E g \in Groups : Claim(s, g)
        \/ \E p \in Stream : Evict(s, p)
        \/ Start(s) \/ Refuse(s) \/ Begin(s) \/ End(s) \/ Stop(s)
  \/ Reset

Spec == Init /\ [][Next]_vars
===============================================================================
