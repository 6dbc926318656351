------------------------------- MODULE KeyLife --------------------------------
(***************************************************************************)
(* What a client of the keymaster HAL is promised about its keys           *)
(* (keymaster/keymaster_grouper.cpp).  A key is made, given to the client, *)
(* condemned when somebody asks for its deletion, and deleted; no stage    *)
(* comes back.  Its objects appear only while it is made, the public one   *)
(* no later than the private one, and go only when it is condemned, the    *)
(* private one first.  What the client is given is whole; what is reported *)
(* as deleted has nothing left.  A key may stay in any stage for ever: a   *)
(* call was refused, or the process died.                                  *)
(***************************************************************************)
CONSTANT Id     \* names of keys

VARIABLES
    token,      \* objects on the token, <<id, class>>
    stage       \* how far each key has come

vars == <<token, stage>>

Init == token = {} /\ stage = [i \in Id |-> "unborn"]

Move(i, from, to) ==
  /\ stage[i] = from
  /\ stage' = [stage EXCEPT ![i] = to]
  /\ UNCHANGED token

Whole(i)  == {<<i, "public">>, <<i, "private">>}

Begin(i)  == Move(i, "unborn", "making")
Give(i)   == Whole(i) \subseteq token /\ Move(i, "making", "given")
Ask(i)    == Move(i, "given", "condemned")
Report(i) == Whole(i) \cap token = {} /\ Move(i, "condemned", "deleted")

Create(i) ==
  /\ stage[i] = "making"
  /\ token' = token \cup {<<i, "public">>} \/ token' = token \cup Whole(i)
  /\ UNCHANGED stage

Destroy(i) ==
  /\ stage[i] = "condemned"
  /\ \/ token' = token \ {<<i, "private">>}
     \/ <<i, "private">> \notin token /\ token' = token \ {<<i, "public">>}
  /\ UNCHANGED stage

Next ==
  \E i \in Id : Begin(i) \/ Create(i) \/ Give(i) \/ Ask(i) \/ Destroy(i) \/ Report(i)

Spec == Init /\ [][Next]_vars
===============================================================================
