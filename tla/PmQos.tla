-------------------------------- MODULE PmQos ---------------------------------
(***************************************************************************)
(* What a client of the power HAL's TimeoutPoker is promised               *)
(* (power/timeoutpoker.h, the public interface): a timed constraint, once  *)
(* in force, stays in force for its whole time and then goes; the          *)
(* constraint behind a handle stays until the client has closed the        *)
(* handle.  A request the kernel refuses never comes into force.           *)
(***************************************************************************)
EXTENDS Integers

CONSTANTS
    Id,         \* names of requests
    Node,       \* the kernel's pm_qos device nodes
    Timeout     \* durations of timed requests, in ticks

Held == -1      \* the time left of a constraint whose handle is open

VARIABLES
    requested,  \* requests accepted, not yet answered
    active      \* constraints in force, each with the time it still has

vars == <<requested, active>>

TypeOK ==
  /\ requested \subseteq [id : Id, node : Node, time : Timeout \cup {Held}]
  /\ active \subseteq [id : Id, node : Node, left : Nat \cup {Held}]

Named(i) == \/ \E r \in requested : r.id = i
            \/ \E a \in active : a.id = i

Init == requested = {} /\ active = {}

(* A client asks for a constraint: timed, or until it closes its handle.   *)
Request(i, n, t) ==
  /\ ~ Named(i)
  /\ requested' = requested \cup {[id |-> i, node |-> n, time |-> t]}
  /\ UNCHANGED active

(* The constraint comes into force, or the kernel refuses it.              *)
Grant(r) ==
  /\ requested' = requested \ {r}
  /\ active' = active \cup {[id |-> r.id, node |-> r.node, left |-> r.time]}

Deny(r) ==
  /\ requested' = requested \ {r}
  /\ UNCHANGED active

(* Time passes for every timed constraint.                                 *)
Elapsed(a) == IF a.left > 0 THEN [a EXCEPT !.left = @ - 1] ELSE a

Tick ==
  /\ active' = {Elapsed(a) : a \in active}
  /\ UNCHANGED requested

(* The client closes its handle: the constraint is no longer wanted.       *)
Drop(a) ==
  /\ a.left = Held
  /\ active' = (active \ {a}) \cup {[a EXCEPT !.left = 0]}
  /\ UNCHANGED requested

(* A constraint goes when its time is over, or its handle closed.          *)
Release(a) ==
  /\ a.left = 0
  /\ active' = active \ {a}
  /\ UNCHANGED requested

Next ==
  \/ \E i \in Id, n \in Node, t \in Timeout \cup {Held} : Request(i, n, t)
  \/ \E r \in requested : Grant(r) \/ Deny(r)
  \/ \E a \in active : Drop(a) \/ Release(a)
  \/ Tick

Spec == Init /\ [][Next]_vars
===============================================================================
