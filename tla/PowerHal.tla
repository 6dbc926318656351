------------------------------- MODULE PowerHal -------------------------------
(***************************************************************************)
(* The power HAL's hints (power/nvpowerhal.cpp, tegra3_power.cpp): a hint  *)
(* is taken at most once per interval, and has the TimeoutPoker hold a     *)
(* floor under the CPU frequency and one under the number of online CPUs.  *)
(*                                                                         *)
(* The framework calls on any thread, and powerhal_info has no lock.  Time *)
(* is read into a 32-bit long of microseconds and compared as a uint64_t;  *)
(* the CPU writes a uint64_t in two halves.  TimeoutPoker has a module of  *)
(* its own: here a boost lasts its time, as PmQos promises.  The two       *)
(* floors of a boost are pushed together and count as one.  Set-up, sysfs  *)
(* writes and the frequencies themselves are in PowerSetup.                *)
(***************************************************************************)
EXTENDS Integers, FiniteSets

CONSTANTS
    Thread,     \* threads that call the HAL
    Hint,       \* the hints they send
    Short,      \* 100 ms in ticks: interval and boost of VSYNC, INTERACTION
    Launch,     \* 2 s: interval and boost of LAUNCH
    Wake,       \* 5 s: boost when the screen goes on
    Boot,       \* 60 s: boost when the HAL starts
    Word,       \* number of values of a 32-bit long
    Wide,       \* number of values of a uint64_t
    MaxWakes,   \* the screen goes on only while fewer of its boosts last (bound)
    MaxLag      \* a call takes at most this many ticks (bound)

ASSUME ThreadAssumption == IsFiniteSet(Thread)
ASSUME WordAssumption ==
  /\ Word \in Nat /\ Wide \in Nat /\ Wide > Word /\ Wide % Word = 0
  /\ {Short, Launch} \subseteq 1 .. Word \div 4
ASSUME TimeAssumption  == {Short, Launch, Wake} \subseteq 1 .. Boot /\ Boot \in Nat
ASSUME HintAssumption  == Hint \subseteq {"VSYNC", "INTERACTION", "LAUNCH", "LOW_POWER"}
ASSUME BoundAssumption == MaxWakes \in Nat /\ MaxLag \in 0 .. Word \div 4

Call == Hint \cup {"init", "wake"}
Left == 1 .. Boot       \* the time a boost still has

VARIABLES
    now,        \* the microseconds of CLOCK_MONOTONIC, as 32 bits
    pInfo,      \* "null" until tegra3_power_init
    hint_time,  \* when each hint was last taken, in two halves
    at,         \* where each thread is
    doing,      \* the call it is in
    t,          \* the time it read
    age,        \* ticks since its call began (bounds the call)
    boosts,     \* boosts in force: the caller, its call and the time left
    heard,      \* what became of this tick's hints (history)
    deaf        \* ticks in a row that a hint was sent and none taken (history)

vars == <<now, pInfo, hint_time, at, doing, t, age, boosts, heard, deaf>>

hint_interval(h) ==
  IF h \in {"VSYNC", "INTERACTION"} THEN Short ELSE IF h = "LAUNCH" THEN Launch ELSE 0

Duration(call) ==
  IF call = "init" THEN Boot ELSE IF call = "wake" THEN Wake
  ELSE IF call = "LAUNCH" THEN Launch ELSE Short

(* ts.tv_sec * 1000000 + ts.tv_nsec / 1000, then widened to uint64_t.      *)
Signed(n) == IF n < Word \div 2 THEN n ELSE n - Word
Clock     == Signed(now) % Wide
High(v)   == v \div Word
Low(v)    == v % Word

TypeOK ==
  /\ now \in 0 .. Word - 1
  /\ pInfo \in {"null", "set"}
  /\ hint_time \in [Hint -> [hi : 0 .. (Wide \div Word) - 1, lo : 0 .. Word - 1]]
  /\ at \in [Thread -> {"idle", "rest", "check", "boost", "store", "storeHi", "storeLo"}]
  /\ doing \in [Thread -> Call]
  /\ t \in [Thread -> 0 .. Wide - 1]
  /\ age \in [Thread -> 0 .. MaxLag]
  /\ boosts \subseteq [by : Thread, call : Call, left : Left]
  /\ heard \in [Hint -> {"nothing", "dropped", "taken"}]
  /\ deaf \in [Hint -> Nat]

Init ==
  /\ now = 0
  /\ pInfo = "null"
  /\ hint_time = [h \in Hint |-> [hi |-> 0, lo |-> 0]]
  /\ at = [u \in Thread |-> "idle"]
  /\ doing = [u \in Thread |-> "init"]
  /\ t = [u \in Thread |-> 0]
  /\ age = [u \in Thread |-> 0]
  /\ boosts = {}
  /\ heard = [h \in Hint |-> "nothing"]
  /\ deaf = [h \in Hint |-> 0]

-------------------------------------------------------------------------------
Go(u, place) == at' = [at EXCEPT ![u] = place]
Stay         == UNCHANGED <<doing, t, age>>

(* A call takes longer than the clock's resolution: the thread makes its   *)
(* next one in a later tick.                                               *)
Return(u) ==
  /\ Go(u, "rest")
  /\ doing' = [doing EXCEPT ![u] = "init"]
  /\ t' = [t EXCEPT ![u] = 0]
  /\ age' = [age EXCEPT ![u] = 0]

Enter(u, call, place) ==
  /\ at[u] = "idle"
  /\ Go(u, place)
  /\ doing' = [doing EXCEPT ![u] = call]
  /\ UNCHANGED age

(* The first call of the framework, before any other.                      *)
common_power_init(u) ==
  /\ pInfo = "null"
  /\ Enter(u, "init", "boost")
  /\ pInfo' = "set"
  /\ UNCHANGED <<now, hint_time, t, boosts, heard, deaf>>

(* The screen goes on.                                                     *)
common_power_set_interactive(u) ==
  /\ pInfo = "set"
  /\ Cardinality({b \in boosts : b.call = "wake" /\ b.left = Wake}) < MaxWakes
  /\ Enter(u, "wake", "boost")
  /\ UNCHANGED <<now, pInfo, hint_time, t, boosts, heard, deaf>>

(* check_hint reads the clock, then hint_time.                             *)
common_power_hint(u, h) ==
  /\ pInfo = "set"
  /\ Enter(u, h, "check")
  /\ t' = [t EXCEPT ![u] = Clock]
  /\ UNCHANGED <<now, pInfo, hint_time, boosts, heard, deaf>>

Stored(h) == hint_time[h].hi * Word + hint_time[h].lo

(* Mutant: compared by adding, so that a wrapped clock is always too soon. *)
TooSoon_Sum(h, time) ==
  /\ Stored(h) # 0 /\ hint_interval(h) # 0
  /\ time < Stored(h) + hint_interval(h)

TooSoon(h, time) ==
  /\ Stored(h) # 0 /\ hint_interval(h) # 0
  /\ (time - Stored(h)) % Wide < hint_interval(h)

Drop(u) ==
  /\ at[u] = "check"
  /\ TooSoon(doing[u], t[u])
  /\ Return(u)
  /\ heard' = [heard EXCEPT ![doing[u]] = IF @ = "taken" THEN @ ELSE "dropped"]
  /\ UNCHANGED <<now, pInfo, hint_time, boosts, deaf>>

(* VSYNC boosts only when its data says so; other hints do nothing.        *)
Take(u) ==
  /\ at[u] = "check"
  /\ ~ TooSoon(doing[u], t[u])
  /\ \/ doing[u] \in {"VSYNC", "INTERACTION", "LAUNCH"} /\ Go(u, "boost")
     \/ doing[u] \in {"VSYNC", "LOW_POWER"} /\ Go(u, "store")
  /\ heard' = [heard EXCEPT ![doing[u]] = "taken"]
  /\ UNCHANGED <<now, pInfo, hint_time, doing, t, age, boosts, deaf>>

(* A thread makes one call in a tick, so no two of its boosts are equal.   *)
Boost(u) == [by |-> u, call |-> doing[u], left |-> Duration(doing[u])]

(* Mutant: the time of the hint is not kept. *)
requestPmQosTimed_NoStore(u) ==
  /\ at[u] = "boost"
  /\ boosts' = boosts \cup {Boost(u)}
  /\ Return(u)
  /\ UNCHANGED <<now, pInfo, hint_time, heard, deaf>>

(* The two requests of a boost; a hint then stores its time.               *)
requestPmQosTimed(u) ==
  /\ at[u] = "boost"
  /\ boosts' = boosts \cup {Boost(u)}
  /\ IF doing[u] \in Hint THEN Go(u, "store") /\ Stay ELSE Return(u)
  /\ UNCHANGED <<now, pInfo, hint_time, heard, deaf>>

(* hint_time[hint] = t, half by half.                                      *)
StoreHigh(u) ==
  /\ at[u] \in {"store", "storeHi"}
  /\ hint_time' = [hint_time EXCEPT ![doing[u]].hi = High(t[u])]
  /\ IF at[u] = "storeHi" THEN Return(u) ELSE Go(u, "storeLo") /\ Stay
  /\ UNCHANGED <<now, pInfo, boosts, heard, deaf>>

StoreLow(u) ==
  /\ at[u] \in {"store", "storeLo"}
  /\ hint_time' = [hint_time EXCEPT ![doing[u]].lo = Low(t[u])]
  /\ IF at[u] = "storeLo" THEN Return(u) ELSE Go(u, "storeHi") /\ Stay
  /\ UNCHANGED <<now, pInfo, boosts, heard, deaf>>

-------------------------------------------------------------------------------
Calling(u) == at[u] \notin {"idle", "rest"}

(* Time passes: boosts run out.                                            *)
Elapsed == {[b EXCEPT !.left = @ - 1] : b \in {x \in boosts : x.left > 1}}

Tick ==
  /\ \A u \in Thread : Calling(u) => age[u] < MaxLag
  /\ now' = (now + 1) % Word
  /\ age' = [u \in Thread |-> IF Calling(u) THEN age[u] + 1 ELSE 0]
  /\ at' = [u \in Thread |-> IF Calling(u) THEN at[u] ELSE "idle"]
  /\ boosts' = Elapsed
  /\ deaf' = [h \in Hint |-> IF heard[h] = "dropped" THEN deaf[h] + 1 ELSE 0]
  /\ heard' = [h \in Hint |-> "nothing"]
  /\ UNCHANGED <<pInfo, hint_time, doing, t>>

ThreadStep(u) ==
  \/ common_power_init(u) \/ common_power_set_interactive(u)
  \/ \E h \in Hint : common_power_hint(u, h)
  \/ Drop(u) \/ Take(u) \/ requestPmQosTimed(u)
  \/ StoreHigh(u) \/ StoreLow(u)

Next == Tick \/ \E u \in Thread : ThreadStep(u)

Spec == Init /\ [][Next]_vars

-------------------------------------------------------------------------------
Outstanding(h) == Cardinality({b \in boosts : b.call = h})

(* The rate limit of check_hint bounds the descriptors a hint can hold:    *)
(* threads that race past it, a clock that wraps and a torn hint_time let  *)
(* at most two boosts per thread pile up, and one more for every tick that *)
(* a call may take.                                                        *)
BoostsBounded == \A h \in Hint : Outstanding(h) <= (2 + MaxLag) * Cardinality(Thread)

(* The rate limit never turns deaf: whatever the 32-bit time was when the  *)
(* last hint was taken, a hint that keeps coming is taken again within one *)
(* interval and the time that a call may take.                             *)
NeverDeaf == \A h \in Hint : deaf[h] <= hint_interval(h) + MaxLag

(* What common_power_open says of its intervals: they keep the boost up    *)
(* constantly while hints keep coming, so that the tick after a dropped    *)
(* hint still has the boost it was dropped for.                            *)
BoostMaintained == \A h \in Hint : deaf[h] > 0 => Outstanding(h) > 0
===============================================================================
