--------------------------- MODULE PowerHal_proofs ---------------------------
(***************************************************************************)
(* Proofs about PowerHal for every number of threads, every set of hints,  *)
(* every length of a call and both word sizes.                             *)
(*                                                                         *)
(* NeverDeaf is about one counter, but it holds because of the low half of *)
(* the stored time alone: however the two halves were torn, the difference *)
(* that check_hint compares agrees with the true age of the low half up to *)
(* a multiple of Word.  LimitInv relates the age of that half to the       *)
(* counter; StoreInv says that a half about to be written is never older   *)
(* than the hints that were dropped meanwhile allow.                       *)
(*                                                                         *)
(* BoostsBounded counts, but it holds because of how the boosts of ONE     *)
(* thread are spaced (SpacedInv): the next comes almost an interval later, *)
(* or on the other side of a change of the clock's sign, which happens     *)
(* only twice in Word ticks.  A thread is kept to that spacing by what all *)
(* threads store: from its boost on, every half that anyone writes is as   *)
(* recent as the boost and has the present sign (HeldInv), so its next     *)
(* call within the interval is dropped, torn or not (PushInv).             *)
(***************************************************************************)
EXTENDS PowerHal, FiniteSetTheorems, TLAPS

\* The time from one reading of the clock of Word values to the next.
Ago(n, from) == IF n >= from THEN n - from ELSE n - from + Word

\* The age of the low half of the time stored for a hint.
Since(h) == Ago(now, hint_time[h].lo)

\* A thread that is in no call has no call that ages; only a hint checks or
\* stores a time, and that time is the low half of the one at its beginning.
CallInv ==
  \A u \in Thread :
    /\ ~ Calling(u) => age[u] = 0
    /\ at[u] \in {"check", "store", "storeHi", "storeLo"} => doing[u] \in Hint
    /\ Calling(u) /\ doing[u] \in Hint => Ago(now, Low(t[u])) = age[u]

\* A thread that will store the time of its hint took it in this tick or
\* before the hints that were dropped in a row.
StoreInv ==
  \A u \in Thread :
    at[u] \in {"boost", "store", "storeHi", "storeLo"} /\ doing[u] \in Hint =>
      heard[doing[u]] = "taken" \/ age[u] >= deaf[doing[u]] + 1

\* While hints are dropped, the stored half is at least as old as their run,
\* and young enough for the comparison to have meant it.
LimitInv ==
  \A h \in Hint :
    /\ heard[h] # "taken" /\ deaf[h] >= 1 =>
          deaf[h] <= Since(h) /\ Since(h) <= hint_interval(h) + MaxLag
    /\ heard[h] = "dropped" =>
          /\ hint_interval(h) >= 1
          /\ deaf[h] <= Since(h) /\ Since(h) <= hint_interval(h) + MaxLag - 1

HintInv == TypeOK /\ CallInv /\ StoreInv /\ LimitInv /\ NeverDeaf

\* The clock is read as a signed time of 32 bits.  What has been read since
\* its sign last changed can be compared, however the halves are torn; a
\* reading of 0 counts as the last of the negative ones, because a stored 0
\* means that no hint was taken.
Half == Word \div 2
Turn == IF now = 0 THEN Word - Half ELSE IF now < Half THEN now - 1 ELSE now - Half

\* The time that is read when the clock of Word values stands at n, and the
\* high half that the times read since the sign changed have.
ClockAt(n) == IF n < Half THEN n ELSE n - Word + Wide
SignHalf   == IF now \in 1 .. Half - 1 THEN 0 ELSE (Wide \div Word) - 1

\* The hints that boost, and the boosts of a thread.
Boosting      == Hint \cap {"VSYNC", "INTERACTION", "LAUNCH"}
Has(u, h, l)  == [by |-> u, call |-> h, left |-> l] \in boosts
Busy(u, h)    == doing[u] = h /\ at[u] \in {"boost", "store", "storeHi", "storeLo"}

\* A boost that the rate limit still answers for: its call had the time of its
\* hint read after the sign changed, and less than an interval ago.
Reach(h, l)      == hint_interval(h) - l + MaxLag
Binding(u, h, l) == Has(u, h, l) /\ l > MaxLag /\ Turn >= Reach(h, l)

\* The time a thread carries is one the clock has shown.
ReadInv ==
  \A u \in Thread : Calling(u) /\ doing[u] \in Hint => t[u] = ClockAt(Low(t[u]))

\* A boost never has more time left than it was given; a thread that is about
\* to make one has made none in this tick.
FreshInv ==
  /\ \A b \in boosts : /\ b.left <= Duration(b.call)
                       /\ b.call \in Hint => b.call \in Boosting
  /\ \A u \in Thread :
       /\ at[u] = "boost" /\ doing[u] \in Hint => doing[u] \in Boosting
       /\ at[u] \in {"idle", "check", "boost"} =>
            \A b \in boosts : b.by = u => b.left < Duration(b.call)

\* Two boosts of a thread for one hint are an interval apart, less the time a
\* call may take, or the sign of the clock changed between them.
SpacedInv ==
  \A u \in Thread, h \in Boosting : \A l, m \in Left :
    Has(u, h, l) /\ Has(u, h, m) /\ l < m =>
      \/ m - l >= hint_interval(h) - MaxLag
      \/ hint_interval(h) - m <= Turn /\ Turn < Reach(h, l)

\* While a boost binds its thread, the time stored for the hint is as recent
\* as the boost and of the clock's present sign, and so is every time that
\* another thread is about to store.
HeldOut(u, h, l) ==
  ~ Busy(u, h) /\ (now # 0 \/ at[u] # "rest") =>
    hint_time[h].hi = SignHalf /\ Since(h) <= Reach(h, l)
HeldHigh(u, h, l) ==
  Busy(u, h) /\ at[u] = "storeHi" => Since(h) <= Reach(h, l)
HeldLow(u, h, l) ==
  Busy(u, h) /\ at[u] = "storeLo" /\ now # 0 => hint_time[h].hi = SignHalf
HeldCheck(u, h, l) ==
  at[u] = "check" /\ doing[u] = h =>
    Since(h) >= age[u] /\ \A v \in Thread : Busy(v, h) => age[v] >= age[u]
HeldZero(u, h, l) ==
  now = 0 /\ ~ Busy(u, h) /\ at[u] # "rest" =>
    Since(h) >= 1 /\ \A v \in Thread : Busy(v, h) => age[v] >= 1
Held(u, h, l) ==
  /\ HeldOut(u, h, l) /\ HeldHigh(u, h, l) /\ HeldLow(u, h, l)
  /\ HeldCheck(u, h, l) /\ HeldZero(u, h, l)

HeldInv ==
  \A u \in Thread, h \in Boosting, l \in Left : Binding(u, h, l) => Held(u, h, l)

\* So a thread that a boost binds is not about to make the next one.
PushInv ==
  \A u \in Thread, h \in Boosting, l \in Left :
    at[u] = "boost" /\ doing[u] = h => ~ Binding(u, h, l)

BoostInv == ReadInv /\ FreshInv /\ SpacedInv /\ HeldInv /\ PushInv
-----------------------------------------------------------------------------
(* Arithmetic of the two word sizes.                                       *)

LEMMA WordFacts ==
  /\ Word \in Nat /\ Word >= 4 /\ Word > 0 /\ Wide \in Nat /\ Wide > Word
  /\ Word \div 4 \in Nat /\ 4 * (Word \div 4) <= Word
  /\ Word \div 2 \in Nat /\ MaxLag \in Nat /\ MaxLag <= Word \div 4
BY WordAssumption, BoundAssumption

LEMMA Intervals ==
  ASSUME NEW h \in Hint
  PROVE  hint_interval(h) \in Nat /\ hint_interval(h) <= Word \div 4
         /\ hint_interval(h) + MaxLag < Word
BY WordFacts, WordAssumption DEF hint_interval

\* A multiple of a word that is smaller than a word.
LEMMA NoMultiple ==
  ASSUME NEW w \in Nat, w > 0, NEW n \in Int, - w < n * w, n * w < w
  PROVE  n = 0
<1>1. CASE n >= 1
  <2>1. n * w >= w
    BY <1>1
  <2> QED
    BY <2>1
<1>2. CASE n <= -1
  <2>1. n * w <= - w
    BY <1>2
  <2> QED
    BY <2>1
<1> QED
  BY <1>1, <1>2

LEMMA DivMod ==
  ASSUME NEW x \in Int, NEW w \in Nat, w > 0
  PROVE  /\ x \div w \in Int /\ x % w \in 0 .. w - 1
         /\ x = (x \div w) * w + (x % w)
OBVIOUS

LEMMA ModUnique ==
  ASSUME NEW w \in Nat, w > 0, NEW q \in Int, NEW r \in 0 .. w - 1
  PROVE  (q * w + r) % w = r
<1> DEFINE x == q * w + r
<1>1. x \in Int
  OBVIOUS
<1> DEFINE p == x \div w
           s == x % w
<1>2. p \in Int /\ s \in 0 .. w - 1 /\ x = p * w + s
  BY <1>1, DivMod
<1>3. (p - q) * w = r - s
  BY <1>2
<1> HIDE DEF p, s
<1>4. p - q \in Int /\ - w < (p - q) * w /\ (p - q) * w < w
  BY <1>2, <1>3
<1>5. p - q = 0
  BY <1>4, NoMultiple
<1>6. r = s
  BY <1>2, <1>3, <1>5
<1> QED
  BY <1>6 DEF s

LEMMA WideWords == \E k \in Nat : k >= 1 /\ Wide = k * Word /\ Wide \div Word = k
<1>1. /\ Wide \div Word \in Int /\ Wide % Word = 0
      /\ Wide = (Wide \div Word) * Word + (Wide % Word)
  BY WordFacts, WordAssumption, DivMod
<1>2. Wide = (Wide \div Word) * Word
  BY <1>1, WordFacts
<1>3. ~ (Wide \div Word <= 0)
  <2>1. SUFFICES ASSUME Wide \div Word <= 0 PROVE FALSE
    OBVIOUS
  <2>2. (Wide \div Word) * Word <= 0
    BY <1>1, <2>1, WordFacts
  <2> QED
    BY <1>2, <2>2, WordFacts
<1> QED
  BY <1>1, <1>2, <1>3

\* The time a thread reads is a uint64_t whose low half is the clock.
LEMMA ClockLow ==
  ASSUME now \in 0 .. Word - 1
  PROVE  Clock \in 0 .. Wide - 1 /\ Low(Clock) = now
<1>1. PICK k \in Nat : k >= 1 /\ Wide = k * Word
  BY WideWords
<1>2. Signed(now) \in Int /\ (Signed(now) = now \/ Signed(now) = now - Word)
  BY WordFacts DEF Signed
<1>3. Clock \in 0 .. Wide - 1
  BY <1>2, WordFacts, DivMod DEF Clock
<1>4. CASE Signed(now) = now
  <2>1. now = 0 * Wide + now /\ now = 0 * Word + now /\ now \in 0 .. Wide - 1
    BY WordFacts
  <2>2. Clock = now
    BY <1>4, <2>1, ModUnique, WordFacts DEF Clock
  <2>3. now % Word = now
    BY <2>1, ModUnique, WordFacts
  <2> QED
    BY <1>3, <2>2, <2>3 DEF Low
<1>5. CASE Signed(now) = now - Word
  <2>1. now - Word + Wide \in 0 .. Wide - 1
    BY WordFacts
  <2>2. now - Word = (-1) * Wide + (now - Word + Wide)
    BY WordFacts
  <2>3. Clock = now - Word + Wide
    BY <1>5, <2>1, <2>2, ModUnique, WordFacts DEF Clock
  <2>4. now - Word + Wide = (k - 1) * Word + now /\ k - 1 \in Int
    BY <1>1, WordFacts
  <2> DEFINE j == k - 1
             z == now - Word + Wide
  <2> HIDE DEF j, z
  <2>a. z = j * Word + now /\ j \in Int
    BY <2>4 DEF j, z
  <2>b. (j * Word + now) % Word = now
    BY <2>a, ModUnique, WordFacts, Zenon
  <2>5. (now - Word + Wide) % Word = now
    BY <2>a, <2>b, Zenon DEF z
  <2> QED
    BY <1>3, <2>3, <2>5, Zenon DEF Low
<1> QED
  BY <1>2, <1>4, <1>5

LEMMA HalvesType ==
  ASSUME NEW v \in 0 .. Wide - 1
  PROVE  High(v) \in 0 .. (Wide \div Word) - 1 /\ Low(v) \in 0 .. Word - 1
<1>1. PICK k \in Nat : k >= 1 /\ Wide = k * Word /\ Wide \div Word = k
  BY WideWords
<1> DEFINE q == v \div Word
           r == v % Word
<1>2. q \in Int /\ r \in 0 .. Word - 1 /\ v = q * Word + r
  BY WordFacts, DivMod
<1> HIDE DEF q, r
<1>3. q >= 0
  <2>1. SUFFICES ASSUME q <= -1 PROVE FALSE
    BY <1>2
  <2>2. q * Word <= - Word
    BY <1>2, <2>1, WordFacts
  <2> QED
    BY <1>2, <2>2, WordFacts
<1>4. q <= k - 1
  <2>1. SUFFICES ASSUME q >= k PROVE FALSE
    BY <1>1, <1>2
  <2>2. q * Word >= k * Word
    BY <1>1, <1>2, <2>1, WordFacts
  <2> QED
    BY <1>1, <1>2, <2>2, WordFacts
<1> QED
  BY <1>1, <1>2, <1>3, <1>4 DEF High, Low, q, r

\* The comparison of check_hint, on torn halves: whatever the high half is,
\* a hint is too soon only when the low half of its time is less than an
\* interval after the stored one, on the clock of Word values.
LEMMA TooSoonLow ==
  ASSUME NEW h \in Hint, NEW time \in 0 .. Wide - 1, TooSoon(h, time),
         hint_time[h].hi \in Int, hint_time[h].lo \in 0 .. Word - 1
  PROVE  /\ hint_interval(h) >= 1
         /\ \E d \in Nat : /\ d < hint_interval(h)
                           /\ \/ Low(time) = hint_time[h].lo + d
                              \/ Low(time) = hint_time[h].lo + d - Word
<1> DEFINE hi == hint_time[h].hi
           lo == hint_time[h].lo
           i  == hint_interval(h)
<1>1. PICK k \in Nat : k >= 1 /\ Wide = k * Word
  BY WideWords
<1> DEFINE x == time - (hi * Word + lo)
           d == x % Wide
           q == x \div Wide
           a == time \div Word
           b == time % Word
<1>2. x \in Int /\ hi \in Int /\ lo \in 0 .. Word - 1
  BY WordFacts
<1>3. q \in Int /\ d \in 0 .. Wide - 1 /\ x = q * Wide + d
  <2> HIDE DEF x
  <2> QED
    BY <1>2, WordFacts, DivMod
<1>4. a \in Int /\ b \in 0 .. Word - 1 /\ time = a * Word + b
  BY WordFacts, DivMod
<1>5. d < i /\ i # 0
  BY DEF TooSoon, Stored
<1>6. i \in Nat /\ i < Word
  BY Intervals, WordFacts
<1>8. Low(time) = b
  BY DEF Low
<1> HIDE DEF hi, lo, i, x, d, q, a, b
<1>a. (a - hi) * Word = a * Word - hi * Word
  BY <1>2, <1>4, WordFacts
<1>7. x = (a - hi) * Word + (b - lo)
  BY <1>2, <1>4, <1>a, WordFacts DEF x
<1>9. q * Wide = (q * k) * Word
  BY <1>1, <1>3, WordFacts
<1> DEFINE m == q * k - (a - hi)
<1>10. m \in Int /\ m * Word = (q * k) * Word - (a - hi) * Word
  BY <1>1, <1>2, <1>3, <1>4, WordFacts
<1>11. b - lo = d + m * Word
  BY <1>3, <1>7, <1>9, <1>10, <1>1, <1>2, <1>4, WordFacts
<1> HIDE DEF m
<1> DEFINE y == m * Word
<1>b. y \in Int /\ b - lo = d + y
  BY <1>10, <1>11, WordFacts
<1>12. m = 0 \/ m = -1
  <2>1. CASE m >= 1
    <3>1. y >= Word
      BY <1>10, <2>1, WordFacts
    <3> HIDE DEF y
    <3> QED
      BY <3>1, <1>b, <1>2, <1>3, <1>4, WordFacts
  <2>2. CASE m <= -2
    <3>1. y <= -2 * Word
      BY <1>10, <2>2, WordFacts
    <3> HIDE DEF y
    <3> QED
      BY <3>1, <1>b, <1>2, <1>3, <1>4, <1>5, <1>6, WordFacts
  <2> QED
    BY <2>1, <2>2, <1>10
<1>13. b = lo + d \/ b = lo + d - Word
  BY <1>11, <1>12, <1>2, <1>3, <1>4, WordFacts
<1>14. i >= 1 /\ d \in Nat
  BY <1>3, <1>5, <1>6, WordFacts
<1> QED
  BY <1>5, <1>8, <1>13, <1>14 DEF i, lo

-----------------------------------------------------------------------------
(* The types.                                                              *)

LEMMA Durations ==
  ASSUME NEW c \in Call
  PROVE  Duration(c) \in Left
BY TimeAssumption DEF Duration, Left, Call

LEMMA NotHints == "init" \notin Hint /\ "wake" \notin Hint
BY HintAssumption

LEMMA InitType == Init => TypeOK
<1> SUFFICES ASSUME Init PROVE TypeOK
  OBVIOUS
<1>1. PICK k \in Nat : k >= 1 /\ Wide \div Word = k
  BY WideWords
<1> QED
  BY <1>1, WordFacts DEF Init, TypeOK, Call

LEMMA ReturnType ==
  ASSUME TypeOK, NEW u \in Thread, Return(u)
  PROVE  /\ at' \in [Thread -> {"idle", "rest", "check", "boost", "store", "storeHi", "storeLo"}]
         /\ doing' \in [Thread -> Call]
         /\ t' \in [Thread -> 0 .. Wide - 1]
         /\ age' \in [Thread -> 0 .. MaxLag]
<1>1. "init" \in Call /\ 0 \in 0 .. Wide - 1 /\ 0 \in 0 .. MaxLag
  BY WordFacts DEF Call
<1> QED
  BY <1>1 DEF TypeOK, Return, Go

LEMMA TickType ==
  ASSUME TypeOK, Tick
  PROVE  TypeOK'
<1>1. now' \in 0 .. Word - 1
  BY WordFacts, DivMod DEF TypeOK, Tick
<1>2. age' \in [Thread -> 0 .. MaxLag]
  BY WordFacts DEF TypeOK, Tick
<1>3. at' \in [Thread -> {"idle", "rest", "check", "boost", "store", "storeHi", "storeLo"}]
  BY DEF TypeOK, Tick
<1>4. boosts' \subseteq [by : Thread, call : Call, left : Left]
  <2>1. ASSUME NEW b \in boosts, b.left > 1
        PROVE  [b EXCEPT !.left = @ - 1] \in [by : Thread, call : Call, left : Left]
    BY <2>1, TimeAssumption DEF TypeOK, Left
  <2> QED
    BY <2>1 DEF Tick, Elapsed
<1>5. /\ heard' \in [Hint -> {"nothing", "dropped", "taken"}]
      /\ deaf' \in [Hint -> Nat]
  BY DEF TypeOK, Tick
<1> QED
  BY <1>1, <1>2, <1>3, <1>4, <1>5 DEF TypeOK, Tick

LEMMA ThreadType ==
  ASSUME TypeOK, CallInv, NEW u \in Thread, ThreadStep(u)
  PROVE  TypeOK'
<1> USE DEF Enter, Go, Stay
<1>0. now' = now
  BY DEF ThreadStep, common_power_init, common_power_set_interactive, common_power_hint,
         Drop, Take, requestPmQosTimed, StoreHigh, StoreLow
<1>1. CASE common_power_init(u)
  BY <1>1 DEF common_power_init, TypeOK, Call
<1>2. CASE common_power_set_interactive(u)
  BY <1>2 DEF common_power_set_interactive, TypeOK, Call
<1>3. ASSUME NEW h \in Hint, common_power_hint(u, h) PROVE TypeOK'
  <2>1. Clock \in 0 .. Wide - 1
    BY ClockLow DEF TypeOK
  <2> QED
    BY <1>3, <2>1 DEF common_power_hint, TypeOK, Call
<1>4. CASE Drop(u)
  <2>1. Return(u) /\ doing[u] \in Hint
    BY <1>4 DEF Drop, CallInv
  <2>2. heard' \in [Hint -> {"nothing", "dropped", "taken"}]
    BY <1>4 DEF Drop, TypeOK
  <2> QED
    BY <1>4, <2>1, <2>2, ReturnType DEF Drop, TypeOK
<1>5. CASE Take(u)
  <2>1. doing[u] \in Hint
    BY <1>5 DEF Take, CallInv
  <2> QED
    BY <1>5, <2>1 DEF Take, TypeOK
<1>6. CASE requestPmQosTimed(u)
  <2>1. doing[u] \in Call /\ Duration(doing[u]) \in Left
    BY Durations DEF TypeOK
  <2>2. boosts' \subseteq [by : Thread, call : Call, left : Left]
    BY <1>6, <2>1 DEF requestPmQosTimed, Boost, TypeOK
  <2>3. CASE doing[u] \in Hint
    BY <1>6, <2>2, <2>3 DEF requestPmQosTimed, TypeOK
  <2>4. CASE doing[u] \notin Hint
    BY <1>6, <2>2, <2>4, ReturnType DEF requestPmQosTimed, TypeOK
  <2> QED
    BY <2>3, <2>4
<1>7. CASE StoreHigh(u)
  <2>1. doing[u] \in Hint /\ High(t[u]) \in 0 .. (Wide \div Word) - 1
    BY <1>7, HalvesType DEF StoreHigh, CallInv, TypeOK
  <2>2. hint_time' \in [Hint -> [hi : 0 .. (Wide \div Word) - 1, lo : 0 .. Word - 1]]
    BY <1>7, <2>1 DEF StoreHigh, TypeOK
  <2> QED
    BY <1>7, <2>2, ReturnType DEF StoreHigh, TypeOK
<1>8. CASE StoreLow(u)
  <2>1. doing[u] \in Hint /\ Low(t[u]) \in 0 .. Word - 1
    BY <1>8, HalvesType DEF StoreLow, CallInv, TypeOK
  <2>2. hint_time' \in [Hint -> [hi : 0 .. (Wide \div Word) - 1, lo : 0 .. Word - 1]]
    BY <1>8, <2>1 DEF StoreLow, TypeOK
  <2> QED
    BY <1>8, <2>2, ReturnType DEF StoreLow, TypeOK
<1> QED
  BY <1>1, <1>2, <1>3, <1>4, <1>5, <1>6, <1>7, <1>8 DEF ThreadStep

-----------------------------------------------------------------------------
(* The rate limit.                                                         *)

LEMMA AgoType ==
  ASSUME NEW n \in 0 .. Word - 1, NEW from \in 0 .. Word - 1
  PROVE  Ago(n, from) \in 0 .. Word - 1 /\ Ago(n, n) = 0
BY WordFacts DEF Ago

LEMMA TickClock ==
  ASSUME now \in 0 .. Word - 1, Tick
  PROVE  now' = IF now = Word - 1 THEN 0 ELSE now + 1
<1> DEFINE z == now + 1
<1>0. z \in Nat /\ now' = z % Word
  BY DEF Tick
<1>1. CASE now = Word - 1
  <2>1. z = 1 * Word + 0 /\ 0 \in 0 .. Word - 1
    BY <1>1, WordFacts
  <2>2. (1 * Word + 0) % Word = 0
    BY <2>1, ModUnique, WordFacts
  <2> QED
    BY <1>0, <1>1, <2>1, <2>2
<1>2. CASE now # Word - 1
  <2>1. z = 0 * Word + z /\ z \in 0 .. Word - 1
    BY <1>2, WordFacts
  <2> HIDE DEF z
  <2>2. (0 * Word + z) % Word = z
    BY <2>1, ModUnique, WordFacts
  <2>3. now' = z
    BY <1>0, <2>1, <2>2
  <2> QED
    BY <1>2, <2>3 DEF z
<1> QED
  BY <1>1, <1>2

LEMMA TickAgo ==
  ASSUME now \in 0 .. Word - 1, Tick, NEW from \in 0 .. Word - 1, Ago(now, from) < Word - 1
  PROVE  Ago(now', from) = Ago(now, from) + 1
BY TickClock, WordFacts DEF Ago

LEMMA TickCall ==
  ASSUME TypeOK, CallInv, Tick
  PROVE  CallInv'
<1> SUFFICES ASSUME NEW u \in Thread
             PROVE  /\ ~ Calling(u)' => age'[u] = 0
                    /\ at'[u] \in {"check", "store", "storeHi", "storeLo"} => doing'[u] \in Hint
                    /\ Calling(u)' /\ doing'[u] \in Hint => Ago(now', Low(t'[u])) = age'[u]
  BY DEF CallInv
<1>1. CASE ~ Calling(u)
  BY <1>1 DEF Tick, Calling, TypeOK
<1>2. CASE Calling(u)
  <2>1. at'[u] = at[u] /\ doing'[u] = doing[u] /\ t'[u] = t[u] /\ age'[u] = age[u] + 1
    BY <1>2 DEF Tick, TypeOK
  <2>2. Calling(u)'
    BY <1>2, <2>1 DEF Calling
  <2>3. at[u] \in {"check", "store", "storeHi", "storeLo"} => doing[u] \in Hint
    BY DEF CallInv
  <2>4. ASSUME doing[u] \in Hint PROVE Ago(now', Low(t[u])) = age[u] + 1
    <3>1. Low(t[u]) \in 0 .. Word - 1
      BY HalvesType DEF TypeOK
    <3>2. Ago(now, Low(t[u])) = age[u] /\ age[u] \in Nat /\ age[u] < MaxLag
      BY <1>2, <2>4 DEF CallInv, Tick, TypeOK
    <3> QED
      BY <3>1, <3>2, TickAgo, WordFacts DEF TypeOK
  <2> QED
    BY <2>1, <2>2, <2>3, <2>4
<1> QED
  BY <1>1, <1>2

LEMMA TickStore ==
  ASSUME TypeOK, StoreInv, Tick
  PROVE  StoreInv'
<1> SUFFICES ASSUME NEW u \in Thread,
                    at'[u] \in {"boost", "store", "storeHi", "storeLo"}, doing'[u] \in Hint
             PROVE  age'[u] >= deaf'[doing'[u]] + 1
  BY DEF StoreInv
<1>1. doing'[u] = doing[u] /\ doing[u] \in Hint /\ at'[u] = at[u] /\ age'[u] = age[u] + 1
  BY DEF Tick, Calling, TypeOK
<1>2. age[u] \in Nat /\ deaf[doing[u]] \in Nat
  BY <1>1, WordFacts DEF TypeOK
<1>3. heard[doing[u]] = "taken" \/ age[u] >= deaf[doing[u]] + 1
  BY <1>1 DEF StoreInv
<1>4. deaf'[doing[u]] = IF heard[doing[u]] = "dropped" THEN deaf[doing[u]] + 1 ELSE 0
  BY <1>1 DEF Tick
<1> QED
  BY <1>1, <1>2, <1>3, <1>4

LEMMA TickLimit ==
  ASSUME TypeOK, LimitInv, Tick
  PROVE  LimitInv' /\ NeverDeaf'
<1>1. ASSUME NEW h \in Hint
      PROVE  /\ heard'[h] = "nothing"
             /\ deaf'[h] >= 1 =>
                   deaf'[h] <= Since(h)' /\ Since(h)' <= hint_interval(h) + MaxLag
             /\ deaf'[h] <= hint_interval(h) + MaxLag
  <2>1. heard'[h] = "nothing"
    BY DEF Tick
  <2>2. hint_interval(h) \in Nat /\ hint_interval(h) + MaxLag < Word
    BY Intervals
  <2>3. CASE heard[h] # "dropped"
    <3>1. deaf'[h] = 0
      BY <2>3 DEF Tick
    <3> QED
      BY <2>1, <2>2, <3>1, WordFacts
  <2>4. CASE heard[h] = "dropped"
    <3>1. deaf'[h] = deaf[h] + 1 /\ deaf[h] \in Nat
      BY <2>4 DEF Tick, TypeOK
    <3>2. deaf[h] <= Since(h) /\ Since(h) <= hint_interval(h) + MaxLag - 1
      BY <2>4 DEF LimitInv
    <3>3. hint_time[h].lo \in 0 .. Word - 1 /\ hint_time' = hint_time
      BY DEF TypeOK, Tick
    <3>4. Since(h) \in 0 .. Word - 1
      BY <3>3, AgoType DEF Since, TypeOK
    <3>5. Ago(now', hint_time[h].lo) = Since(h) + 1
      BY <2>2, <3>2, <3>3, <3>4, TickAgo, WordFacts DEF TypeOK, Since
    <3>6. Since(h)' = Since(h) + 1
      BY <3>3, <3>5 DEF Since
    <3> QED
      BY <2>1, <2>2, <3>1, <3>2, <3>4, <3>6, WordFacts
  <2> QED
    BY <2>3, <2>4
<1>2. LimitInv'
  BY <1>1 DEF LimitInv
<1>3. NeverDeaf'
  BY <1>1 DEF NeverDeaf
<1> QED
  BY <1>2, <1>3

\* What a thread's step does to the other threads' calls: nothing.
LEMMA Others ==
  ASSUME TypeOK, NEW u \in Thread, ThreadStep(u)
  PROVE  /\ now' = now /\ deaf' = deaf
         /\ \A v \in Thread \ {u} :
              /\ at'[v] = at[v] /\ doing'[v] = doing[v] /\ t'[v] = t[v] /\ age'[v] = age[v]
BY DEF TypeOK, ThreadStep, common_power_init, common_power_set_interactive, common_power_hint,
       Drop, Take, requestPmQosTimed, StoreHigh, StoreLow, Enter, Go, Stay, Return

\* And to its own.
LEMMA Own ==
  ASSUME TypeOK, CallInv, NEW u \in Thread, ThreadStep(u)
  PROVE  \/ at'[u] = "rest" /\ age'[u] = 0
         \/ at'[u] = "boost" /\ doing'[u] \notin Hint /\ age'[u] = age[u]
         \/ /\ at[u] = "idle" /\ at'[u] = "check" /\ doing'[u] \in Hint
            /\ t'[u] = Clock /\ age'[u] = 0
         \/ /\ Calling(u) /\ doing[u] \in Hint /\ doing'[u] = doing[u]
            /\ t'[u] = t[u] /\ age'[u] = age[u]
            /\ at'[u] \in {"boost", "store", "storeHi", "storeLo"}
            /\ \/ at[u] = "check" /\ heard'[doing[u]] = "taken"
               \/ at[u] \in {"boost", "store", "storeHi", "storeLo"} /\ heard' = heard
<1> USE DEF TypeOK, Enter, Go, Stay, Return
<1>1. CASE common_power_init(u)
  BY <1>1, NotHints DEF common_power_init
<1>2. CASE common_power_set_interactive(u)
  BY <1>2, NotHints DEF common_power_set_interactive
<1>3. ASSUME NEW h \in Hint, common_power_hint(u, h)
      PROVE  /\ at[u] = "idle" /\ at'[u] = "check" /\ doing'[u] \in Hint
             /\ t'[u] = Clock /\ age'[u] = 0
  <2>1. age[u] = 0
    BY <1>3 DEF common_power_hint, CallInv, Calling
  <2> QED
    BY <1>3, <2>1 DEF common_power_hint
<1>4. CASE Drop(u)
  BY <1>4 DEF Drop
<1>5. CASE Take(u)
  <2>1. at[u] = "check" /\ doing[u] \in Hint /\ Calling(u)
    BY <1>5 DEF Take, CallInv, Calling
  <2>2. heard'[doing[u]] = "taken"
    BY <1>5, <2>1 DEF Take
  <2> QED
    BY <1>5, <2>1, <2>2 DEF Take
<1>6. CASE requestPmQosTimed(u)
  <2>1. at[u] = "boost" /\ Calling(u)
    BY <1>6 DEF requestPmQosTimed, Calling
  <2> QED
    BY <1>6, <2>1 DEF requestPmQosTimed
<1>7. CASE StoreHigh(u)
  <2>1. at[u] \in {"store", "storeHi"} /\ doing[u] \in Hint /\ Calling(u)
    BY <1>7 DEF StoreHigh, CallInv, Calling
  <2> QED
    BY <1>7, <2>1 DEF StoreHigh
<1>8. CASE StoreLow(u)
  <2>1. at[u] \in {"store", "storeLo"} /\ doing[u] \in Hint /\ Calling(u)
    BY <1>8 DEF StoreLow, CallInv, Calling
  <2> QED
    BY <1>8, <2>1 DEF StoreLow
<1> QED
  BY <1>1, <1>2, <1>3, <1>4, <1>5, <1>6, <1>7, <1>8 DEF ThreadStep

LEMMA ThreadCall ==
  ASSUME TypeOK, CallInv, NEW u \in Thread, ThreadStep(u)
  PROVE  CallInv'
<1>1. ASSUME NEW v \in Thread
      PROVE  /\ ~ Calling(v)' => age'[v] = 0
             /\ at'[v] \in {"check", "store", "storeHi", "storeLo"} => doing'[v] \in Hint
             /\ Calling(v)' /\ doing'[v] \in Hint => Ago(now', Low(t'[v])) = age'[v]
  <2>1. /\ ~ Calling(v) => age[v] = 0
        /\ at[v] \in {"check", "store", "storeHi", "storeLo"} => doing[v] \in Hint
        /\ Calling(v) /\ doing[v] \in Hint => Ago(now, Low(t[v])) = age[v]
        /\ now' = now
    BY Others DEF CallInv
  <2>2. CASE v # u
    <3>1. at'[v] = at[v] /\ doing'[v] = doing[v] /\ t'[v] = t[v] /\ age'[v] = age[v]
      BY <2>2, Others
    <3> QED
      BY <2>1, <3>1 DEF Calling
  <2>3. CASE v = u
    <3>1. Low(Clock) = now /\ Ago(now, now) = 0
      BY ClockLow, AgoType DEF TypeOK
    <3>2. CASE at'[u] = "rest" /\ age'[u] = 0
      BY <2>3, <3>2 DEF Calling
    <3>3. CASE at'[u] = "boost" /\ doing'[u] \notin Hint /\ age'[u] = age[u]
      BY <2>3, <3>3 DEF Calling
    <3>4. CASE /\ at'[u] = "check" /\ doing'[u] \in Hint /\ t'[u] = Clock /\ age'[u] = 0
      BY <2>1, <2>3, <3>1, <3>4 DEF Calling
    <3>5. CASE /\ Calling(u) /\ doing[u] \in Hint /\ doing'[u] = doing[u]
               /\ t'[u] = t[u] /\ age'[u] = age[u]
               /\ at'[u] \in {"boost", "store", "storeHi", "storeLo"}
      BY <2>1, <2>3, <3>5 DEF Calling
    <3> QED
      BY Own, <3>2, <3>3, <3>4, <3>5
  <2> QED
    BY <2>2, <2>3
<1> QED
  BY <1>1 DEF CallInv

\* A hint that was taken in this tick stays taken until the next.
LEMMA TakenStays ==
  ASSUME TypeOK, CallInv, NEW u \in Thread, ThreadStep(u), NEW h \in Hint, heard[h] = "taken"
  PROVE  heard'[h] = "taken"
BY DEF TypeOK, ThreadStep, common_power_init, common_power_set_interactive, common_power_hint,
       Drop, Take, requestPmQosTimed, StoreHigh, StoreLow

LEMMA ThreadStore ==
  ASSUME TypeOK, CallInv, StoreInv, NEW u \in Thread, ThreadStep(u)
  PROVE  StoreInv'
<1>1. ASSUME NEW v \in Thread, doing'[v] \in Hint,
             at'[v] \in {"boost", "store", "storeHi", "storeLo"}
      PROVE  heard'[doing'[v]] = "taken" \/ age'[v] >= deaf'[doing'[v]] + 1
  <2>0. deaf' = deaf
    BY Others
  <2>1. CASE v # u
    <3>1. at'[v] = at[v] /\ doing'[v] = doing[v] /\ age'[v] = age[v]
      BY <2>1, Others
    <3>2. heard[doing[v]] = "taken" \/ age[v] >= deaf[doing[v]] + 1
      BY <1>1, <3>1 DEF StoreInv
    <3> QED
      BY <1>1, <2>0, <3>1, <3>2, TakenStays
  <2>2. CASE v = u
    <3>1. /\ doing[u] \in Hint /\ doing'[u] = doing[u] /\ age'[u] = age[u]
          /\ \/ at[u] = "check" /\ heard'[doing[u]] = "taken"
             \/ at[u] \in {"boost", "store", "storeHi", "storeLo"} /\ heard' = heard
      BY Own, <1>1, <2>2
    <3>2. at[u] \in {"boost", "store", "storeHi", "storeLo"} =>
             heard[doing[u]] = "taken" \/ age[u] >= deaf[doing[u]] + 1
      BY <3>1 DEF StoreInv
    <3> QED
      BY <2>0, <2>2, <3>1, <3>2
  <2> QED
    BY <2>1, <2>2
<1> QED
  BY <1>1 DEF StoreInv

LEMMA LimitOnly ==
  ASSUME LimitInv, now' = now, deaf' = deaf, heard' = heard,
         \A h \in Hint : hint_time'[h].lo = hint_time[h].lo
  PROVE  LimitInv'
BY DEF LimitInv, Since

\* A hint is dropped only when the stored half is recent enough.
LEMMA DropLimit ==
  ASSUME TypeOK, CallInv, LimitInv, NEW u \in Thread, Drop(u)
  PROVE  LimitInv'
<1> DEFINE g == doing[u]
<1>1. at[u] = "check" /\ g \in Hint /\ Calling(u) /\ TooSoon(g, t[u])
  BY DEF Drop, CallInv, Calling
<1>2. /\ now' = now /\ deaf' = deaf /\ hint_time' = hint_time
      /\ heard' = [heard EXCEPT ![g] = IF @ = "taken" THEN @ ELSE "dropped"]
  BY DEF Drop
<1>3. \A h \in Hint : Since(h)' = Since(h)
  BY <1>2 DEF Since
<1>4. Ago(now, Low(t[u])) = age[u]
  BY <1>1 DEF CallInv
<1>5. /\ now \in 0 .. Word - 1 /\ t[u] \in 0 .. Wide - 1 /\ Low(t[u]) \in 0 .. Word - 1
      /\ age[u] \in Nat /\ age[u] <= MaxLag /\ deaf \in [Hint -> Nat] /\ heard \in [Hint -> {"nothing", "dropped", "taken"}]
      /\ hint_time[g].hi \in Int /\ hint_time[g].lo \in 0 .. Word - 1
  <2>1. t[u] \in 0 .. Wide - 1 /\ hint_time[g] \in [hi : 0 .. (Wide \div Word) - 1, lo : 0 .. Word - 1]
    BY <1>1 DEF TypeOK
  <2> QED
    BY <2>1, HalvesType, WordFacts DEF TypeOK
<1>6. PICK d \in Nat : /\ d < hint_interval(g)
                       /\ \/ Low(t[u]) = hint_time[g].lo + d
                          \/ Low(t[u]) = hint_time[g].lo + d - Word
  BY <1>1, <1>5, TooSoonLow
<1>7. hint_interval(g) \in Nat /\ hint_interval(g) + MaxLag < Word /\ hint_interval(g) >= 1
  BY <1>1, <1>6, Intervals
<1>8. Since(g) = d + age[u]
  <2> DEFINE lo == hint_time[g].lo
             b  == Low(t[u])
             n  == now
             i  == hint_interval(g)
  <2>1. /\ n \in 0 .. Word - 1 /\ lo \in 0 .. Word - 1 /\ b \in 0 .. Word - 1
        /\ Ago(n, b) = age[u] /\ d < i /\ (b = lo + d \/ b = lo + d - Word)
        /\ i \in Nat /\ i + MaxLag < Word /\ age[u] \in Nat /\ age[u] <= MaxLag
    BY <1>4, <1>5, <1>6, <1>7
  <2> HIDE DEF lo, b, n, i
  <2>2. Ago(n, lo) = d + age[u]
    BY <2>1, WordFacts DEF Ago
  <2> QED
    BY <2>2 DEF Since, n, lo
<1>9. Since(g) <= hint_interval(g) + MaxLag - 1 /\ Since(g) \in Nat
  BY <1>5, <1>6, <1>7, <1>8, WordFacts
<1> HIDE DEF g
<1>10. ASSUME NEW h \in Hint
       PROVE  /\ heard'[h] # "taken" /\ deaf[h] >= 1 =>
                    deaf[h] <= Since(h) /\ Since(h) <= hint_interval(h) + MaxLag
              /\ heard'[h] = "dropped" =>
                    /\ hint_interval(h) >= 1
                    /\ deaf[h] <= Since(h) /\ Since(h) <= hint_interval(h) + MaxLag - 1
  <2>1. /\ heard[h] # "taken" /\ deaf[h] >= 1 =>
               deaf[h] <= Since(h) /\ Since(h) <= hint_interval(h) + MaxLag
        /\ heard[h] = "dropped" =>
               /\ hint_interval(h) >= 1
               /\ deaf[h] <= Since(h) /\ Since(h) <= hint_interval(h) + MaxLag - 1
    BY DEF LimitInv
  <2>2. CASE h # g
    <3>1. heard'[h] = heard[h]
      BY <1>1, <1>2, <1>5, <2>2
    <3> QED
      BY <2>1, <3>1
  <2>3. CASE h = g
    <3>1. heard[h] = "taken" => heard'[h] = "taken"
      BY <1>1, <1>2, <1>5, <2>3
    <3>2. deaf[h] \in Nat /\ (deaf[h] >= 1 \/ deaf[h] = 0)
      BY <1>5
    <3>3. heard[h] # "taken" => deaf[h] <= Since(h)
      BY <1>9, <2>1, <2>3, <3>2
    <3> QED
      BY <1>7, <1>9, <2>1, <2>3, <3>1, <3>3, WordFacts
  <2> QED
    BY <2>2, <2>3
<1> QED
  BY <1>2, <1>3, <1>10 DEF LimitInv

\* A half that is written is as old as the call that writes it.
LEMMA StoreLimit ==
  ASSUME TypeOK, CallInv, StoreInv, LimitInv, NEW u \in Thread, StoreLow(u)
  PROVE  LimitInv'
<1>0. PICK g \in Hint : g = doing[u]
  BY DEF StoreLow, CallInv
<1>1. /\ at[u] \in {"store", "storeLo"} /\ Calling(u)
      /\ now' = now /\ deaf' = deaf /\ heard' = heard
      /\ hint_time' = [hint_time EXCEPT ![g].lo = Low(t[u])]
  BY <1>0 DEF StoreLow, Calling
<1>2. /\ Ago(now, Low(t[u])) = age[u]
      /\ heard[g] = "taken" \/ age[u] >= deaf[g] + 1
  BY <1>0, <1>1 DEF CallInv, StoreInv
<1>3. /\ hint_time'[g].lo = Low(t[u])
      /\ \A h \in Hint \ {g} : hint_time'[h] = hint_time[h]
  BY <1>1 DEF TypeOK
<1>4. Since(g)' = age[u]
  BY <1>1, <1>2, <1>3 DEF Since
<1>5. age[u] \in Nat /\ age[u] <= MaxLag /\ deaf[g] \in Nat
  BY WordFacts DEF TypeOK
<1>6. ASSUME NEW h \in Hint
      PROVE  /\ heard[h] # "taken" /\ deaf[h] >= 1 =>
                   deaf[h] <= Since(h)' /\ Since(h)' <= hint_interval(h) + MaxLag
             /\ heard[h] = "dropped" =>
                   /\ hint_interval(h) >= 1
                   /\ deaf[h] <= Since(h)' /\ Since(h)' <= hint_interval(h) + MaxLag - 1
  <2>1. /\ heard[h] # "taken" /\ deaf[h] >= 1 =>
               deaf[h] <= Since(h) /\ Since(h) <= hint_interval(h) + MaxLag
        /\ heard[h] = "dropped" =>
               /\ hint_interval(h) >= 1
               /\ deaf[h] <= Since(h) /\ Since(h) <= hint_interval(h) + MaxLag - 1
    BY DEF LimitInv
  <2>2. CASE h # g
    <3>1. Since(h)' = Since(h)
      BY <1>1, <1>3, <2>2 DEF Since
    <3> QED
      BY <2>1, <3>1
  <2>3. CASE h = g
    <3>1. Since(h)' = age[u]
      BY <1>4, <2>3
    <3>2. hint_interval(h) \in Nat
      BY Intervals
    <3> QED
      BY <1>2, <1>5, <2>1, <2>3, <3>1, <3>2, WordFacts
  <2> QED
    BY <2>2, <2>3
<1> QED
  BY <1>1, <1>6 DEF LimitInv

LEMMA ThreadLimit ==
  ASSUME TypeOK, CallInv, StoreInv, LimitInv, NEW u \in Thread, ThreadStep(u)
  PROVE  LimitInv'
<1>0. now' = now /\ deaf' = deaf
  BY Others
<1>1. CASE common_power_init(u) \/ common_power_set_interactive(u) \/ requestPmQosTimed(u)
  BY <1>0, <1>1, LimitOnly
  DEF common_power_init, common_power_set_interactive, requestPmQosTimed
<1>2. ASSUME NEW h \in Hint, common_power_hint(u, h) PROVE LimitInv'
  BY <1>0, <1>2, LimitOnly DEF common_power_hint
<1>3. CASE Drop(u)
  BY <1>3, DropLimit
<1>4. CASE Take(u)
  <2>1. doing[u] \in Hint
    BY <1>4 DEF Take, CallInv
  <2>2. \A h \in Hint : heard'[h] = "taken" \/ heard'[h] = heard[h]
    BY <1>4, <2>1 DEF Take, TypeOK
  <2>3. \A h \in Hint : Since(h)' = Since(h)
    BY <1>4 DEF Take, Since
  <2>4. LimitInv
    OBVIOUS
  <2> QED
    BY <1>0, <2>2, <2>3, <2>4 DEF LimitInv
<1>5. CASE StoreHigh(u)
  <2>1. doing[u] \in Hint
    BY <1>5 DEF StoreHigh, CallInv
  <2>2. \A h \in Hint : hint_time'[h].lo = hint_time[h].lo
    BY <1>5, <2>1 DEF StoreHigh, TypeOK
  <2> QED
    BY <1>0, <1>5, <2>2, LimitOnly DEF StoreHigh
<1>6. CASE StoreLow(u)
  BY <1>6, StoreLimit
<1> QED
  BY <1>1, <1>2, <1>3, <1>4, <1>5, <1>6 DEF ThreadStep

-----------------------------------------------------------------------------
(* The clock's sign and the intervals.                                     *)

LEMMA DivUnique ==
  ASSUME NEW w \in Nat, w > 0, NEW q \in Int, NEW r \in 0 .. w - 1
  PROVE  (q * w + r) \div w = q
<1> DEFINE x == q * w + r
<1>1. x \in Int
  OBVIOUS
<1> DEFINE p == x \div w
           s == x % w
<1>2. p \in Int /\ s \in 0 .. w - 1 /\ x = p * w + s
  BY <1>1, DivMod
<1>3. (p - q) * w = r - s
  BY <1>2
<1> HIDE DEF p, s
<1>4. p - q \in Int /\ - w < (p - q) * w /\ (p - q) * w < w
  BY <1>2, <1>3
<1>5. p - q = 0
  BY <1>4, NoMultiple
<1>6. p = q
  BY <1>2, <1>5
<1> QED
  BY <1>6 DEF p

LEMMA HalfFacts ==
  /\ Half \in Nat /\ Half >= 2 /\ 2 * Half <= Word /\ Word <= 2 * Half + 1
  /\ Word \div 4 + Word \div 4 <= Half
BY WordFacts DEF Half

\* A word is shorter than a wide word, by whole words.
LEMMA TopHalf ==
  /\ (Wide \div Word) - 1 \in Nat /\ (Wide \div Word) - 1 >= 1
  /\ ((Wide \div Word) - 1) * Word = Wide - Word
<1>1. PICK k \in Nat : k >= 1 /\ Wide = k * Word /\ Wide \div Word = k
  BY WideWords
<1>2. k # 1
  BY <1>1, WordFacts
<1>3. (k - 1) * Word = k * Word - Word
  BY <1>1, WordFacts
<1>4. (k - 1) * Word = Wide - Word
  BY <1>1, <1>3
<1> QED
  BY <1>1, <1>2, <1>4

\* The halves of what the clock shows.
LEMMA ClockHalves ==
  ASSUME NEW n \in 0 .. Word - 1
  PROVE  /\ ClockAt(n) \in 0 .. Wide - 1 /\ Low(ClockAt(n)) = n
         /\ High(ClockAt(n)) = IF n < Half THEN 0 ELSE (Wide \div Word) - 1
<1> DEFINE k == (Wide \div Word) - 1
<1>1. k \in Nat /\ k * Word = Wide - Word
  BY TopHalf
<1> HIDE DEF k
<1>2. CASE n < Half
  <2>1. ClockAt(n) = 0 * Word + n
    BY <1>2, WordFacts DEF ClockAt
  <2>2. (0 * Word + n) % Word = n /\ (0 * Word + n) \div Word = 0
    BY ModUnique, DivUnique, WordFacts
  <2> QED
    BY <1>2, <2>1, <2>2, WordFacts DEF Low, High
<1>3. CASE n >= Half
  <2>1. ClockAt(n) = k * Word + n
    BY <1>1, <1>3, WordFacts, HalfFacts DEF ClockAt
  <2>a. k \in Int /\ Word \in Nat /\ Word > 0
    BY <1>1, WordFacts
  <2>b. (k * Word + n) % Word = n
    BY <2>a, ModUnique, Zenon
  <2>2. (k * Word + n) \div Word = k
    BY <2>a, DivUnique, Zenon
  <2>3. ClockAt(n) \in 0 .. Wide - 1
    BY <1>3, WordFacts, HalfFacts DEF ClockAt
  <2>4. Low(ClockAt(n)) = n /\ High(ClockAt(n)) = k
    BY <2>1, <2>2, <2>b, Zenon DEF Low, High
  <2> QED
    BY <1>3, <2>3, <2>4, HalfFacts DEF k
<1> QED
  BY <1>2, <1>3, HalfFacts

LEMMA ClockNow ==
  ASSUME now \in 0 .. Word - 1
  PROVE  Clock = ClockAt(now)
<1>1. Clock \in 0 .. Wide - 1
  BY ClockLow
<1>2. CASE now < Half
  <2>1. now = 0 * Wide + now /\ now \in 0 .. Wide - 1
    BY WordFacts
  <2>2. (0 * Wide + now) % Wide = now
    BY <2>1, ModUnique, WordFacts
  <2> QED
    BY <1>2, <2>1, <2>2 DEF Clock, Signed, ClockAt, Half
<1>3. CASE ~ (now < Half)
  <2>1. now - Word + Wide \in 0 .. Wide - 1 /\ now - Word = (-1) * Wide + (now - Word + Wide)
    BY WordFacts
  <2>2. ((-1) * Wide + (now - Word + Wide)) % Wide = now - Word + Wide
    BY <2>1, ModUnique, WordFacts
  <2> QED
    BY <1>3, <2>1, <2>2 DEF Clock, Signed, ClockAt, Half
<1> QED
  BY <1>2, <1>3

\* The clock's sign changes or the time since grows.
LEMMA TickTurn ==
  ASSUME now \in 0 .. Word - 1, Tick
  PROVE  /\ Turn \in Nat
         /\ \/ Turn' = Turn + 1 /\ SignHalf' = SignHalf /\ now # 0
            \/ Turn' = 0 /\ Turn >= Half - 2
<1>1. now' = IF now = Word - 1 THEN 0 ELSE now + 1
  BY TickClock
<1>2. Half' = Half
  BY DEF Half
<1>3. Turn \in Nat
  BY HalfFacts, WordFacts DEF Turn
<1>4. CASE now = 0 \/ now = Half - 1
  BY <1>1, <1>2, <1>4, HalfFacts, WordFacts DEF Turn
<1>5. CASE now # 0 /\ now # Half - 1
  <2>1. Turn' = Turn + 1
    BY <1>1, <1>2, <1>5, HalfFacts, WordFacts DEF Turn
  <2>2. SignHalf' = SignHalf
    BY <1>1, <1>2, <1>5, HalfFacts, WordFacts DEF SignHalf
  <2> QED
    BY <1>3, <1>5, <2>1, <2>2
<1> QED
  BY <1>3, <1>4, <1>5

LEMMA BoostTimes ==
  ASSUME NEW h \in Boosting
  PROVE  /\ h \in Hint /\ h \in Call /\ hint_interval(h) = Duration(h)
         /\ hint_interval(h) \in Left /\ hint_interval(h) \in Nat /\ hint_interval(h) >= 1
         /\ hint_interval(h) <= Word \div 4 /\ hint_interval(h) + MaxLag <= Half
<1>1. h \in Hint /\ h \in Call /\ hint_interval(h) = Duration(h)
  BY DEF Boosting, Call, hint_interval, Duration
<1>2. Duration(h) \in Left
  BY <1>1, Durations
<1> QED
  BY <1>1, <1>2, Intervals, WordFacts, HalfFacts, TimeAssumption DEF Left

\* A call that read the clock no earlier than the stored time, with the sign
\* that the stored time has, and within an interval of it, is dropped.
LEMMA StillSoon ==
  ASSUME NEW h \in Hint, NEW time \in 0 .. Wide - 1, NEW a \in Nat,
         now \in 0 .. Word - 1, hint_time[h].lo \in 0 .. Word - 1,
         Low(time) \in 0 .. Word - 1, time = ClockAt(Low(time)), Ago(now, Low(time)) = a,
         a <= Since(h), Since(h) < hint_interval(h), Since(h) <= Turn,
         hint_time[h].hi = SignHalf, now = 0 => Since(h) >= 1
  PROVE  TooSoon(h, time)
<1> DEFINE hi == hint_time[h].hi
           lo == hint_time[h].lo
           b  == Low(time)
           s  == Since(h)
           k  == (Wide \div Word) - 1
           i  == hint_interval(h)
<1>1. /\ lo \in 0 .. Word - 1 /\ b \in 0 .. Word - 1 /\ time = ClockAt(b) /\ Ago(now, b) = a
      /\ s = Ago(now, lo) /\ a <= s /\ s < i /\ s <= Turn /\ (now = 0 => s >= 1) /\ i \in Nat
      /\ k \in Nat /\ k >= 1 /\ k * Word = Wide - Word /\ s \in Nat
      /\ hi = (IF now \in 1 .. Half - 1 THEN 0 ELSE k)
  <2>1. s \in 0 .. Word - 1
    BY AgoType DEF Since
  <2> QED
    BY <2>1, TopHalf, Intervals DEF Since, SignHalf
<1>0. Stored(h) = hi * Word + lo
  BY DEF Stored
<1> HIDE DEF hi, lo, b, s, k, i
<1> DEFINE S == IF now \in 1 .. Half - 1 THEN lo ELSE Wide - Word + lo
<1>2. Stored(h) = S
  <2>1. CASE now \in 1 .. Half - 1
    <3>1. hi * Word = 0
      BY <1>1, <2>1, WordFacts
    <3> QED
      BY <1>0, <1>1, <2>1, <3>1, WordFacts
  <2>2. CASE ~ (now \in 1 .. Half - 1)
    <3>1. hi = k
      BY <1>1, <2>2
    <3>2. hi * Word = Wide - Word
      BY <1>1, <3>1
    <3> QED
      BY <1>0, <2>2, <3>2
  <2> QED
    BY <2>1, <2>2
<1>3. S # 0 /\ S \in Int
  BY <1>1, WordFacts, HalfFacts DEF Ago, Turn
<1>4. time - S = s - a \/ time - S = s - a - Wide
  BY <1>1, WordFacts, HalfFacts DEF Ago, Turn, ClockAt
<1>5. s - a \in 0 .. Wide - 1 /\ s - a < i /\ i < Word /\ i # 0
  BY <1>1, Intervals, WordFacts DEF i
<1> HIDE DEF S
<1>6. (0 * Wide + (s - a)) % Wide = s - a /\ ((-1) * Wide + (s - a)) % Wide = s - a
  BY <1>5, ModUnique, WordFacts
<1>7. time - S = 0 * Wide + (s - a) \/ time - S = (-1) * Wide + (s - a)
  BY <1>4, <1>5, WordFacts
<1>8. (time - S) % Wide = s - a
  BY <1>6, <1>7
<1> QED
  BY <1>2, <1>3, <1>5, <1>8 DEF TooSoon, i

-----------------------------------------------------------------------------
(* The boosts when time passes.                                            *)

LEMMA TickBoost ==
  ASSUME TypeOK, Tick, NEW b \in boosts'
  PROVE  \E c \in boosts : c.by = b.by /\ c.call = b.call /\ c.left = b.left + 1
<1>1. PICK c \in boosts : c.left > 1 /\ b = [c EXCEPT !.left = @ - 1]
  BY DEF Tick, Elapsed
<1>2. c \in [by : Thread, call : Call, left : Left] /\ c.left \in Nat
  BY DEF TypeOK, Left
<1>3. b.by = c.by /\ b.call = c.call /\ b.left = c.left - 1
  BY <1>1, <1>2
<1> QED
  BY <1>2, <1>3

LEMMA TickHas ==
  ASSUME TypeOK, Tick, NEW u \in Thread, NEW h \in Hint, NEW l \in Left, Has(u, h, l)'
  PROVE  Has(u, h, l + 1) /\ l + 1 \in Left
<1> DEFINE b == [by |-> u, call |-> h, left |-> l]
<1>1. b \in boosts' /\ b.by = u /\ b.call = h /\ b.left = l
  BY DEF Has
<1> HIDE DEF b
<1>2. PICK c \in boosts : c.by = b.by /\ c.call = b.call /\ c.left = b.left + 1
  BY <1>1, TickBoost
<1>3. c \in [by : Thread, call : Call, left : Left]
  BY DEF TypeOK
<1>4. c = [by |-> u, call |-> h, left |-> l + 1] /\ l + 1 \in Left
  BY <1>1, <1>2, <1>3
<1> QED
  BY <1>4 DEF Has

\* A boost that binds its thread did so before, and the sign is the same.
LEMMA TickBinding ==
  ASSUME TypeOK, FreshInv, Tick,
         NEW u \in Thread, NEW h \in Boosting, NEW l \in Left, Binding(u, h, l)'
  PROVE  /\ Binding(u, h, l + 1) /\ l + 1 \in Left /\ l + 1 <= hint_interval(h)
         /\ Reach(h, l) = Reach(h, l + 1) + 1
         /\ SignHalf' = SignHalf /\ now # 0
<1>1. Has(u, h, l)' /\ l > MaxLag /\ Turn' >= Reach(h, l)
  BY DEF Binding, Reach, hint_interval
<1>2. Has(u, h, l + 1) /\ l + 1 \in Left
  BY <1>1, TickHas, BoostTimes
<1>3. l + 1 <= hint_interval(h)
  <2> DEFINE b == [by |-> u, call |-> h, left |-> l + 1]
  <2>1. b \in boosts /\ b.left = l + 1 /\ b.call = h
    BY <1>2 DEF Has
  <2> HIDE DEF b
  <2> QED
    BY <2>1, BoostTimes DEF FreshInv
<1>4. l \in Nat /\ hint_interval(h) \in Nat /\ MaxLag \in Nat
  BY BoostTimes, WordFacts DEF Left
<1>5. Reach(h, l) = Reach(h, l + 1) + 1 /\ Reach(h, l) >= 1 /\ Reach(h, l + 1) \in Int
  BY <1>3, <1>4 DEF Reach
<1>6. now \in 0 .. Word - 1
  BY DEF TypeOK
<1>7. Turn' # 0
  BY <1>1, <1>5
<1>8. Turn \in Nat /\ Turn' = Turn + 1 /\ SignHalf' = SignHalf /\ now # 0
  BY <1>6, <1>7, TickTurn
<1>9. Turn >= Reach(h, l + 1)
  BY <1>1, <1>5, <1>8
<1> QED
  BY <1>1, <1>2, <1>3, <1>4, <1>5, <1>8, <1>9 DEF Binding

LEMMA TickRead ==
  ASSUME TypeOK, ReadInv, Tick
  PROVE  ReadInv'
<1>1. ASSUME NEW u \in Thread, Calling(u)', doing'[u] \in Hint PROVE t'[u] = ClockAt(Low(t'[u]))
  <2>1. Calling(u) /\ doing' = doing /\ t' = t
    BY <1>1 DEF Tick, Calling, TypeOK
  <2> QED
    BY <1>1, <2>1 DEF ReadInv
<1>2. \A u \in Thread : (Calling(u) /\ doing[u] \in Hint => t[u] = ClockAt(Low(t[u])))'
  BY <1>1 DEF ClockAt, Half, Low
<1> QED
  BY <1>2 DEF ReadInv

LEMMA TickFresh ==
  ASSUME TypeOK, FreshInv, Tick
  PROVE  FreshInv'
<1>1. ASSUME NEW b \in boosts'
      PROVE  b.left < Duration(b.call) /\ (b.call \in Hint => b.call \in Boosting)
  <2>1. PICK c \in boosts : c.by = b.by /\ c.call = b.call /\ c.left = b.left + 1
    BY TickBoost
  <2>2. c \in [by : Thread, call : Call, left : Left] /\ Duration(c.call) \in Left
    BY Durations DEF TypeOK
  <2>3. c.left <= Duration(c.call) /\ (c.call \in Hint => c.call \in Boosting)
    BY DEF FreshInv
  <2>4. TypeOK'
    BY TickType
  <2>5. b.left \in Nat
    BY <2>4 DEF TypeOK, Left
  <2> QED
    BY <2>1, <2>2, <2>3, <2>5 DEF Left
<1>2. ASSUME NEW u \in Thread, at'[u] = "boost", doing'[u] \in Hint
      PROVE  doing'[u] \in Boosting
  BY <1>2 DEF FreshInv, Tick, TypeOK
<1>3. ASSUME NEW b \in boosts'
      PROVE  b.left <= Duration(b.call)
  <2>1. TypeOK'
    BY TickType
  <2>2. b.left \in Nat /\ Duration(b.call) \in Nat
    BY <2>1, Durations DEF TypeOK, Left
  <2> QED
    BY <1>1, <2>2
<1> QED
  BY <1>1, <1>2, <1>3 DEF FreshInv, Boosting

LEMMA TickSpaced ==
  ASSUME TypeOK, FreshInv, SpacedInv, Tick
  PROVE  SpacedInv'
<1>1. ASSUME NEW u \in Thread, NEW h \in Boosting, NEW l \in Left, NEW m \in Left,
             Has(u, h, l)', Has(u, h, m)', l < m
      PROVE  \/ m - l >= hint_interval(h) - MaxLag
             \/ hint_interval(h) - m <= Turn' /\ Turn' < Reach(h, l)
  <2>1. /\ Has(u, h, l + 1) /\ l + 1 \in Left /\ Has(u, h, m + 1) /\ m + 1 \in Left
        /\ l \in Nat /\ m \in Nat /\ hint_interval(h) \in Nat /\ MaxLag \in Nat
        /\ l >= 1 /\ hint_interval(h) + MaxLag <= Half /\ Half \in Nat
    BY <1>1, TickHas, BoostTimes, WordFacts, HalfFacts DEF Left
  <2>2. \/ (m + 1) - (l + 1) >= hint_interval(h) - MaxLag
        \/ hint_interval(h) - (m + 1) <= Turn /\ Turn < Reach(h, l + 1)
    <3>1. l + 1 < m + 1
      BY <1>1, <2>1
    <3> QED
      BY <2>1, <3>1 DEF SpacedInv
  <2>3. /\ Turn \in Nat
        /\ \/ Turn' = Turn + 1
           \/ Turn' = 0 /\ Turn >= Half - 2
    BY TickTurn DEF TypeOK
  <2> HIDE DEF Half, Turn, hint_interval
  <2> QED
    BY <2>1, <2>2, <2>3 DEF Reach
<1>2. Boosting' = Boosting /\ Left' = Left
  BY DEF Boosting, Left
<1> QED
  BY <1>1, <1>2 DEF SpacedInv, Reach, hint_interval

LEMMA SinceType ==
  ASSUME TypeOK, NEW h \in Hint
  PROVE  Since(h) \in Nat /\ hint_time[h].lo \in 0 .. Word - 1
<1>1. hint_time[h].lo \in 0 .. Word - 1 /\ now \in 0 .. Word - 1
  BY DEF TypeOK
<1>2. Since(h) \in 0 .. Word - 1
  BY <1>1, AgoType DEF Since
<1> QED
  BY <1>1, <1>2

LEMMA TickSince ==
  ASSUME TypeOK, Tick, NEW h \in Hint, Since(h) < Word - 1
  PROVE  Since(h)' = Since(h) + 1 /\ Since(h) \in Nat
<1>1. hint_time[h].lo \in 0 .. Word - 1 /\ hint_time' = hint_time /\ now \in 0 .. Word - 1
  BY DEF TypeOK, Tick
<1>2. Ago(now', hint_time[h].lo) = Ago(now, hint_time[h].lo) + 1
  BY <1>1, TickAgo DEF Since
<1>3. Since(h) \in 0 .. Word - 1
  BY <1>1, AgoType DEF Since
<1> QED
  BY <1>1, <1>2, <1>3 DEF Since

LEMMA TickBusy ==
  ASSUME TypeOK, Tick, NEW u \in Thread, NEW h
  PROVE  /\ Busy(u, h)' <=> Busy(u, h)
         /\ Busy(u, h) => age'[u] = age[u] + 1
         /\ at'[u] # "rest" /\ doing'[u] = doing[u]
         /\ at[u] \notin {"idle", "rest"} => at'[u] = at[u] /\ age'[u] = age[u] + 1
         /\ at'[u] # "idle" => at'[u] = at[u]
         /\ age[u] \in Nat
BY DEF TypeOK, Tick, Busy, Calling

LEMMA TickHeld ==
  ASSUME TypeOK, FreshInv, HeldInv, Tick
  PROVE  HeldInv'
<1>1. ASSUME NEW u \in Thread, NEW h \in Boosting, NEW l \in Left, Binding(u, h, l)'
      PROVE  Held(u, h, l)'
  <2> DEFINE m == l + 1
  <2>1. /\ Binding(u, h, m) /\ m \in Left /\ m <= hint_interval(h)
        /\ Reach(h, l) = Reach(h, m) + 1 /\ SignHalf' = SignHalf /\ now # 0
    BY <1>1, TickBinding
  <2> HIDE DEF m
  <2>2. /\ HeldOut(u, h, m) /\ HeldHigh(u, h, m) /\ HeldLow(u, h, m)
        /\ HeldCheck(u, h, m)
    BY <2>1 DEF HeldInv, Held
  <2>3. /\ h \in Hint /\ hint_time' = hint_time /\ Reach(h, l)' = Reach(h, l)
        /\ Reach(h, m) \in Nat /\ Reach(h, m) < Word - 1
    <3>1. m \in Nat /\ m >= 1 /\ hint_interval(h) + MaxLag <= Half /\ hint_interval(h) \in Nat /\ h \in Hint
      BY <2>1, BoostTimes DEF Left
    <3>2. Reach(h, m) \in Nat /\ Reach(h, m) < Word - 1
      BY <2>1, <3>1, WordFacts, HalfFacts DEF Reach
    <3> QED
      BY <3>1, <3>2 DEF Tick, Reach, hint_interval
  <2>4. Since(h) \in Nat
    BY <2>3, SinceType
  <2>5. Since(h) <= Reach(h, m) => Since(h)' = Since(h) + 1
    <3>1. Since(h) <= Reach(h, m) => Since(h) < Word - 1
      BY <2>3, <2>4, WordFacts
    <3> QED
      BY <2>3, <3>1, TickSince
  <2>6. /\ Busy(u, h)' <=> Busy(u, h)
        /\ at'[u] # "rest" /\ (at'[u] # "idle" => at'[u] = at[u])
        /\ (at[u] \notin {"idle", "rest"} => at'[u] = at[u] /\ age'[u] = age[u] + 1)
        /\ doing'[u] = doing[u] /\ age[u] \in Nat
    BY TickBusy
  <2>7. HeldOut(u, h, l)'
    BY <2>1, <2>2, <2>3, <2>4, <2>5, <2>6 DEF HeldOut
  <2>8. HeldHigh(u, h, l)'
    BY <2>1, <2>2, <2>3, <2>4, <2>5, <2>6 DEF HeldHigh
  <2>9. HeldLow(u, h, l)'
    BY <2>1, <2>2, <2>3, <2>6 DEF HeldLow
  <2>10. ASSUME NEW v \in Thread, Busy(v, h)' PROVE Busy(v, h) /\ age'[v] = age[v] + 1 /\ age[v] \in Nat
    BY <2>10, TickBusy
  <2>11. HeldCheck(u, h, l)'
    <3>1. ASSUME at'[u] = "check", doing'[u] = h
          PROVE  Since(h)' >= age'[u] /\ \A v \in Thread : Busy(v, h)' => age'[v] >= age'[u]
      <4>1. at[u] = "check" /\ doing[u] = h /\ ~ Busy(u, h)
        BY <2>6, <3>1 DEF Busy
      <4>2. /\ Since(h) >= age[u] /\ Since(h) <= Reach(h, m)
            /\ \A v \in Thread : Busy(v, h) => age[v] >= age[u]
        BY <2>2, <4>1 DEF HeldCheck, HeldOut
      <4> QED
        BY <2>4, <2>5, <2>6, <2>10, <4>1, <4>2
    <3> QED
      BY <3>1 DEF HeldCheck
  <2>12. HeldZero(u, h, l)'
    <3>1. ASSUME ~ Busy(u, h)'
          PROVE  Since(h)' >= 1 /\ \A v \in Thread : Busy(v, h)' => age'[v] >= 1
      <4>1. Since(h) <= Reach(h, m)
        BY <2>1, <2>2, <2>6, <3>1 DEF HeldOut
      <4> QED
        BY <2>4, <2>5, <2>10, <4>1
    <3> QED
      BY <3>1 DEF HeldZero
  <2> QED
    BY <2>7, <2>8, <2>9, <2>11, <2>12 DEF Held
<1>2. Boosting' = Boosting /\ Left' = Left
  BY DEF Boosting, Left
<1> QED
  BY <1>1, <1>2 DEF HeldInv

LEMMA TickPush ==
  ASSUME TypeOK, FreshInv, PushInv, Tick
  PROVE  PushInv'
<1>1. ASSUME NEW u \in Thread, NEW h \in Boosting, NEW l \in Left,
             at'[u] = "boost", doing'[u] = h, Binding(u, h, l)'
      PROVE  FALSE
  <2>1. Binding(u, h, l + 1) /\ l + 1 \in Left
    BY <1>1, TickBinding
  <2>2. at[u] = "boost" /\ doing[u] = h
    BY <1>1, TickBusy
  <2> QED
    BY <2>1, <2>2 DEF PushInv
<1>2. Boosting' = Boosting /\ Left' = Left
  BY DEF Boosting, Left
<1> QED
  BY <1>1, <1>2 DEF PushInv

-----------------------------------------------------------------------------
(* The boosts when a thread moves.                                         *)

LEMMA ThreadRead ==
  ASSUME TypeOK, CallInv, ReadInv, NEW u \in Thread, ThreadStep(u)
  PROVE  ReadInv'
<1>1. ASSUME NEW v \in Thread, Calling(v)', doing'[v] \in Hint PROVE t'[v] = ClockAt(Low(t'[v]))
  <2>1. CASE v # u
    <3>1. at'[v] = at[v] /\ doing'[v] = doing[v] /\ t'[v] = t[v]
      BY <2>1, Others
    <3> QED
      BY <1>1, <3>1 DEF ReadInv, Calling
  <2>2. CASE v = u
    <3>1. \/ t'[u] = Clock
          \/ Calling(u) /\ doing[u] \in Hint /\ doing'[u] = doing[u] /\ t'[u] = t[u]
      BY <1>1, <2>2, Own DEF Calling
    <3>2. Clock = ClockAt(now) /\ Low(ClockAt(now)) = now
      BY ClockNow, ClockHalves DEF TypeOK
    <3>3. CASE t'[u] = Clock
      BY <2>2, <3>2, <3>3, Zenon
    <3>4. CASE Calling(u) /\ doing[u] \in Hint /\ doing'[u] = doing[u] /\ t'[u] = t[u]
      BY <2>2, <3>4 DEF ReadInv
    <3> QED
      BY <3>1, <3>3, <3>4
  <2> QED
    BY <2>1, <2>2
<1>2. \A v \in Thread : (Calling(v) /\ doing[v] \in Hint => t[v] = ClockAt(Low(t[v])))'
  BY <1>1 DEF ClockAt, Half, Low
<1> QED
  BY <1>2 DEF ReadInv

\* Only requestPmQosTimed makes a boost.
LEMMA PushOnly ==
  ASSUME NEW u \in Thread, ThreadStep(u)
  PROVE  boosts' = boosts \/ requestPmQosTimed(u)
BY DEF ThreadStep, common_power_init, common_power_set_interactive, common_power_hint,
       Drop, Take, StoreHigh, StoreLow

LEMMA PushStep ==
  ASSUME TypeOK, CallInv, NEW u \in Thread, requestPmQosTimed(u)
  PROVE  /\ at[u] = "boost" /\ boosts' = boosts \cup {Boost(u)}
         /\ at'[u] = IF doing[u] \in Hint THEN "store" ELSE "rest"
         /\ doing[u] \in Hint => doing'[u] = doing[u]
         /\ hint_time' = hint_time /\ now' = now
BY DEF requestPmQosTimed, Go, Stay, Return, TypeOK

LEMMA OwnPlace ==
  ASSUME TypeOK, CallInv, NEW u \in Thread, ThreadStep(u), ~ requestPmQosTimed(u)
  PROVE  /\ at'[u] = "boost" /\ doing'[u] \in Hint => Take(u)
         /\ at'[u] \in {"idle", "check", "boost"} => at[u] \in {"idle", "check", "boost"}
<1> USE DEF TypeOK, Enter, Go, Stay, Return
<1>1. CASE common_power_init(u)
  BY <1>1, NotHints DEF common_power_init
<1>2. CASE common_power_set_interactive(u)
  BY <1>2, NotHints DEF common_power_set_interactive
<1>3. ASSUME NEW h \in Hint, common_power_hint(u, h)
      PROVE  at[u] = "idle" /\ at'[u] = "check"
  BY <1>3 DEF common_power_hint
<1>4. CASE Drop(u)
  BY <1>4 DEF Drop
<1>5. CASE Take(u)
  BY <1>5 DEF Take
<1>6. CASE StoreHigh(u)
  BY <1>6 DEF StoreHigh
<1>7. CASE StoreLow(u)
  BY <1>7 DEF StoreLow
<1> QED
  BY <1>1, <1>2, <1>3, <1>4, <1>5, <1>6, <1>7 DEF ThreadStep

LEMMA ThreadFresh ==
  ASSUME TypeOK, CallInv, FreshInv, NEW u \in Thread, ThreadStep(u)
  PROVE  FreshInv'
<1>0. Boosting' = Boosting
  BY DEF Boosting
<1>1. CASE requestPmQosTimed(u)
  <2>1. at[u] = "boost" /\ boosts' = boosts \cup {Boost(u)} /\ at'[u] \in {"store", "rest"}
    BY <1>1, PushStep
  <2>2. /\ Boost(u).by = u /\ Boost(u).call = doing[u] /\ Boost(u).left = Duration(doing[u])
        /\ Duration(doing[u]) \in Nat
    BY Durations DEF Boost, TypeOK, Left
  <2>3. doing[u] \in Hint => doing[u] \in Boosting
    BY <2>1 DEF FreshInv
  <2>4. \A b \in boosts' : /\ b.left <= Duration(b.call)
                           /\ b.call \in Hint => b.call \in Boosting
    BY <2>1, <2>2, <2>3 DEF FreshInv
  <2>5. ASSUME NEW v \in Thread
        PROVE  /\ at'[v] = "boost" /\ doing'[v] \in Hint => doing'[v] \in Boosting
               /\ at'[v] \in {"idle", "check", "boost"} =>
                    \A b \in boosts' : b.by = v => b.left < Duration(b.call)
    <3>1. CASE v = u
      BY <2>1, <3>1
    <3>2. CASE v # u
      <4>1. at'[v] = at[v] /\ doing'[v] = doing[v]
        BY <3>2, Others
      <4>2. \A b \in boosts' : b.by = v => b \in boosts
        BY <2>1, <2>2, <3>2
      <4> QED
        BY <4>1, <4>2 DEF FreshInv
    <3> QED
      BY <3>1, <3>2
  <2> QED
    BY <1>0, <2>4, <2>5 DEF FreshInv, Duration
<1>2. CASE ~ requestPmQosTimed(u)
  <2>1. boosts' = boosts
    BY <1>2, PushOnly
  <2>2. ASSUME NEW v \in Thread
        PROVE  /\ at'[v] = "boost" /\ doing'[v] \in Hint => doing'[v] \in Boosting
               /\ at'[v] \in {"idle", "check", "boost"} =>
                    \A b \in boosts' : b.by = v => b.left < Duration(b.call)
    <3>1. CASE v = u
      <4>1. at'[u] = "boost" /\ doing'[u] \in Hint => doing'[u] \in Boosting
        <5>1. SUFFICES ASSUME at'[u] = "boost", doing'[u] \in Hint PROVE doing'[u] \in Boosting
          OBVIOUS
        <5>2. Take(u)
          BY <1>2, <5>1, OwnPlace
        <5>3. doing' = doing /\ doing[u] \in {"VSYNC", "INTERACTION", "LAUNCH"}
          BY <5>1, <5>2 DEF Take, Go, TypeOK
        <5> QED
          BY <5>1, <5>3 DEF Boosting
      <4>2. at'[u] \in {"idle", "check", "boost"} => at[u] \in {"idle", "check", "boost"}
        BY <1>2, OwnPlace
      <4> QED
        BY <2>1, <3>1, <4>1, <4>2 DEF FreshInv
    <3>2. CASE v # u
      <4>1. at'[v] = at[v] /\ doing'[v] = doing[v]
        BY <3>2, Others
      <4> QED
        BY <2>1, <4>1 DEF FreshInv
    <3> QED
      BY <3>1, <3>2
  <2>3. \A b \in boosts' : /\ b.left <= Duration(b.call)
                           /\ b.call \in Hint => b.call \in Boosting
    BY <2>1 DEF FreshInv
  <2> QED
    BY <1>0, <2>2, <2>3 DEF FreshInv, Duration
<1> QED
  BY <1>1, <1>2

\* What a thread has after a step, it had before or has just pushed.
LEMMA ThreadHas ==
  ASSUME TypeOK, CallInv, FreshInv, NEW u \in Thread, ThreadStep(u),
         NEW w \in Thread, NEW h \in Boosting, NEW l \in Left, Has(w, h, l)'
  PROVE  \/ Has(w, h, l)
         \/ /\ requestPmQosTimed(u) /\ w = u /\ h = doing[u] /\ l = hint_interval(h)
            /\ at[u] = "boost" /\ at'[u] = "store" /\ doing'[u] = h
<1>1. CASE boosts' = boosts
  BY <1>1 DEF Has
<1>2. CASE requestPmQosTimed(u)
  <2>1. /\ at[u] = "boost" /\ boosts' = boosts \cup {Boost(u)}
        /\ at'[u] = IF doing[u] \in Hint THEN "store" ELSE "rest"
        /\ doing[u] \in Hint => doing'[u] = doing[u]
    BY <1>2, PushStep
  <2> DEFINE b == [by |-> w, call |-> h, left |-> l]
  <2>2. b \in boosts \/ b = Boost(u)
    BY <2>1 DEF Has
  <2>3. CASE b = Boost(u)
    <3>1. b.by = w /\ b.call = h /\ b.left = l
      OBVIOUS
    <3>2. w = u /\ h = doing[u] /\ l = Duration(h)
      BY <2>3, <3>1 DEF Boost
    <3> QED
      BY <1>2, <2>1, <3>2, BoostTimes
  <2> QED
    BY <2>2, <2>3 DEF Has
<1> QED
  BY <1>1, <1>2, PushOnly

LEMMA ThreadSpaced ==
  ASSUME TypeOK, CallInv, FreshInv, SpacedInv, PushInv, NEW u \in Thread, ThreadStep(u)
  PROVE  SpacedInv'
<1>0. now' = now
  BY Others
<1>1. Turn' = Turn /\ Boosting' = Boosting /\ Left' = Left
  BY <1>0 DEF Turn, Half, Boosting, Left
<1>2. ASSUME NEW w \in Thread, NEW h \in Boosting, NEW l \in Left, NEW m \in Left,
             Has(w, h, l)', Has(w, h, m)', l < m
      PROVE  \/ m - l >= hint_interval(h) - MaxLag
             \/ hint_interval(h) - m <= Turn /\ Turn < Reach(h, l)
  <2>1. /\ l \in Nat /\ m \in Nat /\ hint_interval(h) \in Nat /\ MaxLag \in Nat /\ Turn \in Nat
    BY BoostTimes, WordFacts, HalfFacts DEF Left, Turn, TypeOK
  <2>2. CASE Has(w, h, l) /\ Has(w, h, m)
    BY <1>2, <2>2 DEF SpacedInv
  <2>3. CASE ~ Has(w, h, l)
    <3>1. requestPmQosTimed(u) /\ l = hint_interval(h)
      BY <1>2, <2>3, ThreadHas
    <3>2. FreshInv'
      BY ThreadFresh
    <3> DEFINE b == [by |-> w, call |-> h, left |-> m]
    <3>3. b \in boosts' /\ b.call = h /\ b.left = m
      BY <1>2 DEF Has
    <3> HIDE DEF b
    <3>4. m <= hint_interval(h)
      BY <3>2, <3>3, BoostTimes DEF FreshInv, Duration
    <3> QED
      BY <1>2, <2>1, <3>1, <3>4
  <2>4. CASE Has(w, h, l) /\ ~ Has(w, h, m)
    <3>1. w = u /\ h = doing[u] /\ m = hint_interval(h) /\ at[u] = "boost"
      BY <1>2, <2>4, ThreadHas
    <3>2. ~ Binding(u, h, l)
      BY <3>1 DEF PushInv
    <3>3. ~ (l > MaxLag /\ Turn >= Reach(h, l))
      BY <2>4, <3>1, <3>2 DEF Binding
    <3> HIDE DEF Turn
    <3> QED
      BY <2>1, <3>1, <3>3 DEF Reach
  <2> QED
    BY <2>2, <2>3, <2>4
<1> QED
  BY <1>1, <1>2 DEF SpacedInv, Reach, hint_interval

\* The distances that a binding boost gives.
LEMMA BindingFacts ==
  ASSUME TypeOK, FreshInv, NEW w \in Thread, NEW h \in Boosting, NEW l \in Left, Binding(w, h, l)
  PROVE  /\ h \in Hint /\ Turn \in Nat /\ MaxLag \in Nat /\ Reach(h, l) \in Nat
         /\ MaxLag <= Reach(h, l) /\ Reach(h, l) <= Turn /\ Reach(h, l) < hint_interval(h)
<1> DEFINE b == [by |-> w, call |-> h, left |-> l]
<1>1. b \in boosts /\ b.call = h /\ b.left = l
  BY DEF Binding, Has
<1> HIDE DEF b
<1>2. l <= hint_interval(h)
  BY <1>1, BoostTimes DEF FreshInv
<1>3. Turn \in Nat
  BY HalfFacts, WordFacts DEF Turn, TypeOK
<1>4. l > MaxLag /\ Turn >= Reach(h, l)
  BY DEF Binding
<1> HIDE DEF Turn
<1> QED
  BY <1>2, <1>3, <1>4, BoostTimes, WordFacts DEF Reach, Left

\* A call whose clock was read since the sign changed carries that sign.
LEMMA SameSign ==
  ASSUME TypeOK, CallInv, ReadInv, NEW v \in Thread, Calling(v), doing[v] \in Hint,
         MaxLag <= Turn, now = 0 => age[v] >= 1
  PROVE  High(t[v]) = SignHalf
<1>1. /\ t[v] = ClockAt(Low(t[v])) /\ Ago(now, Low(t[v])) = age[v]
      /\ Low(t[v]) \in 0 .. Word - 1
  BY HalvesType DEF ReadInv, CallInv, TypeOK
<1>2. /\ now \in 0 .. Word - 1 /\ age[v] \in Nat /\ age[v] <= MaxLag
  BY WordFacts DEF TypeOK
<1> DEFINE b == Low(t[v])
           a == age[v]
           k == (Wide \div Word) - 1
<1>3. High(t[v]) = IF b < Half THEN 0 ELSE k
  BY <1>1, ClockHalves
<1>4. b \in 0 .. Word - 1 /\ a \in Nat /\ a <= MaxLag /\ Ago(now, b) = a /\ (now = 0 => a >= 1)
  BY <1>1, <1>2
<1> HIDE DEF a, b, k
<1>5. a <= Turn /\ MaxLag <= Word \div 4 /\ MaxLag \in Nat /\ Turn \in Nat
  BY <1>2, <1>4, WordFacts, HalfFacts DEF Turn
<1>6. b < Half <=> now \in 1 .. Half - 1
  BY <1>2, <1>4, <1>5, WordFacts, HalfFacts DEF Ago, Turn
<1> QED
  BY <1>3, <1>6 DEF SignHalf, k

\* A thread that is held is not the only one: whoever read the clock since the
\* stored time is dropped.
LEMMA HeldSoon ==
  ASSUME TypeOK, CallInv, ReadInv, FreshInv, HeldInv,
         NEW w \in Thread, NEW h \in Boosting, NEW l \in Left, Binding(w, h, l),
         ~ Busy(w, h), at[w] # "rest",
         NEW v \in Thread, at[v] = "check", doing[v] = h, age[v] <= Since(h)
  PROVE  TooSoon(h, t[v])
<1>1. Held(w, h, l)
  BY DEF HeldInv
<1>2. /\ hint_time[h].hi = SignHalf /\ Since(h) <= Reach(h, l)
      /\ now = 0 => Since(h) >= 1
  BY <1>1 DEF Held, HeldOut, HeldZero
<1>3. /\ h \in Hint /\ Reach(h, l) \in Nat /\ Reach(h, l) <= Turn /\ Turn \in Nat
      /\ Reach(h, l) < hint_interval(h)
  BY BindingFacts
<1>4. /\ t[v] = ClockAt(Low(t[v])) /\ Ago(now, Low(t[v])) = age[v]
      /\ Low(t[v]) \in 0 .. Word - 1 /\ t[v] \in 0 .. Wide - 1
  BY <1>3, HalvesType DEF ReadInv, CallInv, TypeOK, Calling
<1>5. Since(h) \in Nat /\ hint_time[h].lo \in 0 .. Word - 1 /\ hint_interval(h) \in Nat
  BY <1>3, SinceType, Intervals
<1>6. Since(h) <= Turn /\ Since(h) < hint_interval(h)
  BY <1>2, <1>3, <1>5
<1>7. age[v] \in Nat /\ now \in 0 .. Word - 1
  BY WordFacts DEF TypeOK
<1> QED
  BY <1>2, <1>3, <1>4, <1>5, <1>6, <1>7, StillSoon

LEMMA TakePush ==
  ASSUME TypeOK, CallInv, ReadInv, FreshInv, HeldInv, NEW u \in Thread, Take(u),
         NEW h \in Boosting, doing[u] = h, NEW l \in Left
  PROVE  ~ Binding(u, h, l)
<1> SUFFICES ASSUME Binding(u, h, l) PROVE FALSE
  OBVIOUS
<1>1. at[u] = "check" /\ ~ TooSoon(h, t[u]) /\ ~ Busy(u, h)
  BY DEF Take, Busy
<1>2. Since(h) >= age[u]
  BY <1>1 DEF HeldInv, Held, HeldCheck
<1>3. age[u] <= Since(h)
  BY <1>2, SinceType, WordFacts DEF TypeOK, Boosting
<1> QED
  BY <1>1, <1>3, HeldSoon

LEMMA ThreadBinding ==
  ASSUME TypeOK, CallInv, FreshInv, NEW u \in Thread, ThreadStep(u),
         NEW w \in Thread, NEW h \in Boosting, NEW l \in Left, Binding(w, h, l)'
  PROVE  \/ Binding(w, h, l)
         \/ requestPmQosTimed(u) /\ w = u /\ at'[u] = "store" /\ doing'[u] = h
<1>1. Turn' = Turn
  BY Others DEF Turn, Half
<1>2. Has(w, h, l)' /\ l > MaxLag /\ Turn >= Reach(h, l)
  BY <1>1 DEF Binding, Reach, hint_interval
<1>3. \/ Has(w, h, l)
      \/ requestPmQosTimed(u) /\ w = u /\ at'[u] = "store" /\ doing'[u] = h
  BY <1>2, ThreadHas
<1> QED
  BY <1>2, <1>3 DEF Binding

LEMMA ThreadPush ==
  ASSUME TypeOK, CallInv, ReadInv, FreshInv, HeldInv, PushInv, NEW u \in Thread, ThreadStep(u)
  PROVE  PushInv'
<1>1. ASSUME NEW w \in Thread, NEW h \in Boosting, NEW l \in Left,
             at'[w] = "boost", doing'[w] = h, Binding(w, h, l)'
      PROVE  FALSE
  <2>1. Binding(w, h, l)
    BY <1>1, ThreadBinding
  <2>2. CASE w # u
    <3>1. at[w] = "boost" /\ doing[w] = h
      BY <1>1, <2>2, Others
    <3> QED
      BY <2>1, <3>1 DEF PushInv
  <2>3. CASE w = u
    <3>0. h \in Hint
      BY DEF Boosting
    <3>1. ~ requestPmQosTimed(u)
      BY <1>1, <2>3, PushStep
    <3>2. Take(u)
      BY <1>1, <2>3, <3>0, <3>1, OwnPlace
    <3>3. doing[u] = h
      BY <1>1, <2>3, <3>2 DEF Take
    <3> QED
      BY <2>1, <2>3, <3>2, <3>3, TakePush
  <2> QED
    BY <2>2, <2>3
<1>2. Boosting' = Boosting /\ Left' = Left
  BY DEF Boosting, Left
<1> QED
  BY <1>1, <1>2 DEF PushInv

\* A step that leaves the stored times alone and makes no thread busy keeps
\* the others held; the thread itself must not begin to count.
LEMMA HeldFrame ==
  ASSUME TypeOK, NEW u \in Thread, ThreadStep(u),
         NEW w \in Thread, NEW h \in Boosting, NEW l \in Left, w # u, Held(w, h, l),
         hint_time'[h] = hint_time[h], Busy(u, h)' => Busy(u, h) /\ age'[u] = age[u]
  PROVE  Held(w, h, l)'
<1>1. /\ now' = now /\ at'[w] = at[w] /\ doing'[w] = doing[w] /\ age'[w] = age[w]
      /\ Busy(w, h)' <=> Busy(w, h)
  BY Others DEF Busy
<1>2. SignHalf' = SignHalf /\ Since(h)' = Since(h) /\ Reach(h, l)' = Reach(h, l)
  BY <1>1 DEF SignHalf, Half, Since, Ago, Reach, hint_interval
<1>3. ASSUME NEW v \in Thread, Busy(v, h)' PROVE Busy(v, h) /\ age'[v] = age[v]
  <2>1. CASE v = u
    BY <1>3, <2>1
  <2>2. CASE v # u
    BY <1>3, <2>2, Others DEF Busy
  <2> QED
    BY <2>1, <2>2
<1>4. HeldOut(w, h, l)'
  BY <1>1, <1>2 DEF Held, HeldOut
<1>5. HeldHigh(w, h, l)'
  BY <1>1, <1>2 DEF Held, HeldHigh
<1>6. HeldLow(w, h, l)'
  BY <1>1, <1>2 DEF Held, HeldLow
<1>7. HeldCheck(w, h, l)'
  BY <1>1, <1>2, <1>3 DEF Held, HeldCheck
<1>8. HeldZero(w, h, l)'
  BY <1>1, <1>2, <1>3 DEF Held, HeldZero
<1> QED
  BY <1>4, <1>5, <1>6, <1>7, <1>8 DEF Held

LEMMA HeldAside ==
  ASSUME TypeOK, NEW u \in Thread, ThreadStep(u),
         NEW h \in Boosting, NEW l \in Left, Held(u, h, l),
         hint_time'[h] = hint_time[h], ~ Busy(u, h), ~ Busy(u, h)', at[u] # "rest",
         at'[u] = "check" => age'[u] = 0
  PROVE  Held(u, h, l)'
<1>1. now' = now /\ h \in Hint
  BY Others DEF Boosting
<1>2. SignHalf' = SignHalf /\ Since(h)' = Since(h) /\ Reach(h, l)' = Reach(h, l)
  BY <1>1 DEF SignHalf, Half, Since, Ago, Reach, hint_interval
<1>3. ASSUME NEW v \in Thread, Busy(v, h)'
      PROVE  Busy(v, h) /\ age'[v] = age[v] /\ age[v] \in Nat
  <2>1. CASE v = u
    BY <1>3, <2>1
  <2>2. CASE v # u
    BY <1>3, <2>2, Others, WordFacts DEF Busy, TypeOK
  <2> QED
    BY <2>1, <2>2
<1>4. HeldOut(u, h, l)'
  BY <1>1, <1>2 DEF Held, HeldOut
<1>5. HeldHigh(u, h, l)' /\ HeldLow(u, h, l)'
  BY DEF HeldHigh, HeldLow
<1>6. HeldCheck(u, h, l)'
  <2>1. Since(h) \in Nat
    BY <1>1, SinceType
  <2> QED
    BY <1>2, <1>3, <2>1 DEF HeldCheck
<1>7. HeldZero(u, h, l)'
  BY <1>1, <1>2, <1>3 DEF Held, HeldZero
<1> QED
  BY <1>4, <1>5, <1>6, <1>7 DEF Held

LEMMA HeldBusy ==
  ASSUME NEW u, NEW h, NEW l, Busy(u, h)', at'[u] \in {"boost", "store"}
  PROVE  Held(u, h, l)'
BY DEF Held, HeldOut, HeldHigh, HeldLow, HeldCheck, HeldZero

LEMMA TakeHeld ==
  ASSUME TypeOK, CallInv, ReadInv, FreshInv, HeldInv, NEW u \in Thread, Take(u),
         NEW w \in Thread, NEW h \in Boosting, NEW l \in Left, Binding(w, h, l)
  PROVE  Held(w, h, l)'
<1>0. /\ at[u] = "check" /\ at'[u] \in {"boost", "store"} /\ doing' = doing /\ age' = age
      /\ hint_time' = hint_time /\ ~ TooSoon(doing[u], t[u]) /\ h \in Hint /\ now' = now
  BY DEF Take, Go, TypeOK, Boosting
<1>1. ThreadStep(u) /\ Held(w, h, l)
  BY DEF ThreadStep, HeldInv
<1>2. CASE doing[u] # h
  <2>1. ~ Busy(u, h) /\ ~ Busy(u, h)'
    BY <1>0, <1>2 DEF Busy
  <2> QED
    BY <1>0, <1>1, <2>1, HeldFrame, HeldAside
<1>3. CASE doing[u] = h /\ w = u
  <2>1. Busy(u, h)'
    BY <1>0, <1>3 DEF Busy
  <2> QED
    BY <1>0, <1>3, <2>1, HeldBusy
<1>4. CASE doing[u] = h /\ w # u
  <2>1. /\ at'[w] = at[w] /\ doing'[w] = doing[w] /\ age'[w] = age[w]
        /\ Busy(w, h)' <=> Busy(w, h)
    BY <1>1, <1>4, Others DEF Busy
  <2>2. SignHalf' = SignHalf /\ Since(h)' = Since(h) /\ Reach(h, l)' = Reach(h, l)
    BY <1>0 DEF SignHalf, Half, Since, Ago, Reach, hint_interval
  <2>3. ASSUME NEW v \in Thread, v # u, Busy(v, h)' PROVE Busy(v, h) /\ age'[v] = age[v]
    BY <1>1, <2>3, Others DEF Busy
  <2>4. Since(h) \in Nat /\ age[u] \in Nat /\ age[w] \in Nat
    BY <1>0, SinceType, WordFacts DEF TypeOK
  \* The call that is taken read the clock before the stored time.
  <2>5. ~ Busy(w, h) /\ at[w] # "rest" => ~ (age[u] <= Since(h))
    BY <1>0, <1>4, HeldSoon
  <2>6. HeldOut(w, h, l)' /\ HeldHigh(w, h, l)' /\ HeldLow(w, h, l)'
    BY <1>0, <1>1, <2>1, <2>2 DEF Held, HeldOut, HeldHigh, HeldLow
  <2>7. HeldCheck(w, h, l)'
    <3>1. ASSUME at[w] = "check", doing[w] = h
          PROVE  /\ Since(h) >= age[w] /\ age[u] >= age[w]
                 /\ \A v \in Thread : Busy(v, h) => age[v] >= age[w]
      <4>1. ~ Busy(w, h) /\ Since(h) >= age[w]
        BY <1>1, <3>1 DEF Busy, Held, HeldCheck
      <4> QED
        BY <1>1, <2>4, <2>5, <3>1, <4>1 DEF Held, HeldCheck
    <3> QED
      BY <1>0, <2>1, <2>2, <2>3, <3>1 DEF HeldCheck
  <2>8. HeldZero(w, h, l)'
    <3>1. ASSUME now = 0, ~ Busy(w, h), at[w] # "rest"
          PROVE  /\ Since(h) >= 1 /\ age[u] >= 1
                 /\ \A v \in Thread : Busy(v, h) => age[v] >= 1
      <4>1. Since(h) >= 1 /\ \A v \in Thread : Busy(v, h) => age[v] >= 1
        BY <1>1, <3>1 DEF Held, HeldZero
      <4> QED
        BY <2>4, <2>5, <3>1, <4>1
    <3> QED
      BY <1>0, <2>1, <2>2, <2>3, <3>1 DEF HeldZero
  <2> QED
    BY <2>6, <2>7, <2>8 DEF Held
<1> QED
  BY <1>2, <1>3, <1>4

\* The high half that is written has the clock's present sign.
LEMMA StoreHighHeld ==
  ASSUME TypeOK, CallInv, ReadInv, FreshInv, HeldInv, NEW u \in Thread, StoreHigh(u),
         NEW w \in Thread, NEW h \in Boosting, NEW l \in Left, Binding(w, h, l)
  PROVE  Held(w, h, l)'
<1>0. PICK g \in Hint : g = doing[u]
  BY DEF StoreHigh, CallInv
<1>1. /\ at[u] \in {"store", "storeHi"} /\ now' = now /\ h \in Hint
      /\ hint_time' = [hint_time EXCEPT ![g].hi = High(t[u])]
      /\ \/ at[u] = "storeHi" /\ at'[u] = "rest"
         \/ at[u] = "store" /\ at'[u] = "storeLo" /\ doing' = doing /\ age' = age
  BY <1>0 DEF StoreHigh, Go, Stay, Return, TypeOK, Boosting
<1>2. ThreadStep(u) /\ Held(w, h, l)
  BY DEF ThreadStep, HeldInv
<1>3. CASE g # h
  <2>1. hint_time'[h] = hint_time[h] /\ ~ Busy(u, h) /\ ~ Busy(u, h)'
    BY <1>0, <1>1, <1>3 DEF Busy, TypeOK
  <2> QED
    BY <1>1, <1>2, <2>1, HeldFrame, HeldAside
<1>4. CASE g = h
  <2>1. hint_time'[h].hi = High(t[u]) /\ hint_time'[h].lo = hint_time[h].lo
    BY <1>1, <1>4 DEF TypeOK
  <2>2. SignHalf' = SignHalf /\ Since(h)' = Since(h) /\ Reach(h, l)' = Reach(h, l)
    BY <1>1, <2>1 DEF SignHalf, Half, Since, Ago, Reach, hint_interval
  <2>3. Busy(u, h) /\ Calling(u)
    BY <1>0, <1>1, <1>4 DEF Busy, Calling
  <2>4. (now = 0 => age[u] >= 1) => hint_time'[h].hi = SignHalf
    <3>1. MaxLag <= Turn
      BY BindingFacts
    <3> QED
      BY <1>0, <2>1, <2>3, <3>1, SameSign
  <2>5. CASE w = u
    <3>1. CASE at[u] = "storeHi" /\ at'[u] = "rest"
      <4>1. Since(h) <= Reach(h, l)
        BY <1>2, <2>3, <2>5, <3>1 DEF Held, HeldHigh
      <4>2. ~ Busy(u, h)'
        BY <3>1 DEF Busy
      <4> QED
        BY <1>1, <2>2, <2>4, <2>5, <3>1, <4>1, <4>2
        DEF Held, HeldOut, HeldHigh, HeldLow, HeldCheck, HeldZero
    <3>2. CASE at[u] = "store" /\ at'[u] = "storeLo" /\ doing' = doing /\ age' = age
      <4>1. Busy(u, h)'
        BY <1>0, <1>4, <3>2 DEF Busy
      <4> QED
        BY <1>1, <2>2, <2>4, <2>5, <3>2, <4>1
        DEF Held, HeldOut, HeldHigh, HeldLow, HeldCheck, HeldZero
    <3> QED
      BY <1>1, <3>1, <3>2
  <2>6. CASE w # u
    <3>1. /\ at'[w] = at[w] /\ doing'[w] = doing[w] /\ age'[w] = age[w]
          /\ Busy(w, h)' <=> Busy(w, h)
      BY <1>2, <2>6, Others DEF Busy
    <3>2. ASSUME NEW v \in Thread, Busy(v, h)' PROVE Busy(v, h) /\ age'[v] = age[v]
      <4>1. CASE v = u
        BY <1>1, <2>3, <3>2, <4>1 DEF Busy
      <4>2. CASE v # u
        BY <1>2, <3>2, <4>2, Others DEF Busy
      <4> QED
        BY <4>1, <4>2
    <3>3. HeldOut(w, h, l)'
      <4>1. ASSUME ~ Busy(w, h), now # 0 \/ at[w] # "rest"
            PROVE  hint_time'[h].hi = SignHalf /\ Since(h) <= Reach(h, l)
        <5>1. now = 0 => age[u] >= 1
          BY <1>2, <2>3, <4>1 DEF Held, HeldZero
        <5> QED
          BY <1>2, <2>4, <4>1, <5>1 DEF Held, HeldOut
      <4> QED
        BY <1>1, <2>2, <3>1, <4>1 DEF HeldOut
    <3>4. HeldHigh(w, h, l)' /\ HeldLow(w, h, l)'
      BY <1>1, <1>2, <2>2, <2>4, <3>1 DEF Held, HeldHigh, HeldLow
    <3>5. HeldCheck(w, h, l)' /\ HeldZero(w, h, l)'
      BY <1>1, <1>2, <2>2, <3>1, <3>2 DEF Held, HeldCheck, HeldZero
    <3> QED
      BY <3>3, <3>4, <3>5 DEF Held
  <2> QED
    BY <2>5, <2>6
<1> QED
  BY <1>3, <1>4

\* The low half that is written is at most as old as a call.
LEMMA StoreLowHeld ==
  ASSUME TypeOK, CallInv, ReadInv, FreshInv, HeldInv, NEW u \in Thread, StoreLow(u),
         NEW w \in Thread, NEW h \in Boosting, NEW l \in Left, Binding(w, h, l)
  PROVE  Held(w, h, l)'
<1>0. PICK g \in Hint : g = doing[u]
  BY DEF StoreLow, CallInv
<1>1. /\ at[u] \in {"store", "storeLo"} /\ now' = now /\ h \in Hint
      /\ hint_time' = [hint_time EXCEPT ![g].lo = Low(t[u])]
      /\ \/ at[u] = "storeLo" /\ at'[u] = "rest"
         \/ at[u] = "store" /\ at'[u] = "storeHi" /\ doing' = doing /\ age' = age
  BY <1>0 DEF StoreLow, Go, Stay, Return, TypeOK, Boosting
<1>2. ThreadStep(u) /\ Held(w, h, l)
  BY DEF ThreadStep, HeldInv
<1>3. CASE g # h
  <2>1. hint_time'[h] = hint_time[h] /\ ~ Busy(u, h) /\ ~ Busy(u, h)'
    BY <1>0, <1>1, <1>3 DEF Busy, TypeOK
  <2> QED
    BY <1>1, <1>2, <2>1, HeldFrame, HeldAside
<1>4. CASE g = h
  <2>1. hint_time'[h].lo = Low(t[u]) /\ hint_time'[h].hi = hint_time[h].hi
    BY <1>1, <1>4 DEF TypeOK
  <2>2. Busy(u, h) /\ Calling(u)
    BY <1>0, <1>1, <1>4 DEF Busy, Calling
  <2>3. Ago(now, Low(t[u])) = age[u]
    BY <1>0, <2>2 DEF CallInv
  <2>4. SignHalf' = SignHalf /\ Since(h)' = age[u] /\ Reach(h, l)' = Reach(h, l)
    BY <1>1, <2>1, <2>3 DEF SignHalf, Half, Since, Ago, Reach, hint_interval
  <2>5. age[u] <= Reach(h, l) /\ age[u] \in Nat
    <3>1. MaxLag <= Reach(h, l) /\ Reach(h, l) \in Nat
      BY BindingFacts
    <3> QED
      BY <3>1, WordFacts DEF TypeOK
  <2>6. CASE w = u
    <3>1. CASE at[u] = "storeLo" /\ at'[u] = "rest"
      <4>1. now # 0 => hint_time[h].hi = SignHalf
        BY <1>2, <2>2, <2>6, <3>1 DEF Held, HeldLow
      <4>2. ~ Busy(u, h)'
        BY <3>1 DEF Busy
      <4> QED
        BY <1>1, <2>1, <2>4, <2>5, <2>6, <3>1, <4>1, <4>2
        DEF Held, HeldOut, HeldHigh, HeldLow, HeldCheck, HeldZero
    <3>2. CASE at[u] = "store" /\ at'[u] = "storeHi" /\ doing' = doing /\ age' = age
      <4>1. Busy(u, h)'
        BY <1>0, <1>4, <3>2 DEF Busy
      <4> QED
        BY <1>1, <2>4, <2>5, <2>6, <3>2, <4>1
        DEF Held, HeldOut, HeldHigh, HeldLow, HeldCheck, HeldZero
    <3> QED
      BY <1>1, <3>1, <3>2
  <2>7. CASE w # u
    <3>1. /\ at'[w] = at[w] /\ doing'[w] = doing[w] /\ age'[w] = age[w]
          /\ Busy(w, h)' <=> Busy(w, h)
      BY <1>2, <2>7, Others DEF Busy
    <3>2. ASSUME NEW v \in Thread, Busy(v, h)' PROVE Busy(v, h) /\ age'[v] = age[v]
      <4>1. CASE v = u
        BY <1>1, <2>2, <3>2, <4>1 DEF Busy
      <4>2. CASE v # u
        BY <1>2, <3>2, <4>2, Others DEF Busy
      <4> QED
        BY <4>1, <4>2
    <3>3. HeldOut(w, h, l)' /\ HeldHigh(w, h, l)' /\ HeldLow(w, h, l)'
      BY <1>1, <1>2, <2>1, <2>4, <2>5, <3>1 DEF Held, HeldOut, HeldHigh, HeldLow
    <3>4. HeldCheck(w, h, l)' /\ HeldZero(w, h, l)'
      BY <1>1, <1>2, <2>2, <2>4, <3>1, <3>2 DEF Held, HeldCheck, HeldZero
    <3> QED
      BY <3>3, <3>4 DEF Held
  <2> QED
    BY <2>6, <2>7
<1> QED
  BY <1>3, <1>4

LEMMA ThreadHeld ==
  ASSUME TypeOK, CallInv, ReadInv, FreshInv, HeldInv, NEW u \in Thread, ThreadStep(u)
  PROVE  HeldInv'
<1>1. ASSUME NEW w \in Thread, NEW h \in Boosting, NEW l \in Left, Binding(w, h, l)'
      PROVE  Held(w, h, l)'
  <2>0. h \in Hint
    BY DEF Boosting
  <2>1. CASE ~ Binding(w, h, l)
    <3>1. w = u /\ at'[u] = "store" /\ doing'[u] = h
      BY <1>1, <2>1, ThreadBinding
    <3> QED
      BY <3>1, HeldBusy DEF Busy
  <2>2. CASE Binding(w, h, l)
    <3>0. Held(w, h, l)
      BY <2>2 DEF HeldInv
    <3>1. CASE common_power_init(u) \/ common_power_set_interactive(u)
      <4>1. at[u] = "idle" /\ at'[u] = "boost" /\ doing'[u] \in {"init", "wake"} /\ hint_time' = hint_time
        BY <3>1 DEF common_power_init, common_power_set_interactive, Enter, Go, TypeOK
      <4>2. ~ Busy(u, h) /\ ~ Busy(u, h)'
        BY <2>0, <4>1, NotHints DEF Busy
      <4> QED
        BY <3>0, <4>1, <4>2, HeldFrame, HeldAside
    <3>2. ASSUME NEW g \in Hint, common_power_hint(u, g) PROVE Held(w, h, l)'
      <4>1. at[u] = "idle" /\ at'[u] = "check" /\ hint_time' = hint_time /\ age'[u] = 0
        BY <3>2 DEF common_power_hint, Enter, Go, TypeOK, CallInv, Calling
      <4>2. ~ Busy(u, h) /\ ~ Busy(u, h)'
        BY <4>1 DEF Busy
      <4> QED
        BY <3>0, <4>1, <4>2, HeldFrame, HeldAside
    <3>3. CASE Drop(u)
      <4>1. at[u] = "check" /\ at'[u] = "rest" /\ hint_time' = hint_time
        BY <3>3 DEF Drop, Return, Go, TypeOK
      <4>2. ~ Busy(u, h) /\ ~ Busy(u, h)'
        BY <4>1 DEF Busy
      <4> QED
        BY <3>0, <4>1, <4>2, HeldFrame, HeldAside
    <3>4. CASE Take(u)
      BY <2>2, <3>4, TakeHeld
    <3>5. CASE requestPmQosTimed(u)
      <4>1. /\ at[u] = "boost" /\ hint_time' = hint_time
            /\ at'[u] = IF doing[u] \in Hint THEN "store" ELSE "rest"
            /\ doing[u] \in Hint => doing'[u] = doing[u]
        BY <3>5, PushStep
      <4>2. CASE Busy(u, h)'
        <5>1. doing[u] = h /\ at'[u] = "store" /\ Busy(u, h) /\ age'[u] = age[u]
          BY <2>0, <3>5, <4>1, <4>2 DEF Busy, requestPmQosTimed, Stay
        <5> QED
          BY <3>0, <4>1, <4>2, <5>1, HeldFrame, HeldBusy
      <4>3. CASE ~ Busy(u, h)'
        <5>1. ~ Busy(u, h) /\ at'[u] # "check"
          BY <2>0, <4>1, <4>3 DEF Busy
        <5> QED
          BY <3>0, <4>1, <4>3, <5>1, HeldFrame, HeldAside
      <4> QED
        BY <4>2, <4>3
    <3>6. CASE StoreHigh(u)
      BY <2>2, <3>6, StoreHighHeld
    <3>7. CASE StoreLow(u)
      BY <2>2, <3>7, StoreLowHeld
    <3> QED
      BY <3>1, <3>2, <3>3, <3>4, <3>5, <3>6, <3>7 DEF ThreadStep
  <2> QED
    BY <2>1, <2>2
<1>2. Boosting' = Boosting /\ Left' = Left
  BY DEF Boosting, Left
<1> QED
  BY <1>1, <1>2 DEF HeldInv

-----------------------------------------------------------------------------
(* How many boosts the spacing leaves room for.                            *)

LEMMA LeastGap ==
  ASSUME NEW S \in SUBSET Nat, S # {}
  PROVE  \E x \in S : \A y \in S : x <= y
<1> DEFINE R == OpToRel(<, Nat)
<1>1. IsWellFoundedOn(R, Nat)
  BY NatLessThanWellFounded
<1>2. \A x, y \in Nat : y < x => <<y, x>> \in R
  BY DEF OpToRel
<1> HIDE DEF R
<1>3. PICK x \in S : \A y \in S : ~ (<<y, x>> \in R)
  BY <1>1, WFMin
<1>4. ASSUME NEW y \in S PROVE x <= y
  <2>1. x \in Nat /\ y \in Nat
    OBVIOUS
  <2>2. ~ (y < x)
    BY <2>1, <1>2, <1>3, Zenon
  <2> QED
    BY <2>1, <2>2
<1> QED
  BY <1>4

Apart(S, d, n, c) == \A l, m \in S : l < m => m - l >= d - n \/ (c <= m /\ l < c + n)
Fits(S, k) == \E f \in [S -> 1 .. k] : \A l, m \in S : f[l] = f[m] => l = m

\* Times left below d, of which any two are nearly d apart or have the time c
\* between them, leave room for two more than the distance n that is missing.
LEMMA Room ==
  ASSUME NEW d \in Nat, NEW n \in Nat, NEW c \in Int, NEW S \in SUBSET (1 .. d), Apart(S, d, n, c)
  PROVE  Fits(S, n + 2)
<1> DEFINE Aside(l, m) == l < m /\ ~ (c <= m /\ l < c + n)
<1>1. CASE \A l, m \in S : ~ Aside(l, m)
  <2> DEFINE f == [l \in S |-> IF l < c THEN 1 ELSE IF l < c + n THEN l - c + 2 ELSE n + 2]
  <2>1. f \in [S -> 1 .. n + 2]
    OBVIOUS
  <2>2. ASSUME NEW l \in S, NEW m \in S, f[l] = f[m] PROVE l = m
    <3>1. ~ (l < m) /\ ~ (m < l)
      BY <1>1, <2>2
    <3> QED
      BY <3>1
  <2> HIDE DEF f
  <2> QED
    BY <2>1, <2>2 DEF Fits
<1>2. CASE \E l, m \in S : Aside(l, m)
  <2> DEFINE G == {g \in Nat : \E l, m \in S : Aside(l, m) /\ g = m - l}
  <2>1. G # {} /\ G \in SUBSET Nat
    <3>1. PICK l \in S, m \in S : Aside(l, m)
      BY <1>2
    <3>2. m - l \in G
      BY <3>1
    <3> QED
      BY <3>2
  <2>2. PICK g \in G : \A y \in G : g <= y
    BY <2>1, LeastGap
  <2>3. PICK l \in S, m \in S : Aside(l, m) /\ g = m - l
    BY <2>2
  <2>4. \A x, y \in S : Aside(x, y) => m - l <= y - x
    <3>1. SUFFICES ASSUME NEW x \in S, NEW y \in S, Aside(x, y) PROVE m - l <= y - x
      OBVIOUS
    <3>2. y - x \in G
      BY <3>1
    <3> HIDE DEF G
    <3> QED
      BY <2>2, <2>3, <3>2
  <2> HIDE DEF G
  <2>5. m - l >= d - n
    BY <2>3 DEF Apart
  <2>6. ASSUME NEW x \in S, l < x, x < m PROVE FALSE
    <3>1. Aside(l, x) \/ Aside(x, m)
      BY <2>3, <2>6
    <3> QED
      BY <2>4, <2>6, <3>1
  <2> DEFINE f == [x \in S |-> IF x <= l THEN x ELSE x - m + l + 1]
  <2>7. f \in [S -> 1 .. n + 2]
    <3>1. ASSUME NEW x \in S PROVE (IF x <= l THEN x ELSE x - m + l + 1) \in 1 .. n + 2
      <4>1. x <= l \/ x >= m
        BY <2>6
      <4> QED
        BY <2>3, <2>5, <4>1
    <3> QED
      BY <3>1
  <2>8. ASSUME NEW x \in S, NEW y \in S, f[x] = f[y] PROVE x = y
    <3>1. (x <= l \/ x >= m) /\ (y <= l \/ y >= m)
      BY <2>6
    <3> QED
      BY <2>3, <2>8, <3>1
  <2> HIDE DEF f
  <2> QED
    BY <2>7, <2>8 DEF Fits
<1> QED
  BY <1>1, <1>2

LEMMA BoundedCount ==
  ASSUME TypeOK, FreshInv, SpacedInv
  PROVE  BoostsBounded
<1> SUFFICES ASSUME NEW h \in Hint
             PROVE  Outstanding(h) <= (2 + MaxLag) * Cardinality(Thread)
  BY DEF BoostsBounded
<1> DEFINE B == {b \in boosts : b.call = h}
<1>0. /\ IsFiniteSet(Thread) /\ Cardinality(Thread) \in Nat /\ MaxLag \in Nat
      /\ Outstanding(h) = Cardinality(B)
  BY ThreadAssumption, FS_CardinalityType, WordFacts DEF Outstanding
<1>1. CASE h \notin Boosting
  <2>1. B = {}
    BY <1>1 DEF FreshInv
  <2>2. Cardinality(B) = 0
    BY <2>1, FS_EmptySet
  <2> QED
    BY <1>0, <2>2
<1>2. CASE h \in Boosting
  <2> DEFINE R == 1 .. MaxLag + 2
             S(u) == {l \in Left : Has(u, h, l)}
             Coded(u, f) == f \in [S(u) -> R] /\ \A l, m \in S(u) : f[l] = f[m] => l = m
             code(u) == CHOOSE f \in [S(u) -> R] : Coded(u, f)
  <2>1. ASSUME NEW u \in Thread PROVE Coded(u, code(u))
    <3> DEFINE d == hint_interval(h)
               c == d - Turn
    <3>1. d \in Nat /\ c \in Int /\ Turn \in Nat
      BY <1>2, BoostTimes, HalfFacts, WordFacts DEF Turn, TypeOK
    <3>2. S(u) \in SUBSET (1 .. d)
      <4>1. ASSUME NEW l \in Left, Has(u, h, l) PROVE l \in 1 .. d
        <5> DEFINE b == [by |-> u, call |-> h, left |-> l]
        <5>1. b \in boosts /\ b.call = h /\ b.left = l
          BY <4>1 DEF Has
        <5> HIDE DEF b
        <5> QED
          BY <1>2, <5>1, BoostTimes DEF FreshInv, Left
      <4> QED
        BY <4>1
    <3>3. Apart(S(u), d, MaxLag, c)
      <4> SUFFICES ASSUME NEW l \in S(u), NEW m \in S(u), l < m
                   PROVE  m - l >= d - MaxLag \/ (c <= m /\ l < c + MaxLag)
        BY DEF Apart
      <4>1. m - l >= d - MaxLag \/ (d - m <= Turn /\ Turn < Reach(h, l))
        BY <1>2 DEF SpacedInv
      <4>2. l \in Nat /\ m \in Nat
        BY DEF Left
      <4> QED
        BY <1>0, <3>1, <4>1, <4>2 DEF Reach
    <3> HIDE DEF S, d, c
    <3>4. Fits(S(u), MaxLag + 2)
      BY <1>0, <3>1, <3>2, <3>3, Room
    <3>5. \E f \in [S(u) -> R] : Coded(u, f)
      BY <3>4 DEF Fits
    <3> HIDE DEF R, Coded
    <3> QED
      BY <3>5
  <2> DEFINE F == [b \in B |-> <<b.by, code(b.by)[b.left]>>]
  <2>2. ASSUME NEW b \in B
        PROVE  /\ b \in [by : Thread, call : Call, left : Left] /\ b.call = h
               /\ b.by \in Thread /\ b.left \in S(b.by)
    <3>1. b \in [by : Thread, call : Call, left : Left] /\ b.call = h /\ b \in boosts
      BY DEF TypeOK
    <3>2. b = [by |-> b.by, call |-> h, left |-> b.left]
      BY <3>1
    <3>3. b.by \in Thread /\ b.left \in Left
      BY <3>1
    <3>4. Has(b.by, h, b.left)
      BY <3>1, <3>2 DEF Has
    <3> QED
      BY <3>1, <3>3, <3>4
  <2> HIDE DEF S, code, R, B
  <2>3. F \in [B -> Thread \X R]
    <3>1. ASSUME NEW b \in B PROVE <<b.by, code(b.by)[b.left]>> \in Thread \X R
      <4>1. b.by \in Thread /\ b.left \in S(b.by)
        BY <2>2
      <4>2. code(b.by) \in [S(b.by) -> R]
        BY <2>1, <4>1
      <4> QED
        BY <4>1, <4>2
    <3> QED
      BY <3>1
  <2>4. ASSUME NEW a \in B, NEW b \in B, F[a] = F[b] PROVE a = b
    <3>1. a.by = b.by /\ code(a.by)[a.left] = code(b.by)[b.left]
      BY <2>4
    <3>2. /\ a \in [by : Thread, call : Call, left : Left] /\ a.call = h
          /\ a.by \in Thread /\ a.left \in S(a.by)
      BY <2>2
    <3>3. /\ b \in [by : Thread, call : Call, left : Left] /\ b.call = h
          /\ b.by \in Thread /\ b.left \in S(b.by)
      BY <2>2
    <3>4. a.left = b.left
      BY <2>1, <3>1, <3>2, <3>3
    <3> QED
      BY <3>1, <3>2, <3>3, <3>4
  <2> HIDE DEF F
  <2>5. F \in Injection(B, Thread \X R)
    BY <2>3, <2>4 DEF Injection, IsInjective
  <2>6. IsFiniteSet(R) /\ Cardinality(R) = MaxLag + 2
    BY <1>0, FS_Interval DEF R
  <2>7. IsFiniteSet(Thread \X R) /\ Cardinality(Thread \X R) = Cardinality(Thread) * Cardinality(R)
    BY <1>0, <2>6, FS_Product
  <2>8. Cardinality(B) <= Cardinality(Thread \X R)
    BY <2>5, <2>7, FS_Injection
  <2>9. Cardinality(Thread) * (MaxLag + 2) = (2 + MaxLag) * Cardinality(Thread)
    BY <1>0
  <2> QED
    BY <1>0, <2>6, <2>7, <2>8, <2>9
<1> QED
  BY <1>1, <1>2

-----------------------------------------------------------------------------
(* The theorems.                                                           *)

LEMMA InitHint == Init => HintInv
<1> SUFFICES ASSUME Init PROVE HintInv
  OBVIOUS
<1>1. TypeOK
  BY InitType
<1>2. CallInv /\ StoreInv /\ LimitInv
  BY DEF Init, CallInv, StoreInv, LimitInv, Calling
<1>3. NeverDeaf
  BY Intervals, WordFacts DEF Init, NeverDeaf
<1> QED
  BY <1>1, <1>2, <1>3 DEF HintInv

LEMMA HintStep == HintInv /\ [Next]_vars => HintInv'
<1> SUFFICES ASSUME HintInv, [Next]_vars PROVE HintInv'
  OBVIOUS
<1>0. TypeOK /\ CallInv /\ StoreInv /\ LimitInv /\ NeverDeaf
  BY DEF HintInv
<1>1. CASE Tick
  BY <1>0, <1>1, TickType, TickCall, TickStore, TickLimit DEF HintInv
<1>2. ASSUME NEW u \in Thread, ThreadStep(u) PROVE HintInv'
  <2>1. NeverDeaf'
    BY <1>0, <1>2, Others DEF NeverDeaf
  <2> QED
    BY <1>0, <1>2, <2>1, ThreadType, ThreadCall, ThreadStore, ThreadLimit DEF HintInv
<1>3. CASE UNCHANGED vars
  BY <1>0, <1>3
  DEF vars, HintInv, TypeOK, CallInv, StoreInv, LimitInv, NeverDeaf, Calling, Since
<1> QED
  BY <1>1, <1>2, <1>3 DEF Next

LEMMA HintSpecInv == Spec => []HintInv
BY InitHint, HintStep, PTL DEF Spec

LEMMA InitBoost == Init => BoostInv
<1> SUFFICES ASSUME Init PROVE BoostInv
  OBVIOUS
<1>1. boosts = {} /\ \A u \in Thread : at[u] = "idle"
  BY DEF Init
<1>2. ReadInv /\ FreshInv
  BY <1>1 DEF ReadInv, FreshInv, Calling
<1>3. \A u, h, l : ~ Has(u, h, l)
  BY <1>1 DEF Has
<1>4. SpacedInv /\ HeldInv /\ PushInv
  BY <1>3 DEF SpacedInv, HeldInv, PushInv, Binding
<1> QED
  BY <1>2, <1>4 DEF BoostInv

LEMMA BoostStep == HintInv /\ BoostInv /\ [Next]_vars => BoostInv'
<1> SUFFICES ASSUME HintInv, BoostInv, [Next]_vars PROVE BoostInv'
  OBVIOUS
<1>0. TypeOK /\ CallInv /\ ReadInv /\ FreshInv /\ SpacedInv /\ HeldInv /\ PushInv
  BY DEF HintInv, BoostInv
<1>1. CASE Tick
  BY <1>0, <1>1, TickRead, TickFresh, TickSpaced, TickHeld, TickPush DEF BoostInv
<1>2. ASSUME NEW u \in Thread, ThreadStep(u) PROVE BoostInv'
  BY <1>0, <1>2, ThreadRead, ThreadFresh, ThreadSpaced, ThreadHeld, ThreadPush DEF BoostInv
<1>3. CASE UNCHANGED vars
  <2>1. /\ now' = now /\ hint_time' = hint_time /\ at' = at /\ doing' = doing /\ t' = t
        /\ age' = age /\ boosts' = boosts
    BY <1>3 DEF vars
  <2>2. ReadInv' /\ FreshInv'
    BY <1>0, <2>1
    DEF ReadInv, FreshInv, Calling, ClockAt, Half, Low, Boosting, Duration
  <2>3. SpacedInv' /\ PushInv'
    BY <1>0, <2>1
    DEF SpacedInv, PushInv, Has, Binding, Reach, Turn, Half, Boosting, Left, hint_interval
  <2>4. /\ Turn' = Turn /\ SignHalf' = SignHalf /\ Boosting' = Boosting /\ Left' = Left
        /\ \A h \in Hint : Since(h)' = Since(h)
        /\ \A u \in Thread, h \in Hint : Busy(u, h)' <=> Busy(u, h)
        /\ \A u \in Thread, h \in Hint, l \in Left :
             (Binding(u, h, l)' <=> Binding(u, h, l)) /\ Reach(h, l)' = Reach(h, l)
    BY <2>1 DEF Turn, SignHalf, Half, Boosting, Left, Since, Ago, Busy, Binding, Has, Reach,
                hint_interval
  <2>5. HeldInv'
    BY <1>0, <2>1, <2>4
    DEF HeldInv, Held, HeldOut, HeldHigh, HeldLow, HeldCheck, HeldZero, Boosting
  <2> QED
    BY <2>2, <2>3, <2>5 DEF BoostInv
<1> QED
  BY <1>1, <1>2, <1>3 DEF Next

LEMMA BoostSpecInv == Spec => [](HintInv /\ BoostInv)
BY InitHint, InitBoost, HintStep, BoostStep, PTL DEF Spec

\* Whatever the threads do, powerhal_info keeps its types: both halves of a
\* stored time stay halves of a uint64_t, and a boost never has more time
\* left than the longest one.
THEOREM HintTypeCorrect == Spec => []TypeOK
<1>1. HintInv => TypeOK
  BY DEF HintInv
<1> QED
  BY <1>1, HintSpecInv, PTL

\* The rate limit of check_hint never turns deaf: for any number of threads
\* racing past it, however the two halves of hint_time are torn and whenever
\* the 32-bit clock wraps, a hint that keeps coming is taken again within one
\* interval and the time that a call may take.
THEOREM HintsAreHeard == Spec => []NeverDeaf
<1>1. HintInv => NeverDeaf
  BY DEF HintInv
<1> QED
  BY <1>1, HintSpecInv, PTL

\* The rate limit of check_hint bounds the descriptors that a hint can hold:
\* for any number of threads that race past it, however the halves of
\* hint_time are torn and whenever the 32-bit clock wraps or changes its sign,
\* at most two boosts per thread are in force, and one more for every tick
\* that a call may take.
THEOREM BoostsLimited == Spec => []BoostsBounded
<1>1. HintInv /\ BoostInv => BoostsBounded
  BY BoundedCount DEF HintInv, BoostInv
<1> QED
  BY <1>1, BoostSpecInv, PTL

\* requestPmQosTimed never makes a boost equal to one in force: two requests of
\* a thread are never in the same tick, so the set of boosts counts each pair
\* of descriptors that the code opens.
THEOREM BoostsDiffer == 
  Spec => [][\A u \in Thread : requestPmQosTimed(u) => Boost(u) \notin boosts]_vars
<1>1. ASSUME TypeOK, FreshInv, NEW u \in Thread, requestPmQosTimed(u) PROVE Boost(u) \notin boosts
  <2>1. SUFFICES ASSUME Boost(u) \in boosts PROVE FALSE
    OBVIOUS
  <2>2. /\ Boost(u).by = u /\ Boost(u).call = doing[u] /\ Boost(u).left = Duration(doing[u])
        /\ Duration(doing[u]) \in Nat /\ at[u] = "boost"
    BY <1>1, Durations DEF Boost, TypeOK, Left, requestPmQosTimed
  <2> QED
    BY <1>1, <2>1, <2>2 DEF FreshInv
<1>2. HintInv /\ BoostInv => \A u \in Thread : requestPmQosTimed(u) => Boost(u) \notin boosts
  BY <1>1 DEF HintInv, BoostInv
<1> QED
  BY <1>2, BoostSpecInv, PTL
=============================================================================
