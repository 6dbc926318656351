------------------------------ MODULE PowerSetup ------------------------------
(***************************************************************************)
(* The power HAL's set-up and screen switch (power/tegra3_power.cpp,       *)
(* nvpowerhal.cpp, powerhal_utils.cpp): open and init both run             *)
(* common_power_open, which looks the touch panels up among the kernel's   *)
(* input devices, starts a TimeoutPoker and parses the CPU's frequencies;  *)
(* set_interactive then turns the panels off and on with the screen.       *)
(*                                                                         *)
(* The power manager makes these calls one at a time; hints come from      *)
(* other threads at any moment, with no lock (their rate limit has a       *)
(* module of its own, PowerHal).  Input devices come and go; the kernel    *)
(* never gives a number twice.  A text file is the sequence of its         *)
(* blank-separated words, each as atoi reads it: 0 when it is no number.   *)
(***************************************************************************)
EXTENDS Integers, Sequences, SequencesExt, FiniteSetsExt

CONSTANTS
    Panel,          \* the names in the table input_devs
    Other,          \* names of input devices that are no touch panels
    Present,        \* those of "no_lp" and "doubletap_wake" the kernel has
    Enableable,     \* names whose driver has a writable "enabled" file
    MaxId,          \* the highest number an input device gets (bound)
    MaxPokers,      \* set-ups of the HAL (bound)
    FreqFile,       \* what scaling_available_frequencies can list
    ErrorText,      \* the words strerror_r leaves when a read fails: every
                    \* message of a failed open or read has more than one
    LpMax,          \* idle_top_freq: the top frequency of the LP cluster
    Interaction,    \* 1200000: the least frequency for an interaction boost
    Animation,      \* 1000000: the least one for an animation boost
    Garbage         \* what the memory before an empty array can hold

Id     == 0 .. MaxId
Name   == Panel \cup Other
Poker  == 1 .. MaxPokers
Absent == "absent"

ASSUME NameAssumption ==
  /\ IsFiniteSet(Panel) /\ Panel \cap Other = {}
  /\ Enableable \subseteq Name /\ Absent \notin Name
ASSUME BoundAssumption == MaxId \in Nat /\ MaxPokers \in Nat
ASSUME TextAssumption ==
  /\ FreqFile \subseteq Seq(Nat \ {0})
  /\ ErrorText \subseteq Seq({0}) /\ \A text \in ErrorText : Len(text) >= 2
  /\ LpMax \in Nat /\ Garbage \subseteq Int

VARIABLES
    name,           \* kernel: the device behind each input number
    enabled,        \* kernel: /sys/class/input/input<i>/enabled
    nextId,         \* kernel: the number the next device gets
    file,           \* kernel: the frequencies the CPU has
    no_lp,          \* kernel: whether the low power cluster is kept off
    doubletap,      \* kernel: doubletap_wake
    pInfo,          \* "null", or "set" once it is allocated
    input_devs,     \* its table of panels: "null" or "table"
    input_cnt,      \* the number of input devices it counts
    dev_id,         \* the input number of each panel of the table, or -1
    mTimeoutPoker,  \* its poker, 0 for NULL
    poker,          \* what became of each poker's thread
    freq,           \* its frequencies (and whether the file was read: history)
    at,             \* where the power manager's thread is
    init,           \* whether it runs init (and not open)
    crash,          \* why the process died, if it did
    screen,         \* the last set_interactive (history)
    excused,        \* the screen went off between open and init, or a driver
                    \* refused a switch (history)
    served,         \* some set-up has got its poker (history)
    floor           \* the frequency floor last asked for (history)

inputs == <<name, enabled, nextId>>
files   == <<file, no_lp, doubletap>>
tables  == <<pInfo, input_devs, input_cnt, dev_id>>
history == <<screen, excused, served, floor>>
powerVars == <<inputs, files, tables, mTimeoutPoker, poker, freq, at, init, crash, history>>

Freq == [good : BOOLEAN, max : Int, interaction : Int, animation : Int]
NoFreq == [good |-> FALSE, max |-> 0, interaction |-> 0, animation |-> 0]

PowerTypeOK ==
  /\ name \in [Id -> Name \cup {Absent}]
  /\ enabled \in [Id -> BOOLEAN]
  /\ nextId \in 0 .. MaxId + 1
  /\ file \in FreqFile
  /\ no_lp \in BOOLEAN /\ doubletap \in BOOLEAN
  /\ pInfo \in {"null", "set"}
  /\ input_devs \in {"null", "table"}
  /\ input_cnt \in Nat
  /\ dev_id \in [Panel -> Id \cup {-1}]
  /\ mTimeoutPoker \in {0} \cup Poker
  /\ poker \in [Poker -> {"none", "starting", "ready"}]
  /\ freq \in Freq
  /\ at \in {"idle", "scan", "wait", "frequencies", "boost"}
  /\ init \in BOOLEAN
  /\ crash \in {"no", "poker", "looper", "frequencies"}
  /\ screen \in {"unset", "on", "off"}
  /\ excused \in BOOLEAN /\ served \in BOOLEAN
  /\ floor \in Int

(* The static initialisers; the kernel has registered no input device yet. *)
PowerInit ==
  /\ nextId = 0 /\ name = [i \in Id |-> Absent]
  /\ enabled = [i \in Id |-> TRUE]
  /\ file \in FreqFile
  /\ no_lp = FALSE /\ doubletap = FALSE
  /\ pInfo = "null" /\ input_devs = "null" /\ input_cnt = 0
  /\ dev_id = [p \in Panel |-> -1]
  /\ mTimeoutPoker = 0
  /\ poker = [k \in Poker |-> "none"]
  /\ freq = NoFreq
  /\ at = "idle" /\ init = FALSE /\ crash = "no"
  /\ screen = "unset" /\ excused = FALSE /\ served = FALSE /\ floor = 0

-------------------------------------------------------------------------------
(* The numbers below the first one that /sys/class/input does not have.    *)
Scanned == {i \in Id : \A j \in 0 .. i : name[j] # Absent}

get_input_count == Cardinality(Scanned)

(* Mutant: compares no names. *)
find_input_device_ids_Any ==
  [p \in Panel |-> IF dev_id[p] = -1 /\ Scanned # {} THEN Max(Scanned) ELSE dev_id[p]]

(* A panel not yet found gets the first number with its name.              *)
find_input_device_ids ==
  [p \in Panel |->
     LET match == {i \in Scanned : name[i] = p}
     IN  IF dev_id[p] = -1 /\ match # {} THEN Min(match) ELSE dev_id[p]]

(* tegra3_power_open: nothing but success for a HAL already there.         *)
tegra3_power_open ==
  /\ at = "idle" /\ pInfo = "null"
  /\ \E k \in Poker : poker[k] = "none"
  /\ pInfo' = "set"
  /\ at' = "scan" /\ init' = FALSE
  /\ UNCHANGED <<inputs, files, input_devs, input_cnt, dev_id, mTimeoutPoker, poker, freq,
                 crash, history>>

(* Mutant: allocates powerhal_info whether or not there is one. *)
tegra3_power_init_Realloc ==
  /\ at = "idle"
  /\ \E k \in Poker : poker[k] = "none"
  /\ pInfo' = "set" /\ mTimeoutPoker' = 0 /\ freq' = NoFreq
  /\ input_devs' = "table" /\ input_cnt' = Cardinality(Panel)
  /\ at' = "scan" /\ init' = TRUE
  /\ UNCHANGED <<inputs, files, dev_id, poker, crash, history>>

tegra3_power_init ==
  /\ at = "idle"
  /\ \E k \in Poker : poker[k] = "none"
  /\ pInfo' = "set"
  /\ input_devs' = "table" /\ input_cnt' = Cardinality(Panel)
  /\ at' = "scan" /\ init' = TRUE
  /\ UNCHANGED <<inputs, files, dev_id, mTimeoutPoker, poker, freq, crash, history>>

NewPoker == Min({k \in Poker : poker[k] = "none"})
LastPoker == Max({k \in Poker : poker[k] # "none"})

(* common_power_open looks for the devices and starts a poker's thread.    *)
Scan ==
  /\ at = "scan"
  /\ IF input_devs = "null" \/ input_cnt = 0
     THEN input_cnt' = get_input_count /\ UNCHANGED dev_id
     ELSE dev_id' = find_input_device_ids /\ UNCHANGED input_cnt
  /\ poker' = [poker EXCEPT ![NewPoker] = "starting"]
  /\ at' = "wait"
  /\ UNCHANGED <<inputs, files, pInfo, input_devs, mTimeoutPoker, freq, init, crash, history>>

(* Mutant: the barrier is not waited for. *)
WaitReturns_NoBarrier ==
  /\ at = "wait"
  /\ mTimeoutPoker' = LastPoker
  /\ at' = "frequencies"
  /\ served' = TRUE
  /\ UNCHANGED <<inputs, files, tables, poker, freq, init, crash, screen, excused, floor>>

(* readyToRun.wait(): the constructor waits until the thread has its       *)
(* looper, and only then is mTimeoutPoker replaced.                        *)
WaitReturns ==
  /\ at = "wait"
  /\ poker[LastPoker] = "ready"
  /\ mTimeoutPoker' = LastPoker
  /\ at' = "frequencies"
  /\ served' = TRUE
  /\ UNCHANGED <<inputs, files, tables, poker, freq, init, crash, screen, excused, floor>>

-------------------------------------------------------------------------------
(* sysfs_read: every frequency is followed by a blank, the last one by a   *)
(* blank and a newline, which is a word too; or the error's text.          *)
sysfs_read == {file \o <<0>>} \cup ErrorText

(* Mutant: counts the newline as a frequency. *)
num_available_frequencies_All(text) == Len(text)

num_available_frequencies(text) == Len(text) - 1

(* Mutant: without one, asks for the threshold itself. *)
FirstAtLeast_Threshold(list, least, otherwise) ==
  LET fits == {i \in DOMAIN list : list[i] >= least}
  IN  IF fits = {} THEN least ELSE list[Min(fits)]

(* The first frequency of at least `least`, if there is one.               *)
FirstAtLeast(list, least, otherwise) ==
  LET fits == {i \in DOMAIN list : list[i] >= least}
  IN  IF fits = {} THEN otherwise ELSE list[Min(fits)]

(* The file is read twice: to count the words and to parse them.  Fewer    *)
(* words the second time and atoi gets NULL; no word the first time and    *)
(* the array has no memory.                                                *)
ParseFails(first, second) ==
  \/ num_available_frequencies(first) < 0
  \/ num_available_frequencies(first) > Len(second)

(* available_frequencies[num_available_frequencies - 1], which for an      *)
(* empty array is what lies before it.                                     *)
max_frequency(list) == IF list = <<>> THEN Garbage ELSE {list[Len(list)]}

ReadFrequencies ==
  /\ at = "frequencies"
  /\ \E first, second \in sysfs_read, lp \in {LpMax, 0} :
       LET list == SubSeq(second, 1, num_available_frequencies(first))
       IN  IF ParseFails(first, second)
           THEN crash' = "frequencies" /\ UNCHANGED freq
           ELSE /\ \E max \in max_frequency(list) :
                     freq' = [max |-> max, good |-> {first, second} \cap ErrorText = {},
                              interaction |-> FirstAtLeast(list, Interaction, lp),
                              animation |-> FirstAtLeast(list, Animation, lp)]
                /\ UNCHANGED crash
  /\ at' = IF init THEN "boost" ELSE "idle"
  /\ UNCHANGED <<inputs, files, tables, mTimeoutPoker, poker, init, history>>

(* A request goes to the looper of the poker that pInfo points to.         *)
requestPmQosTimed ==
  IF mTimeoutPoker = 0 THEN crash' = "poker" /\ UNCHANGED floor
  ELSE IF poker[mTimeoutPoker] = "starting" THEN crash' = "looper" /\ UNCHANGED floor
  ELSE floor' = freq.max /\ UNCHANGED crash

(* common_power_init ends with the boost for the boot.                     *)
BootBoost ==
  /\ at = "boost"
  /\ requestPmQosTimed
  /\ at' = "idle"
  /\ UNCHANGED <<inputs, files, tables, mTimeoutPoker, poker, freq, init, screen, excused, served>>

-------------------------------------------------------------------------------
(* Mutant: switches every device up to the table's size. *)
Switched_All ==
  IF pInfo = "null" THEN {} ELSE 0 .. input_cnt - 1

(* The input numbers whose "enabled" file the screen switches.             *)
Switched ==
  IF pInfo = "null" THEN {}
  ELSE IF input_devs = "null" THEN 0 .. input_cnt - 1
  ELSE {dev_id[p] : p \in Panel} \ {-1}

(* sysfs_write: a file that cannot be opened, or whose driver refuses the  *)
(* value, keeps what it had; the caller is not told.                       *)
sysfs_write(taken, old, new) == IF taken THEN new ELSE old

(* The governor is the same with the screen on and off.                    *)
common_power_set_interactive(on) ==
  /\ at = "idle"
  /\ no_lp' = sysfs_write("no_lp" \in Present, no_lp, on)
  /\ LET writable == {i \in Switched \cap Id : name[i] \in Enableable}
     IN  \E taken \in SUBSET writable :
           /\ enabled' = [i \in Id |-> sysfs_write(i \in taken, enabled[i], on)]
           /\ excused' = (excused \/ taken # writable
                                 \/ (~ on /\ pInfo = "set" /\ input_devs = "null"))
  /\ IF on /\ pInfo = "set" THEN requestPmQosTimed ELSE UNCHANGED <<crash, floor>>
  /\ screen' = IF on THEN "on" ELSE "off"
  /\ UNCHANGED <<name, nextId, file, doubletap, tables, mTimeoutPoker, poker, freq, at, init, served>>

tegra3_power_set_interactive(on) == common_power_set_interactive(on)

(* A hint that boosts, on any thread.                                      *)
common_power_hint ==
  /\ pInfo = "set"
  /\ requestPmQosTimed
  /\ UNCHANGED <<inputs, files, tables, mTimeoutPoker, poker, freq, at, init, screen, excused, served>>

tegra3_power_hint == common_power_hint

(* Under low_power_mode_lock, on any thread.                               *)
tegra3_set_feature(state) ==
  /\ doubletap' = sysfs_write("doubletap_wake" \in Present, doubletap, state)
  /\ UNCHANGED <<inputs, file, no_lp, tables, mTimeoutPoker, poker, freq, at, init, crash, history>>

(* Mutant: the barrier is not opened. *)
readyToRun_NoOpen(k) ==
  /\ poker[k] = "starting"
  /\ UNCHANGED powerVars

(* A poker's thread has its looper and opens the barrier.                  *)
readyToRun(k) ==
  /\ poker[k] = "starting"
  /\ poker' = [poker EXCEPT ![k] = "ready"]
  /\ UNCHANGED <<inputs, files, tables, mTimeoutPoker, freq, at, init, crash, history>>

(* The kernel registers and unregisters input devices.                     *)
Plug(n) ==
  /\ nextId <= MaxId /\ \A i \in Id : name[i] # n
  /\ name' = [name EXCEPT ![nextId] = n]
  /\ nextId' = nextId + 1
  /\ UNCHANGED <<enabled, files, tables, mTimeoutPoker, poker, freq, at, init, crash, history>>

Unplug(i) ==
  /\ name[i] # Absent
  /\ name' = [name EXCEPT ![i] = Absent]
  /\ enabled' = [enabled EXCEPT ![i] = TRUE]
  /\ UNCHANGED <<nextId, files, tables, mTimeoutPoker, poker, freq, at, init, crash, history>>

common_power_open == Scan \/ WaitReturns \/ ReadFrequencies \/ BootBoost

PowerNext ==
  \/ /\ crash = "no"
     /\ \/ tegra3_power_open \/ tegra3_power_init \/ common_power_open
        \/ \E on \in BOOLEAN : tegra3_power_set_interactive(on) \/ tegra3_set_feature(on)
        \/ tegra3_power_hint
        \/ \E k \in Poker : readyToRun(k)
        \/ \E n \in Name : Plug(n)
        \/ \E i \in Id : Unplug(i)
  \/ crash # "no" /\ UNCHANGED powerVars

(* A call that has begun goes on, and a thread that was started runs.      *)
PowerFairness ==
  /\ WF_powerVars(crash = "no" /\ common_power_open)
  /\ \A k \in Poker : WF_powerVars(crash = "no" /\ readyToRun(k))

-------------------------------------------------------------------------------
(* Whatever devices come and go, set_interactive leaves nothing dead: a    *)
(* device that is disabled is a touch panel and the screen is off, unless  *)
(* the screen went off between open and init, when every device is taken   *)
(* for a panel, or a driver refused to be switched.                        *)
InputAlive ==
  ~ excused => \A i \in Id : name[i] # Absent /\ ~ enabled[i] => name[i] \in Panel /\ screen = "off"

(* A floor asked of PM QoS is a frequency of the CPU, or none at all,      *)
(* whichever read of the file failed in common_power_open; and so is every *)
(* boost frequency.  Only a CPU that lists no frequency gets garbage.      *)
FloorsReal ==
  file # <<>> =>
    /\ floor \in ToSet(file) \cup {0}
    /\ {freq.interaction, freq.animation} \subseteq ToSet(file) \cup {LpMax, 0}

(* Once the file has been read, max_frequency is the CPU's top frequency:  *)
(* the newline that ends the file is no frequency.                         *)
TopFrequency == freq.good /\ file # <<>> => freq.max = file[Len(file)]

(* A hint crashes the HAL only before the first set-up has its poker: a    *)
(* second set-up replaces the poker under the hints' feet, yet at no       *)
(* moment is it NULL or without a looper.                                  *)
PokerReplacedSafely ==
  /\ crash = "poker" => ~ served
  /\ crash # "looper"

(* A hint that is served asks a live poker for a real frequency, however   *)
(* the set-ups and the failing reads of sysfs interleave with it.          *)
BoostsSound == PokerReplacedSafely /\ FloorsReal /\ TopFrequency

(* common_power_open returns: the poker's thread opens the barrier it      *)
(* waits for.                                                              *)
SetupReturns == at # "idle" ~> at = "idle" \/ crash # "no"
===============================================================================
