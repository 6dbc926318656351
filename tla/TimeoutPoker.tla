----------------------------- MODULE TimeoutPoker -----------------------------
(***************************************************************************)
(* The power HAL's TimeoutPoker (power/timeoutpoker.cpp, .h, barrier.h).   *)
(*                                                                         *)
(* A pm_qos constraint is in force while a file descriptor of its device   *)
(* node is open.  Clients on IPC threads queue events; one looper thread   *)
(* runs them: it opens the node, and closes it after a timeout, or when    *)
(* the client closes the other end of a pipe.  Descriptor numbers are      *)
(* handed out lowest first and reused at once, by this thread and by the   *)
(* clients, so closing one twice, or too late, closes somebody else's      *)
(* file.                                                                   *)
(*                                                                         *)
(* The value or (priority, max, min) written to the node is left out: the  *)
(* two families of calls differ in nothing else.  android::Looper, epoll   *)
(* and the kernel's descriptor table are external.                         *)
(***************************************************************************)
EXTENDS Integers, FiniteSets

CONSTANTS
    Client,     \* threads that call the HAL
    Node,       \* device nodes, e.g. /dev/cpu_freq_min
    Timeout,    \* durations a client asks for, in ticks
    FdLimit,    \* the process's limit of open descriptors
    Failures,   \* the system calls that may fail: "open", "pipe", "addFd"
    Key,        \* names for requests: every value mKey takes
    MaxKey,     \* clients queue no event once mKey has got here (bound)
    MaxLag      \* a message runs at most this many ticks late (bound)

ASSUME FdAssumption      == FdLimit \in Nat
ASSUME TimeoutAssumption == Timeout \subseteq Nat \ {0}
ASSUME KeyAssumption     == Key \subseteq Nat /\ 0 .. MaxKey - 1 \subseteq Key
ASSUME BoundAssumption   == MaxKey \in Nat /\ MaxLag \in Nat

Fd  == 0 .. FdLimit - 1

NoFd    == -1       \* what a failed call returns
Garbage == -2       \* an int that was never assigned
Held    == -1       \* as in PmQos

Free == [kind |-> "free"]
File == {Free} \cup [kind : {"qos"}, node : Node, by : Nat]
               \cup [kind : {"read", "write"}, by : Nat]
               \cup [kind : {"own"}, by : Client]

OpenTimed  == [type : {"openTimed"}, node : Node, timeout : Timeout]
OpenHandle == [type : {"openHandle"}, node : Node, caller : Client]
Expiry     == [type : {"timeout"}, fd : Fd]
NoEvent    == [type |-> "none"]
Event      == OpenTimed \cup OpenHandle \cup Expiry

Barrier    == {"CLOSED", "OPENED"}

VARIABLES
    mKey,           \* the next event's key
    mQueuedEvents,  \* key -> event
    mMessages,      \* the looper's queue: key -> ticks until it is due
    mWorker,        \* the looper thread: where it is, and its locals
    watched,        \* the descriptors it polls, with their CallbackContext
    file,           \* the process's descriptor table
    pc,             \* what each client does
    ret,            \* the int its call returned, or will return
    done,           \* the Barrier its call waits on
    call            \* the key of its last createPmQosHandle event (history)

queue   == <<mKey, mQueuedEvents, mMessages>>
clients == <<pc, ret, done, call>>
vars    == <<mKey, mQueuedEvents, mMessages, mWorker, watched, file, pc, ret, done, call>>

Polling == [at |-> "poll", key |-> 0, ev |-> NoEvent,
            fd |-> NoFd, server |-> NoFd, out |-> Garbage]

Places == {"start", "poll", "open", "arm", "pipe", "listen", "store", "wake",
           "timeout", "closeHandle", "closeFd"}

Worker == [at : Places, key : Nat, ev : Event \cup {NoEvent}, fd : Fd \cup {NoFd},
           server : Fd \cup {NoFd}, out : Fd \cup {NoFd, Garbage}]

TypeOK ==
  /\ mKey \in Nat
  /\ DOMAIN mQueuedEvents \subseteq Nat
  /\ \A k \in DOMAIN mQueuedEvents : mQueuedEvents[k] \in Event
  /\ DOMAIN mMessages \subseteq Nat
  /\ \A k \in DOMAIN mMessages : mMessages[k] \in Int
  /\ mWorker \in Worker
  /\ watched \subseteq [handle : Fd, fd : Fd]
  /\ file \in [Fd -> File]
  /\ pc \in [Client -> {"idle", "waiting", "holding", "direct"}]
  /\ ret \in [Client -> Fd \cup {NoFd, Garbage}]
  /\ done \in [Client -> Barrier]
  /\ call \in [Client -> Nat]

Init ==
  /\ mKey = 0
  /\ mQueuedEvents = [k \in {} |-> NoEvent]
  /\ mMessages = [k \in {} |-> 0]
  /\ mWorker = [Polling EXCEPT !.at = "start"]
  /\ watched = {}
  /\ file = [f \in Fd |-> Free]
  /\ pc = [c \in Client |-> "idle"]
  /\ ret = [c \in Client |-> Garbage]
  /\ done = [c \in Client |-> "CLOSED"]
  /\ call = [c \in Client |-> 0]

-------------------------------------------------------------------------------
(* The kernel's descriptor table: the lowest free number is given out.     *)

LowestFree(f, taken) ==
  /\ f \in Fd \ taken
  /\ file[f] = Free
  /\ \A g \in Fd \ taken : g < f => file[g] # Free

FullBy(n) == Cardinality({f \in Fd : file[f] = Free}) < n

Fails(syscall, n) == syscall \in Failures \/ FullBy(n)

Close(f) == [file EXCEPT ![f] = Free]

(* The looper's queue and the events its messages stand for: both change   *)
(* under mEvLock, so a send and a removal are each one step.               *)
With(f, k, v)  == [j \in DOMAIN f \cup {k} |-> IF j = k THEN v ELSE f[j]]
Without(f, k)  == [j \in DOMAIN f \ {k} |-> f[j]]

generateNewKey == mKey' = mKey + 1

(* Mutant: the delay is not passed on. *)
sendEventDelayed_AtOnce(delay, ev) ==
  /\ generateNewKey
  /\ mQueuedEvents' = With(mQueuedEvents, mKey, ev)
  /\ mMessages' = With(mMessages, mKey, 0)

sendEventDelayed(delay, ev) ==
  /\ generateNewKey
  /\ mQueuedEvents' = With(mQueuedEvents, mKey, ev)
  /\ mMessages' = With(mMessages, mKey, delay)

removeEventByKey(what) == mQueuedEvents' = Without(mQueuedEvents, what)

-------------------------------------------------------------------------------
(* The looper thread starts: the constructor waits on a Barrier until      *)
(* then, so no event is sent before.                                       *)
readyToRun ==
  /\ mWorker.at = "start"
  /\ mWorker' = Polling
  /\ UNCHANGED <<queue, watched, file, clients>>

Ready == mWorker.at # "start"

(* Client calls.                                                           *)
pushEvent(ev) == Ready /\ mKey < MaxKey /\ sendEventDelayed(0, ev)

requestPmQosTimed(c, node, timeout) ==
  /\ pc[c] = "idle"
  /\ pushEvent([type |-> "openTimed", node |-> node, timeout |-> timeout])
  /\ UNCHANGED <<mWorker, watched, file, clients>>

createPmQosHandle(c, node) ==
  /\ pc[c] = "idle"
  /\ pushEvent([type |-> "openHandle", node |-> node, caller |-> c])
  /\ pc' = [pc EXCEPT ![c] = "waiting"]
  /\ ret' = [ret EXCEPT ![c] = Garbage]
  /\ done' = [done EXCEPT ![c] = "CLOSED"]
  /\ call' = [call EXCEPT ![c] = mKey]
  /\ UNCHANGED <<mWorker, watched, file>>

WaitReturns(c) ==
  /\ pc[c] = "waiting"
  /\ done[c] = "OPENED"
  /\ pc' = [pc EXCEPT ![c] = IF ret[c] = NoFd THEN "idle" ELSE "holding"]
  /\ UNCHANGED <<queue, mWorker, watched, file, ret, done, call>>

requestPmQos(c) ==
  /\ pc[c] = "idle"
  /\ \E f \in Fd :
        /\ LowestFree(f, {})
        /\ file' = [file EXCEPT ![f] = [kind |-> "own", by |-> c]]
        /\ ret' = [ret EXCEPT ![c] = f]
  /\ pc' = [pc EXCEPT ![c] = "direct"]
  /\ UNCHANGED <<queue, mWorker, watched, done, call>>

(* The client closes what it was given, a handle or a descriptor.          *)
ClientCloses(c) ==
  /\ pc[c] \in {"holding", "direct"}
  /\ file' = Close(ret[c])
  /\ pc' = [pc EXCEPT ![c] = "idle"]
  /\ ret' = [ret EXCEPT ![c] = Garbage]
  /\ UNCHANGED <<queue, mWorker, watched, done, call>>

-------------------------------------------------------------------------------
(* Looper::pollAll: the earliest message that is due, oldest first among   *)
(* those of one time, or a polled descriptor's callback.                   *)
Due(k) ==
  /\ mMessages[k] <= 0
  /\ \A j \in DOMAIN mMessages :
        mMessages[k] < mMessages[j] \/ (mMessages[k] = mMessages[j] /\ k <= j)

FirstStep(ev) == IF ev.type = "timeout" THEN "timeout" ELSE "open"

handleMessage(what) ==
  /\ mWorker.at = "poll"
  /\ Due(what)
  /\ mMessages' = Without(mMessages, what)
  /\ removeEventByKey(what)
  /\ mWorker' = IF what \in DOMAIN mQueuedEvents
                THEN [Polling EXCEPT !.at = FirstStep(mQueuedEvents[what]),
                                     !.key = what, !.ev = mQueuedEvents[what]]
                ELSE mWorker
  /\ UNCHANGED <<mKey, watched, file, clients>>

openPmQosNode ==
  /\ mWorker.at = "open"
  /\ \E f \in Fd :
        /\ LowestFree(f, {})
        /\ file' = [file EXCEPT ![f] =
                      [kind |-> "qos", node |-> mWorker.ev.node, by |-> mWorker.key]]
        /\ mWorker' = [mWorker EXCEPT !.fd = f,
                         !.at = IF mWorker.ev.type = "openTimed" THEN "arm" ELSE "pipe"]
  /\ UNCHANGED <<queue, watched, clients>>

(* Mutant: a failed open for a handle returns without an answer.           *)
OpenFails_NoAnswer ==
  /\ mWorker.at = "open"
  /\ Fails("open", 1)
  /\ mWorker' = Polling
  /\ UNCHANGED <<queue, watched, file, clients>>

OpenFails ==
  /\ mWorker.at = "open"
  /\ Fails("open", 1)
  /\ mWorker' = IF mWorker.ev.type = "openTimed" THEN Polling
                ELSE [mWorker EXCEPT !.at = "store", !.out = NoFd]
  /\ UNCHANGED <<queue, watched, file, clients>>

(* The end of openPmQosTimed: the timeout is queued.                       *)
openPmQosTimed ==
  /\ mWorker.at = "arm"
  /\ sendEventDelayed(mWorker.ev.timeout, [type |-> "timeout", fd |-> mWorker.fd])
  /\ mWorker' = Polling
  /\ UNCHANGED <<watched, file, clients>>

timeoutRequest ==
  /\ mWorker.at = "timeout"
  /\ file' = Close(mWorker.ev.fd)
  /\ mWorker' = Polling
  /\ UNCHANGED <<queue, watched, clients>>

(* createHandleForFd: a pipe, whose write end the looper is to poll.       *)
createHandleForFd ==
  /\ mWorker.at = "pipe"
  /\ \E r, w \in Fd :
        /\ LowestFree(r, {}) /\ LowestFree(w, {r})
        /\ file' = [file EXCEPT ![r] = [kind |-> "read", by |-> mWorker.key],
                                ![w] = [kind |-> "write", by |-> mWorker.key]]
        /\ mWorker' = [mWorker EXCEPT !.at = "listen", !.server = w, !.out = r]
  /\ UNCHANGED <<queue, watched, clients>>

(* Mutant: the device node is not closed when pipe() fails. *)
PipeFails_NoClose ==
  /\ mWorker.at = "pipe"
  /\ Fails("pipe", 2)
  /\ mWorker' = [mWorker EXCEPT !.at = "store", !.out = NoFd]
  /\ UNCHANGED <<queue, watched, file, clients>>

PipeFails ==
  /\ mWorker.at = "pipe"
  /\ Fails("pipe", 2)
  /\ file' = Close(mWorker.fd)
  /\ mWorker' = [mWorker EXCEPT !.at = "store", !.out = NoFd]
  /\ UNCHANGED <<queue, watched, clients>>

CallbackContext == [handle |-> mWorker.server, fd |-> mWorker.fd]

(* Looper::addFd.  createHandleForFd tests res, which still holds what     *)
(* pipe() returned, so that a failure goes on like a success.              *)
listenForHandleToCloseFd ==
  /\ mWorker.at = "listen"
  /\ watched' = watched \cup {CallbackContext}
  /\ mWorker' = [mWorker EXCEPT !.at = "store"]
  /\ UNCHANGED <<queue, file, clients>>

AddFdFails ==
  /\ mWorker.at = "listen"
  /\ "addFd" \in Failures
  /\ mWorker' = [mWorker EXCEPT !.at = "store"]
  /\ UNCHANGED <<queue, watched, file, clients>>

(* PmQosOpenHandleEvent::run: the result is stored in the caller's frame,  *)
(* then its Barrier is opened.                                             *)
(* Mutant: the Barrier is opened before the result is stored. *)
StoreResult_AfterBarrier ==
  /\ mWorker.at = "store"
  /\ done' = [done EXCEPT ![mWorker.ev.caller] = "OPENED"]
  /\ mWorker' = [mWorker EXCEPT !.at = "wake"]
  /\ UNCHANGED <<queue, watched, file, pc, ret, call>>

StoreResult ==
  /\ mWorker.at = "store"
  /\ ret' = [ret EXCEPT ![mWorker.ev.caller] = mWorker.out]
  /\ mWorker' = [mWorker EXCEPT !.at = "wake"]
  /\ UNCHANGED <<queue, watched, file, pc, done, call>>

OpenBarrier ==
  /\ mWorker.at = "wake"
  /\ done' = [done EXCEPT ![mWorker.ev.caller] = "OPENED"]
  /\ mWorker' = Polling
  /\ UNCHANGED <<queue, watched, file, pc, ret, call>>

(* The read end of a polled pipe has been closed: pipeCloseCb.             *)
(* Mutant: the callback waits for input, which a write end never has. *)
HungUp_Input(w) == file[w.handle].kind = "read"

HungUp(w) ==
  /\ file[w.handle].kind = "write"
  /\ \A f \in Fd : ~ (file[f].kind = "read" /\ file[f].by = file[w.handle].by)

(* Mutant: the descriptor stays polled after its callback. *)
pipeCloseCb_StillPolled(w) ==
  /\ mWorker.at = "poll"
  /\ HungUp(w)
  /\ mWorker' = [Polling EXCEPT !.at = "closeHandle",
                                !.server = w.handle, !.fd = w.fd]
  /\ UNCHANGED <<queue, watched, file, clients>>

pipeCloseCb(w) ==
  /\ mWorker.at = "poll"
  /\ HungUp(w)
  /\ watched' = watched \ {w}
  /\ mWorker' = [Polling EXCEPT !.at = "closeHandle",
                                !.server = w.handle, !.fd = w.fd]
  /\ UNCHANGED <<queue, file, clients>>

CloseHandle ==
  /\ mWorker.at = "closeHandle"
  /\ file' = Close(mWorker.server)
  /\ mWorker' = [mWorker EXCEPT !.at = "closeFd"]
  /\ UNCHANGED <<queue, watched, clients>>

CloseFd ==
  /\ mWorker.at = "closeFd"
  /\ file' = Close(mWorker.fd)
  /\ mWorker' = Polling
  /\ UNCHANGED <<queue, watched, clients>>

-------------------------------------------------------------------------------
Tick ==
  /\ DOMAIN mMessages # {}
  /\ \A k \in DOMAIN mMessages : mMessages[k] > - MaxLag
  /\ mMessages' = [k \in DOMAIN mMessages |-> mMessages[k] - 1]
  /\ UNCHANGED <<mKey, mQueuedEvents, mWorker, watched, file, clients>>

LooperStep ==
  \/ readyToRun
  \/ \E k \in DOMAIN mMessages : handleMessage(k)
  \/ openPmQosNode \/ OpenFails \/ openPmQosTimed \/ timeoutRequest
  \/ createHandleForFd \/ PipeFails
  \/ listenForHandleToCloseFd \/ AddFdFails
  \/ StoreResult \/ OpenBarrier
  \/ \E w \in watched : pipeCloseCb(w)
  \/ CloseHandle \/ CloseFd

ClientStep(c) ==
  \/ \E n \in Node, t \in Timeout : requestPmQosTimed(c, n, t)
  \/ \E n \in Node : createPmQosHandle(c, n)
  \/ requestPmQos(c)
  \/ ClientCloses(c)
  \/ WaitReturns(c)

Next == LooperStep \/ Tick \/ \E c \in Client : ClientStep(c)

Spec == Init /\ [][Next]_vars

(* The looper thread runs, time passes, and a woken client returns.        *)
FairSpec ==
  /\ Spec
  /\ WF_vars(LooperStep)
  /\ WF_vars(Tick)
  /\ \A c \in Client : WF_vars(WaitReturns(c))
-------------------------------------------------------------------------------
(* Who will close descriptor f of a device node: a queued TimeoutEvent, a  *)
(* CallbackContext, or the looper thread, which is about to.               *)
Expires(k, f) == mQueuedEvents[k].type = "timeout" /\ mQueuedEvents[k].fd = f

WorkerHolds(f) ==
  \/ mWorker.at \in {"arm", "pipe", "listen", "closeHandle", "closeFd"} /\ mWorker.fd = f
  \/ mWorker.at = "timeout" /\ mWorker.ev.fd = f

Holders(f) ==
  {<<"event", k>> : k \in {j \in DOMAIN mQueuedEvents : Expires(j, f)}}
    \cup {<<"context", w.handle>> : w \in {v \in watched : v.fd = f}}
    \cup {<<"worker", n>> : n \in {m \in {0} : WorkerHolds(f)}}

(* A descriptor that something is going to close is still the device node  *)
(* it opened, and nothing else is going to close it too: no constraint is  *)
(* withdrawn early, and no other thread's file closed, by a descriptor     *)
(* number that was reused (timeoutRequest, pipeCloseCb, createHandleForFd).*)
ClosedByOneHolder ==
  \A f \in Fd :
    /\ \A x, y \in Holders(f) : x = y
    /\ Holders(f) # {} => file[f].kind = "qos"

(* An open device node always has somebody who will close it: no           *)
(* constraint stays in force for ever because a step of createHandleForFd  *)
(* or openPmQosTimed failed.                                               *)
NoConstraintLeaks ==
  \A f \in Fd : file[f].kind = "qos" => Holders(f) # {}

(* What a client's call returned is its own, and stays open until the      *)
(* client closes it: createPmQosHandle never returns before the looper     *)
(* thread has stored this call's result in its frame, and no close of that *)
(* thread hits the client's descriptor.                                    *)
ClientKeepsItsFd ==
  \A c \in Client :
    /\ pc[c] = "holding" => ret[c] \in Fd /\ file[ret[c]] = [kind |-> "read", by |-> call[c]]
    /\ pc[c] = "direct" => ret[c] \in Fd /\ file[ret[c]] = [kind |-> "own", by |-> c]

(* Descriptor numbers are reused, yet every holder's is the file it took   *)
(* it for: on the poker's side and on the clients'.                        *)
FdsOwned == ClosedByOneHolder /\ ClientKeepsItsFd

-------------------------------------------------------------------------------
(* The view of a client: PmQos.                                            *)
Serving == mWorker.at \in {"open", "arm", "pipe", "listen", "store", "wake"}

AsRequest(k, ev) == [id |-> k, node |-> ev.node,
                     time |-> IF ev.type = "openTimed" THEN ev.timeout ELSE Held]

Requested ==
  {AsRequest(k, mQueuedEvents[k]) :
      k \in {j \in DOMAIN mQueuedEvents : mQueuedEvents[j].type # "timeout"}}
    \cup {AsRequest(k, mWorker.ev) : k \in {j \in {mWorker.key} : Serving}}

Expiries(f) == {k \in DOMAIN mQueuedEvents : Expires(k, f)}

TimeLeft(f) ==
  IF Expiries(f) # {}
  THEN LET left == mMessages[CHOOSE k \in Expiries(f) : TRUE]
       IN  IF left > 0 THEN left ELSE 0
  ELSE IF \E g \in Fd : file[g].kind = "read" /\ file[g].by = file[f].by THEN Held ELSE 0

Active ==
  {[id |-> file[f].by, node |-> file[f].node, left |-> TimeLeft(f)] :
      f \in {g \in Fd : file[g].kind = "qos" /\ ~ (Serving /\ file[g].by = mWorker.key)}}

Promise == INSTANCE PmQos WITH Id <- Key, requested <- Requested, active <- Active

(* The event queue, the pipes and the descriptors do what the interface    *)
(* promises: a timed constraint lasts its full time, a handle's constraint *)
(* lasts until the client closes the handle.                               *)
KeepsPromise == Promise!Spec

(* A client that waits in createPmQosHandle returns: the looper thread     *)
(* opens its Barrier on every path, failures included.                     *)
CallReturns == \A c \in Client : pc[c] = "waiting" ~> pc[c] # "waiting"

(* A constraint whose time runs, or whose handle is closed, goes in the    *)
(* end.                                                                    *)
ConstraintGoes ==
  \A k \in Key : (\E a \in Active : a.id = k /\ a.left # Held)
                   ~> ~ (\E a \in Active : a.id = k)

(* The poker delivers: every waiting client is answered and every          *)
(* constraint whose end is due goes.                                       *)
PokerDelivers == CallReturns /\ ConstraintGoes
===============================================================================
