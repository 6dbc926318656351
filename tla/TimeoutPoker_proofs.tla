-------------------------- MODULE TimeoutPoker_proofs --------------------------
(***************************************************************************)
(* Proofs about TimeoutPoker: whatever the limits, timeouts and failures,  *)
(* every descriptor is closed once, by the one who opened it, and what the *)
(* clients see is what PmQos promises.                                     *)
(***************************************************************************)
EXTENDS TimeoutPoker, TLAPS

USE DEF Barrier

IsQos(f)     == f \in Fd /\ file[f].kind = "qos"
IsExpiry(k)  == k \in DOMAIN mQueuedEvents /\ mQueuedEvents[k].type = "timeout"
ReadEnd(k)   == [kind |-> "read", by |-> k]

(* Every message has its event, and keys are never used again.             *)
QueueInv ==
  /\ DOMAIN mMessages = DOMAIN mQueuedEvents
  /\ \A k \in DOMAIN mQueuedEvents : k < mKey

(* Where the looper thread is says which locals it has.                    *)
WorkerInv ==
  /\ mWorker.at = "open" => mWorker.ev \in OpenTimed \cup OpenHandle
  /\ mWorker.at = "arm" => mWorker.ev \in OpenTimed
  /\ mWorker.at \in {"pipe", "listen", "store", "wake"} => mWorker.ev \in OpenHandle
  /\ mWorker.at = "timeout" => mWorker.ev \in Expiry
  /\ mWorker.at \in {"arm", "pipe", "listen", "closeHandle", "closeFd"} => IsQos(mWorker.fd)
  /\ mWorker.at = "timeout" => IsQos(mWorker.ev.fd)
  /\ mWorker.at \in {"listen", "closeHandle"} =>
        mWorker.server \in Fd /\ file[mWorker.server].kind = "write"
  /\ mWorker.at = "listen" => mWorker.out \in Fd
  /\ mWorker.at \in {"store", "wake"} => mWorker.out \in Fd \cup {NoFd}
  /\ mWorker.at \in {"listen", "store", "wake"} /\ mWorker.out \in Fd =>
        file[mWorker.out] = ReadEnd(mWorker.key)

(* A queued timeout is the only holder of its descriptor.                  *)
ExpiryInv ==
  /\ \A k \in DOMAIN mQueuedEvents : IsExpiry(k) =>
        /\ IsQos(mQueuedEvents[k].fd)
        /\ ~ WorkerHolds(mQueuedEvents[k].fd)
        /\ \A w \in watched : w.fd # mQueuedEvents[k].fd
  /\ \A j, k \in DOMAIN mQueuedEvents :
        IsExpiry(j) /\ IsExpiry(k) /\ mQueuedEvents[j].fd = mQueuedEvents[k].fd => j = k

(* A polled pipe is the only holder of its descriptors.                    *)
WatchInv ==
  /\ \A w \in watched : IsQos(w.fd) /\ file[w.handle].kind = "write" /\ ~ WorkerHolds(w.fd)
  /\ \A w \in watched :
        mWorker.at \in {"listen", "closeHandle"} => w.handle # mWorker.server
  /\ \A v, w \in watched : v.fd = w.fd \/ v.handle = w.handle => v = w

(* The caller of a request that is queued or served waits for it.          *)
Awaits(c, k) == pc[c] = "waiting" /\ done[c] = "CLOSED" /\ call[c] = k

CallerInv ==
  /\ \A k \in DOMAIN mQueuedEvents : mQueuedEvents[k].type = "openHandle" =>
        Awaits(mQueuedEvents[k].caller, k)
  /\ mWorker.at \in {"open", "pipe", "listen", "store", "wake"}
       /\ mWorker.ev.type = "openHandle" =>
        Awaits(mWorker.ev.caller, mWorker.key)
  /\ Serving => mWorker.key < mKey /\ mWorker.key \notin DOMAIN mQueuedEvents
  /\ mWorker.at = "wake" => ret[mWorker.ev.caller] = mWorker.out

(* What each client has got.                                               *)
Got(c) == ret[c] = NoFd \/ (ret[c] \in Fd /\ file[ret[c]] = ReadEnd(call[c]))

ClientInv ==
  /\ \A c \in Client : pc[c] \in {"waiting", "holding"} => call[c] < mKey
  /\ \A c \in Client : pc[c] = "waiting" /\ done[c] = "OPENED" => Got(c)
  /\ \A c \in Client : pc[c] = "holding" => ret[c] \in Fd /\ Got(c)
  /\ \A c \in Client : pc[c] = "direct" =>
        ret[c] \in Fd /\ file[ret[c]] = [kind |-> "own", by |-> c]
  /\ \A c, d \in Client :
        pc[c] \in {"waiting", "holding"} /\ pc[d] \in {"waiting", "holding"}
          /\ call[c] = call[d] => c = d

IndInv == TypeOK /\ QueueInv /\ WorkerInv /\ ExpiryInv /\ WatchInv /\ CallerInv /\ ClientInv

LEMMA TimeoutType == \A t \in Timeout : t \in Int
BY TimeoutAssumption

LEMMA NoFdType == NoFd \notin Fd
BY FdAssumption DEF NoFd, Fd

LEMMA PollingType == Polling \in Worker
BY DEF Polling, Worker, Places

-------------------------------------------------------------------------------
(* One lemma for each action.                                              *)

LEMMA StartStep ==
  ASSUME IndInv, readyToRun
  PROVE  IndInv'
<1> USE DEF IndInv, readyToRun, queue, clients
<1>1. TypeOK'
  BY PollingType DEF TypeOK
<1>2. QueueInv'
  BY DEF TypeOK, QueueInv
<1>3. WorkerInv'
  BY DEF TypeOK, WorkerInv, IsQos, ReadEnd, Free, Polling
<1>4. ExpiryInv'
  BY DEF TypeOK, ExpiryInv, IsExpiry, IsQos, WorkerHolds, Free, Polling
<1>5. WatchInv'
  BY DEF TypeOK, WatchInv, IsQos, WorkerHolds, Free, Polling
<1>6. CallerInv'
  BY DEF TypeOK, WorkerInv, CallerInv, Awaits, Serving, Polling, Event, OpenHandle
<1>7. ClientInv'
  BY DEF TypeOK, ClientInv, Got, ReadEnd, Free
<1> QED BY <1>1, <1>2, <1>3, <1>4, <1>5, <1>6, <1>7

LEMMA TimedStep ==
  ASSUME IndInv, NEW c \in Client, NEW node \in Node, NEW timeout \in Timeout,
           requestPmQosTimed(c, node, timeout)
  PROVE  IndInv'
<1> USE DEF IndInv, requestPmQosTimed, pushEvent, Ready, sendEventDelayed,
       generateNewKey, With, clients
<1>1. TypeOK'
  <2>1. [type |-> "openTimed", node |-> node, timeout |-> timeout] \in Event
    BY DEF Event, OpenTimed
  <2> QED BY <2>1 DEF TypeOK
<1>2. QueueInv'
  BY DEF TypeOK, QueueInv
<1>3. WorkerInv'
  BY DEF TypeOK, WorkerInv, IsQos, ReadEnd, Free, Polling
<1>4. ExpiryInv'
  BY DEF TypeOK, ExpiryInv, IsExpiry, IsQos, WorkerHolds, Free, Polling
<1>5. WatchInv'
  BY DEF TypeOK, WatchInv, IsQos, WorkerHolds, Free, Polling
<1>6. CallerInv'
  <2>1. \A k \in DOMAIN mQueuedEvents' : mQueuedEvents'[k].type = "openHandle" =>
          Awaits(mQueuedEvents[k].caller, k)'
    BY DEF CallerInv, Awaits, QueueInv, TypeOK
  <2>2. (mWorker.at \in {"open", "pipe", "listen", "store", "wake"}
           /\ mWorker.ev.type = "openHandle" => Awaits(mWorker.ev.caller, mWorker.key))'
    BY DEF CallerInv, Awaits
  <2>3. (Serving => mWorker.key < mKey /\ mWorker.key \notin DOMAIN mQueuedEvents)'
    BY DEF TypeOK, Worker, CallerInv, Serving
  <2>4. (mWorker.at = "wake" => ret[mWorker.ev.caller] = mWorker.out)'
    BY DEF TypeOK, WorkerInv, CallerInv, Awaits, OpenHandle
  <2> QED BY <2>1, <2>2, <2>3, <2>4 DEF CallerInv
<1>7. ClientInv'
  BY DEF TypeOK, ClientInv, Got, ReadEnd, Free
<1> QED BY <1>1, <1>2, <1>3, <1>4, <1>5, <1>6, <1>7

LEMMA HandleStep ==
  ASSUME IndInv, NEW c \in Client, NEW node \in Node, createPmQosHandle(c, node)
  PROVE  IndInv'
<1> USE DEF IndInv, createPmQosHandle, pushEvent, Ready, sendEventDelayed,
       generateNewKey, With
<1>1. TypeOK'
  <2>1. [type |-> "openHandle", node |-> node, caller |-> c] \in Event
    BY DEF Event, OpenHandle
  <2> QED BY <2>1 DEF TypeOK
<1>2. QueueInv'
  BY DEF TypeOK, QueueInv
<1>3. WorkerInv'
  BY DEF TypeOK, WorkerInv, IsQos, ReadEnd, Free, Polling
<1>4. ExpiryInv'
  BY DEF TypeOK, ExpiryInv, IsExpiry, IsQos, WorkerHolds, Free, Polling
<1>5. WatchInv'
  BY DEF TypeOK, WatchInv, IsQos, WorkerHolds, Free, Polling
<1>6. CallerInv'
  <2>1. \A k \in DOMAIN mQueuedEvents' : mQueuedEvents'[k].type = "openHandle" =>
          Awaits(mQueuedEvents[k].caller, k)'
    BY DEF CallerInv, Awaits, QueueInv, TypeOK, Event, OpenHandle, OpenTimed, Expiry
  <2>2. (mWorker.at \in {"open", "pipe", "listen", "store", "wake"}
           /\ mWorker.ev.type = "openHandle" => Awaits(mWorker.ev.caller, mWorker.key))'
    BY DEF TypeOK, CallerInv, Awaits, WorkerInv, OpenHandle
  <2>3. (Serving => mWorker.key < mKey /\ mWorker.key \notin DOMAIN mQueuedEvents)'
    BY DEF TypeOK, Worker, CallerInv, Serving
  <2>4. (mWorker.at = "wake" => ret[mWorker.ev.caller] = mWorker.out)'
    BY DEF TypeOK, WorkerInv, CallerInv, Awaits, OpenHandle
  <2> QED BY <2>1, <2>2, <2>3, <2>4 DEF CallerInv
<1>7. ClientInv'
  BY DEF TypeOK, ClientInv, Got, ReadEnd, Free
<1> QED BY <1>1, <1>2, <1>3, <1>4, <1>5, <1>6, <1>7

LEMMA ReturnStep ==
  ASSUME IndInv, NEW c \in Client, WaitReturns(c)
  PROVE  IndInv'
<1> USE DEF IndInv, WaitReturns, queue
<1>1. TypeOK'
  BY DEF TypeOK
<1>2. QueueInv'
  BY DEF TypeOK, QueueInv
<1>3. WorkerInv'
  BY DEF TypeOK, WorkerInv, IsQos, ReadEnd, Free, Polling
<1>4. ExpiryInv'
  BY DEF TypeOK, ExpiryInv, IsExpiry, IsQos, WorkerHolds, Free, Polling
<1>5. WatchInv'
  BY DEF TypeOK, WatchInv, IsQos, WorkerHolds, Free, Polling
<1>6. CallerInv'
  BY DEF TypeOK, WorkerInv, CallerInv, Awaits, Serving, Polling, Event, OpenHandle
<1>7. ClientInv'
  BY DEF TypeOK, ClientInv, Got, ReadEnd, Free
<1> QED BY <1>1, <1>2, <1>3, <1>4, <1>5, <1>6, <1>7

LEMMA DirectStep ==
  ASSUME IndInv, NEW c \in Client, requestPmQos(c)
  PROVE  IndInv'
<1> USE DEF IndInv, requestPmQos, LowestFree, queue
<1>1. TypeOK'
  <2>1. [kind |-> "own", by |-> c] \in File
    BY DEF File
  <2> QED BY <2>1 DEF TypeOK
<1>2. QueueInv'
  BY DEF TypeOK, QueueInv
<1>3. WorkerInv'
  BY DEF TypeOK, WorkerInv, IsQos, ReadEnd, Free, Polling
<1>4. ExpiryInv'
  BY DEF TypeOK, ExpiryInv, IsExpiry, IsQos, WorkerHolds, Free, Polling
<1>5. WatchInv'
  BY DEF TypeOK, WatchInv, IsQos, WorkerHolds, Free, Polling
<1>6. CallerInv'
  BY DEF TypeOK, WorkerInv, CallerInv, Awaits, Serving, Polling, Event, OpenHandle
<1>7. ClientInv'
  BY DEF TypeOK, ClientInv, Got, ReadEnd, Free
<1> QED BY <1>1, <1>2, <1>3, <1>4, <1>5, <1>6, <1>7

LEMMA CloseStep ==
  ASSUME IndInv, NEW c \in Client, ClientCloses(c)
  PROVE  IndInv'
<1> USE DEF IndInv, ClientCloses, Close, queue
<1>0. /\ pc[c] = "holding" => ret[c] \in Fd /\ file[ret[c]] = ReadEnd(call[c])
      /\ pc[c] = "direct" => ret[c] \in Fd /\ file[ret[c]] = [kind |-> "own", by |-> c]
  BY NoFdType DEF ClientInv, Got
<1>a. ret[c] \in Fd /\ file[ret[c]].kind \in {"read", "own"}
  BY <1>0 DEF ReadEnd
<1>b. mWorker.at \in {"listen", "store", "wake"} => mWorker.out # ret[c]
  <2> SUFFICES ASSUME mWorker.at \in {"listen", "store", "wake"}, mWorker.out = ret[c]
               PROVE  FALSE
    OBVIOUS
  <2>1. file[ret[c]] = ReadEnd(mWorker.key)
    BY <1>a DEF WorkerInv
  <2>2. /\ mWorker.ev.caller \in Client /\ pc[mWorker.ev.caller] = "waiting"
        /\ call[mWorker.ev.caller] = mWorker.key
    BY DEF WorkerInv, OpenHandle, CallerInv, Awaits
  <2>3. pc[c] = "holding" /\ file[ret[c]] = ReadEnd(call[c])
    BY <2>1, <1>0 DEF ReadEnd
  <2>4. call[c] = mWorker.key
    BY <2>1, <2>3 DEF ReadEnd
  <2> QED BY <2>2, <2>3, <2>4 DEF ClientInv
<1>1. TypeOK'
  <2>1. Free \in File
    BY DEF File
  <2> QED BY <2>1 DEF TypeOK
<1>2. QueueInv'
  BY <1>a, <1>b DEF TypeOK, QueueInv
<1>3. WorkerInv'
  BY <1>a, <1>b DEF TypeOK, WorkerInv, IsQos, ReadEnd, Free, Polling, Worker
<1>4. ExpiryInv'
  BY <1>a, <1>b DEF TypeOK, ExpiryInv, IsExpiry, IsQos, WorkerHolds, Free, Polling
<1>5. WatchInv'
  BY <1>a, <1>b DEF TypeOK, WatchInv, IsQos, WorkerHolds, Free, Polling
<1>6. CallerInv'
  BY <1>a, <1>b DEF TypeOK, WorkerInv, CallerInv, Awaits, Serving, Polling, Event,
      OpenHandle
<1>7. ClientInv'
  <2>1. ASSUME NEW d \in Client, d # c, ret[d] = ret[c]
        PROVE  /\ pc[d] = "waiting" => done[d] = "CLOSED"
               /\ pc[d] \notin {"holding", "direct"}
    <3>1. pc[d] = "direct" => file[ret[d]] = [kind |-> "own", by |-> d]
      BY DEF ClientInv
    <3>2. pc[d] = "holding" \/ (pc[d] = "waiting" /\ done[d] = "OPENED")
            => file[ret[d]] = ReadEnd(call[d])
      BY <1>a, <2>1, NoFdType DEF ClientInv, Got
    <3>3. pc[d] # "direct"
      BY <1>0, <2>1, <3>1 DEF ReadEnd
    <3>4. ~ (pc[d] = "holding" \/ (pc[d] = "waiting" /\ done[d] = "OPENED"))
      <4> SUFFICES ASSUME pc[d] = "holding" \/ (pc[d] = "waiting" /\ done[d] = "OPENED")
                   PROVE  FALSE
        OBVIOUS
      <4>1. pc[c] = "holding" /\ call[c] = call[d]
        BY <1>0, <2>1, <3>2 DEF ReadEnd
      <4> QED BY <2>1, <4>1 DEF ClientInv
    <3> QED BY <3>3, <3>4 DEF TypeOK
  <2> QED BY <1>a, <2>1 DEF TypeOK, ClientInv, Got, ReadEnd
<1> QED BY <1>1, <1>2, <1>3, <1>4, <1>5, <1>6, <1>7

LEMMA MessageStep ==
  ASSUME IndInv, NEW k \in DOMAIN mMessages, handleMessage(k)
  PROVE  IndInv'
<1> USE DEF IndInv, handleMessage, removeEventByKey, Without, FirstStep, Due, clients
<1>1. TypeOK'
  <2>1. mWorker' \in Worker
    BY DEF TypeOK, Worker, Places, Polling, QueueInv
  <2> QED BY <2>1 DEF TypeOK
<1>2. QueueInv'
  BY DEF TypeOK, QueueInv
<1>3. WorkerInv'
  BY DEF TypeOK, WorkerInv, IsQos, ReadEnd, Free, Polling, QueueInv, ExpiryInv, IsExpiry,
      Event, OpenTimed, OpenHandle, Expiry
<1>4. ExpiryInv'
  BY DEF TypeOK, ExpiryInv, IsExpiry, IsQos, WorkerHolds, Free, Polling, QueueInv, Event,
      Expiry
<1>5. WatchInv'
  BY DEF TypeOK, WatchInv, IsQos, WorkerHolds, Free, Polling, QueueInv, ExpiryInv, IsExpiry
<1>6. CallerInv'
  BY DEF TypeOK, WorkerInv, CallerInv, Awaits, Serving, Polling, Event, OpenHandle,
      QueueInv, OpenTimed, Expiry
<1>7. ClientInv'
  BY DEF TypeOK, ClientInv, Got, ReadEnd, Free
<1> QED BY <1>1, <1>2, <1>3, <1>4, <1>5, <1>6, <1>7

LEMMA OpenStep ==
  ASSUME IndInv, openPmQosNode
  PROVE  IndInv'
<1> USE DEF IndInv, openPmQosNode, LowestFree, queue, clients
<1>1. TypeOK'
  <2>1. mWorker.ev.node \in Node
    BY DEF WorkerInv, OpenTimed, OpenHandle
  <2>2. file' \in [Fd -> File]
    BY <2>1 DEF TypeOK, Worker, File
  <2>3. mWorker' \in Worker
    <3>1. PICK f \in Fd :
            mWorker' = [mWorker EXCEPT !.fd = f,
                          !.at = IF mWorker.ev.type = "openTimed" THEN "arm" ELSE "pipe"]
      OBVIOUS
    <3> HIDE DEF openPmQosNode, IndInv
    <3> QED BY <3>1 DEF IndInv, TypeOK, Worker, Places
  <2> QED BY <2>2, <2>3 DEF TypeOK
<1>2. QueueInv'
  BY DEF TypeOK, QueueInv
<1>3. WorkerInv'
  BY DEF TypeOK, WorkerInv, IsQos, ReadEnd, Free, Polling, OpenTimed, OpenHandle, Worker
<1>4. ExpiryInv'
  BY DEF TypeOK, ExpiryInv, IsExpiry, IsQos, WorkerHolds, Free, Polling
<1>5. WatchInv'
  BY DEF TypeOK, WatchInv, IsQos, WorkerHolds, Free, Polling
<1>6. CallerInv'
  BY DEF TypeOK, WorkerInv, CallerInv, Awaits, Serving, Polling, Event, OpenHandle
<1>7. ClientInv'
  BY DEF TypeOK, ClientInv, Got, ReadEnd, Free
<1> QED BY <1>1, <1>2, <1>3, <1>4, <1>5, <1>6, <1>7

LEMMA OpenFailsStep ==
  ASSUME IndInv, OpenFails
  PROVE  IndInv'
<1> USE DEF IndInv, OpenFails, queue, clients
<1>1. TypeOK'
  <2>1. mWorker' \in Worker
    BY PollingType DEF TypeOK, Worker, Places
  <2> QED BY <2>1 DEF TypeOK
<1>2. QueueInv'
  BY DEF TypeOK, QueueInv
<1>3. WorkerInv'
  <2>1. CASE mWorker.ev.type = "openTimed"
    BY <2>1 DEF WorkerInv, Polling
  <2>2. CASE mWorker.ev.type # "openTimed"
    <3>1. mWorker.ev \in OpenHandle
      BY <2>2 DEF WorkerInv, OpenTimed
    <3>2. mWorker'.at = "store" /\ mWorker'.ev = mWorker.ev /\ mWorker'.out = NoFd
      BY <2>2 DEF TypeOK, Worker
    <3> QED BY <3>1, <3>2, NoFdType DEF WorkerInv
  <2> QED BY <2>1, <2>2
<1>4. ExpiryInv'
  BY DEF TypeOK, ExpiryInv, IsExpiry, IsQos, WorkerHolds, Free, Polling
<1>5. WatchInv'
  BY DEF TypeOK, WatchInv, IsQos, WorkerHolds, Free, Polling
<1>6. CallerInv'
  BY DEF TypeOK, WorkerInv, CallerInv, Awaits, Serving, Polling, Event, OpenHandle
<1>7. ClientInv'
  BY DEF TypeOK, ClientInv, Got, ReadEnd, Free
<1> QED BY <1>1, <1>2, <1>3, <1>4, <1>5, <1>6, <1>7

LEMMA ArmStep ==
  ASSUME IndInv, openPmQosTimed
  PROVE  IndInv'
<1> USE DEF IndInv, openPmQosTimed, sendEventDelayed, generateNewKey, With, clients
<1>1. TypeOK'
  <2>1. mWorker.ev \in OpenTimed /\ mWorker.fd \in Fd
    BY DEF WorkerInv, IsQos
  <2>2. mWorker.ev.timeout \in Timeout
    BY <2>1 DEF OpenTimed
  <2>3. [type |-> "timeout", fd |-> mWorker.fd] \in Event
    BY <2>1 DEF Event, Expiry
  <2>4. mWorker.ev.timeout \in Int
    BY <2>2, TimeoutType
  <2> QED BY <2>3, <2>4, PollingType DEF TypeOK
<1>2. QueueInv'
  BY DEF TypeOK, QueueInv
<1>3. WorkerInv'
  BY DEF TypeOK, WorkerInv, IsQos, ReadEnd, Free, Polling
<1>4. ExpiryInv'
  BY DEF TypeOK, ExpiryInv, IsExpiry, IsQos, WorkerHolds, Free, Polling, WorkerInv, WatchInv
<1>5. WatchInv'
  BY DEF TypeOK, WatchInv, IsQos, WorkerHolds, Free, Polling
<1>6. CallerInv'
  BY DEF TypeOK, WorkerInv, CallerInv, Awaits, Serving, Polling, Event, OpenHandle, QueueInv
<1>7. ClientInv'
  BY DEF TypeOK, ClientInv, Got, ReadEnd, Free
<1> QED BY <1>1, <1>2, <1>3, <1>4, <1>5, <1>6, <1>7

LEMMA TimeoutStep ==
  ASSUME IndInv, timeoutRequest
  PROVE  IndInv'
<1> USE DEF IndInv, timeoutRequest, Close, queue, clients
<1>1. TypeOK'
  <2>1. Free \in File
    BY DEF File
  <2> QED BY <2>1, PollingType DEF TypeOK
<1>2. QueueInv'
  BY DEF TypeOK, QueueInv
<1>3. WorkerInv'
  BY DEF TypeOK, WorkerInv, IsQos, ReadEnd, Free, Polling
<1>4. ExpiryInv'
  BY DEF TypeOK, ExpiryInv, IsExpiry, IsQos, WorkerHolds, Free, Polling
<1>5. WatchInv'
  BY DEF TypeOK, WatchInv, IsQos, WorkerHolds, Free, Polling, WorkerInv
<1>6. CallerInv'
  BY DEF TypeOK, WorkerInv, CallerInv, Awaits, Serving, Polling, Event, OpenHandle
<1>7. ClientInv'
  BY DEF TypeOK, ClientInv, Got, ReadEnd, Free, WorkerInv, IsQos
<1> QED BY <1>1, <1>2, <1>3, <1>4, <1>5, <1>6, <1>7

LEMMA PipeStep ==
  ASSUME IndInv, createHandleForFd
  PROVE  IndInv'
<1> USE DEF IndInv, createHandleForFd, LowestFree, queue, clients
<1>1. TypeOK'
  <2>1. file' \in [Fd -> File]
    BY DEF TypeOK, Worker, File
  <2>2. mWorker' \in Worker
    <3>1. PICK r, w \in Fd :
            mWorker' = [mWorker EXCEPT !.at = "listen", !.server = w, !.out = r]
      OBVIOUS
    <3> HIDE DEF createHandleForFd, IndInv
    <3> QED BY <3>1 DEF IndInv, TypeOK, Worker, Places
  <2> QED BY <2>1, <2>2 DEF TypeOK
<1>2. QueueInv'
  BY DEF TypeOK, QueueInv
<1>3. WorkerInv'
  BY DEF TypeOK, WorkerInv, IsQos, ReadEnd, Free, Polling, Worker
<1>4. ExpiryInv'
  BY DEF TypeOK, ExpiryInv, IsExpiry, IsQos, WorkerHolds, Free, Polling
<1>5. WatchInv'
  BY DEF TypeOK, WatchInv, IsQos, WorkerHolds, Free, Polling
<1>6. CallerInv'
  BY DEF TypeOK, WorkerInv, CallerInv, Awaits, Serving, Polling, Event, OpenHandle
<1>7. ClientInv'
  BY DEF TypeOK, ClientInv, Got, ReadEnd, Free
<1> QED BY <1>1, <1>2, <1>3, <1>4, <1>5, <1>6, <1>7

LEMMA PipeFailsStep ==
  ASSUME IndInv, PipeFails
  PROVE  IndInv'
<1> USE DEF IndInv, PipeFails, Close, queue, clients
<1>1. TypeOK'
  <2>1. Free \in File
    BY DEF File
  <2>2. mWorker' \in Worker
    BY DEF TypeOK, Worker, Places
  <2> QED BY <2>1, <2>2 DEF TypeOK
<1>2. QueueInv'
  BY DEF TypeOK, QueueInv
<1>3. WorkerInv'
  <2>1. mWorker'.at = "store" /\ mWorker'.ev = mWorker.ev /\ mWorker'.out = NoFd
    BY DEF TypeOK, Worker
  <2> QED BY <2>1, NoFdType DEF WorkerInv
<1>4. ExpiryInv'
  BY DEF TypeOK, ExpiryInv, IsExpiry, IsQos, WorkerHolds, Free, Polling
<1>5. WatchInv'
  BY DEF TypeOK, WatchInv, IsQos, WorkerHolds, Free, Polling, WorkerInv
<1>6. CallerInv'
  BY DEF TypeOK, WorkerInv, CallerInv, Awaits, Serving, Polling, Event, OpenHandle
<1>7. ClientInv'
  BY DEF TypeOK, ClientInv, Got, ReadEnd, Free, WorkerInv, IsQos
<1> QED BY <1>1, <1>2, <1>3, <1>4, <1>5, <1>6, <1>7

LEMMA ListenStep ==
  ASSUME IndInv, listenForHandleToCloseFd
  PROVE  IndInv'
<1> USE DEF IndInv, listenForHandleToCloseFd, CallbackContext, queue, clients
<1>1. TypeOK'
  <2>1. mWorker' \in Worker
    BY DEF TypeOK, Worker, Places
  <2>2. CallbackContext \in [handle : Fd, fd : Fd]
    BY DEF WorkerInv, IsQos
  <2> QED BY <2>1, <2>2 DEF TypeOK
<1>2. QueueInv'
  BY DEF TypeOK, QueueInv
<1>3. WorkerInv'
  BY DEF TypeOK, WorkerInv, IsQos, ReadEnd, Free, Polling, Worker
<1>4. ExpiryInv'
  BY DEF TypeOK, ExpiryInv, IsExpiry, IsQos, WorkerHolds, Free, Polling, WorkerInv
<1>5. WatchInv'
  BY DEF TypeOK, WatchInv, IsQos, WorkerHolds, Free, Polling, WorkerInv
<1>6. CallerInv'
  BY DEF TypeOK, WorkerInv, CallerInv, Awaits, Serving, Polling, Event, OpenHandle
<1>7. ClientInv'
  BY DEF TypeOK, ClientInv, Got, ReadEnd, Free
<1> QED BY <1>1, <1>2, <1>3, <1>4, <1>5, <1>6, <1>7

LEMMA AddFdFailsStep ==
  ASSUME IndInv, AddFdFails
  PROVE  IndInv'
<1> USE DEF IndInv, AddFdFails, queue, clients
<1>1. TypeOK'
  <2>1. mWorker' \in Worker
    BY PollingType DEF TypeOK, Worker, Places
  <2> QED BY <2>1 DEF TypeOK
<1>2. QueueInv'
  BY DEF TypeOK, QueueInv
<1>3. WorkerInv'
  BY DEF TypeOK, WorkerInv, IsQos, ReadEnd, Free, Polling, Worker
<1>4. ExpiryInv'
  BY DEF TypeOK, ExpiryInv, IsExpiry, IsQos, WorkerHolds, Free, Polling
<1>5. WatchInv'
  BY DEF TypeOK, WatchInv, IsQos, WorkerHolds, Free, Polling
<1>6. CallerInv'
  BY DEF TypeOK, WorkerInv, CallerInv, Awaits, Serving, Polling, Event, OpenHandle
<1>7. ClientInv'
  BY DEF TypeOK, ClientInv, Got, ReadEnd, Free
<1> QED BY <1>1, <1>2, <1>3, <1>4, <1>5, <1>6, <1>7

LEMMA StoreStep ==
  ASSUME IndInv, StoreResult
  PROVE  IndInv'
<1> USE DEF IndInv, StoreResult, queue
<1>1. TypeOK'
  <2>1. mWorker' \in Worker
    BY PollingType DEF TypeOK, Worker, Places
  <2> QED BY <2>1 DEF TypeOK, WorkerInv
<1>2. QueueInv'
  BY DEF TypeOK, QueueInv
<1>3. WorkerInv'
  BY DEF TypeOK, WorkerInv, IsQos, ReadEnd, Free, Polling, Worker
<1>4. ExpiryInv'
  BY DEF TypeOK, ExpiryInv, IsExpiry, IsQos, WorkerHolds, Free, Polling
<1>5. WatchInv'
  BY DEF TypeOK, WatchInv, IsQos, WorkerHolds, Free, Polling
<1>6. CallerInv'
  BY DEF TypeOK, WorkerInv, CallerInv, Awaits, Serving, Polling, Event, OpenHandle, Worker
<1>7. ClientInv'
  BY DEF TypeOK, ClientInv, Got, ReadEnd, Free, CallerInv, Awaits, WorkerInv, OpenHandle
<1> QED BY <1>1, <1>2, <1>3, <1>4, <1>5, <1>6, <1>7

LEMMA WakeStep ==
  ASSUME IndInv, OpenBarrier
  PROVE  IndInv'
<1> USE DEF IndInv, OpenBarrier, queue
<1>1. TypeOK'
  BY PollingType DEF TypeOK
<1>2. QueueInv'
  BY DEF TypeOK, QueueInv
<1>3. WorkerInv'
  BY DEF TypeOK, WorkerInv, IsQos, ReadEnd, Free, Polling
<1>4. ExpiryInv'
  BY DEF TypeOK, ExpiryInv, IsExpiry, IsQos, WorkerHolds, Free, Polling
<1>5. WatchInv'
  BY DEF TypeOK, WatchInv, IsQos, WorkerHolds, Free, Polling
<1>6. CallerInv'
  BY DEF TypeOK, WorkerInv, CallerInv, Awaits, Serving, Polling, Event, OpenHandle,
      ClientInv, OpenTimed, Expiry
<1>7. ClientInv'
  BY DEF TypeOK, ClientInv, Got, ReadEnd, Free, CallerInv, Awaits, WorkerInv, OpenHandle
<1> QED BY <1>1, <1>2, <1>3, <1>4, <1>5, <1>6, <1>7

LEMMA HangupStep ==
  ASSUME IndInv, NEW w \in watched, pipeCloseCb(w)
  PROVE  IndInv'
<1> USE DEF IndInv, pipeCloseCb, queue, clients
<1>1. TypeOK'
  <2>1. mWorker' \in Worker
    BY DEF TypeOK, Worker, Places, Polling
  <2> QED BY <2>1 DEF TypeOK
<1>2. QueueInv'
  BY DEF TypeOK, QueueInv
<1>3. WorkerInv'
  BY DEF TypeOK, WorkerInv, IsQos, ReadEnd, Free, Polling, WatchInv
<1>4. ExpiryInv'
  BY DEF TypeOK, ExpiryInv, IsExpiry, IsQos, WorkerHolds, Free, Polling
<1>5. WatchInv'
  BY DEF TypeOK, WatchInv, IsQos, WorkerHolds, Free, Polling
<1>6. CallerInv'
  BY DEF TypeOK, WorkerInv, CallerInv, Awaits, Serving, Polling, Event, OpenHandle
<1>7. ClientInv'
  BY DEF TypeOK, ClientInv, Got, ReadEnd, Free
<1> QED BY <1>1, <1>2, <1>3, <1>4, <1>5, <1>6, <1>7

LEMMA CloseHandleStep ==
  ASSUME IndInv, CloseHandle
  PROVE  IndInv'
<1> USE DEF IndInv, CloseHandle, Close, queue, clients
<1>1. TypeOK'
  <2>1. Free \in File
    BY DEF File
  <2>2. mWorker' \in Worker
    BY DEF TypeOK, Worker, Places
  <2> QED BY <2>1, <2>2 DEF TypeOK
<1>2. QueueInv'
  BY DEF TypeOK, QueueInv
<1>3. WorkerInv'
  BY DEF TypeOK, WorkerInv, IsQos, ReadEnd, Free, Polling, Worker
<1>4. ExpiryInv'
  BY DEF TypeOK, ExpiryInv, IsExpiry, IsQos, WorkerHolds, Free, Polling, WorkerInv
<1>5. WatchInv'
  BY DEF TypeOK, WatchInv, IsQos, WorkerHolds, Free, Polling, WorkerInv
<1>6. CallerInv'
  BY DEF TypeOK, WorkerInv, CallerInv, Awaits, Serving, Polling, Event, OpenHandle
<1>7. ClientInv'
  BY DEF TypeOK, ClientInv, Got, ReadEnd, Free, WorkerInv, IsQos
<1> QED BY <1>1, <1>2, <1>3, <1>4, <1>5, <1>6, <1>7

LEMMA CloseFdStep ==
  ASSUME IndInv, CloseFd
  PROVE  IndInv'
<1> USE DEF IndInv, CloseFd, Close, queue, clients
<1>1. TypeOK'
  <2>1. Free \in File
    BY DEF File
  <2> QED BY <2>1, PollingType DEF TypeOK
<1>2. QueueInv'
  BY DEF TypeOK, QueueInv
<1>3. WorkerInv'
  BY DEF TypeOK, WorkerInv, IsQos, ReadEnd, Free, Polling
<1>4. ExpiryInv'
  BY DEF TypeOK, ExpiryInv, IsExpiry, IsQos, WorkerHolds, Free, Polling
<1>5. WatchInv'
  BY DEF TypeOK, WatchInv, IsQos, WorkerHolds, Free, Polling, WorkerInv
<1>6. CallerInv'
  BY DEF TypeOK, WorkerInv, CallerInv, Awaits, Serving, Polling, Event, OpenHandle
<1>7. ClientInv'
  BY DEF TypeOK, ClientInv, Got, ReadEnd, Free, WorkerInv, IsQos
<1> QED BY <1>1, <1>2, <1>3, <1>4, <1>5, <1>6, <1>7

LEMMA TickStep ==
  ASSUME IndInv, Tick
  PROVE  IndInv'
<1> USE DEF IndInv, Tick, clients
<1>1. TypeOK'
  BY DEF TypeOK
<1>2. QueueInv'
  BY DEF TypeOK, QueueInv
<1>3. WorkerInv'
  BY DEF TypeOK, WorkerInv, IsQos, ReadEnd, Free, Polling
<1>4. ExpiryInv'
  BY DEF TypeOK, ExpiryInv, IsExpiry, IsQos, WorkerHolds, Free, Polling
<1>5. WatchInv'
  BY DEF TypeOK, WatchInv, IsQos, WorkerHolds, Free, Polling
<1>6. CallerInv'
  BY DEF TypeOK, WorkerInv, CallerInv, Awaits, Serving, Polling, Event, OpenHandle
<1>7. ClientInv'
  BY DEF TypeOK, ClientInv, Got, ReadEnd, Free
<1> QED BY <1>1, <1>2, <1>3, <1>4, <1>5, <1>6, <1>7

LEMMA StutterStep ==
  ASSUME IndInv, UNCHANGED vars
  PROVE  IndInv'
<1> USE DEF IndInv, vars
<1>1. TypeOK'
  BY DEF TypeOK
<1>2. QueueInv'
  BY DEF TypeOK, QueueInv
<1>3. WorkerInv'
  BY DEF TypeOK, WorkerInv, IsQos, ReadEnd, Free, Polling
<1>4. ExpiryInv'
  BY DEF TypeOK, ExpiryInv, IsExpiry, IsQos, WorkerHolds, Free, Polling
<1>5. WatchInv'
  BY DEF TypeOK, WatchInv, IsQos, WorkerHolds, Free, Polling
<1>6. CallerInv'
  BY DEF TypeOK, WorkerInv, CallerInv, Awaits, Serving, Polling, Event, OpenHandle
<1>7. ClientInv'
  BY DEF TypeOK, ClientInv, Got, ReadEnd, Free
<1> QED BY <1>1, <1>2, <1>3, <1>4, <1>5, <1>6, <1>7

-------------------------------------------------------------------------------
LEMMA InitInv == Init => IndInv
<1> SUFFICES ASSUME Init PROVE IndInv
  OBVIOUS
<1>1. mWorker = [Polling EXCEPT !.at = "start"] /\ mWorker.at = "start"
  BY DEF Init, Polling
<1>2. mWorker \in Worker
  BY <1>1, PollingType DEF Worker, Places
<1>3. TypeOK
  BY <1>2 DEF Init, TypeOK, File
<1>4. QueueInv /\ WorkerInv /\ ExpiryInv /\ WatchInv /\ CallerInv /\ ClientInv
  BY <1>1 DEF Init, QueueInv, WorkerInv, ExpiryInv, WatchInv, CallerInv, Serving, ClientInv
<1> QED BY <1>3, <1>4 DEF IndInv

LEMMA NextInv == IndInv /\ [Next]_vars => IndInv'
<1> SUFFICES ASSUME IndInv, [Next]_vars PROVE IndInv'
  OBVIOUS
<1>1. CASE LooperStep
  BY <1>1, StartStep, MessageStep, OpenStep, OpenFailsStep, ArmStep, TimeoutStep, PipeStep,
     PipeFailsStep, ListenStep, AddFdFailsStep, StoreStep, WakeStep, HangupStep,
     CloseHandleStep, CloseFdStep DEF LooperStep
<1>2. CASE Tick
  BY <1>2, TickStep
<1>3. CASE \E c \in Client : ClientStep(c)
  BY <1>3, TimedStep, HandleStep, ReturnStep, DirectStep, CloseStep DEF ClientStep
<1>4. CASE UNCHANGED vars
  BY <1>4, StutterStep
<1> QED BY <1>1, <1>2, <1>3, <1>4 DEF Next

LEMMA Invariance == Spec => []IndInv
BY InitInv, NextInv, PTL DEF Spec

(* The events, the looper thread's locals, the descriptor table and what   *)
(* the clients hold keep their types.                                      *)
THEOREM TypeCorrect == Spec => []TypeOK
<1>1. IndInv => TypeOK
  BY DEF IndInv
<1> QED BY <1>1, Invariance, PTL

(* However requests, timeouts, closed handles and failures interleave,     *)
(* timeoutRequest, pipeCloseCb and createHandleForFd close a descriptor    *)
(* only while it is the device node they were given, and only once.        *)
THEOREM ClosedOnce == Spec => []ClosedByOneHolder
<1>1. IndInv => ClosedByOneHolder
  <2> SUFFICES ASSUME IndInv, NEW f \in Fd
               PROVE  /\ \A x, y \in Holders(f) : x = y
                      /\ Holders(f) # {} => file[f].kind = "qos"
    BY DEF ClosedByOneHolder
  <2>1. \A x \in Holders(f) :
          \/ \E k \in DOMAIN mQueuedEvents : Expires(k, f) /\ x = <<"event", k>>
          \/ \E w \in watched : w.fd = f /\ x = <<"context", w.handle>>
          \/ WorkerHolds(f) /\ x = <<"worker", 0>>
    BY DEF Holders
  <2>2. \A k \in DOMAIN mQueuedEvents : Expires(k, f) =>
          IsQos(f) /\ ~ WorkerHolds(f) /\ \A w \in watched : w.fd # f
    BY DEF IndInv, ExpiryInv, IsExpiry, Expires
  <2>3. \A j, k \in DOMAIN mQueuedEvents : Expires(j, f) /\ Expires(k, f) => j = k
    BY DEF IndInv, ExpiryInv, IsExpiry, Expires
  <2>4. \A w \in watched : w.fd = f => IsQos(f) /\ ~ WorkerHolds(f)
    BY DEF IndInv, WatchInv
  <2>5. \A v, w \in watched : v.fd = f /\ w.fd = f => v = w
    BY DEF IndInv, WatchInv
  <2>6. WorkerHolds(f) => IsQos(f)
    BY DEF IndInv, WorkerInv, WorkerHolds
  <2> QED BY <2>1, <2>2, <2>3, <2>4, <2>5, <2>6 DEF IsQos
<1> QED BY <1>1, Invariance, PTL

(* createPmQosHandle and requestPmQos give every client a descriptor of    *)
(* its own, which no other thread closes.                                  *)
THEOREM ClientFdSafe == Spec => []ClientKeepsItsFd
<1>1. IndInv => ClientKeepsItsFd
  BY NoFdType DEF IndInv, ClientInv, Got, ReadEnd, ClientKeepsItsFd
<1> QED BY <1>1, Invariance, PTL

(* No reuse of a descriptor number reaches the poker's or a client's files *)
(* (timeoutRequest, pipeCloseCb, createPmQosHandle).                       *)
THEOREM DescriptorsOwned == Spec => []FdsOwned
BY ClosedOnce, ClientFdSafe, PTL DEF FdsOwned

-------------------------------------------------------------------------------
(* As long as addFd works, somebody will close every open device node.     *)
Kept(f) ==
  \/ \E k \in DOMAIN mQueuedEvents : Expires(k, f)
  \/ \E w \in watched : w.fd = f
  \/ WorkerHolds(f)

KeptInv == \A f \in Fd : file[f].kind = "qos" => Kept(f)

LEMMA KeptStep ==
  ASSUME "addFd" \notin Failures, IndInv, KeptInv, [Next]_vars
  PROVE  KeptInv'
<1> SUFFICES ASSUME NEW f \in Fd, file'[f].kind = "qos" PROVE Kept(f)'
  BY DEF KeptInv
<1> USE DEF IndInv, KeptInv, Kept, Expires, WorkerHolds
<1>1. CASE LooperStep
  <2>1. CASE readyToRun
    BY <2>1 DEF readyToRun, queue
  <2>2. CASE \E k \in DOMAIN mMessages : handleMessage(k)
    <3>1. PICK k \in DOMAIN mMessages : handleMessage(k)
      BY <2>2
    <3>2. k \in DOMAIN mQueuedEvents /\ Kept(f) /\ mWorker.at = "poll" /\ watched' = watched
      BY <3>1 DEF handleMessage, QueueInv
    <3>3. CASE Expires(k, f)
      BY <3>1, <3>2, <3>3 DEF handleMessage, FirstStep, Polling
    <3>4. CASE ~ Expires(k, f)
      BY <3>1, <3>2, <3>4 DEF handleMessage, removeEventByKey, Without
    <3> QED BY <3>3, <3>4
  <2>3. CASE openPmQosNode
    BY <2>3 DEF openPmQosNode, queue, TypeOK, Worker
  <2>4. CASE OpenFails
    BY <2>4 DEF OpenFails, queue
  <2>5. CASE openPmQosTimed
    <3>1. Kept(f)
      BY <2>5 DEF openPmQosTimed
    <3>2. CASE WorkerHolds(f)
      BY <2>5, <3>2 DEF openPmQosTimed, sendEventDelayed, With
    <3>3. CASE \E k \in DOMAIN mQueuedEvents : Expires(k, f)
      BY <2>5, <3>3 DEF openPmQosTimed, sendEventDelayed, With, QueueInv, TypeOK
    <3>4. CASE \E w \in watched : w.fd = f
      BY <2>5, <3>4 DEF openPmQosTimed
    <3> QED BY <3>1, <3>2, <3>3, <3>4
  <2>6. CASE timeoutRequest
    BY <2>6 DEF timeoutRequest, Close, queue, TypeOK, Free
  <2>7. CASE createHandleForFd
    BY <2>7 DEF createHandleForFd, queue, TypeOK, Worker
  <2>8. CASE PipeFails
    BY <2>8 DEF PipeFails, Close, queue, TypeOK, Free
  <2>9. CASE listenForHandleToCloseFd
    <3>1. Kept(f) /\ CallbackContext \in watched' /\ watched \subseteq watched'
      BY <2>9 DEF listenForHandleToCloseFd
    <3>2. CASE WorkerHolds(f)
      <4>1. CallbackContext.fd = f
        BY <2>9, <3>2 DEF listenForHandleToCloseFd, CallbackContext
      <4> QED BY <3>1, <4>1
    <3>3. CASE ~ WorkerHolds(f)
      BY <2>9, <3>1, <3>3 DEF listenForHandleToCloseFd, queue
    <3> QED BY <3>2, <3>3
  <2>10. CASE AddFdFails
    BY <2>10 DEF AddFdFails
  <2>11. CASE StoreResult
    BY <2>11 DEF StoreResult, queue
  <2>12. CASE OpenBarrier
    BY <2>12 DEF OpenBarrier, queue
  <2>13. CASE \E w \in watched : pipeCloseCb(w)
    BY <2>13 DEF pipeCloseCb, queue, Polling
  <2>14. CASE CloseHandle
    BY <2>14 DEF CloseHandle, Close, queue, TypeOK, Worker, WorkerInv, Free
  <2>15. CASE CloseFd
    BY <2>15 DEF CloseFd, Close, queue, TypeOK, WorkerInv, IsQos, Free
  <2> QED BY <1>1, <2>1, <2>2, <2>3, <2>4, <2>5, <2>6, <2>7, <2>8, <2>9, <2>10, <2>11,
      <2>12,
             <2>13, <2>14, <2>15 DEF LooperStep
<1>2. CASE Tick
  BY <1>2 DEF Tick
<1>3. CASE \E c \in Client : ClientStep(c)
  <2>1. PICK c \in Client : ClientStep(c)
    BY <1>3
  <2>2. CASE \E ev : pushEvent(ev) /\ UNCHANGED <<mWorker, watched, file>>
    <3>1. PICK ev : pushEvent(ev) /\ UNCHANGED <<mWorker, watched, file>>
      BY <2>2
    <3> QED BY <3>1 DEF pushEvent, sendEventDelayed, With, QueueInv, TypeOK
  <2>3. CASE WaitReturns(c)
    BY <2>3 DEF WaitReturns, queue
  <2>4. CASE requestPmQos(c)
    BY <2>4 DEF requestPmQos, queue, TypeOK
  <2>5. CASE ClientCloses(c)
    BY <2>5 DEF ClientCloses, Close, queue, TypeOK, Free
  <2> QED BY <2>1, <2>2, <2>3, <2>4, <2>5
             DEF ClientStep, requestPmQosTimed, createPmQosHandle
<1>4. CASE UNCHANGED vars
  BY <1>4 DEF vars
<1> QED BY <1>1, <1>2, <1>3, <1>4 DEF Next

(* Where addFd does not fail, no path of openPmQosTimed, createHandleForFd *)
(* or pipeCloseCb, failures of open and pipe included, loses a constraint. *)
THEOREM LeakFree ==
  ASSUME "addFd" \notin Failures
  PROVE  Spec => []NoConstraintLeaks
<1>1. Init => KeptInv
  BY DEF Init, KeptInv, Free
<1>2. IndInv /\ KeptInv /\ [Next]_vars => KeptInv'
  BY KeptStep
<1>3. KeptInv => NoConstraintLeaks
  BY DEF KeptInv, Kept, NoConstraintLeaks, Holders
<1> QED BY <1>1, <1>2, <1>3, Invariance, PTL DEF Spec

-------------------------------------------------------------------------------
(* The refinement.  A file stands for the request whose key it was opened  *)
(* under; what must be known is that no two requests share a key and that  *)
(* the ends of one pipe and its device node keep together.                 *)
IsRead(g)      == g \in Fd /\ file[g].kind = "read"
Fresh(k)       == \A f \in Fd : file[f].kind \in {"qos", "read"} => file[f].by # k
Unread(k)      == \A g \in Fd : IsRead(g) => file[g].by # k
Opened(f)      == /\ f \in Fd
                  /\ file[f] = [kind |-> "qos", node |-> mWorker.ev.node, by |-> mWorker.key]

(* The key of an open file is no longer queued, nor free to be handed out. *)
FileKeyInv ==
  \A f \in Fd : file[f].kind \in {"qos", "read", "write"} =>
     file[f].by < mKey /\ file[f].by \notin DOMAIN mQueuedEvents

(* A key names one device node and one handle.                             *)
OneFileInv ==
  \A f, g \in Fd :
       /\ file[f].kind \in {"qos", "read"}
       /\ file[g].kind = file[f].kind /\ file[g].by = file[f].by
     => f = g

(* The request being served has the files its place in the code says.      *)
ServeInv ==
  /\ mWorker.at = "open" => Fresh(mWorker.key)
  /\ mWorker.at \in {"arm", "pipe", "listen"} => Opened(mWorker.fd)
  /\ mWorker.at \in {"arm", "pipe"} => Unread(mWorker.key)
  /\ mWorker.at = "listen" => file[mWorker.server].by = mWorker.key
  /\ mWorker.at \in {"store", "wake"} /\ mWorker.out \in Fd =>
        /\ Opened(mWorker.fd)
        /\ \A k \in DOMAIN mQueuedEvents : ~ Expires(k, mWorker.fd)
  /\ mWorker.at \in {"store", "wake"} /\ mWorker.out = NoFd => Fresh(mWorker.key)

(* A constraint that is timed has no handle; one that is being closed has  *)
(* none any more.                                                          *)
HandleInv ==
  /\ \A k \in DOMAIN mQueuedEvents : IsExpiry(k) => Unread(file[mQueuedEvents[k].fd].by)
  /\ mWorker.at = "timeout" => Unread(file[mWorker.ev.fd].by)
  /\ mWorker.at \in {"closeHandle", "closeFd"} => Unread(file[mWorker.fd].by)
  /\ \A w \in watched : file[w.fd].by = file[w.handle].by

RefInv == FileKeyInv /\ OneFileInv /\ ServeInv /\ HandleInv

LEMMA KeyType ==
  ASSUME TypeOK, NEW f \in Fd, file[f].kind \in {"qos", "read", "write"}
  PROVE  file[f].by \in Nat
BY DEF TypeOK, File, Free

LEMMA RefStart ==
  ASSUME IndInv, RefInv, readyToRun
  PROVE  RefInv'
<1> USE DEF IndInv, RefInv, readyToRun, queue, clients, Polling
<1>1. FileKeyInv'
  BY DEF TypeOK, FileKeyInv, QueueInv, CallerInv, Serving, Worker, Free
<1>2. OneFileInv'
  BY DEF TypeOK, OneFileInv, ServeInv, Fresh, Unread, IsRead, Worker, Free
<1>3. ServeInv'
  BY DEF TypeOK, ServeInv, FileKeyInv, WorkerInv, Opened, Fresh, Unread, IsRead, IsQos,
         Expires, Worker, Free
<1>4. HandleInv'
  BY DEF TypeOK, HandleInv, FileKeyInv, ServeInv, WorkerInv, WatchInv, ExpiryInv,
         IsExpiry, Opened, Unread, IsRead, IsQos, Worker, Free
<1> QED BY <1>1, <1>2, <1>3, <1>4

LEMMA RefPush ==
  ASSUME IndInv, RefInv, NEW ev \in OpenTimed \cup OpenHandle,
           pushEvent(ev) /\ UNCHANGED <<mWorker, watched, file>>
  PROVE  RefInv'
<1> USE DEF IndInv, RefInv, pushEvent, Ready, sendEventDelayed, generateNewKey, With
<1>1. FileKeyInv'
  <2>1. \A f \in Fd : file[f].kind \in {"qos", "read", "write"} => file[f].by \in Nat
    BY KeyType
  <2> QED BY <2>1 DEF TypeOK, FileKeyInv
<1>2. OneFileInv'
  BY DEF TypeOK, OneFileInv, ServeInv, Fresh, Unread, IsRead, Worker, Free
<1>3. ServeInv'
  BY DEF TypeOK, ServeInv, Opened, Fresh, Unread, IsRead, Expires, OpenTimed, OpenHandle
<1>4. HandleInv'
  <2>1. \A k \in DOMAIN mQueuedEvents' : IsExpiry(k)' =>
          k \in DOMAIN mQueuedEvents /\ IsExpiry(k) /\ mQueuedEvents'[k] = mQueuedEvents[k]
    BY DEF IsExpiry, OpenTimed, OpenHandle
  <2>2. \A k : Unread(k)' = Unread(k)
    BY DEF Unread, IsRead
  <2>3. \A k \in DOMAIN mQueuedEvents' : IsExpiry(k)' => Unread(file'[mQueuedEvents'[k].fd].by)
    BY <2>1 DEF HandleInv
  <2> QED BY <2>2, <2>3 DEF HandleInv
<1> QED BY <1>1, <1>2, <1>3, <1>4

LEMMA RefReturn ==
  ASSUME IndInv, RefInv, NEW c \in Client, WaitReturns(c)
  PROVE  RefInv'
<1> USE DEF IndInv, RefInv, WaitReturns, queue
<1>1. FileKeyInv'
  BY DEF TypeOK, FileKeyInv, QueueInv, CallerInv, Serving, Worker, Free
<1>2. OneFileInv'
  BY DEF TypeOK, OneFileInv, ServeInv, Fresh, Unread, IsRead, Worker, Free
<1>3. ServeInv'
  BY DEF TypeOK, ServeInv, FileKeyInv, WorkerInv, Opened, Fresh, Unread, IsRead, IsQos,
         Expires, Worker, Free
<1>4. HandleInv'
  BY DEF TypeOK, HandleInv, FileKeyInv, ServeInv, WorkerInv, WatchInv, ExpiryInv,
         IsExpiry, Opened, Unread, IsRead, IsQos, Worker, Free
<1> QED BY <1>1, <1>2, <1>3, <1>4

LEMMA RefDirect ==
  ASSUME IndInv, RefInv, NEW c \in Client, requestPmQos(c)
  PROVE  RefInv'
<1> USE DEF IndInv, RefInv, requestPmQos, LowestFree, queue
<1>1. FileKeyInv'
  BY DEF TypeOK, FileKeyInv, QueueInv, CallerInv, Serving, Worker, Free
<1>2. OneFileInv'
  BY DEF TypeOK, OneFileInv, ServeInv, Fresh, Unread, IsRead, Worker, Free
<1>3. ServeInv'
  BY DEF TypeOK, ServeInv, FileKeyInv, WorkerInv, Opened, Fresh, Unread, IsRead, IsQos,
         Expires, Worker, Free
<1>4. HandleInv'
  BY DEF TypeOK, HandleInv, FileKeyInv, ServeInv, WorkerInv, WatchInv, ExpiryInv,
         IsExpiry, Opened, Unread, IsRead, IsQos, Worker, Free
<1> QED BY <1>1, <1>2, <1>3, <1>4

LEMMA RefClose ==
  ASSUME IndInv, RefInv, NEW c \in Client, ClientCloses(c)
  PROVE  RefInv'
<1>0. ret[c] \in Fd /\ file[ret[c]].kind \in {"read", "own"}
  <2>1. /\ pc[c] = "holding" => ret[c] \in Fd /\ file[ret[c]] = ReadEnd(call[c])
        /\ pc[c] = "direct" => ret[c] \in Fd /\ file[ret[c]] = [kind |-> "own", by |-> c]
    BY NoFdType DEF IndInv, ClientInv, Got
  <2> QED BY <2>1 DEF ClientCloses, ReadEnd
<1>1. /\ mKey' = mKey /\ mQueuedEvents' = mQueuedEvents
      /\ mWorker' = mWorker /\ watched' = watched
  BY DEF ClientCloses, queue
<1>2. \A f \in Fd : file'[f] = IF f = ret[c] THEN Free ELSE file[f]
  BY <1>0 DEF IndInv, TypeOK, ClientCloses, Close
<1>3. \A f \in Fd : /\ file[f].kind \in {"qos", "write"} => file'[f] = file[f]
                    /\ file'[f].kind \in {"qos", "read", "write"} => file'[f] = file[f]
  BY <1>0, <1>2 DEF Free
<1>4. \A k : (Fresh(k) => Fresh(k)') /\ (Unread(k) => Unread(k)')
  BY <1>3 DEF Fresh, Unread, IsRead
<1>5. FileKeyInv'
  BY <1>1, <1>3 DEF RefInv, FileKeyInv
<1>6. OneFileInv'
  BY <1>3 DEF RefInv, OneFileInv
<1>7. ServeInv'
  <2>1. \A f : Opened(f) => Opened(f)'
    BY <1>1, <1>3 DEF Opened
  <2>2. mWorker.at = "listen" => mWorker.server \in Fd /\ file[mWorker.server].kind = "write"
    BY DEF IndInv, WorkerInv
  <2> QED BY <1>1, <1>3, <1>4, <2>1, <2>2 DEF RefInv, ServeInv, Expires
<1>8. HandleInv'
  <2>1. \A k \in DOMAIN mQueuedEvents : IsExpiry(k) => IsQos(mQueuedEvents[k].fd)
    BY DEF IndInv, ExpiryInv
  <2>2. /\ mWorker.at = "timeout" => IsQos(mWorker.ev.fd)
        /\ mWorker.at \in {"closeHandle", "closeFd"} => IsQos(mWorker.fd)
    BY DEF IndInv, WorkerInv
  <2>3. \A w \in watched : w.handle \in Fd /\ IsQos(w.fd) /\ file[w.handle].kind = "write"
    BY DEF IndInv, WatchInv, TypeOK
  <2> QED BY <1>1, <1>3, <1>4, <2>1, <2>2, <2>3 DEF RefInv, HandleInv, IsQos, IsExpiry
<1> QED BY <1>5, <1>6, <1>7, <1>8 DEF RefInv

LEMMA RefMessage ==
  ASSUME IndInv, RefInv, NEW k \in DOMAIN mMessages, handleMessage(k)
  PROVE  RefInv'
<1> USE DEF IndInv, RefInv, handleMessage, removeEventByKey, Without, FirstStep, clients,
       Polling
<1>1. FileKeyInv'
  BY DEF TypeOK, FileKeyInv, QueueInv, CallerInv, Serving, Worker, Free
<1>2. OneFileInv'
  BY DEF TypeOK, OneFileInv, ServeInv, Fresh, Unread, IsRead, Worker, Free
<1>3. ServeInv'
  BY DEF TypeOK, ServeInv, FileKeyInv, WorkerInv, Opened, Fresh, Unread, IsRead, IsQos,
         Expires, Worker, Free
<1>4. HandleInv'
  BY DEF TypeOK, HandleInv, FileKeyInv, ServeInv, WorkerInv, WatchInv, ExpiryInv,
         IsExpiry, Opened, Unread, IsRead, IsQos, Worker, Free
<1> QED BY <1>1, <1>2, <1>3, <1>4

LEMMA RefOpen ==
  ASSUME IndInv, RefInv, openPmQosNode
  PROVE  RefInv'
<1> USE DEF IndInv, RefInv, openPmQosNode, LowestFree, queue, clients
<1>1. FileKeyInv'
  BY DEF TypeOK, FileKeyInv, QueueInv, CallerInv, Serving, Worker, Free
<1>2. OneFileInv'
  BY DEF TypeOK, OneFileInv, ServeInv, Fresh, Unread, IsRead, Worker, Free
<1>3. ServeInv'
  BY DEF TypeOK, ServeInv, FileKeyInv, WorkerInv, Opened, Fresh, Unread, IsRead, IsQos,
         Expires, Worker, Free
<1>4. HandleInv'
  BY DEF TypeOK, HandleInv, FileKeyInv, ServeInv, WorkerInv, WatchInv, ExpiryInv,
         IsExpiry, Opened, Unread, IsRead, IsQos, Worker, Free
<1> QED BY <1>1, <1>2, <1>3, <1>4

LEMMA RefOpenFails ==
  ASSUME IndInv, RefInv, OpenFails
  PROVE  RefInv'
<1> USE DEF IndInv, RefInv, OpenFails, queue, clients, Polling
<1>1. FileKeyInv'
  BY DEF TypeOK, FileKeyInv, QueueInv, CallerInv, Serving, Worker, Free
<1>2. OneFileInv'
  BY DEF TypeOK, OneFileInv, ServeInv, Fresh, Unread, IsRead, Worker, Free
<1>3. ServeInv'
  <2>1. CASE mWorker.ev.type = "openTimed"
    BY <2>1 DEF ServeInv
  <2>2. CASE mWorker.ev.type # "openTimed"
    <3>1. mWorker'.at = "store" /\ mWorker'.key = mWorker.key /\ mWorker'.out = NoFd
      BY <2>2 DEF TypeOK, Worker
    <3> QED BY <3>1, NoFdType DEF ServeInv, Fresh
  <2> QED BY <2>1, <2>2
<1>4. HandleInv'
  BY DEF TypeOK, HandleInv, FileKeyInv, ServeInv, WorkerInv, WatchInv, ExpiryInv,
         IsExpiry, Opened, Unread, IsRead, IsQos, Worker, Free
<1> QED BY <1>1, <1>2, <1>3, <1>4

LEMMA RefArm ==
  ASSUME IndInv, RefInv, openPmQosTimed
  PROVE  RefInv'
<1> USE DEF IndInv, RefInv, openPmQosTimed, sendEventDelayed, generateNewKey, With,
       clients, Polling
<1>1. FileKeyInv'
  <2>1. \A f \in Fd : file[f].kind \in {"qos", "read", "write"} => file[f].by \in Nat
    BY KeyType
  <2> QED BY <2>1 DEF TypeOK, FileKeyInv
<1>2. OneFileInv'
  BY DEF TypeOK, OneFileInv, ServeInv, Fresh, Unread, IsRead, Worker, Free
<1>3. ServeInv'
  BY DEF TypeOK, ServeInv, FileKeyInv, WorkerInv, Opened, Fresh, Unread, IsRead, IsQos,
         Expires, Worker, Free
<1>4. HandleInv'
  BY DEF TypeOK, HandleInv, FileKeyInv, ServeInv, WorkerInv, WatchInv, ExpiryInv,
         IsExpiry, Opened, Unread, IsRead, IsQos, Worker, Free
<1> QED BY <1>1, <1>2, <1>3, <1>4

LEMMA RefTimeout ==
  ASSUME IndInv, RefInv, timeoutRequest
  PROVE  RefInv'
<1> USE DEF IndInv, RefInv, timeoutRequest, Close, queue, clients, Polling
<1>1. FileKeyInv'
  BY DEF TypeOK, FileKeyInv, QueueInv, CallerInv, Serving, Worker, Free
<1>2. OneFileInv'
  BY DEF TypeOK, OneFileInv, ServeInv, Fresh, Unread, IsRead, Worker, Free
<1>3. ServeInv'
  BY DEF TypeOK, ServeInv, FileKeyInv, WorkerInv, Opened, Fresh, Unread, IsRead, IsQos,
         Expires, Worker, Free
<1>4. HandleInv'
  BY DEF TypeOK, HandleInv, WorkerInv, WatchInv, ExpiryInv, IsExpiry, WorkerHolds,
         Unread, IsRead, IsQos, Free
<1> QED BY <1>1, <1>2, <1>3, <1>4

LEMMA RefPipe ==
  ASSUME IndInv, RefInv, createHandleForFd
  PROVE  RefInv'
<1> USE DEF IndInv, RefInv, createHandleForFd, LowestFree, queue, clients
<1>1. FileKeyInv'
  BY DEF TypeOK, FileKeyInv, QueueInv, CallerInv, Serving, Worker, Free
<1>2. OneFileInv'
  BY DEF TypeOK, OneFileInv, ServeInv, Fresh, Unread, IsRead, Worker, Free
<1>3. ServeInv'
  BY DEF TypeOK, ServeInv, FileKeyInv, WorkerInv, Opened, Fresh, Unread, IsRead, IsQos,
         Expires, Worker, Free
<1>4. HandleInv'
  <2>1. \A f \in Fd : file[f].kind = "qos" /\ f # mWorker.fd => file[f].by # mWorker.key
    BY DEF ServeInv, Opened, OneFileInv
  <2>2. \A k \in DOMAIN mQueuedEvents : IsExpiry(k) =>
          IsQos(mQueuedEvents[k].fd) /\ mQueuedEvents[k].fd # mWorker.fd
    BY DEF ExpiryInv, WorkerHolds
  <2>3. \A w \in watched : w \in [handle : Fd, fd : Fd] /\ IsQos(w.fd) /\ file[w.handle].kind = "write"
    BY DEF WatchInv, TypeOK
  <2>4. mWorker'.at = "listen"
    BY DEF TypeOK, Worker
  <2>5. \A k \in DOMAIN mQueuedEvents : IsExpiry(k) => Unread(file[mQueuedEvents[k].fd].by)'
    BY <2>1, <2>2 DEF HandleInv, Unread, IsRead, IsQos, TypeOK, Free
  <2>6. \A w \in watched : file'[w.fd].by = file'[w.handle].by
    BY <2>3 DEF HandleInv, IsQos, TypeOK, Free
  <2> QED BY <2>4, <2>5, <2>6 DEF HandleInv, IsExpiry
<1> QED BY <1>1, <1>2, <1>3, <1>4

LEMMA RefPipeFails ==
  ASSUME IndInv, RefInv, PipeFails
  PROVE  RefInv'
<1> USE DEF IndInv, RefInv, PipeFails, Close, queue, clients
<1>1. FileKeyInv'
  BY DEF TypeOK, FileKeyInv, QueueInv, CallerInv, Serving, Worker, Free
<1>2. OneFileInv'
  BY DEF TypeOK, OneFileInv, ServeInv, Fresh, Unread, IsRead, Worker, Free
<1>3. ServeInv'
  <2>1. mWorker'.at = "store" /\ mWorker'.key = mWorker.key /\ mWorker'.out = NoFd
    BY DEF TypeOK, Worker
  <2>2. mWorker.fd \in Fd /\ file[mWorker.fd].kind = "qos" /\ file[mWorker.fd].by = mWorker.key
    BY DEF ServeInv, Opened
  <2>3. Fresh(mWorker.key)'
    BY <2>1, <2>2 DEF OneFileInv, ServeInv, Fresh, Unread, IsRead, Free, TypeOK
  <2> QED BY <2>1, <2>3, NoFdType DEF ServeInv
<1>4. HandleInv'
  <2>1. mWorker'.at = "store" /\ mWorker.fd \in Fd /\ file[mWorker.fd].kind = "qos"
    BY DEF TypeOK, Worker, WorkerInv, IsQos
  <2>2. \A k \in DOMAIN mQueuedEvents : IsExpiry(k) => Unread(file[mQueuedEvents[k].fd].by)'
    BY <2>1 DEF HandleInv, ExpiryInv, WorkerHolds, Unread, IsRead, IsQos, TypeOK, Free
  <2>3. \A w \in watched : file'[w.fd].by = file'[w.handle].by
    BY <2>1 DEF HandleInv, WatchInv, WorkerHolds, IsQos, TypeOK, Free
  <2> QED BY <2>1, <2>2, <2>3 DEF HandleInv, IsExpiry
<1> QED BY <1>1, <1>2, <1>3, <1>4

LEMMA RefListen ==
  ASSUME IndInv, RefInv, listenForHandleToCloseFd
  PROVE  RefInv'
<1> USE DEF IndInv, RefInv, listenForHandleToCloseFd, CallbackContext, queue, clients
<1>1. FileKeyInv'
  BY DEF TypeOK, FileKeyInv, QueueInv, CallerInv, Serving, Worker, Free
<1>2. OneFileInv'
  BY DEF TypeOK, OneFileInv, ServeInv, Fresh, Unread, IsRead, Worker, Free
<1>3. ServeInv'
  <2>1. \A k \in DOMAIN mQueuedEvents : ~ Expires(k, mWorker.fd)
    BY DEF ExpiryInv, IsExpiry, Expires, WorkerHolds
  <2>2. mWorker'.at = "store" /\ mWorker'.out \in Fd
    BY DEF TypeOK, Worker, WorkerInv
  <2> QED BY <2>1, <2>2, NoFdType DEF TypeOK, Worker, ServeInv, Opened, Expires
<1>4. HandleInv'
  BY DEF TypeOK, HandleInv, FileKeyInv, ServeInv, WorkerInv, WatchInv, ExpiryInv,
         IsExpiry, Opened, Unread, IsRead, IsQos, Worker, Free
<1> QED BY <1>1, <1>2, <1>3, <1>4

LEMMA RefAddFdFails ==
  ASSUME IndInv, RefInv, AddFdFails
  PROVE  RefInv'
<1> USE DEF IndInv, RefInv, AddFdFails, queue, clients
<1>1. FileKeyInv'
  BY DEF TypeOK, FileKeyInv, QueueInv, CallerInv, Serving, Worker, Free
<1>2. OneFileInv'
  BY DEF TypeOK, OneFileInv, ServeInv, Fresh, Unread, IsRead, Worker, Free
<1>3. ServeInv'
  <2>1. \A k \in DOMAIN mQueuedEvents : ~ Expires(k, mWorker.fd)
    BY DEF ExpiryInv, IsExpiry, Expires, WorkerHolds
  <2>2. mWorker'.at = "store" /\ mWorker'.out \in Fd
    BY DEF TypeOK, Worker, WorkerInv
  <2> QED BY <2>1, <2>2, NoFdType DEF TypeOK, Worker, ServeInv, Opened, Expires
<1>4. HandleInv'
  BY DEF TypeOK, HandleInv, FileKeyInv, ServeInv, WorkerInv, WatchInv, ExpiryInv,
         IsExpiry, Opened, Unread, IsRead, IsQos, Worker, Free
<1> QED BY <1>1, <1>2, <1>3, <1>4

LEMMA RefStore ==
  ASSUME IndInv, RefInv, StoreResult
  PROVE  RefInv'
<1> USE DEF IndInv, RefInv, StoreResult, queue
<1>1. FileKeyInv'
  BY DEF TypeOK, FileKeyInv, QueueInv, CallerInv, Serving, Worker, Free
<1>2. OneFileInv'
  BY DEF TypeOK, OneFileInv, ServeInv, Fresh, Unread, IsRead, Worker, Free
<1>3. ServeInv'
  BY DEF TypeOK, ServeInv, FileKeyInv, WorkerInv, Opened, Fresh, Unread, IsRead, IsQos,
         Expires, Worker, Free
<1>4. HandleInv'
  BY DEF TypeOK, HandleInv, FileKeyInv, ServeInv, WorkerInv, WatchInv, ExpiryInv,
         IsExpiry, Opened, Unread, IsRead, IsQos, Worker, Free
<1> QED BY <1>1, <1>2, <1>3, <1>4

LEMMA RefWake ==
  ASSUME IndInv, RefInv, OpenBarrier
  PROVE  RefInv'
<1> USE DEF IndInv, RefInv, OpenBarrier, queue, Polling
<1>1. FileKeyInv'
  BY DEF TypeOK, FileKeyInv, QueueInv, CallerInv, Serving, Worker, Free
<1>2. OneFileInv'
  BY DEF TypeOK, OneFileInv, ServeInv, Fresh, Unread, IsRead, Worker, Free
<1>3. ServeInv'
  BY DEF TypeOK, ServeInv, FileKeyInv, WorkerInv, Opened, Fresh, Unread, IsRead, IsQos,
         Expires, Worker, Free
<1>4. HandleInv'
  BY DEF TypeOK, HandleInv, FileKeyInv, ServeInv, WorkerInv, WatchInv, ExpiryInv,
         IsExpiry, Opened, Unread, IsRead, IsQos, Worker, Free
<1> QED BY <1>1, <1>2, <1>3, <1>4

LEMMA RefHangup ==
  ASSUME IndInv, RefInv, NEW w \in watched, pipeCloseCb(w)
  PROVE  RefInv'
<1> USE DEF IndInv, RefInv, pipeCloseCb, HungUp, queue, clients, Polling
<1>1. FileKeyInv'
  BY DEF TypeOK, FileKeyInv, QueueInv, CallerInv, Serving, Worker, Free
<1>2. OneFileInv'
  BY DEF TypeOK, OneFileInv, ServeInv, Fresh, Unread, IsRead, Worker, Free
<1>3. ServeInv'
  BY DEF TypeOK, ServeInv, FileKeyInv, WorkerInv, Opened, Fresh, Unread, IsRead, IsQos,
         Expires, Worker, Free
<1>4. HandleInv'
  BY DEF TypeOK, HandleInv, FileKeyInv, ServeInv, WorkerInv, WatchInv, ExpiryInv,
         IsExpiry, Opened, Unread, IsRead, IsQos, Worker, Free
<1> QED BY <1>1, <1>2, <1>3, <1>4

LEMMA RefCloseHandle ==
  ASSUME IndInv, RefInv, CloseHandle
  PROVE  RefInv'
<1> USE DEF IndInv, RefInv, CloseHandle, Close, queue, clients
<1>1. FileKeyInv'
  BY DEF TypeOK, FileKeyInv, QueueInv, CallerInv, Serving, Worker, Free
<1>2. OneFileInv'
  BY DEF TypeOK, OneFileInv, ServeInv, Fresh, Unread, IsRead, Worker, Free
<1>3. ServeInv'
  BY DEF TypeOK, ServeInv, FileKeyInv, WorkerInv, Opened, Fresh, Unread, IsRead, IsQos,
         Expires, Worker, Free
<1>4. HandleInv'
  BY DEF TypeOK, HandleInv, FileKeyInv, ServeInv, WorkerInv, WatchInv, ExpiryInv,
         IsExpiry, Opened, Unread, IsRead, IsQos, Worker, Free
<1> QED BY <1>1, <1>2, <1>3, <1>4

LEMMA RefCloseFd ==
  ASSUME IndInv, RefInv, CloseFd
  PROVE  RefInv'
<1> USE DEF IndInv, RefInv, CloseFd, Close, queue, clients, Polling
<1>1. FileKeyInv'
  BY DEF TypeOK, FileKeyInv, QueueInv, CallerInv, Serving, Worker, Free
<1>2. OneFileInv'
  BY DEF TypeOK, OneFileInv, ServeInv, Fresh, Unread, IsRead, Worker, Free
<1>3. ServeInv'
  BY DEF TypeOK, ServeInv, FileKeyInv, WorkerInv, Opened, Fresh, Unread, IsRead, IsQos,
         Expires, Worker, Free
<1>4. HandleInv'
  BY DEF TypeOK, HandleInv, WorkerInv, WatchInv, ExpiryInv, IsExpiry, WorkerHolds,
         Unread, IsRead, IsQos, Free
<1> QED BY <1>1, <1>2, <1>3, <1>4

LEMMA RefTick ==
  ASSUME IndInv, RefInv, Tick
  PROVE  RefInv'
<1> USE DEF IndInv, RefInv, Tick, clients
<1>1. FileKeyInv'
  BY DEF TypeOK, FileKeyInv, QueueInv, CallerInv, Serving, Worker, Free
<1>2. OneFileInv'
  BY DEF TypeOK, OneFileInv, ServeInv, Fresh, Unread, IsRead, Worker, Free
<1>3. ServeInv'
  BY DEF TypeOK, ServeInv, FileKeyInv, WorkerInv, Opened, Fresh, Unread, IsRead, IsQos,
         Expires, Worker, Free
<1>4. HandleInv'
  BY DEF TypeOK, HandleInv, FileKeyInv, ServeInv, WorkerInv, WatchInv, ExpiryInv,
         IsExpiry, Opened, Unread, IsRead, IsQos, Worker, Free
<1> QED BY <1>1, <1>2, <1>3, <1>4

-------------------------------------------------------------------------------
(* A constraint in force, and the descriptor it is in force through.       *)
Shown(f)      == file[f].kind = "qos" /\ ~ (Serving /\ file[f].by = mWorker.key)
Constraint(f) == [id |-> file[f].by, node |-> file[f].node, left |-> TimeLeft(f)]

LEMMA ActiveSame ==
  ASSUME \A f \in Fd : Shown(f)' <=> Shown(f),
         \A f \in Fd : Shown(f) => Constraint(f)' = Constraint(f)
  PROVE  Active' = Active
<1>1. Active = {Constraint(f) : f \in {h \in Fd : Shown(h)}}
  BY DEF Active, Shown, Constraint
<1>2. Active' = {Constraint(f)' : f \in {h \in Fd : Shown(h)'}}
  BY DEF Active, Shown, Constraint
<1> QED BY <1>1, <1>2

LEMMA ActiveGains ==
  ASSUME NEW g \in Fd,
         \A f \in Fd : Shown(f)' <=> Shown(f) \/ f = g,
         \A f \in Fd : Shown(f) => Constraint(f)' = Constraint(f)
  PROVE  Active' = Active \cup {Constraint(g)'}
<1>1. Active = {Constraint(f) : f \in {h \in Fd : Shown(h)}}
  BY DEF Active, Shown, Constraint
<1>2. Active' = {Constraint(f)' : f \in {h \in Fd : Shown(h)'}}
  BY DEF Active, Shown, Constraint
<1> QED BY <1>1, <1>2

LEMMA ActiveLoses ==
  ASSUME OneFileInv, NEW g \in Fd, Shown(g),
         \A f \in Fd : Shown(f)' <=> Shown(f) /\ f # g,
         \A f \in Fd : Shown(f) /\ f # g => Constraint(f)' = Constraint(f)
  PROVE  Constraint(g) \in Active /\ Active' = Active \ {Constraint(g)}
<1>1. Active = {Constraint(f) : f \in {h \in Fd : Shown(h)}}
  BY DEF Active, Shown, Constraint
<1>2. Active' = {Constraint(f)' : f \in {h \in Fd : Shown(h)'}}
  BY DEF Active, Shown, Constraint
<1>3. \A f \in Fd : Shown(f) /\ Constraint(f) = Constraint(g) => f = g
  BY DEF OneFileInv, Shown, Constraint
<1> QED BY <1>1, <1>2, <1>3

LEMMA ActiveTurns ==
  ASSUME OneFileInv, NEW g \in Fd, Shown(g),
         \A f \in Fd : Shown(f)' <=> Shown(f),
         \A f \in Fd : Shown(f) /\ f # g => Constraint(f)' = Constraint(f)
  PROVE  /\ Constraint(g) \in Active
         /\ Active' = (Active \ {Constraint(g)}) \cup {Constraint(g)'}
<1>1. Active = {Constraint(f) : f \in {h \in Fd : Shown(h)}}
  BY DEF Active, Shown, Constraint
<1>2. Active' = {Constraint(f)' : f \in {h \in Fd : Shown(h)'}}
  BY DEF Active, Shown, Constraint
<1>3. \A f \in Fd : Shown(f) /\ Constraint(f) = Constraint(g) => f = g
  BY DEF OneFileInv, Shown, Constraint
<1> QED BY <1>1, <1>2, <1>3

LEMMA SameTimeLeft ==
  ASSUME NEW f \in Fd,
         \A k : (k \in DOMAIN mQueuedEvents /\ Expires(k, f))'
                  <=> (k \in DOMAIN mQueuedEvents /\ Expires(k, f)),
         \A k \in DOMAIN mQueuedEvents : Expires(k, f) => mMessages'[k] = mMessages[k],
         Unread(file[f].by)' <=> Unread(file[f].by)
  PROVE  TimeLeft(f)' = TimeLeft(f)
<1>1. Expiries(f)' = Expiries(f)
  BY DEF Expiries
<1>2. CASE Expiries(f) = {}
  BY <1>1, <1>2 DEF TimeLeft, Unread, IsRead
<1>3. CASE Expiries(f) # {}
  <2> DEFINE j == CHOOSE k \in Expiries(f) : TRUE
  <2>1. j \in Expiries(f) /\ mMessages'[j] = mMessages[j]
    BY <1>3 DEF Expiries
  <2>2. (CHOOSE k \in Expiries(f) : TRUE)' = j
    BY <1>1
  <2> QED BY <1>1, <1>3, <2>1, <2>2 DEF TimeLeft
<1> QED BY <1>2, <1>3

LEMMA Untimed ==
  ASSUME NEW f \in Fd, \A k \in DOMAIN mQueuedEvents : ~ Expires(k, f)
  PROVE  /\ Unread(file[f].by) => TimeLeft(f) = 0
         /\ ~ Unread(file[f].by) => TimeLeft(f) = Held
BY DEF TimeLeft, Expiries, Unread, IsRead

(* A timed constraint has the time its TimeoutEvent's message has.         *)
TimeIsQueued ==
  \A f \in Fd : \A k \in DOMAIN mQueuedEvents : Expires(k, f) =>
     TimeLeft(f) = IF mMessages[k] > 0 THEN mMessages[k] ELSE 0

LEMMA Timed == IndInv => TimeIsQueued
<1> SUFFICES ASSUME IndInv, NEW f \in Fd, NEW k \in DOMAIN mQueuedEvents, Expires(k, f)
             PROVE  TimeLeft(f) = IF mMessages[k] > 0 THEN mMessages[k] ELSE 0
  BY DEF TimeIsQueued
<1>1. Expiries(f) = {k}
  BY DEF IndInv, ExpiryInv, IsExpiry, Expires, Expiries
<1> QED BY <1>1 DEF TimeLeft

-------------------------------------------------------------------------------
(* The steps a client does not see.                                        *)

LEMMA SameRequested ==
  ASSUME UNCHANGED mQueuedEvents, Serving' <=> Serving,
         Serving => mWorker'.key = mWorker.key /\ mWorker'.ev = mWorker.ev
  PROVE  Requested' = Requested
<1>1. {k \in {mWorker'.key} : Serving'} = {k \in {mWorker.key} : Serving}
  OBVIOUS
<1> QED BY <1>1 DEF Requested

LEMMA Unseen ==
  ASSUME UNCHANGED <<mQueuedEvents, mMessages>>, Serving' <=> Serving,
         Serving => mWorker'.key = mWorker.key /\ mWorker'.ev = mWorker.ev,
         \A f \in Fd : file'[f].kind = "qos" /\ file'[f] # file[f] =>
                         Serving /\ file'[f].by = mWorker.key,
         \A f \in Fd : Shown(f) => file'[f] = file[f],
         \A f \in Fd : Shown(f) => (Unread(file[f].by)' <=> Unread(file[f].by))
  PROVE  UNCHANGED <<Requested, Active>>
<1>1. Requested' = Requested
  BY SameRequested
<1>2. \A f \in Fd : Shown(f)' <=> Shown(f)
  BY DEF Shown
<1>3. ASSUME NEW f \in Fd, Shown(f)
      PROVE  Constraint(f)' = Constraint(f)
  <2>1. TimeLeft(f)' = TimeLeft(f)
    BY <1>3, SameTimeLeft DEF Expires
  <2> QED BY <1>3, <2>1 DEF Constraint
<1> QED BY <1>1, <1>2, <1>3, ActiveSame

LEMMA SameFiles ==
  ASSUME UNCHANGED <<mQueuedEvents, mMessages, file>>, Serving' <=> Serving,
         Serving => mWorker'.key = mWorker.key /\ mWorker'.ev = mWorker.ev
  PROVE  UNCHANGED <<Requested, Active>>
<1>1. \A f \in Fd : Unread(file[f].by)' <=> Unread(file[f].by)
  BY DEF Unread, IsRead
<1> QED BY <1>1, Unseen

LEMMA UnseenSteps ==
  ASSUME IndInv, RefInv,
         \/ readyToRun \/ listenForHandleToCloseFd \/ AddFdFails \/ StoreResult
         \/ \E w \in watched : pipeCloseCb(w)
         \/ \E c \in Client : WaitReturns(c)
         \/ OpenFails /\ mWorker.ev.type # "openTimed"
  PROVE  UNCHANGED <<Requested, Active>>
<1>1. CASE readyToRun
  BY <1>1, SameFiles DEF readyToRun, queue, Serving, Polling
<1>2. CASE listenForHandleToCloseFd \/ AddFdFails \/ StoreResult
  <2>1. UNCHANGED <<mQueuedEvents, mMessages, file>>
    BY <1>2 DEF listenForHandleToCloseFd, AddFdFails, StoreResult, queue
  <2>2. /\ Serving /\ Serving'
        /\ mWorker'.key = mWorker.key /\ mWorker'.ev = mWorker.ev
    BY <1>2 DEF listenForHandleToCloseFd, AddFdFails, StoreResult, Serving, IndInv, TypeOK, Worker
  <2> QED BY <2>1, <2>2, SameFiles
<1>3. CASE \E w \in watched : pipeCloseCb(w)
  BY <1>3, SameFiles DEF pipeCloseCb, queue, Serving, Polling
<1>4. CASE \E c \in Client : WaitReturns(c)
  BY <1>4, SameFiles DEF WaitReturns, queue, Serving
<1>5. CASE OpenFails /\ mWorker.ev.type # "openTimed"
  <2>1. UNCHANGED <<mQueuedEvents, mMessages, file>>
    BY <1>5 DEF OpenFails, queue
  <2>2. /\ Serving /\ Serving'
        /\ mWorker'.key = mWorker.key /\ mWorker'.ev = mWorker.ev
    BY <1>5 DEF OpenFails, Serving, IndInv, TypeOK, Worker
  <2> QED BY <2>1, <2>2, SameFiles
<1> QED BY <1>1, <1>2, <1>3, <1>4, <1>5

LEMMA UnseenDirect ==
  ASSUME IndInv, NEW c \in Client, requestPmQos(c)
  PROVE  UNCHANGED <<Requested, Active>>
<1>1. UNCHANGED <<mQueuedEvents, mMessages, mWorker>>
  BY DEF requestPmQos, queue
<1>2. PICK g \in Fd : /\ file[g] = Free
                      /\ file' = [file EXCEPT ![g] = [kind |-> "own", by |-> c]]
  BY DEF requestPmQos, LowestFree
<1>3. \A f \in Fd : f # g => file'[f] = file[f]
  BY <1>2 DEF IndInv, TypeOK
<1>4. file[g].kind = "free" /\ file'[g].kind = "own"
  BY <1>2 DEF IndInv, TypeOK, Free
<1>5. \A f \in Fd : Shown(f) => file'[f] = file[f]
  BY <1>3, <1>4 DEF Shown
<1>6. \A k : Unread(k)' <=> Unread(k)
  BY <1>3, <1>4 DEF Unread, IsRead
<1>7. \A f \in Fd : Shown(f) => (Unread(file[f].by)' <=> Unread(file[f].by))
  BY <1>5, <1>6
<1>8. \A f \in Fd : file'[f].kind = "qos" /\ file'[f] # file[f] =>
                         Serving /\ file'[f].by = mWorker.key
  BY <1>3, <1>4
<1>9. Serving' <=> Serving
  BY <1>1 DEF Serving
<1> QED BY <1>1, <1>5, <1>7, <1>8, <1>9, Unseen

(* A step that changes the files of G, none of them in force.              *)
LEMMA UnseenFile ==
  ASSUME UNCHANGED <<mQueuedEvents, mMessages>>, Serving' <=> Serving,
         Serving => mWorker'.key = mWorker.key /\ mWorker'.ev = mWorker.ev,
         NEW G \in SUBSET Fd,
         \A f \in Fd \ G : file'[f] = file[f],
         \A g \in G : ~ Shown(g),
         \A g \in G : file'[g].kind = "qos" => Serving /\ file'[g].by = mWorker.key,
         \A f \in Fd : Shown(f) => (Unread(file[f].by)' <=> Unread(file[f].by))
  PROVE  UNCHANGED <<Requested, Active>>
<1>1. \A f \in Fd : Shown(f) => file'[f] = file[f]
  OBVIOUS
<1>2. \A f \in Fd : file'[f].kind = "qos" /\ file'[f] # file[f] =>
                         Serving /\ file'[f].by = mWorker.key
  OBVIOUS
<1> QED BY <1>1, <1>2, Unseen

LEMMA UnseenOpen ==
  ASSUME IndInv, RefInv, openPmQosNode
  PROVE  UNCHANGED <<Requested, Active>>
<1>1. PICK g \in Fd :
        /\ file[g] = Free
        /\ file' = [file EXCEPT ![g] =
                      [kind |-> "qos", node |-> mWorker.ev.node, by |-> mWorker.key]]
        /\ mWorker' = [mWorker EXCEPT !.fd = g,
                         !.at = IF mWorker.ev.type = "openTimed" THEN "arm" ELSE "pipe"]
  BY DEF openPmQosNode, LowestFree
<1>2. \A f \in Fd \ {g} : file'[f] = file[f]
  BY <1>1 DEF IndInv, TypeOK
<1>3. /\ file[g].kind = "free"
      /\ file'[g] = [kind |-> "qos", node |-> mWorker.ev.node, by |-> mWorker.key]
  BY <1>1 DEF IndInv, TypeOK, Free
<1>4. /\ Serving /\ Serving'
      /\ mWorker'.key = mWorker.key /\ mWorker'.ev = mWorker.ev
  BY <1>1 DEF openPmQosNode, Serving, IndInv, TypeOK, Worker
<1>5. \A k : Unread(k)' <=> Unread(k)
  BY <1>2, <1>3 DEF Unread, IsRead
<1>6. \A f \in Fd : Shown(f) => (Unread(file[f].by)' <=> Unread(file[f].by))
  BY <1>2, <1>3, <1>5 DEF Shown
<1>7. ~ Shown(g) /\ file'[g].by = mWorker.key
  BY <1>3 DEF Shown
<1>8. UNCHANGED <<mQueuedEvents, mMessages>>
  BY DEF openPmQosNode, queue
<1>9. /\ {g} \in SUBSET Fd
      /\ \A h \in {g} : ~ Shown(h)
      /\ \A h \in {g} : file'[h].kind = "qos" => Serving /\ file'[h].by = mWorker.key
  BY <1>4, <1>7
<1> QED BY <1>2, <1>4, <1>6, <1>8, <1>9, UnseenFile

LEMMA UnseenPipe ==
  ASSUME IndInv, RefInv, createHandleForFd
  PROVE  UNCHANGED <<Requested, Active>>
<1>1. PICK r, w \in Fd :
        /\ file[r] = Free /\ file[w] = Free /\ r # w
        /\ file' = [file EXCEPT ![r] = [kind |-> "read", by |-> mWorker.key],
                                ![w] = [kind |-> "write", by |-> mWorker.key]]
        /\ mWorker' = [mWorker EXCEPT !.at = "listen", !.server = w, !.out = r]
  BY DEF createHandleForFd, LowestFree
<1>2. \A f \in Fd \ {r, w} : file'[f] = file[f]
  BY <1>1 DEF IndInv, TypeOK
<1>3. /\ file[r].kind = "free" /\ file[w].kind = "free"
      /\ file'[r] = [kind |-> "read", by |-> mWorker.key]
      /\ file'[w] = [kind |-> "write", by |-> mWorker.key]
  BY <1>1 DEF IndInv, TypeOK, Free
<1>4. /\ Serving /\ Serving'
      /\ mWorker'.key = mWorker.key /\ mWorker'.ev = mWorker.ev
  BY <1>1 DEF createHandleForFd, Serving, IndInv, TypeOK, Worker
<1>5. \A k : k # mWorker.key => (Unread(k)' <=> Unread(k))
  BY <1>2, <1>3 DEF Unread, IsRead
<1>6. \A f \in Fd : Shown(f) => (Unread(file[f].by)' <=> Unread(file[f].by))
  BY <1>2, <1>3, <1>4, <1>5 DEF Shown
<1>7. /\ ~ Shown(r) /\ ~ Shown(w)
      /\ file'[r].kind # "qos" /\ file'[w].kind # "qos"
  BY <1>3 DEF Shown
<1>8. UNCHANGED <<mQueuedEvents, mMessages>>
  BY DEF createHandleForFd, queue
<1>9. /\ {r, w} \in SUBSET Fd
      /\ \A h \in {r, w} : ~ Shown(h)
      /\ \A h \in {r, w} : file'[h].kind = "qos" => Serving /\ file'[h].by = mWorker.key
  BY <1>4, <1>7
<1> QED BY <1>2, <1>4, <1>6, <1>8, <1>9, UnseenFile

LEMMA UnseenPipeFails ==
  ASSUME IndInv, RefInv, PipeFails
  PROVE  UNCHANGED <<Requested, Active>>
<1> DEFINE g == mWorker.fd
<1>1. g \in Fd /\ file[g].kind = "qos" /\ file[g].by = mWorker.key
  BY DEF PipeFails, RefInv, ServeInv, Opened
<1>2. file'[g] = Free /\ \A f \in Fd \ {g} : file'[f] = file[f]
  BY <1>1 DEF PipeFails, Close, IndInv, TypeOK
<1>3. file'[g].kind = "free"
  BY <1>2 DEF Free
<1>4. /\ Serving /\ Serving'
      /\ mWorker'.key = mWorker.key /\ mWorker'.ev = mWorker.ev
  BY DEF PipeFails, Serving, IndInv, TypeOK, Worker
<1>5. \A k : Unread(k)' <=> Unread(k)
  BY <1>1, <1>2, <1>3 DEF Unread, IsRead
<1>7. ~ Shown(g)
  BY <1>1, <1>4 DEF Shown
<1>6. \A f \in Fd : Shown(f) => (Unread(file[f].by)' <=> Unread(file[f].by))
  BY <1>2, <1>5, <1>7
<1>8. UNCHANGED <<mQueuedEvents, mMessages>>
  BY DEF PipeFails, queue
<1> QED BY <1>1, <1>2, <1>3, <1>4, <1>6, <1>7, <1>8, UnseenFile

LEMMA UnseenCloseHandle ==
  ASSUME IndInv, RefInv, CloseHandle
  PROVE  UNCHANGED <<Requested, Active>>
<1> DEFINE g == mWorker.server
<1>1. g \in Fd /\ file[g].kind = "write"
  BY DEF CloseHandle, IndInv, WorkerInv
<1>2. file'[g] = Free /\ \A f \in Fd \ {g} : file'[f] = file[f]
  BY <1>1 DEF CloseHandle, Close, IndInv, TypeOK
<1>3. file'[g].kind = "free"
  BY <1>2 DEF Free
<1>4. ~ Serving /\ ~ Serving'
  BY DEF CloseHandle, Serving, IndInv, TypeOK, Worker
<1>5. \A k : Unread(k)' <=> Unread(k)
  BY <1>1, <1>2, <1>3 DEF Unread, IsRead
<1>7. ~ Shown(g)
  BY <1>1 DEF Shown
<1>6. \A f \in Fd : Shown(f) => (Unread(file[f].by)' <=> Unread(file[f].by))
  BY <1>2, <1>5, <1>7
<1>8. UNCHANGED <<mQueuedEvents, mMessages>>
  BY DEF CloseHandle, queue
<1> QED BY <1>1, <1>2, <1>3, <1>4, <1>6, <1>7, <1>8, UnseenFile

-------------------------------------------------------------------------------
(* The steps a client sees.                                                *)

LEMMA SeenRequest ==
  ASSUME IndInv, RefInv, NEW ev \in OpenTimed \cup OpenHandle, pushEvent(ev),
         UNCHANGED <<mWorker, watched, file>>
  PROVE  Promise!Next
<1>1. /\ mKey \in Nat /\ mKey < MaxKey
      /\ mQueuedEvents' = With(mQueuedEvents, mKey, ev)
      /\ mMessages' = With(mMessages, mKey, 0)
  BY DEF pushEvent, sendEventDelayed, IndInv, TypeOK
<1>2. mKey \in Key
  BY <1>1, KeyAssumption, BoundAssumption
<1>3. /\ ev.node \in Node
      /\ AsRequest(mKey, ev).time \in Timeout \cup {Held}
      /\ ev.type # "timeout"
  BY DEF OpenTimed, OpenHandle, AsRequest
<1>4. DOMAIN mQueuedEvents' = DOMAIN mQueuedEvents \cup {mKey}
  BY <1>1 DEF With
<1>5. /\ mQueuedEvents'[mKey] = ev
      /\ \A k \in DOMAIN mQueuedEvents : k # mKey /\ mQueuedEvents'[k] = mQueuedEvents[k]
                                           /\ mMessages'[k] = mMessages[k]
  BY <1>1 DEF With, IndInv, QueueInv, TypeOK
<1>6. Serving' = Serving
  BY DEF Serving
<1>7. Requested' = Requested \cup {AsRequest(mKey, ev)}
  <2> DEFINE Opens == {j \in DOMAIN mQueuedEvents : mQueuedEvents[j].type # "timeout"}
  <2>1. Opens' = Opens \cup {mKey}
    BY <1>3, <1>4, <1>5
  <2>2. \A k \in Opens : mQueuedEvents'[k] = mQueuedEvents[k]
    BY <1>5
  <2> QED BY <1>5, <1>6, <2>1, <2>2 DEF Requested
<1>8. ~ Promise!Named(mKey)
  <2>1. \A r \in Requested : r.id < mKey
    BY DEF Requested, AsRequest, IndInv, QueueInv, CallerInv
  <2>2. \A a \in Active : a.id < mKey
    BY DEF Active, RefInv, FileKeyInv
  <2> QED BY <1>1, <2>1, <2>2 DEF Promise!Named
<1>9. Active' = Active
  <2>1. \A f \in Fd : Shown(f)' <=> Shown(f)
    BY <1>6 DEF Shown
  <2>2. ASSUME NEW f \in Fd PROVE TimeLeft(f)' = TimeLeft(f)
    <3>1. \A k : (k \in DOMAIN mQueuedEvents /\ Expires(k, f))'
                  <=> (k \in DOMAIN mQueuedEvents /\ Expires(k, f))
      BY <1>3, <1>4, <1>5 DEF Expires
    <3>2. Unread(file[f].by)' <=> Unread(file[f].by)
      BY DEF Unread, IsRead
    <3> QED BY <1>5, <3>1, <3>2, SameTimeLeft
  <2>3. \A f \in Fd : Constraint(f)' = Constraint(f)
    BY <2>2 DEF Constraint
  <2> QED BY <2>1, <2>3, ActiveSame
<1>10. Promise!Request(mKey, ev.node, AsRequest(mKey, ev).time)
  BY <1>7, <1>8, <1>9 DEF Promise!Request, AsRequest
<1> QED BY <1>2, <1>3, <1>10 DEF Promise!Next, Promise!Held, Held

LEMMA SeenTick ==
  ASSUME IndInv, IndInv', Tick
  PROVE  Promise!Tick
<1>1. UNCHANGED <<mQueuedEvents, mWorker, file>>
  BY DEF Tick
<1>2. /\ DOMAIN mMessages = DOMAIN mQueuedEvents
      /\ \A k \in DOMAIN mQueuedEvents : mMessages[k] \in Int /\ mMessages'[k] = mMessages[k] - 1
  BY DEF Tick, IndInv, QueueInv, TypeOK
<1>3. Requested' = Requested
  BY <1>1, SameRequested DEF Serving
<1>4. \A f \in Fd : Shown(f)' <=> Shown(f)
  BY <1>1 DEF Shown, Serving
<1>5. ASSUME NEW f \in Fd
      PROVE  Constraint(f)' = Promise!Elapsed(Constraint(f))
  <2>1. CASE \E k \in DOMAIN mQueuedEvents : Expires(k, f)
    <3>1. PICK k \in DOMAIN mQueuedEvents : Expires(k, f)
      BY <2>1
    <3>2. TimeLeft(f) = IF mMessages[k] > 0 THEN mMessages[k] ELSE 0
      BY <3>1, Timed DEF TimeIsQueued
    <3>3. TimeIsQueued'
      BY Timed, PTL
    <3>4. TimeLeft(f)' = IF mMessages'[k] > 0 THEN mMessages'[k] ELSE 0
      BY <1>1, <3>1, <3>3 DEF TimeIsQueued, Expires
    <3>5. TimeLeft(f)' = IF TimeLeft(f) > 0 THEN TimeLeft(f) - 1 ELSE TimeLeft(f)
      BY <1>2, <3>2, <3>4
    <3> QED BY <1>1, <3>5 DEF Constraint, Promise!Elapsed
  <2>2. CASE ~ \E k \in DOMAIN mQueuedEvents : Expires(k, f)
    <3>1. TimeLeft(f)' = TimeLeft(f)
      BY <1>1, <2>2, SameTimeLeft DEF Expires, Unread, IsRead
    <3>2. TimeLeft(f) \in {0, -1}
      BY <2>2, Untimed DEF Held
    <3> QED BY <1>1, <3>1, <3>2 DEF Constraint, Promise!Elapsed
  <2> QED BY <2>1, <2>2
<1>6. Active' = {Promise!Elapsed(a) : a \in Active}
  <2>1. Active = {Constraint(f) : f \in {h \in Fd : Shown(h)}}
    BY DEF Active, Shown, Constraint
  <2>2. Active' = {Constraint(f)' : f \in {h \in Fd : Shown(h)'}}
    BY DEF Active, Shown, Constraint
  <2> QED BY <1>4, <1>5, <2>1, <2>2
<1> QED BY <1>3, <1>6 DEF Promise!Tick

LEMMA Answered ==
  ASSUME IndInv, Serving, ~ Serving',
         \A k : (k \in DOMAIN mQueuedEvents /\ mQueuedEvents[k].type # "timeout")'
                  <=> (k \in DOMAIN mQueuedEvents /\ mQueuedEvents[k].type # "timeout"),
         \A k \in DOMAIN mQueuedEvents : mQueuedEvents'[k] = mQueuedEvents[k]
  PROVE  /\ AsRequest(mWorker.key, mWorker.ev) \in Requested
         /\ Requested' = Requested \ {AsRequest(mWorker.key, mWorker.ev)}
<1> DEFINE Opens == {j \in DOMAIN mQueuedEvents : mQueuedEvents[j].type # "timeout"}
           Queued == {AsRequest(k, mQueuedEvents[k]) : k \in Opens}
           served == AsRequest(mWorker.key, mWorker.ev)
<1>1. Requested = Queued \cup {served}
  BY DEF Requested
<1>2. served \notin Queued
  <2>1. \A q \in Queued : q.id \in DOMAIN mQueuedEvents
    BY DEF AsRequest
  <2>2. served.id \notin DOMAIN mQueuedEvents
    BY DEF AsRequest, IndInv, CallerInv
  <2> HIDE DEF Queued, served
  <2> QED BY <2>1, <2>2
<1>3. Requested' = Queued
  <2>1. Opens' = Opens
    OBVIOUS
  <2>2. Requested' = {AsRequest(k, mQueuedEvents'[k]) : k \in Opens'}
    BY DEF Requested
  <2> QED BY <2>1, <2>2
<1> HIDE DEF Queued, served
<1>4. served \in Requested /\ Requested' = Requested \ {served}
  BY <1>1, <1>2, <1>3
<1> QED BY <1>4 DEF served

LEMMA Granted ==
  ASSUME IndInv, RefInv, Serving, ~ Serving', UNCHANGED file, Opened(mWorker.fd)
  PROVE  \A f \in Fd : Shown(f)' <=> Shown(f) \/ f = mWorker.fd
<1>1. /\ mWorker.fd \in Fd
      /\ file[mWorker.fd].kind = "qos" /\ file[mWorker.fd].by = mWorker.key
  BY DEF Opened
<1> QED BY <1>1 DEF Shown, RefInv, OneFileInv

LEMMA Refused ==
  ASSUME IndInv, RefInv, Serving, ~ Serving', Fresh(mWorker.key),
         UNCHANGED <<file, mQueuedEvents, mMessages>>
  PROVE  Promise!Next
<1>1. \A f \in Fd : Shown(f)' <=> Shown(f)
  BY DEF Shown, Fresh
<1>2. \A f \in Fd : TimeLeft(f)' = TimeLeft(f)
  BY SameTimeLeft DEF Expires, Unread, IsRead
<1>3. \A f \in Fd : Constraint(f)' = Constraint(f)
  BY <1>2 DEF Constraint
<1>4. Active' = Active
  BY <1>1, <1>3, ActiveSame
<1>5. Promise!Deny(AsRequest(mWorker.key, mWorker.ev))
  BY <1>4, Answered DEF Promise!Deny
<1>6. AsRequest(mWorker.key, mWorker.ev) \in Requested
  BY Answered
<1> QED BY <1>5, <1>6 DEF Promise!Next

LEMMA SeenArm ==
  ASSUME IndInv, IndInv', RefInv, openPmQosTimed
  PROVE  Promise!Next
<1> DEFINE served == AsRequest(mWorker.key, mWorker.ev)
<1>1. PICK g \in Fd : g = mWorker.fd /\ Opened(g) /\ mWorker.ev \in OpenTimed
  BY DEF openPmQosTimed, RefInv, ServeInv, Opened, IndInv, WorkerInv
<1>2. Serving /\ ~ Serving' /\ UNCHANGED file
  BY DEF openPmQosTimed, Serving, Polling
<1>3. DOMAIN mQueuedEvents' = DOMAIN mQueuedEvents \cup {mKey}
  BY DEF openPmQosTimed, sendEventDelayed, With
<1>4. /\ mQueuedEvents'[mKey] = [type |-> "timeout", fd |-> g]
      /\ mMessages'[mKey] = mWorker.ev.timeout
      /\ \A k \in DOMAIN mQueuedEvents : k # mKey /\ mQueuedEvents'[k] = mQueuedEvents[k]
                                           /\ mMessages'[k] = mMessages[k]
  BY <1>1 DEF openPmQosTimed, sendEventDelayed, With, IndInv, QueueInv, TypeOK
<1>5. served \in Requested /\ Requested' = Requested \ {served}
  <2>1. \A k : (k \in DOMAIN mQueuedEvents /\ mQueuedEvents[k].type # "timeout")'
                  <=> (k \in DOMAIN mQueuedEvents /\ mQueuedEvents[k].type # "timeout")
    BY <1>3, <1>4
  <2> QED BY <1>2, <1>4, <2>1, Answered
<1>6. \A f \in Fd : Shown(f)' <=> Shown(f) \/ f = g
  BY <1>1, <1>2, Granted
<1>7. ASSUME NEW f \in Fd, Shown(f)
      PROVE  Constraint(f)' = Constraint(f)
  <2>1. f # g
    BY <1>1, <1>2, <1>7 DEF Shown, Opened
  <2>2. \A k : (k \in DOMAIN mQueuedEvents /\ Expires(k, f))'
                  <=> (k \in DOMAIN mQueuedEvents /\ Expires(k, f))
    BY <1>3, <1>4, <2>1 DEF Expires
  <2>3. Unread(file[f].by)' <=> Unread(file[f].by)
    BY <1>2 DEF Unread, IsRead
  <2>4. TimeLeft(f)' = TimeLeft(f)
    BY <1>4, <2>2, <2>3, SameTimeLeft
  <2> QED BY <1>2, <2>4 DEF Constraint
<1>8. Constraint(g)' = [id |-> served.id, node |-> served.node, left |-> served.time]
  <2>1. TimeIsQueued'
    BY Timed, PTL
  <2>2. PICK n : n = mKey /\ n \in DOMAIN mQueuedEvents' /\ Expires(n, g)'
    BY <1>3, <1>4 DEF Expires
  <2>3. mWorker.ev.timeout \in Nat \ {0} /\ mWorker.ev.type = "openTimed"
    BY <1>1, TimeoutAssumption DEF OpenTimed
  <2>4. TimeLeft(g)' = mWorker.ev.timeout
    BY <1>4, <2>1, <2>2, <2>3 DEF TimeIsQueued
  <2>5. file'[g].by = mWorker.key /\ file'[g].node = mWorker.ev.node
    BY <1>1, <1>2 DEF Opened
  <2> QED BY <2>3, <2>4, <2>5 DEF Constraint, AsRequest
<1>9. Active' = Active \cup {[id |-> served.id, node |-> served.node, left |-> served.time]}
  BY <1>6, <1>7, <1>8, ActiveGains
<1> HIDE DEF served
<1>10. Promise!Grant(served)
  BY <1>5, <1>9 DEF Promise!Grant
<1> QED BY <1>5, <1>10 DEF Promise!Next

LEMMA SeenOpenFails ==
  ASSUME IndInv, RefInv, OpenFails, mWorker.ev.type = "openTimed"
  PROVE  Promise!Next
<1>1. Serving /\ ~ Serving' /\ Fresh(mWorker.key)
  BY DEF OpenFails, Serving, Polling, RefInv, ServeInv
<1>2. UNCHANGED <<file, mQueuedEvents, mMessages>>
  BY DEF OpenFails, queue
<1> QED BY <1>1, <1>2, Refused

LEMMA SeenWake ==
  ASSUME IndInv, RefInv, OpenBarrier
  PROVE  Promise!Next
<1> DEFINE served == AsRequest(mWorker.key, mWorker.ev)
<1>1. Serving /\ ~ Serving' /\ UNCHANGED <<file, mQueuedEvents, mMessages>>
  BY DEF OpenBarrier, Serving, Polling, queue
<1>2. CASE mWorker.out = NoFd
  <2>1. Fresh(mWorker.key)
    BY <1>2 DEF OpenBarrier, RefInv, ServeInv
  <2> QED BY <1>1, <2>1, Refused
<1>3. CASE mWorker.out \in Fd
  <2>1. PICK g \in Fd : /\ g = mWorker.fd /\ Opened(g)
                        /\ \A k \in DOMAIN mQueuedEvents : ~ Expires(k, g)
    BY <1>3 DEF OpenBarrier, RefInv, ServeInv, Opened
  <2>2. file[mWorker.out] = ReadEnd(mWorker.key) /\ mWorker.ev \in OpenHandle
    BY <1>3 DEF OpenBarrier, IndInv, WorkerInv
  <2>3. served \in Requested /\ Requested' = Requested \ {served}
    BY <1>1, Answered
  <2>4. \A f \in Fd : Shown(f)' <=> Shown(f) \/ f = g
    BY <1>1, <2>1, Granted
  <2>5. \A f \in Fd : TimeLeft(f)' = TimeLeft(f)
    BY <1>1, SameTimeLeft DEF Expires, Unread, IsRead
  <2>6. \A f \in Fd : Constraint(f)' = Constraint(f)
    BY <1>1, <2>5 DEF Constraint
  <2>7. file[g].by = mWorker.key /\ file[g].node = mWorker.ev.node
    BY <2>1 DEF Opened
  <2>8. ~ Unread(mWorker.key)
    BY <1>3, <2>2 DEF Unread, IsRead, ReadEnd
  <2>9. TimeLeft(g) = Held
    BY <2>1, <2>7, <2>8, Untimed
  <2>10. mWorker.ev.type = "openHandle"
    BY <2>2 DEF OpenHandle
  <2>11. Constraint(g)' = [id |-> served.id, node |-> served.node, left |-> served.time]
    BY <2>6, <2>7, <2>9, <2>10 DEF Constraint, AsRequest
  <2>12. Active' = Active \cup {[id |-> served.id, node |-> served.node, left |-> served.time]}
    BY <2>4, <2>6, <2>11, ActiveGains
  <2> HIDE DEF served
  <2>13. Promise!Grant(served)
    BY <2>3, <2>12 DEF Promise!Grant
  <2> QED BY <2>3, <2>13 DEF Promise!Next
<1> QED BY <1>2, <1>3 DEF OpenBarrier, IndInv, WorkerInv

LEMMA Released ==
  ASSUME IndInv, RefInv, NEW g \in Fd, file[g].kind = "qos", Unread(file[g].by),
         \A k \in DOMAIN mQueuedEvents : ~ Expires(k, g),
         ~ Serving, ~ Serving', file' = Close(g), UNCHANGED <<mQueuedEvents, mMessages>>
  PROVE  Promise!Next
<1>1. file'[g].kind = "free" /\ \A f \in Fd \ {g} : file'[f] = file[f]
  BY DEF Close, Free, IndInv, TypeOK
<1>2. \A f \in Fd : Shown(f)' <=> Shown(f) /\ f # g
  BY <1>1 DEF Shown
<1>3. \A k : Unread(k)' <=> Unread(k)
  BY <1>1 DEF Unread, IsRead
<1>4. ASSUME NEW f \in Fd, f # g
      PROVE  Constraint(f)' = Constraint(f)
  <2>1. TimeLeft(f)' = TimeLeft(f)
    BY <1>1, <1>3, <1>4, SameTimeLeft DEF Expires
  <2> QED BY <1>1, <1>4, <2>1 DEF Constraint
<1>5. Constraint(g) \in Active /\ Active' = Active \ {Constraint(g)}
  <2>1. Shown(g)
    BY DEF Shown
  <2> QED BY <1>2, <1>4, <2>1, ActiveLoses DEF RefInv
<1>6. Constraint(g).left = 0
  BY Untimed DEF Constraint
<1>7. Requested' = Requested
  BY SameRequested
<1> QED BY <1>5, <1>6, <1>7 DEF Promise!Next, Promise!Release

LEMMA SeenTimeout ==
  ASSUME IndInv, RefInv, timeoutRequest
  PROVE  Promise!Next
<1>1. PICK g \in Fd : /\ g = mWorker.ev.fd /\ file[g].kind = "qos"
                      /\ Unread(file[g].by) /\ file' = Close(g)
  BY DEF timeoutRequest, IndInv, WorkerInv, IsQos, RefInv, HandleInv
<1>2. \A k \in DOMAIN mQueuedEvents : ~ Expires(k, g)
  BY <1>1 DEF timeoutRequest, IndInv, ExpiryInv, IsExpiry, Expires, WorkerHolds
<1>3. ~ Serving /\ ~ Serving' /\ UNCHANGED <<mQueuedEvents, mMessages>>
  BY DEF timeoutRequest, Serving, Polling, queue
<1> QED BY <1>1, <1>2, <1>3, Released

LEMMA SeenCloseFd ==
  ASSUME IndInv, RefInv, CloseFd
  PROVE  Promise!Next
<1>1. PICK g \in Fd : /\ g = mWorker.fd /\ file[g].kind = "qos"
                      /\ Unread(file[g].by) /\ file' = Close(g)
  BY DEF CloseFd, IndInv, WorkerInv, IsQos, RefInv, HandleInv
<1>2. \A k \in DOMAIN mQueuedEvents : ~ Expires(k, g)
  BY <1>1 DEF CloseFd, IndInv, ExpiryInv, IsExpiry, Expires, WorkerHolds
<1>3. ~ Serving /\ ~ Serving' /\ UNCHANGED <<mQueuedEvents, mMessages>>
  BY DEF CloseFd, Serving, Polling, queue
<1> QED BY <1>1, <1>2, <1>3, Released

(* The client's close: its handle's constraint is no longer wanted.        *)
LEMMA SeenClose ==
  ASSUME IndInv, RefInv, NEW c \in Client, ClientCloses(c)
  PROVE  Promise!Next \/ UNCHANGED <<Requested, Active>>
<1>1. PICK r \in Fd : r = ret[c] /\ file[r].kind \in {"read", "own"}
  <2>1. /\ pc[c] = "holding" => ret[c] \in Fd /\ file[ret[c]] = ReadEnd(call[c])
        /\ pc[c] = "direct" => ret[c] \in Fd /\ file[ret[c]] = [kind |-> "own", by |-> c]
    BY NoFdType DEF IndInv, ClientInv, Got
  <2> QED BY <2>1 DEF ClientCloses, ReadEnd
<1>2. file'[r].kind = "free" /\ \A f \in Fd \ {r} : file'[f] = file[f]
  BY <1>1 DEF ClientCloses, Close, Free, IndInv, TypeOK
<1>3. /\ UNCHANGED <<mQueuedEvents, mMessages, mWorker>>
      /\ Serving' <=> Serving
  BY DEF ClientCloses, queue, Serving
<1>4. \A f \in Fd : Shown(f)' <=> Shown(f)
  BY <1>1, <1>2, <1>3 DEF Shown
<1>5. \A k : ~ (file[r].kind = "read" /\ file[r].by = k) => (Unread(k)' <=> Unread(k))
  BY <1>2 DEF Unread, IsRead
<1>6. CASE \E g \in Fd : Shown(g) /\ file[r].kind = "read" /\ file[g].by = file[r].by
  <2>1. PICK g \in Fd : Shown(g) /\ file[r].kind = "read" /\ file[g].by = file[r].by
    BY <1>6
  <2>2. file[g].kind = "qos" /\ file'[g] = file[g]
    BY <1>2, <2>1 DEF Shown
  <2>3. ASSUME NEW f \in Fd, Shown(f), f # g
        PROVE  Constraint(f)' = Constraint(f)
    <3>1. file'[f] = file[f] /\ file[f].by # file[r].by
      BY <1>2, <1>1, <2>1, <2>2, <2>3 DEF Shown, RefInv, OneFileInv
    <3>2. Unread(file[f].by)' <=> Unread(file[f].by)
      BY <1>5, <3>1
    <3>3. TimeLeft(f)' = TimeLeft(f)
      BY <1>3, <3>2, SameTimeLeft DEF Expires
    <3> QED BY <3>1, <3>3 DEF Constraint
  <2>4. \A k \in DOMAIN mQueuedEvents : ~ Expires(k, g)
    BY <2>1 DEF RefInv, HandleInv, Unread, IsRead, IsExpiry, Expires
  <2>5. TimeLeft(g) = Held
    BY <2>1, <2>4, Untimed DEF Unread, IsRead
  <2>6. TimeLeft(g)' = 0
    <3>1. Expiries(g)' = {}
      BY <1>3, <2>4 DEF Expiries, Expires
    <3>2. \A h \in Fd : ~ (file'[h].kind = "read" /\ file'[h].by = file'[g].by)
      BY <1>2, <2>1, <2>2 DEF RefInv, OneFileInv
    <3> QED BY <3>1, <3>2 DEF TimeLeft
  <2>7. /\ Constraint(g) \in Active
        /\ Active' = (Active \ {Constraint(g)}) \cup {Constraint(g)'}
    BY <1>4, <2>1, <2>3, ActiveTurns DEF RefInv
  <2>8. Constraint(g)' = [Constraint(g) EXCEPT !.left = 0]
    BY <2>2, <2>6 DEF Constraint
  <2>9. Constraint(g).left = Promise!Held
    BY <2>5 DEF Constraint, Held, Promise!Held
  <2>10. Requested' = Requested
    BY <1>3, SameRequested
  <2> QED BY <2>7, <2>8, <2>9, <2>10 DEF Promise!Next, Promise!Drop
<1>7. CASE ~ \E g \in Fd : Shown(g) /\ file[r].kind = "read" /\ file[g].by = file[r].by
  <2>1. \A f \in Fd : Shown(f) => file'[f] = file[f]
    BY <1>1, <1>2 DEF Shown
  <2>2. \A f \in Fd : Shown(f) => (Unread(file[f].by)' <=> Unread(file[f].by))
    BY <1>5, <1>7, <2>1
  <2>3. /\ {r} \in SUBSET Fd
        /\ \A h \in {r} : ~ Shown(h)
        /\ \A h \in {r} : file'[h].kind = "qos" => Serving /\ file'[h].by = mWorker.key
    BY <1>1, <1>2 DEF Shown
  <2> QED BY <1>2, <1>3, <2>2, <2>3, UnseenFile
<1> QED BY <1>6, <1>7

(* Taking an event from the queue: a request goes from the queue to the    *)
(* looper thread, a timeout is over when its message is due.               *)
LEMMA UnseenMessage ==
  ASSUME IndInv, IndInv', RefInv, NEW k \in DOMAIN mMessages, handleMessage(k)
  PROVE  UNCHANGED <<Requested, Active>>
<1>1. k \in DOMAIN mQueuedEvents /\ mWorker.at = "poll" /\ UNCHANGED file
  BY DEF handleMessage, IndInv, QueueInv
<1>2. DOMAIN mQueuedEvents' = DOMAIN mQueuedEvents \ {k}
  BY DEF handleMessage, removeEventByKey, Without
<1>3. \A j \in DOMAIN mQueuedEvents' : mQueuedEvents'[j] = mQueuedEvents[j]
  BY <1>2 DEF handleMessage, removeEventByKey, Without
<1>4. \A j \in DOMAIN mQueuedEvents' : mMessages'[j] = mMessages[j]
  BY <1>2 DEF handleMessage, Without, IndInv, QueueInv
<1>5. /\ mWorker'.at = FirstStep(mQueuedEvents[k])
      /\ mWorker'.key = k /\ mWorker'.ev = mQueuedEvents[k]
  BY <1>1 DEF handleMessage, Polling
<1>6. ~ Serving /\ (Serving' <=> mQueuedEvents[k].type # "timeout")
  BY <1>1, <1>5 DEF Serving, FirstStep
<1> DEFINE Opens == {j \in DOMAIN mQueuedEvents : mQueuedEvents[j].type # "timeout"}
<1>7. Requested = {AsRequest(j, mQueuedEvents[j]) : j \in Opens}
  BY <1>6 DEF Requested
<1>8. \A f \in Fd : \A j : j # k =>
        ((j \in DOMAIN mQueuedEvents /\ Expires(j, f))'
           <=> (j \in DOMAIN mQueuedEvents /\ Expires(j, f)))
  BY <1>2, <1>3 DEF Expires
<1>9. \A f \in Fd : Unread(file[f].by)' <=> Unread(file[f].by)
  BY <1>1 DEF Unread, IsRead
<1>10. \A f \in Fd : Shown(f)' <=> Shown(f)
  BY <1>1, <1>5, <1>6 DEF Shown, RefInv, FileKeyInv
<1>11. ASSUME NEW f \in Fd, ~ Expires(k, f)
       PROVE  Constraint(f)' = Constraint(f)
  <2>1. TimeLeft(f)' = TimeLeft(f)
    <3>1. \A j : (j \in DOMAIN mQueuedEvents /\ Expires(j, f))'
                   <=> (j \in DOMAIN mQueuedEvents /\ Expires(j, f))
      BY <1>2, <1>8, <1>11
    <3>2. \A j \in DOMAIN mQueuedEvents : Expires(j, f) => mMessages'[j] = mMessages[j]
      BY <1>2, <1>4, <1>11
    <3> QED BY <1>9, <3>1, <3>2, SameTimeLeft
  <2> QED BY <1>1, <2>1 DEF Constraint
<1>12. CASE mQueuedEvents[k].type # "timeout"
  <2>1. Active' = Active
    BY <1>10, <1>11, <1>12, ActiveSame DEF Expires
  <2>2. Requested' = {AsRequest(j, mQueuedEvents'[j]) : j \in Opens'}
                       \cup {AsRequest(k, mQueuedEvents[k])}
    BY <1>5, <1>6, <1>12 DEF Requested
  <2>3. Opens' = Opens \ {k} /\ k \in Opens
    BY <1>1, <1>2, <1>3, <1>12
  <2>4. \A j \in Opens' : mQueuedEvents'[j] = mQueuedEvents[j]
    BY <1>3
  <2> HIDE DEF Opens
  <2> QED BY <1>7, <2>1, <2>2, <2>3, <2>4
<1>13. CASE mQueuedEvents[k].type = "timeout"
  <2>1. PICK g \in Fd : g = mQueuedEvents[k].fd
    BY <1>1, <1>13 DEF IndInv, ExpiryInv, IsExpiry, IsQos
  <2>2. TimeLeft(g) = 0
    <3>1. Expires(k, g) /\ ~ (mMessages[k] > 0)
      BY <1>13, <2>1 DEF Expires, handleMessage, Due, IndInv, TypeOK
    <3> QED BY <1>1, <3>1, Timed DEF TimeIsQueued
  <2>3. TimeLeft(g)' = 0
    <3>1. Expiries(g)' = {}
      BY <1>1, <1>2, <1>3, <1>13, <2>1
         DEF Expiries, Expires, IndInv, ExpiryInv, IsExpiry
    <3>2. Unread(file[g].by)
      BY <1>1, <1>13, <2>1 DEF RefInv, HandleInv, IsExpiry
    <3> QED BY <1>1, <3>1, <3>2 DEF TimeLeft, Unread, IsRead
  <2>4. \A f \in Fd : Constraint(f)' = Constraint(f)
    <3>1. Constraint(g)' = Constraint(g)
      BY <1>1, <2>2, <2>3 DEF Constraint
    <3>2. \A f \in Fd : f # g => ~ Expires(k, f)
      BY <2>1 DEF Expires
    <3> QED BY <1>11, <3>1, <3>2
  <2>5. Active' = Active
    BY <1>10, <2>4, ActiveSame
  <2>6. Requested' = {AsRequest(j, mQueuedEvents'[j]) : j \in Opens'}
    BY <1>6, <1>13 DEF Requested
  <2>7. Opens' = Opens
    BY <1>2, <1>3, <1>13
  <2>8. \A j \in Opens' : mQueuedEvents'[j] = mQueuedEvents[j]
    BY <1>3
  <2> HIDE DEF Opens
  <2> QED BY <1>7, <2>5, <2>6, <2>7, <2>8
<1> QED BY <1>12, <1>13

-------------------------------------------------------------------------------
LEMMA RefNext == IndInv /\ RefInv /\ [Next]_vars => RefInv'
<1> SUFFICES ASSUME IndInv, RefInv, [Next]_vars PROVE RefInv'
  OBVIOUS
<1>1. CASE LooperStep
  BY <1>1, RefStart, RefMessage, RefOpen, RefOpenFails, RefArm, RefTimeout, RefPipe,
     RefPipeFails, RefListen, RefAddFdFails, RefStore, RefWake, RefHangup,
     RefCloseHandle, RefCloseFd DEF LooperStep
<1>2. CASE Tick
  BY <1>2, RefTick
<1>3. CASE \E c \in Client : ClientStep(c)
  <2>1. PICK c \in Client : ClientStep(c)
    BY <1>3
  <2>2. CASE \E ev \in OpenTimed \cup OpenHandle :
               pushEvent(ev) /\ UNCHANGED <<mWorker, watched, file>>
    BY <2>2, RefPush
  <2>3. ASSUME NEW n \in Node, NEW t \in Timeout, requestPmQosTimed(c, n, t)
        PROVE  RefInv'
    BY <2>2, <2>3 DEF requestPmQosTimed, OpenTimed
  <2>4. ASSUME NEW n \in Node, createPmQosHandle(c, n)
        PROVE  RefInv'
    BY <2>2, <2>4 DEF createPmQosHandle, OpenHandle
  <2> QED BY <2>1, <2>3, <2>4, RefReturn, RefDirect, RefClose DEF ClientStep
<1>4. CASE UNCHANGED vars
  BY <1>4 DEF vars, RefInv, FileKeyInv, OneFileInv, ServeInv, HandleInv, Fresh, Unread,
              IsRead, Opened, Expires, IsExpiry
<1> QED BY <1>1, <1>2, <1>3, <1>4 DEF Next

LEMMA MappedStep ==
  ASSUME IndInv, IndInv', RefInv, [Next]_vars
  PROVE  Promise!Next \/ UNCHANGED <<Requested, Active>>
<1>1. CASE LooperStep
  BY <1>1, UnseenSteps, UnseenMessage, UnseenOpen, SeenOpenFails, SeenArm, SeenTimeout,
     UnseenPipe, UnseenPipeFails, SeenWake, UnseenCloseHandle, SeenCloseFd DEF LooperStep
<1>2. CASE Tick
  BY <1>2, SeenTick DEF Promise!Next
<1>3. CASE \E c \in Client : ClientStep(c)
  <2>1. PICK c \in Client : ClientStep(c)
    BY <1>3
  <2>2. (\E ev \in OpenTimed \cup OpenHandle :
               pushEvent(ev) /\ UNCHANGED <<mWorker, watched, file>>) => Promise!Next
    BY SeenRequest
  <2>3. ASSUME NEW n \in Node, NEW t \in Timeout, requestPmQosTimed(c, n, t)
        PROVE  Promise!Next
    BY <2>2, <2>3 DEF requestPmQosTimed, OpenTimed
  <2>4. ASSUME NEW n \in Node, createPmQosHandle(c, n)
        PROVE  Promise!Next
    BY <2>2, <2>4 DEF createPmQosHandle, OpenHandle
  <2> QED BY <2>1, <2>3, <2>4, UnseenSteps, UnseenDirect, SeenClose DEF ClientStep
<1>4. CASE UNCHANGED vars
  BY <1>4, SameFiles DEF vars, Serving
<1> QED BY <1>1, <1>2, <1>3, <1>4 DEF Next

(* TimeoutPoker implements PmQos.  Whatever the limits, the failures and   *)
(* the interleavings: a timed constraint is in force for its whole time    *)
(* and goes only then, a handle's goes only after its client closed it     *)
(* (openPmQosTimed, timeoutRequest, createHandleForFd, pipeCloseCb).       *)
THEOREM Implements == Spec => KeepsPromise
<1>1. Init => Promise!Init
  BY DEF Init, Promise!Init, Requested, Active, Free, Polling, Serving
<1>2. Init => RefInv
  <2> SUFFICES ASSUME Init PROVE RefInv
    OBVIOUS
  <2>1. mWorker.at = "start"
    BY DEF Init, Polling
  <2> QED BY <2>1 DEF Init, RefInv, FileKeyInv, OneFileInv, ServeInv, HandleInv, Free
<1>3. IndInv /\ IndInv' /\ RefInv /\ [Next]_vars => [Promise!Next]_(Promise!vars)
  BY MappedStep DEF Promise!vars
<1> QED BY <1>1, <1>2, <1>3, RefNext, Invariance, PTL DEF Spec, KeepsPromise, Promise!Spec
===============================================================================
