---------------------------- MODULE LinuxProofs ----------------------------
(***************************************************************************)
(* Proofs about LinuxMessageQ, the client library of a Linux process over  *)
(* TransportRpmsgLinux, about GatePeterson, the gate between two           *)
(* processors, about NameServerDaemon, the name server of LAD, and about   *)
(* LinuxGateMP, the named gates of the Linux processes.  The four share no *)
(* state.                                                                  *)
(***************************************************************************)
EXTENDS GatePeterson, LinuxGateMP, LinuxMessageQ, NameServerDaemon, SequenceTheorems,
        FiniteSetTheorems, WellFoundedInduction, TLAPS

-----------------------------------------------------------------------------
(***************************************************************************)
(* LinuxMessageQ: for any threads, indices and numbers of descriptors, and *)
(* whatever the remote processor does.                                     *)
(*                                                                         *)
(* The inductive invariant is ClientInvariant.  Control says who holds the *)
(* gate, and that only the holder has queues left to bind or unbind.       *)
(* Events is the handshake with the dispatch thread: it lists what the     *)
(* counter of unblockEvent can have added up to in each case, so that an   *)
(* acknowledgement that can be taken means that the thread is paused.      *)
(* Arrays is what the edits keep, Owns what the table of queues keeps.     *)
(*                                                                         *)
(* That the dispatch thread's object is live needs more than the state of  *)
(* the moment: a detach that runs beside create can leave a socket whose   *)
(* queue no instance knows.  Stuck is such a state; no step leaves it, and *)
(* Lives says that an object in hand is live or the state is Stuck.        *)
(***************************************************************************)
\* The places of a caller, the calls, and the places under the gate.
Points == {"idle", "locking", "work", "acking", "taken", "unregistering", "deleting", "joining", "done"}
Calls  == {"none", "create", "delete", "attach", "detach"}
WorkPoints == {"work", "acking"}
\* Ipc_stop has begun.
Stopped == at[IpcThread] \in {"joining", "done"}

\* Where the callers are: types first.
ControlType ==
  /\ at \in [Callers -> Points] /\ op \in [Callers -> Calls]
  /\ todo \in [Callers -> SUBSET Indices]
  /\ gate \in Callers \cup {NoObj}
  /\ qOf \in [QueueThreads -> Indices \cup {NoFd}]

\* Whoever binds or unbinds holds the gate; only it has queues left.
GateHeld ==
  \A c \in Callers :
    /\ at[c] \in WorkPoints <=> gate = c
    /\ todo[c] # {} => at[c] \in WorkPoints
    /\ at[c] = "acking" => todo[c] # {}

\* A thread at work creates or deletes its own queue; Ipc's attaches or detaches.
OpOf ==
  /\ \A t \in QueueThreads :
       /\ at[t] \in WorkPoints \cup {"locking"} => op[t] \in {"create", "delete"} /\ qOf[t] # NoFd
       /\ todo[t] \subseteq {qOf[t]}
       /\ at[t] \notin {"unregistering", "deleting"}
       /\ at[t] = "done" <=> Stopped
  /\ at[IpcThread] \in WorkPoints \cup {"locking"} => op[IpcThread] \in {"attach", "detach"}

Control == ControlType /\ GateHeld /\ OpOf

\* The callers are the queue threads and one thread more; no index is NoFd.
LEMMA CallersAre ==
  /\ IpcThread \in Callers /\ IpcThread \notin QueueThreads
  /\ \A t \in QueueThreads : t \in Callers /\ t # IpcThread
  /\ NoObj \notin Callers /\ NoFd \notin Indices
BY ClientAssumption DEF Callers, NoFd

\* At the start nobody is in a call.
LEMMA ControlInit == ClientInit => Control
BY CallersAre DEF ClientInit, Control, ControlType, GateHeld, OpOf, Points, Calls, WorkPoints,
       Stopped, Callers

\* A set of numbers that is not empty has a least member.
LEMMA LeastExists ==
  ASSUME NEW S \in SUBSET Nat, S # {}
  PROVE  Min(S) \in S
<1>1. PICK n \in S : \A m \in S : ~(<<m, n>> \in OpToRel(<, Nat))
  BY NatLessThanWellFounded, WFMin
<1>2. OpToRel(<, Nat) = {ss \in Nat \X Nat : ss[1] < ss[2]}
  BY Zenon DEF OpToRel
<1>3. \A m \in S : ~(m < n)
  BY <1>1, <1>2
<1>4. \A m \in S : n =< m
  BY <1>3
<1> QED
  BY <1>4 DEF Min

\* The queue a caller binds or unbinds next is one of those left to it.
LEMMA NextQueueIs ==
  ASSUME Control, NEW c \in Callers, todo[c] # {}
  PROVE  NextQueue(c) \in todo[c] /\ NextQueue(c) \in Indices
<1>1. todo[c] \subseteq Indices
  BY DEF Control, ControlType
<1> QED
  BY <1>1, LeastExists, ClientAssumption DEF NextQueue

\* The calls of a thread that do not work under the gate keep Control.
LEMMA ControlThread ==
  ASSUME Control, NEW t \in QueueThreads, Create(t) \/ Delete(t) \/ Get(t) \/ GetTakes(t)
  PROVE  Control'
<1> USE CallersAre DEF Control, ControlType, GateHeld, OpOf, Points, Calls, WorkPoints, Stopped
<1>1. CASE Create(t)
  <2>1. Min(Indices \ served) \in Indices
    <3>1. Indices \ served # {} /\ Indices \ served \in SUBSET Nat
      BY <1>1, ClientAssumption DEF Create
    <3>2. Min(Indices \ served) \in Indices \ served
      BY <3>1, LeastExists, Zenon
    <3> QED
      BY <3>2
  <2>2. qOf' \in [QueueThreads -> Indices \cup {NoFd}] /\ qOf'[t] # NoFd /\ at[t] = "idle"
    <3>1. qOf' = [qOf EXCEPT ![t] = Min(Indices \ served)] /\ at[t] = "idle"
      BY <1>1 DEF Create
    <3>2. qOf \in [QueueThreads -> Indices \cup {NoFd}]
      OBVIOUS
    <3> QED
      BY <2>1, <3>1, <3>2
  <2>3. \A u \in QueueThreads : u # t => qOf'[u] = qOf[u]
    BY <1>1 DEF Create
  <2> QED
    <3>1. ControlType' /\ GateHeld'
      BY <1>1, <2>2, <2>3 DEF Create, CallerGoto
    <3>2. OpOf'
      BY <1>1, <2>2, <2>3 DEF Create, CallerGoto
    <3> QED
      BY <3>1, <3>2
<1>2. CASE Delete(t)
  BY <1>2 DEF Delete, CallerGoto, objVars
<1>3. CASE Get(t) \/ GetTakes(t)
  BY <1>3 DEF Get, GetTakes, CallerGoto
<1> QED
  BY <1>1, <1>2, <1>3

\* Taking the gate, binding and unbinding keep Control.
LEMMA ControlCaller ==
  ASSUME Control, NEW c \in Callers, CallerStep(c)
  PROVE  Control'
<1> USE CallersAre DEF Control, ControlType, GateHeld, OpOf, Points, Calls, WorkPoints, Stopped
<1>1. CASE Lock(c)
  <2>1. Work(c) \subseteq Indices /\ (c \in QueueThreads => Work(c) \subseteq {qOf[c]})
    <3>1. CASE ~registered
      BY <3>1 DEF Work
    <3>2. CASE registered /\ c \in QueueThreads
      <4>1. op[c] \in {"create", "delete"} /\ qOf[c] \in Indices
        BY <1>1, <3>2 DEF Lock
      <4> QED
        BY <3>2, <4>1 DEF Work
    <3>3. CASE registered /\ c = IpcThread
      <4>1. op[c] \in {"attach", "detach"}
        BY <1>1, <3>3 DEF Lock
      <4> QED
        BY <3>3, <4>1 DEF Work, Occupied
    <3> QED
      BY <3>1, <3>2, <3>3 DEF Callers
  <2>2. at[c] = "locking" /\ gate = NoObj /\ gate' = c
    BY <1>1 DEF Lock
  <2>3. todo' = [todo EXCEPT ![c] = Work(c)]
    BY <1>1 DEF Lock
  <2>4. at' = [at EXCEPT ![c] = "work"] /\ UNCHANGED <<op, qOf>>
    BY <1>1 DEF Lock, CallerGoto, objVars
  <2> HIDE DEF Work
  <2> QED
    BY <2>1, <2>2, <2>3, <2>4
<1>2. CASE BindSkips(c) \/ BindGetsAck(c) \/ UnbindGetsAck(c)
  <2>1. todo' = [todo EXCEPT ![c] = @ \ {NextQueue(c)}] /\ UNCHANGED <<op, gate, qOf>>
    BY <1>2 DEF BindSkips, BindGetsAck, UnbindGetsAck, NextWork, objVars
  <2>2. at' = [at EXCEPT ![c] = "work"] /\ at[c] \in WorkPoints
    BY <1>2 DEF BindSkips, BindGetsAck, UnbindGetsAck, CallerGoto, AtWork
  <2> QED
    BY <2>1, <2>2
<1>3. CASE BindPauses(c) \/ UnbindPauses(c)
  <2>1. at' = [at EXCEPT ![c] = "acking"] /\ at[c] = "work" /\ todo[c] # {} /\ UNCHANGED <<op, gate, qOf, todo>>
    BY <1>3 DEF BindPauses, UnbindPauses, CallerGoto, AtWork, objVars
  <2> QED
    BY <2>1
<1> QED
  BY <1>1, <1>2, <1>3 DEF CallerStep

\* The ends of create and delete let the gate go.
LEMMA ControlQueue ==
  ASSUME Control, NEW t \in QueueThreads, InstallQueue(t) \/ RemoveQueue(t)
  PROVE  Control'
<1> USE CallersAre DEF Control, ControlType, GateHeld, OpOf, Points, Calls, WorkPoints, Stopped
<1>1. gate' = NoObj /\ at' = [at EXCEPT ![t] = "idle"] /\ op' = [op EXCEPT ![t] = "none"] /\ UNCHANGED todo
  BY DEF InstallQueue, RemoveQueue, CallerGoto
<1>2. at[t] = "work" /\ todo[t] = {} /\ (qOf' = qOf \/ qOf' = [qOf EXCEPT ![t] = NoFd])
  BY DEF InstallQueue, RemoveQueue, Finishing, objVars
<1> QED
  BY <1>1, <1>2

\* The steps of Ipc_attach, Ipc_detach and Ipc_stop keep Control.
LEMMA ControlIpc ==
  ASSUME Control, Attach \/ AttachDone \/ Detach \/ DetachUnlocks \/ Unregister \/ DetachDone \/ Stop \/ Joined
  PROVE  Control'
<1> USE CallersAre DEF Control, ControlType, GateHeld, OpOf, Points, Calls, WorkPoints, Stopped
<1>1. UNCHANGED <<todo, qOf>>
  BY DEF Attach, AttachDone, Detach, DetachUnlocks, Unregister, DetachDone, Stop, Joined, objVars
<1>2. CASE Attach \/ Detach
  BY <1>1, <1>2 DEF Attach, Detach, CallerGoto
<1>3. CASE AttachDone \/ DetachUnlocks
  BY <1>1, <1>3 DEF AttachDone, DetachUnlocks, CallerGoto, Finishing
<1>4. CASE Unregister \/ DetachDone \/ Joined
  BY <1>1, <1>4 DEF Unregister, DetachDone, Joined, CallerGoto
<1>5. CASE Stop
  <2>1. \A c \in Callers : at[c] = "idle" /\ gate # c /\ todo[c] = {}
    BY <1>5 DEF Stop, Callers
  <2>2. at' = [c \in Callers |-> IF c = IpcThread THEN "joining" ELSE "done"] /\ UNCHANGED <<gate, op>>
    BY <1>5 DEF Stop
  <2> QED
    BY <1>1, <2>1, <2>2
<1> QED
  BY <1>2, <1>3, <1>4, <1>5

\* Every step keeps Control; the dispatch thread and the remote change none of it.
LEMMA ControlInv == Control /\ [ClientNext]_lqVars => Control'
<1> SUFFICES ASSUME Control, [ClientNext]_lqVars PROVE Control'
  OBVIOUS
<1>1. ASSUME UNCHANGED <<callVars, qOf>> PROVE Control'
  BY <1>1 DEF Control, ControlType, GateHeld, OpOf, Stopped, callVars
<1>2. ASSUME DispStep PROVE UNCHANGED <<callVars, qOf>>
  BY <1>2 DEF DispStep, DispSelects, DispReceives, DispFails, DispReadsEvent, DispNoEvent, Insert,
         ShutFlag, ShutPost,
         UsesFreedQueue, Fault, clientVars, objVars
<1>3. ASSUME Send \/ Crash PROVE UNCHANGED <<callVars, qOf>>
  BY <1>3 DEF Send, Crash, objVars
<1>4. ASSUME NEW t \in QueueThreads, UsesFreedInstance(t) PROVE UNCHANGED <<callVars, qOf>>
  BY <1>4 DEF UsesFreedInstance, Fault, objVars
<1>5. ASSUME UNCHANGED lqVars PROVE UNCHANGED <<callVars, qOf>>
  BY <1>5 DEF lqVars, objVars
<1>6. ASSUME ClientNext PROVE Control'
  <2>1. CASE \E t \in QueueThreads : ThreadStep(t)
    BY <2>1, <1>1, <1>4, CallersAre, ControlCaller, ControlThread, ControlQueue DEF ThreadStep
  <2>2. CASE IpcStep
    BY <2>2, CallersAre, ControlCaller, ControlIpc DEF IpcStep
  <2>3. CASE DispStep
    BY <2>3, <1>1, <1>2
  <2>4. CASE ClientCalls
    BY <2>4, <1>1, <1>3, ControlThread, ControlIpc DEF ClientCalls
  <2> QED
    BY <1>6, <2>1, <2>2, <2>3, <2>4 DEF ClientNext
<1> QED
  BY <1>1, <1>5, <1>6

-----------------------------------------------------------------------------
\* The descriptors.

\* The array of descriptors, the sockets and the bindings of the instance.
Entries == [fd : Fds, q : Indices]
ArraysType ==
  /\ fdOf \in [Indices -> Fds \cup {NoFd}]
  /\ inFds \in Seq(Entries)
  /\ open \in SUBSET Fds

\* A descriptor has one entry; a queue that is bound has an entry with its socket;
\* a bind that waits has opened a socket that the array does not have.
FdsDistinct == \A i, j \in DOMAIN inFds : inFds[i].fd = inFds[j].fd => i = j
FdsBound ==
  \A q \in Indices : fdOf[q] # NoFd => \E i \in DOMAIN inFds : inFds[i].fd = fdOf[q] /\ inFds[i].q = q
NewOpen ==
  \A c \in Callers : at[c] = "acking" /\ op[c] \in Binders => \E f \in open : f \notin ArrayFds

Arrays == ArraysType /\ FdsDistinct /\ FdsBound /\ NewOpen /\ DispatchedFdsAreOpen

\* A socket's descriptor is a number, and neither NoFd nor the eventfd's.
LEMMA FdsAre == Fds \subseteq Nat /\ NoFd \notin Fds /\ UnblockFd \notin Fds
BY ClientAssumption DEF Fds, NoFd, UnblockFd

\* At the start there are no sockets.
LEMMA ArraysInit == ClientInit => Arrays
BY CallersAre DEF ClientInit, RpmsgInit, NoBinding, Arrays, ArraysType, FdsDistinct, FdsBound,
       NewOpen, ArrayFds,
     DispatchedFdsAreOpen

\* A sequence without its entry at k: the others keep their order.
LEMMA RemoveAtIs ==
  ASSUME NEW S, NEW seq \in Seq(S), NEW k \in 1 .. Len(seq)
  PROVE  /\ RemoveAt(seq, k) \in Seq(S)
         /\ Len(RemoveAt(seq, k)) = Len(seq) - 1
         /\ \A i \in 1 .. Len(seq) - 1 :
              RemoveAt(seq, k)[i] = IF i < k THEN seq[i] ELSE seq[i + 1]
<1> DEFINE l == SubSeq(seq, 1, k - 1)
           r == SubSeq(seq, k + 1, Len(seq))
<1>0. k \in Nat /\ Len(seq) \in Nat /\ 1 =< k /\ k =< Len(seq) /\ \A i \in 1 .. Len(seq) : seq[i] \in S
  BY ElementOfSeq, LenProperties
<1>1. l \in Seq(S) /\ Len(l) = k - 1 /\ \A i \in 1 .. k - 1 : l[i] = seq[i]
  <2>1. \A i \in 1 .. k - 1 : seq[i] \in S
    BY <1>0
  <2>2. /\ l \in Seq(S)
        /\ Len(l) = IF 1 <= k - 1 THEN k - 1 - 1 + 1 ELSE 0
        /\ \A i \in 1 .. k - 1 - 1 + 1 : l[i] = seq[1 + i - 1]
    BY <1>0, <2>1, SubSeqProperties
  <2> HIDE DEF l
  <2> QED
    BY <1>0, <2>2
<1>2. r \in Seq(S) /\ Len(r) = Len(seq) - k /\ \A i \in 1 .. Len(seq) - k : r[i] = seq[k + i]
  <2>1. \A i \in k + 1 .. Len(seq) : seq[i] \in S
    BY <1>0
  <2>2. /\ r \in Seq(S)
        /\ Len(r) = IF k + 1 <= Len(seq) THEN Len(seq) - (k + 1) + 1 ELSE 0
        /\ \A i \in 1 .. Len(seq) - (k + 1) + 1 : r[i] = seq[k + 1 + i - 1]
    BY <1>0, <2>1, SubSeqProperties
  <2> HIDE DEF r
  <2> QED
    BY <1>0, <2>2
<1>3. RemoveAt(seq, k) = l \o r
  BY DEF RemoveAt
<1> HIDE DEF l, r
<1>4. /\ l \o r \in Seq(S)
      /\ Len(l \o r) = Len(l) + Len(r)
      /\ \A i \in 1 .. Len(l) + Len(r) : (l \o r)[i] = IF i <= Len(l) THEN l[i] ELSE r[i - Len(l)]
  BY <1>1, <1>2, ConcatProperties
<1>5. RemoveAt(seq, k) \in Seq(S) /\ Len(RemoveAt(seq, k)) = Len(seq) - 1
  BY <1>0, <1>1, <1>2, <1>3, <1>4
<1>6. ASSUME NEW i \in 1 .. Len(seq) - 1
      PROVE  RemoveAt(seq, k)[i] = IF i < k THEN seq[i] ELSE seq[i + 1]
  <2>0. (l \o r)[i] = IF i <= k - 1 THEN l[i] ELSE r[i - (k - 1)]
    BY <1>0, <1>1, <1>2, <1>4
  <2>1. CASE i < k
    <3>1. i \in 1 .. k - 1 /\ i <= k - 1
      BY <1>0, <1>6, <2>1
    <3>2. l[i] = seq[i]
      BY <1>1, <3>1
    <3> QED
      BY <1>3, <2>0, <2>1, <3>1, <3>2
  <2>2. CASE ~(i < k)
    <3>1. i - (k - 1) \in 1 .. Len(seq) - k /\ k + (i - (k - 1)) = i + 1 /\ ~(i <= k - 1)
      BY <1>0, <1>6, <2>2
    <3>2. r[i - (k - 1)] = seq[i + 1]
      BY <1>2, <3>1
    <3> QED
      BY <1>3, <2>0, <2>2, <3>1, <3>2
  <2> QED
    BY <2>1, <2>2
<1> QED
  BY <1>5, <1>6

\* The array without a descriptor that has one entry: the other entries stay,
\* and nothing else comes.
LEMMA WithoutIs ==
  ASSUME ArraysType, FdsDistinct, NEW k \in DOMAIN inFds
  PROVE  LET rest == Without(inFds, inFds[k].fd)
         IN /\ rest \in Seq(Entries)
            /\ \A i \in DOMAIN rest : \E j \in DOMAIN inFds : j # k /\ rest[i] = inFds[j]
            /\ \A j \in DOMAIN inFds : j # k => \E i \in DOMAIN rest : rest[i] = inFds[j]
            /\ \A i, j \in DOMAIN rest : rest[i].fd = rest[j].fd => i = j
<1> DEFINE fd == inFds[k].fd
           entries == {i \in DOMAIN inFds : inFds[i].fd = fd}
           rest == RemoveAt(inFds, k)
<1>0. inFds \in Seq(Entries) /\ Len(inFds) \in Nat /\ DOMAIN inFds = 1 .. Len(inFds) /\ k \in Nat /\ k \in 1 .. Len(inFds)
  BY LenProperties DEF ArraysType
<1>1. entries = {k}
  BY DEF FdsDistinct
<1>2. Min({k}) = k
  <2>1. {k} \in SUBSET Nat /\ {k} # {}
    BY <1>0
  <2>2. Min({k}) \in {k}
    BY <2>1, LeastExists, Zenon
  <2> QED
    BY <2>2
<1>3. Without(inFds, fd) = rest
  BY <1>1, <1>2 DEF Without
<1>4. /\ rest \in Seq(Entries) /\ Len(rest) = Len(inFds) - 1
      /\ \A i \in 1 .. Len(inFds) - 1 : rest[i] = IF i < k THEN inFds[i] ELSE inFds[i + 1]
  BY <1>0, RemoveAtIs
<1> HIDE DEF rest, entries
<1>5. DOMAIN rest = 1 .. Len(inFds) - 1
  BY <1>4, LenProperties
<1> DEFINE from(i) == IF i < k THEN i ELSE i + 1
<1>6. \A i \in DOMAIN rest : from(i) \in DOMAIN inFds /\ from(i) # k /\ rest[i] = inFds[from(i)]
  BY <1>0, <1>4, <1>5
<1>7. \A j \in DOMAIN inFds : j # k => \E i \in DOMAIN rest : from(i) = j
  <2> SUFFICES ASSUME NEW j \in DOMAIN inFds, j # k PROVE \E i \in DOMAIN rest : from(i) = j
    OBVIOUS
  <2>1. CASE j < k
    <3>1. j \in DOMAIN rest /\ from(j) = j
      BY <1>0, <1>5, <2>1
    <3> QED
      BY <3>1
  <2>2. CASE j > k
    <3>1. j - 1 \in DOMAIN rest /\ from(j - 1) = j
      BY <1>0, <1>5, <2>2
    <3> QED
      BY <3>1
  <2> QED
    BY <1>0, <2>1, <2>2
<1>8. \A i, j \in DOMAIN rest : from(i) = from(j) => i = j
  BY <1>0, <1>5
<1> HIDE DEF from, fd
<1>9. \A i, j \in DOMAIN rest : rest[i].fd = rest[j].fd => i = j
  BY <1>6, <1>8 DEF FdsDistinct
<1>10. \A j \in DOMAIN inFds : j # k => \E i \in DOMAIN rest : rest[i] = inFds[j]
  BY <1>6, <1>7
<1>11. \A i \in DOMAIN rest : \E j \in DOMAIN inFds : j # k /\ rest[i] = inFds[j]
  BY <1>6
<1> QED
  BY <1>3, <1>4, <1>9, <1>10, <1>11 DEF fd

\* The callers that wait for an acknowledgement stay the same.
Quiet == \A c \in Callers : (at'[c] = "acking" <=> at[c] = "acking") /\ (at[c] = "acking" => op'[c] = op[c])

\* A step that leaves the array and the sockets alone keeps Arrays: DispFails may
\* stop selecting on a descriptor, and an instance forgets all of its own.
LEMMA ArraysKept ==
  ASSUME Arrays, Quiet, UNCHANGED <<inFds, open>>, rfds' \in SUBSET rfds, fdOf' = fdOf \/ fdOf' = NoBinding
  PROVE  Arrays'
<1>1. ArraysType' /\ FdsDistinct' /\ FdsBound'
  BY DEF Arrays, ArraysType, FdsDistinct, FdsBound, NoBinding
<1>2. ArrayFds' = ArrayFds
  BY DEF ArrayFds
<1>3. DispatchedFdsAreOpen' /\ NewOpen'
  BY <1>2 DEF Arrays, Quiet, NewOpen, DispatchedFdsAreOpen
<1> QED
  BY <1>1, <1>3 DEF Arrays

\* bind opens a socket that the array does not have, before it asks for the pause.
LEMMA ArraysPause ==
  ASSUME Control, Arrays, NEW c \in Callers, BindPauses(c) \/ UnbindPauses(c)
  PROVE  Arrays'
<1>1. UNCHANGED <<inFds, rfds, fdOf, op>> /\ at[c] = "work" /\ at' = [at EXCEPT ![c] = "acking"]
  BY DEF BindPauses, UnbindPauses, BindOpen, UnbindPause, AtWork, CallerGoto, tableVars
<1>2. \A d \in Callers : at'[d] = "acking" => d = c
  BY <1>1 DEF Control, ControlType, GateHeld, WorkPoints
<1>3. ArrayFds' = ArrayFds /\ FdsDistinct' /\ FdsBound'
  BY <1>1 DEF Arrays, ArrayFds, FdsDistinct, FdsBound
<1>4. CASE BindPauses(c)
  <2>1. LowestFd \in Fds \ open /\ open' = open \cup {LowestFd}
    BY <1>4, LeastExists, FdsAre DEF BindPauses, BindOpen, LowestFd, FreeFds
  <2>2. ArraysType' /\ DispatchedFdsAreOpen'
    BY <1>1, <1>3, <2>1 DEF Arrays, ArraysType, DispatchedFdsAreOpen
  <2>3. LowestFd \in open' /\ LowestFd \notin ArrayFds'
    BY <1>3, <2>1 DEF Arrays, DispatchedFdsAreOpen
  <2>4. NewOpen'
    BY <2>3 DEF NewOpen
  <2> QED
    BY <1>3, <2>2, <2>4 DEF Arrays
<1>5. CASE UnbindPauses(c)
  <2>1. open' = open /\ op[c] \notin Binders
    BY <1>5 DEF UnbindPauses, UnbindPause, sockVars, AtWork, Unbinders, Binders
  <2>2. ArraysType' /\ DispatchedFdsAreOpen'
    BY <1>1, <1>3, <2>1 DEF Arrays, ArraysType, DispatchedFdsAreOpen
  <2>3. NewOpen'
    BY <1>1, <1>2, <2>1 DEF NewOpen
  <2> QED
    BY <1>3, <2>2, <2>3 DEF Arrays
<1> QED
  BY <1>4, <1>5

\* Who holds the gate is the only one at work.
LEMMA NobodyAcks ==
  ASSUME Control, NEW c \in Callers, at[c] \in WorkPoints, at' = [at EXCEPT ![c] = "work"]
  PROVE  \A d \in Callers : at'[d] # "acking"
BY DEF Control, ControlType, GateHeld, WorkPoints

\* The end of bind appends an entry for the new socket and keeps the others.
LEMMA ArraysBind ==
  ASSUME Control, Arrays, NEW c \in Callers, BindGetsAck(c)
  PROVE  /\ Arrays'
         /\ NewFd \in Fds \ ArrayFds /\ Len(inFds') = Len(inFds) + 1
         /\ \A i \in DOMAIN inFds : i \in DOMAIN inFds' /\ inFds'[i] = inFds[i]
<1> DEFINE q == NextQueue(c)
<1>1. q \in Indices
  BY NextQueueIs DEF BindGetsAck, Control, GateHeld
<1>2. /\ NewFd \in open /\ \A i \in DOMAIN inFds : inFds[i].fd # NewFd
  BY DEF BindGetsAck, Arrays, NewOpen, NewFd, ArrayFds
<1>3. /\ inFds' = Append(inFds, [fd |-> NewFd, q |-> q])
      /\ fdOf' = [fdOf EXCEPT ![q] = NewFd] /\ rfds' = rfds \cup {NewFd} /\ open' = open
  BY DEF BindGetsAck, BindAdd, sockVars
<1> HIDE DEF q
<1>4. NewFd \in Fds /\ [fd |-> NewFd, q |-> q] \in Entries
  BY <1>1, <1>2 DEF Arrays, ArraysType, Entries
<1>5. /\ inFds \in Seq(Entries) /\ inFds' \in Seq(Entries) /\ Len(inFds) \in Nat /\ Len(inFds') = Len(inFds) + 1
      /\ \A i \in 1 .. Len(inFds) : inFds'[i] = inFds[i]
      /\ inFds'[Len(inFds) + 1].fd = NewFd /\ inFds'[Len(inFds) + 1].q = q
  BY <1>3, <1>4, AppendProperties, LenProperties DEF Arrays, ArraysType
<1>6. DOMAIN inFds = 1 .. Len(inFds) /\ DOMAIN inFds' = 1 .. Len(inFds) + 1
  BY <1>5, LenProperties
<1>7. ArraysType'
  BY <1>1, <1>3, <1>4, <1>5 DEF Arrays, ArraysType
<1>8. FdsDistinct'
  BY <1>2, <1>5, <1>6 DEF Arrays, FdsDistinct
<1>9. FdsBound'
  <2> SUFFICES ASSUME NEW p \in Indices, fdOf'[p] # NoFd
               PROVE  \E i \in DOMAIN inFds' : inFds'[i].fd = fdOf'[p] /\ inFds'[i].q = p
    BY DEF FdsBound
  <2>1. CASE p = q
    <3>1. fdOf'[p] = NewFd /\ Len(inFds) + 1 \in DOMAIN inFds'
      BY <1>1, <1>3, <1>5, <1>6, <2>1 DEF Arrays, ArraysType
    <3> QED
      BY <1>5, <2>1, <3>1
  <2>2. CASE p # q
    <3>1. fdOf'[p] = fdOf[p]
      BY <1>3, <2>2 DEF Arrays, ArraysType
    <3>2. PICK i \in DOMAIN inFds : inFds[i].fd = fdOf[p] /\ inFds[i].q = p
      BY <3>1 DEF Arrays, FdsBound
    <3>3. i \in DOMAIN inFds' /\ inFds'[i] = inFds[i]
      BY <1>5, <1>6
    <3> QED
      BY <3>1, <3>2, <3>3
  <2> QED
    BY <2>1, <2>2
<1>10. ArrayFds' = ArrayFds \cup {NewFd}
  <2>1. \A i \in DOMAIN inFds : i \in DOMAIN inFds' /\ inFds'[i].fd = inFds[i].fd
    BY <1>5, <1>6
  <2>2. \A i \in DOMAIN inFds' : i \in DOMAIN inFds \/ inFds'[i].fd = NewFd
    BY <1>5, <1>6
  <2>3. Len(inFds) + 1 \in DOMAIN inFds' /\ inFds'[Len(inFds) + 1].fd = NewFd
    BY <1>5, <1>6
  <2> QED
    BY <2>1, <2>2, <2>3 DEF ArrayFds
<1>11. DispatchedFdsAreOpen'
  BY <1>2, <1>3, <1>10 DEF Arrays, DispatchedFdsAreOpen
<1>12. NewOpen'
  <2>1. at[c] \in WorkPoints /\ at' = [at EXCEPT ![c] = "work"]
    BY DEF BindGetsAck, CallerGoto, WorkPoints
  <2> QED
    BY <2>1, NobodyAcks DEF NewOpen
<1> QED
  BY <1>2, <1>4, <1>5, <1>6, <1>7, <1>8, <1>9, <1>11, <1>12 DEF Arrays, ArrayFds

\* The end of unbind takes away one entry: a socket that no queue of the instance
\* is bound to stays.
LEMMA ArraysUnbind ==
  ASSUME Control, Arrays, NEW c \in Callers, UnbindGetsAck(c)
  PROVE  /\ Arrays'
         /\ fdOf' = [fdOf EXCEPT ![NextQueue(c)] = NoFd]
         /\ \A i \in DOMAIN inFds : (inFds[i].fd \notin {fdOf[q] : q \in Indices}) =>
              \E j \in DOMAIN inFds' : inFds'[j] = inFds[i]
<1> DEFINE q == NextQueue(c)
<1>1. q \in Indices
  BY NextQueueIs DEF UnbindGetsAck, Control, GateHeld
<1>2. UnbindRemove(q) /\ at[c] \in WorkPoints /\ at' = [at EXCEPT ![c] = "work"] /\ op' = op
  BY DEF UnbindGetsAck, CallerGoto, WorkPoints
<1>3. NewOpen'
  BY <1>2, NobodyAcks DEF NewOpen
<1>4. CASE fdOf[q] = NoFd
  <2>1. UNCHANGED <<inFds, rfds, fdOf, open>>
    BY <1>2, <1>4 DEF UnbindRemove, tableVars, sockVars
  <2>2. fdOf = [fdOf EXCEPT ![q] = NoFd]
    BY <1>1, <1>4 DEF Arrays, ArraysType
  <2>3. ArraysType' /\ FdsDistinct' /\ FdsBound' /\ ArrayFds' = ArrayFds
    BY <2>1 DEF Arrays, ArraysType, FdsDistinct, FdsBound, ArrayFds
  <2> QED
    BY <1>3, <2>1, <2>2, <2>3 DEF Arrays, DispatchedFdsAreOpen
<1>5. CASE fdOf[q] # NoFd
  <2>1. PICK k \in DOMAIN inFds : inFds[k].fd = fdOf[q] /\ inFds[k].q = q
    BY <1>1, <1>5 DEF Arrays, FdsBound
  <2> DEFINE fd == inFds[k].fd
             rest == Without(inFds, fd)
  <2>2. /\ inFds' = rest /\ rfds' = rfds \ {fd} /\ open' = open \ {fd}
        /\ fdOf' = [fdOf EXCEPT ![q] = NoFd]
    BY <1>2, <1>5, <2>1 DEF UnbindRemove
  <2>3. /\ rest \in Seq(Entries)
        /\ \A i \in DOMAIN rest : \E j \in DOMAIN inFds : j # k /\ rest[i] = inFds[j]
        /\ \A j \in DOMAIN inFds : j # k => \E i \in DOMAIN rest : rest[i] = inFds[j]
        /\ \A i, j \in DOMAIN rest : rest[i].fd = rest[j].fd => i = j
    BY WithoutIs DEF Arrays
  <2> HIDE DEF rest, fd, q
  <2>4. ArraysType' /\ FdsDistinct'
    BY <1>1, <2>2, <2>3 DEF Arrays, ArraysType, FdsDistinct
  <2>5. \A j \in DOMAIN inFds : j # k => inFds[j].fd # fd
    BY DEF fd, Arrays, FdsDistinct
  <2>6. FdsBound'
    <3> SUFFICES ASSUME NEW p \in Indices, fdOf'[p] # NoFd
                 PROVE  \E i \in DOMAIN inFds' : inFds'[i].fd = fdOf'[p] /\ inFds'[i].q = p
      BY DEF FdsBound
    <3>1. p # q /\ fdOf'[p] = fdOf[p]
      BY <1>1, <2>2 DEF Arrays, ArraysType
    <3>2. PICK j \in DOMAIN inFds : inFds[j].fd = fdOf[p] /\ inFds[j].q = p
      BY <3>1 DEF Arrays, FdsBound
    <3>3. j # k
      BY <2>1, <3>1, <3>2
    <3> QED
      BY <2>2, <2>3, <3>1, <3>2, <3>3
  <2>7. ArrayFds' = ArrayFds \ {fd}
    <3>1. \A i \in DOMAIN rest : rest[i].fd \in ArrayFds \ {fd}
      BY <2>3, <2>5 DEF ArrayFds
    <3>2. \A x \in ArrayFds \ {fd} : \E i \in DOMAIN rest : rest[i].fd = x
      <4> SUFFICES ASSUME NEW x \in ArrayFds \ {fd} PROVE \E i \in DOMAIN rest : rest[i].fd = x
        OBVIOUS
      <4>1. PICK j \in DOMAIN inFds : inFds[j].fd = x
        BY DEF ArrayFds
      <4>2. j # k
        BY <4>1 DEF fd
      <4> QED
        BY <2>3, <4>1, <4>2
    <3> QED
      BY <2>2, <3>1, <3>2 DEF ArrayFds
  <2>8. DispatchedFdsAreOpen'
    BY <2>2, <2>7 DEF Arrays, DispatchedFdsAreOpen
  <2>9. ASSUME NEW i \in DOMAIN inFds, inFds[i].fd \notin {fdOf[p] : p \in Indices}
        PROVE  \E j \in DOMAIN inFds' : inFds'[j] = inFds[i]
    <3>1. i # k
      BY <1>1, <2>1, <2>9
    <3> QED
      BY <2>2, <2>3, <3>1
  <2> QED
    BY <1>3, <2>2, <2>4, <2>6, <2>8, <2>9 DEF Arrays, q
<1> QED
  BY <1>4, <1>5

\* The steps of the callers that neither pause the dispatch thread nor edit its
\* descriptors.
OwnStep(t) ==
  Create(t) \/ Delete(t) \/ Get(t) \/ GetTakes(t) \/ InstallQueue(t) \/ RemoveQueue(t) \/ UsesFreedInstance(t)
AttachStep == Attach \/ AttachDone \/ Detach \/ DetachUnlocks \/ Unregister \/ DetachDone \/ Joined
QuietStep ==
  \/ \E t \in QueueThreads : OwnStep(t)
  \/ \E c \in Callers : Lock(c) \/ BindSkips(c)
  \/ AttachStep \/ Send \/ Crash

\* The quiet steps change no descriptor, no event and nobody's wait.
LEMMA QuietSteps ==
  ASSUME Control, QuietStep
  PROVE  /\ Quiet /\ (Stopped' <=> Stopped)
         /\ UNCHANGED <<inFds, open, rfds, ack, unblock, disp, held>>
         /\ fdOf' = fdOf \/ fdOf' = NoBinding
<1> USE CallersAre DEF Control, ControlType, GateHeld, OpOf, WorkPoints, Stopped
<1>1. CASE \E t \in QueueThreads : OwnStep(t)
  <2>1. PICK t \in QueueThreads : OwnStep(t)
    BY <1>1
  <2>2. UNCHANGED <<rpmsgVars, held>>
    BY <2>1 DEF OwnStep, Create, Delete, Get, GetTakes, InstallQueue, RemoveQueue,
           UsesFreedInstance, Fault
  <2>3. \/ UNCHANGED <<at, op>>
        \/ /\ at[t] \notin {"acking", "joining", "done"} /\ \A c \in Callers : c # t => at'[c] = at[c] /\ op'[c] = op[c]
           /\ at'[t] \notin {"acking", "joining", "done"}
    BY <2>1 DEF OwnStep, Create, Delete, Get, GetTakes, InstallQueue, RemoveQueue,
           UsesFreedInstance, Fault,
           CallerGoto, Finishing, callVars
  <2> QED
    BY <2>2, <2>3 DEF rpmsgVars, tableVars, eventVars, sockVars, Quiet
<1>2. CASE \E c \in Callers : Lock(c) \/ BindSkips(c)
  <2>1. PICK c \in Callers : Lock(c) \/ BindSkips(c)
    BY <1>2
  <2>2. UNCHANGED <<rpmsgVars, held, op>>
    BY <2>1 DEF Lock, BindSkips
  <2>3. \/ at' = at
        \/ at[c] = "locking" /\ at' = [at EXCEPT ![c] = "work"]
    <3>1. Lock(c) => at[c] = "locking" /\ at' = [at EXCEPT ![c] = "work"]
      BY DEF Lock, CallerGoto
    <3>2. BindSkips(c) => at' = at
      BY DEF BindSkips
    <3> QED
      BY <2>1, <3>1, <3>2
  <2> QED
    BY <2>2, <2>3 DEF rpmsgVars, tableVars, eventVars, sockVars, Quiet
<1>3. CASE AttachStep
  <2>1. UNCHANGED <<inFds, open, rfds, ack, unblock, disp, held>> /\ (fdOf' = fdOf \/ fdOf' = NoBinding)
    BY <1>3 DEF AttachStep, Attach, AttachDone, Detach, DetachUnlocks, Unregister, DetachDone,
           Joined,
           CreateInstance, DeleteInstance, rpmsgVars, tableVars, eventVars, sockVars
  <2>2. /\ at[IpcThread] # "acking" /\ at'[IpcThread] # "acking" /\ (Stopped' <=> Stopped)
        /\ \A c \in Callers : c # IpcThread => at'[c] = at[c] /\ op'[c] = op[c]
    BY <1>3 DEF AttachStep, Attach, AttachDone, Detach, DetachUnlocks, Unregister, DetachDone,
           Joined,
           CallerGoto, Finishing
  <2> QED
    BY <2>1, <2>2 DEF Quiet
<1>4. CASE Send \/ Crash
  BY <1>4 DEF Send, Crash, Remote, tableVars, eventVars, callVars, Quiet
<1> QED
  BY <1>1, <1>2, <1>3, <1>4 DEF QuietStep

\* What the dispatch thread leaves alone.
LEMMA DispKeeps ==
  ASSUME DispStep
  PROVE  /\ UNCHANGED <<at, op, todo, gate, qOf, queues, live, registered, fdOf, inFds, open>>
         /\ rfds' \in SUBSET rfds
<1>1. UNCHANGED <<tblVars, callVars, qOf, live, registered>>
  BY DEF DispStep, DispSelects, DispReceives, DispFails, DispReadsEvent, DispNoEvent, Insert,
         ShutFlag, ShutPost,
       UsesFreedQueue, Fault, clientVars, objVars, peerVars
<1>2. UNCHANGED <<fdOf, inFds, open>> /\ rfds' \in SUBSET rfds
  BY DEF DispStep, DispSelects, DispReceives, DispFails, DispReadsEvent, DispNoEvent, Insert,
         ShutFlag, ShutPost,
       UsesFreedQueue, Fault, Select, Receive, ReceiveFails, ReadEvent, NoEvent, rpmsgVars, tableVars, sockVars
<1> QED
  BY <1>1, <1>2 DEF tblVars, callVars

\* Every step is one of these.
LEMMA StepIs ==
  ASSUME ClientNext
  PROVE  \/ QuietStep
         \/ \E c \in Callers : BindPauses(c) \/ UnbindPauses(c)
         \/ \E c \in Callers : BindGetsAck(c) \/ UnbindGetsAck(c)
         \/ DispStep
         \/ Stop
BY CallersAre DEF ClientNext, ThreadStep, IpcStep, CallerStep, ClientCalls, QuietStep, OwnStep,
       AttachStep

\* Every step keeps Arrays.
LEMMA ArraysInv == Control /\ Arrays /\ [ClientNext]_lqVars => Arrays'
<1> SUFFICES ASSUME Control, Arrays, [ClientNext]_lqVars PROVE Arrays'
  OBVIOUS
<1>1. CASE QuietStep
  BY <1>1, QuietSteps, ArraysKept
<1>2. CASE \E c \in Callers : BindPauses(c) \/ UnbindPauses(c)
  BY <1>2, ArraysPause
<1>3. CASE \E c \in Callers : BindGetsAck(c) \/ UnbindGetsAck(c)
  BY <1>3, ArraysBind, ArraysUnbind
<1>4. CASE DispStep
  BY <1>4, DispKeeps, ArraysKept DEF Quiet
<1>5. CASE Stop
  <2>1. UNCHANGED <<inFds, open, rfds, fdOf, op>> /\ Quiet
    BY <1>5, CallersAre DEF Stop, SendShutdown, tableVars, sockVars, Quiet, Callers
  <2> QED
    BY <2>1, ArraysKept
<1>6. CASE UNCHANGED lqVars
  BY <1>6, ArraysKept DEF lqVars, rpmsgVars, tableVars, sockVars, callVars, Quiet
<1> QED
  BY <1>1, <1>2, <1>3, <1>4, <1>5, <1>6, StepIs

-----------------------------------------------------------------------------
\* The queue objects.

\* A thread's object is live from the moment it has an index, and the table has it
\* at that index only.
Owns ==
  /\ queues \in [Indices -> QueueThreads \cup {NoObj}] /\ live \in [QueueThreads -> BOOLEAN]
  /\ \A t \in QueueThreads : live[t] <=> qOf[t] # NoFd
  /\ \A q \in Indices : queues[q] # NoObj => qOf[queues[q]] = q

\* Every step keeps Owns: LAD's index is stored with its object, and delete clears
\* its own entry or another's, never sets one.
LEMMA OwnsInv == Control /\ Owns /\ [ClientNext]_lqVars => Owns'
<1> SUFFICES ASSUME Control, Owns, [ClientNext]_lqVars PROVE Owns'
  OBVIOUS
<1>0. ASSUME UNCHANGED <<queues, live, qOf>> PROVE Owns'
  BY <1>0 DEF Owns
<1>1. ASSUME NEW t \in QueueThreads, Create(t) PROVE Owns'
  <2>1. Min(Indices \ served) \in Indices /\ Min(Indices \ served) # NoFd
    BY <1>1, LeastExists, ClientAssumption, CallersAre DEF Create
  <2>2. /\ qOf[t] = NoFd /\ qOf' = [qOf EXCEPT ![t] = Min(Indices \ served)]
        /\ live' = [live EXCEPT ![t] = TRUE] /\ queues' = queues
    BY <1>1 DEF Create
  <2>3. \A q \in Indices : queues[q] # t
    BY <2>2, CallersAre DEF Owns
  <2> QED
    BY <2>1, <2>2, <2>3, CallersAre DEF Owns, Control, ControlType
<1>2. ASSUME NEW t \in QueueThreads, InstallQueue(t) PROVE Owns'
  <2>1. qOf[t] \in Indices /\ queues' = [queues EXCEPT ![qOf[t]] = t] /\ UNCHANGED <<live, qOf>>
    BY <1>2, CallersAre DEF InstallQueue, Finishing, objVars, Control, ControlType, OpOf, WorkPoints
  <2> QED
    BY <2>1, CallersAre DEF Owns
<1>3. ASSUME NEW t \in QueueThreads, RemoveQueue(t) PROVE Owns'
  <2>1. /\ qOf[t] \in Indices /\ queues' = [queues EXCEPT ![qOf[t]] = NoObj]
        /\ live' = [live EXCEPT ![t] = FALSE] /\ qOf' = [qOf EXCEPT ![t] = NoFd]
    BY <1>3, CallersAre DEF RemoveQueue, Finishing, Control, ControlType, OpOf, WorkPoints
  <2>2. \A q \in Indices : queues'[q] # t
    BY <2>1, CallersAre DEF Owns
  <2> QED
    BY <2>1, <2>2, CallersAre DEF Owns, Control, ControlType
<1>4. ASSUME NEW t \in QueueThreads, Delete(t) \/ Get(t) \/ GetTakes(t) \/ UsesFreedInstance(t)
      PROVE  UNCHANGED <<queues, live, qOf>>
  BY <1>4 DEF Delete, Get, GetTakes, UsesFreedInstance, Fault, objVars, tblVars
<1>5. ASSUME NEW c \in Callers, CallerStep(c) PROVE UNCHANGED <<queues, live, qOf>>
  BY <1>5 DEF CallerStep, Lock, BindSkips, BindPauses, BindGetsAck, UnbindPauses, UnbindGetsAck,
         objVars, tblVars
<1>6. ASSUME AttachStep \/ Stop \/ Send \/ Crash PROVE UNCHANGED <<queues, live, qOf>>
  BY <1>6 DEF AttachStep, Attach, AttachDone, Detach, DetachUnlocks, Unregister, DetachDone,
         Joined, Stop, Send, Crash,
         objVars, tblVars
<1>7. ASSUME UNCHANGED lqVars PROVE UNCHANGED <<queues, live, qOf>>
  BY <1>7 DEF lqVars, objVars, tblVars
<1>8. CASE \E t \in QueueThreads : ThreadStep(t)
  BY <1>8, <1>0, <1>2, <1>3, <1>4, <1>5, CallersAre DEF ThreadStep
<1>9. CASE IpcStep
  BY <1>9, <1>0, <1>5, <1>6, CallersAre DEF IpcStep, AttachStep
<1>10. CASE ClientCalls
  BY <1>10, <1>0, <1>1, <1>4, <1>6 DEF ClientCalls, AttachStep
<1> QED
  BY <1>0, <1>7, <1>8, <1>9, <1>10, DispKeeps DEF ClientNext

-----------------------------------------------------------------------------
\* The dispatch thread, and the events that pause it.

\* The thread has an object in hand while it delivers, and at no other time.
Delivering == {"insert", "flag", "post"}
DispStates == [pc : {"select", "scan", "paused", "exit"} \cup Delivering,
               ready : SUBSET (Fds \cup {UnblockFd}), next : Nat \ {0}]
Dispatching ==
  /\ disp \in DispStates /\ held \in QueueThreads \cup {NoObj}
  /\ held # NoObj <=> disp.pc \in Delivering

\* Nobody waits for an acknowledgement: what is left to read is a CONTINUE for
\* a thread that is paused, or the end.  Somebody does: the PAUSE is still to be
\* read, after a CONTINUE perhaps, or is acknowledged and the thread paused.
NobodyWaits == \A c \in Callers : at[c] # "acking"
Events ==
  /\ NobodyWaits => /\ ack = 0
                    /\ \/ unblock = 0
                       \/ unblock = Continue /\ disp.pc = "paused"
                       \/ unblock \in {Shutdown, Continue + Shutdown} /\ Stopped
  /\ NobodyWaits \/ \/ ack = 0 /\ unblock = Pause
                    \/ ack = 0 /\ unblock = Continue + Pause /\ disp.pc = "paused"
                    \/ ack = 1 /\ unblock = 0 /\ disp.pc = "paused"
  /\ disp.pc = "exit" => Stopped

Base == Control /\ Arrays /\ Owns /\ Dispatching /\ Events

\* The entry the dispatch thread is about to handle is one of the array's.
LEMMA ScansEntry ==
  ASSUME Arrays, Dispatching, Due # {}
  PROVE  Here \in DOMAIN inFds /\ Here \in Nat /\ FdHere \in Fds /\ QHere \in Indices
<1>1. disp.next \in Nat \ {0} /\ Len(inFds) \in Nat /\ DOMAIN inFds = 1 .. Len(inFds)
  BY LenProperties DEF Arrays, ArraysType, Dispatching, DispStates
<1>2. Due \subseteq Nat /\ \A i \in Due : i =< Len(inFds)
  BY <1>1 DEF Due
<1>3. Here \in Due
  BY <1>2, LeastExists DEF Here
<1>4. Here \in 1 .. Len(inFds)
  BY <1>1, <1>3 DEF Due
<1>5. inFds[Here] \in Entries
  BY <1>1, <1>4, ElementOfSeq DEF Arrays, ArraysType
<1> QED
  BY <1>1, <1>4, <1>5 DEF FdHere, QHere, Entries

\* The handshake of the callers: PAUSE, and what follows the acknowledgement.
LEMMA EventsCaller ==
  ASSUME Base, NEW c \in Callers, BindPauses(c) \/ UnbindPauses(c) \/ BindGetsAck(c) \/ UnbindGetsAck(c)
  PROVE  Dispatching' /\ Events'
<1> USE DEF Pause, Continue, Shutdown
<1>1. UNCHANGED <<disp, held>>
  BY DEF BindPauses, UnbindPauses, BindGetsAck, UnbindGetsAck, BindOpen, UnbindPause, BindAdd,
         UnbindRemove
<1>2. at[c] \in WorkPoints /\ ~Stopped /\ disp.pc # "exit"
  <2>1. at[c] \in WorkPoints
    BY DEF BindPauses, UnbindPauses, BindGetsAck, UnbindGetsAck, AtWork, WorkPoints
  <2> QED
    BY <2>1, CallersAre DEF Base, Control, OpOf, WorkPoints, Stopped, Callers, Events
<1>3. CASE BindPauses(c) \/ UnbindPauses(c)
  <2>1. at[c] = "work" /\ at' = [at EXCEPT ![c] = "acking"] /\ unblock' = unblock + 2 /\ ack' = ack
    BY <1>3 DEF BindPauses, UnbindPauses, BindOpen, UnbindPause, AtWork, CallerGoto
  <2>2. NobodyWaits
    BY <2>1 DEF NobodyWaits, Base, Control, GateHeld, WorkPoints
  <2>3. ~NobodyWaits'
    BY <2>1 DEF NobodyWaits, Base, Control, ControlType
  <2> QED
    BY <1>1, <1>2, <2>1, <2>2, <2>3 DEF Base, Dispatching, Events
<1>4. CASE BindGetsAck(c) \/ UnbindGetsAck(c)
  <2>1. at[c] = "acking" /\ ack > 0 /\ at' = [at EXCEPT ![c] = "work"]
    BY <1>4 DEF BindGetsAck, UnbindGetsAck, UnbindAcked, CallerGoto
  <2>2. ack' = ack - 1 /\ (unblock' = unblock + 4 \/ unblock' = unblock)
    BY <1>4 DEF BindGetsAck, BindAdd, UnbindGetsAck, UnbindRemove
  <2>3. ~NobodyWaits /\ NobodyWaits'
    BY <2>1, NobodyAcks DEF NobodyWaits, Base, WorkPoints
  <2> QED
    BY <1>1, <1>2, <2>1, <2>2, <2>3 DEF Base, Dispatching, Events
<1> QED
  BY <1>3, <1>4

\* Ipc_stop writes SHUTDOWN when nobody waits.
LEMMA EventsStop ==
  ASSUME Base, Stop PROVE Dispatching' /\ Events'
<1> USE DEF Pause, Continue, Shutdown
<1>1. UNCHANGED <<disp, held, ack>> /\ unblock' = unblock + 8
  BY DEF Stop, SendShutdown
<1>2. NobodyWaits /\ ~Stopped
  BY DEF Stop, NobodyWaits, Callers, Stopped
<1>3. NobodyWaits' /\ Stopped'
  BY CallersAre DEF Stop, NobodyWaits, Stopped
<1> QED
  BY <1>1, <1>2, <1>3 DEF Base, Dispatching, Events

\* The dispatch thread takes the events.
LEMMA EventsRead ==
  ASSUME Base, DispReadsEvent PROVE Dispatching' /\ Events'
<1>1. /\ unblock > 0 /\ unblock' = 0 /\ disp.pc \in {"scan", "paused"} /\ held' = held /\ at' = at
      /\ \/ Has(unblock, 8) /\ disp' = [disp EXCEPT !.pc = "exit"] /\ ack' = ack
         \/ ~Has(unblock, 8) /\ Has(unblock, 2) /\ disp' = [disp EXCEPT !.pc = "paused"] /\ ack' = ack + 1
         \/ ~Has(unblock, 8) /\ ~Has(unblock, 2) /\ disp' = Parked /\ ack' = ack
  BY DEF DispReadsEvent, ReadEvent, clientVars, callVars, Pause, Shutdown
<1>2. (NobodyWaits' <=> NobodyWaits) /\ (Stopped' <=> Stopped)
  BY <1>1 DEF NobodyWaits, Stopped
<1>3. /\ Has(2, 2) /\ ~Has(2, 8) /\ Has(6, 2) /\ ~Has(6, 8)
      /\ ~Has(4, 2) /\ ~Has(4, 8) /\ Has(8, 8) /\ Has(12, 8)
  BY DEF Has
<1>4. Parked \in DispStates /\ Parked.pc = "select"
  BY DEF Parked, DispStates
<1>5. held = NoObj /\ disp \in DispStates /\ ~(disp.pc = "exit")
  BY <1>1 DEF Base, Dispatching, Delivering
<1>6. Dispatching'
  BY <1>1, <1>4, <1>5 DEF Dispatching, DispStates, Delivering
<1>7. CASE ~NobodyWaits
  <2>1. /\ \/ unblock = 2 \/ unblock = 6
        /\ ack = 0
    BY <1>1, <1>7 DEF Base, Events, Pause, Continue, Shutdown
  <2>2. disp' = [disp EXCEPT !.pc = "paused"] /\ ack' = ack + 1
    BY <1>1, <1>3, <2>1
  <2> QED
    BY <1>1, <1>2, <1>5, <1>6, <1>7, <2>1, <2>2 DEF Events, DispStates
<1>8. CASE NobodyWaits
  <2>1. /\ unblock = 4 \/ (unblock \in {8, 12} /\ Stopped)
        /\ ack = 0
    BY <1>1, <1>8 DEF Base, Events, Pause, Continue, Shutdown
  <2>2. CASE unblock = 4
    <3>1. disp' = Parked /\ ack' = ack
      BY <1>1, <1>3, <2>2
    <3> QED
      BY <1>1, <1>2, <1>4, <1>6, <1>8, <2>1, <3>1 DEF Events
  <2>3. CASE unblock \in {8, 12} /\ Stopped
    <3>1. ack' = ack
      BY <1>1, <1>3, <2>3
    <3> QED
      BY <1>1, <1>2, <1>6, <1>8, <2>1, <2>3, <3>1 DEF Events
  <2> QED
    BY <2>1, <2>2, <2>3
<1> QED
  BY <1>6, <1>7, <1>8

\* Whatever else it does it is not paused, does not end, and holds an object
\* while it delivers.
LEMMA EventsDisp ==
  ASSUME Base, DispStep, ~DispReadsEvent PROVE Dispatching' /\ Events'
<1>1. UNCHANGED <<at, ack, unblock>>
  BY DispKeeps DEF DispStep, DispSelects, DispReceives, DispFails, DispNoEvent, Insert, ShutFlag,
         ShutPost,
       UsesFreedQueue, Fault, Select, Receive, ReceiveFails, NoEvent, rpmsgVars, eventVars
<1>2. disp \in DispStates
  BY DEF Base, Dispatching
<1>3. CASE DispSelects \/ DispNoEvent
  <2>1. Watched \subseteq Fds \cup {UnblockFd}
    BY DEF Watched, Base, Arrays, ArraysType, DispatchedFdsAreOpen
  <2>2. disp' \in DispStates /\ disp'.pc \in {"scan", "select"}
    <3>1. CASE DispSelects
      <4>1. disp' = [disp EXCEPT !.pc = "scan", !.ready = Watched, !.next = 1]
        BY <3>1 DEF DispSelects, Select
      <4>2. Watched \in SUBSET (Fds \cup {UnblockFd}) /\ 1 \in Nat \ {0}
        BY <2>1
      <4>3. disp' = [pc |-> "scan", ready |-> Watched, next |-> 1]
        BY <1>2, <4>1 DEF DispStates
      <4> QED
        BY <4>2, <4>3 DEF DispStates
    <3>2. CASE DispNoEvent
      BY <3>2 DEF DispNoEvent, NoEvent, Parked, DispStates
    <3> QED
      BY <1>3, <3>1, <3>2
  <2>3. disp.pc \in {"scan", "select"} /\ held' = held
    BY <1>3 DEF DispSelects, DispNoEvent, Select, NoEvent
  <2> QED
    BY <1>1, <2>2, <2>3 DEF Base, Dispatching, Events, Delivering, NobodyWaits, Stopped
<1>4. CASE DispReceives
  <2>1. Here + 1 \in Nat \ {0} /\ QHere \in Indices
    BY <1>4, ScansEntry DEF DispReceives, Receive, Base
  <2>2. Found \in QueueThreads \cup {NoObj}
    BY <2>1 DEF Found, Base, Owns
  <2>3. /\ disp' \in DispStates /\ disp'.pc = (IF Found = NoObj THEN "scan" ELSE "insert")
        /\ disp.pc = "scan" /\ held' = Found
    BY <1>2, <1>4, <2>1 DEF DispReceives, Receive, DispStates, Delivering
  <2> QED
    BY <1>1, <2>2, <2>3 DEF Base, Dispatching, Events, Delivering, NobodyWaits, Stopped
<1>5. CASE DispFails
  <2>1. Here + 1 \in Nat \ {0} /\ QHere \in Indices
    BY <1>5, ScansEntry DEF DispFails, ReceiveFails, Base
  <2>2. queues[QHere] \in QueueThreads \cup {NoObj}
    BY <2>1 DEF Base, Owns
  <2>3. /\ disp' \in DispStates /\ disp.pc = "scan"
        /\ \/ held' = NoObj /\ disp'.pc = "scan"
           \/ held' = queues[QHere] /\ disp'.pc = (IF queues[QHere] = NoObj THEN "scan" ELSE "flag")
    BY <1>2, <1>5, <2>1 DEF DispFails, ReceiveFails, DispStates, Delivering
  <2> QED
    BY <1>1, <2>2, <2>3 DEF Base, Dispatching, Events, Delivering, NobodyWaits, Stopped
<1>6. CASE Insert \/ ShutFlag \/ ShutPost
  <2>1. /\ disp' \in DispStates /\ disp.pc \in Delivering
        /\ \/ held' = NoObj /\ disp'.pc = "scan"
           \/ held' = held /\ disp'.pc = "post"
    BY <1>2, <1>6 DEF Insert, ShutFlag, ShutPost, DispGoto, DispStates, Delivering
  <2> QED
    BY <1>1, <2>1 DEF Base, Dispatching, Events, Delivering, NobodyWaits, Stopped
<1>7. CASE UsesFreedQueue
  <2>1. UNCHANGED <<disp, held>>
    BY <1>7 DEF UsesFreedQueue, Fault, rpmsgVars
  <2> QED
    BY <1>1, <2>1 DEF Base, Dispatching, Events, NobodyWaits, Stopped
<1> QED
  BY <1>3, <1>4, <1>5, <1>6, <1>7 DEF DispStep

\* Every step keeps Base.
LEMMA BaseInv == Base /\ [ClientNext]_lqVars => Base'
<1> SUFFICES ASSUME Base, [ClientNext]_lqVars PROVE Dispatching' /\ Events'
  BY ControlInv, ArraysInv, OwnsInv DEF Base
<1>1. CASE QuietStep
  <2>1. (NobodyWaits' <=> NobodyWaits) /\ (Stopped' <=> Stopped) /\ UNCHANGED <<ack, unblock, disp, held>>
    BY <1>1, QuietSteps DEF Base, Quiet, NobodyWaits
  <2> QED
    BY <2>1 DEF Base, Dispatching, Events
<1>2. CASE UNCHANGED lqVars
  BY <1>2 DEF lqVars, rpmsgVars, eventVars, callVars, Base, Dispatching, Events, NobodyWaits,
         Stopped
<1> QED
  BY <1>1, <1>2, StepIs, EventsCaller, EventsStop, EventsRead, EventsDisp

-----------------------------------------------------------------------------
\* The objects that the dispatch thread has looked up.

\* A socket is left behind for good: no instance knows it, or none that is
\* registered, and nobody is left who unbinds it.
Stuck ==
  \/ \E i \in DOMAIN inFds : inFds[i].fd \notin Owned
  \/ ~registered /\ DOMAIN inFds # {} /\ \A c \in Callers : todo[c] = {}

\* A queue is unbound before its object goes, or its socket stays behind.
UnboundFirst ==
  \A t \in QueueThreads : Finishing(t, "delete") =>
    /\ fdOf[qOf[t]] = NoFd \/ ~registered
    /\ held = t => Stuck
\* An object in hand is live, or the socket it came from is left behind.
HeldLives ==
  held # NoObj => DOMAIN inFds # {} /\ (live[held] \/ Stuck)
Lives == UnboundFirst /\ HeldLives

\* While somebody edits the descriptors the dispatch thread delivers nothing.
LEMMA AckedHoldsNone ==
  ASSUME Base, NEW c \in Callers, BindGetsAck(c) \/ UnbindGetsAck(c)
  PROVE  held = NoObj /\ held' = NoObj /\ todo[c] # {} /\ at[c] = "acking"
<1>1. at[c] = "acking" /\ ack > 0 /\ held' = held
  BY DEF BindGetsAck, UnbindGetsAck, UnbindAcked
<1>2. disp.pc = "paused"
  BY <1>1 DEF Base, Events, NobodyWaits
<1> QED
  BY <1>1, <1>2 DEF Base, Dispatching, Delivering, Control, GateHeld

\* Nobody else has queues left to do.
LEMMA OthersDone ==
  ASSUME Control, NEW c \in Callers, gate \in {c, NoObj}
  PROVE  \A d \in Callers : d # c => todo[d] = {}
BY CallersAre DEF Control, GateHeld

\* The members of the array are entries.
LEMMA EntriesAre ==
  ASSUME Arrays PROVE \A i \in DOMAIN inFds : inFds[i] \in Entries
<1>1. inFds \in Seq(Entries)
  BY DEF Arrays, ArraysType
<1> QED
  BY <1>1, LenProperties, ElementOfSeq

\* A socket that is left behind stays so: unbind finds a queue's socket through the
\* instance only, and what no queue is bound to is never closed.
LEMMA StuckKept ==
  ASSUME Base, Stuck, ClientNext PROVE Stuck'
<1> DEFINE unowned(i) == i \in DOMAIN inFds /\ inFds[i].fd \notin Owned
<1>0. \A i \in DOMAIN inFds : inFds[i].fd \in Fds
  BY EntriesAre DEF Base, Entries
<1>1. ASSUME UNCHANGED <<inFds, fdOf>>, registered' => registered, \A c \in Callers : todo[c] = {} => todo'[c] = {}
      PROVE  Stuck'
  <2>1. Owned' = Owned
    BY <1>1 DEF Owned
  <2> QED
    BY <1>1, <2>1 DEF Stuck
<1>2. ASSUME inFds' = inFds, fdOf' = NoBinding PROVE Stuck'
  <2>1. Owned' \subseteq {NoFd}
    BY <1>2 DEF Owned, NoBinding
  <2>2. PICK i : i \in DOMAIN inFds
    BY DEF Stuck
  <2> QED
    BY <1>0, <1>2, <2>1, <2>2, FdsAre DEF Stuck
<1>3. ASSUME NEW c \in Callers, BindGetsAck(c) \/ UnbindGetsAck(c) PROVE \E i : unowned(i)
  BY <1>3, AckedHoldsNone DEF Stuck
<1>4. ASSUME NEW c \in Callers, BindGetsAck(c) PROVE Stuck'
  <2>1. PICK i \in DOMAIN inFds : inFds[i].fd \notin Owned
    BY <1>3, <1>4
  <2>2. fdOf' = [fdOf EXCEPT ![NextQueue(c)] = NewFd]
    BY <1>4 DEF BindGetsAck, BindAdd
  <2>3. Owned' \subseteq Owned \cup {NewFd}
    BY <2>2 DEF Owned, Base, Arrays, ArraysType
  <2>4. i \in DOMAIN inFds' /\ inFds'[i] = inFds[i] /\ NewFd \notin ArrayFds
    BY <1>4, ArraysBind DEF Base
  <2> QED
    BY <2>1, <2>3, <2>4 DEF Stuck, ArrayFds
<1>5. ASSUME NEW c \in Callers, UnbindGetsAck(c) PROVE Stuck'
  <2>1. PICK i \in DOMAIN inFds : inFds[i].fd \notin Owned
    BY <1>3, <1>5
  <2>2. fdOf' = [fdOf EXCEPT ![NextQueue(c)] = NoFd]
    BY <1>5, ArraysUnbind DEF Base
  <2>3. Owned' \subseteq Owned \cup {NoFd}
    BY <2>2 DEF Owned, Base, Arrays, ArraysType
  <2>4. PICK j \in DOMAIN inFds' : inFds'[j] = inFds[i]
    BY <1>5, <2>1, ArraysUnbind DEF Base, Owned
  <2> QED
    BY <1>0, <2>1, <2>3, <2>4, FdsAre DEF Stuck
<1>6. ASSUME NEW c \in Callers, Lock(c) PROVE Stuck'
  <2>1. UNCHANGED <<inFds, fdOf, registered>> /\ todo' = [todo EXCEPT ![c] = Work(c)]
    BY <1>6 DEF Lock, rpmsgVars, tableVars, peerVars
  <2>2. ~registered => Work(c) = {}
    BY DEF Work
  <2>3. Owned' = Owned
    BY <2>1 DEF Owned
  <2> HIDE DEF Work
  <2> QED
    BY <2>1, <2>2, <2>3 DEF Stuck, Base, Control, ControlType
<1>7. ASSUME NEW c \in Callers, BindSkips(c) \/ BindPauses(c) \/ UnbindPauses(c) PROVE Stuck'
  <2>1. UNCHANGED <<inFds, fdOf, registered>> /\ todo[c] # {}
    BY <1>7 DEF BindSkips, BindPauses, UnbindPauses, AtWork, BindOpen, UnbindPause, rpmsgVars,
           tableVars, peerVars
  <2>2. Owned' = Owned
    BY <2>1 DEF Owned
  <2> QED
    BY <2>1, <2>2 DEF Stuck
<1>8. CASE \E t \in QueueThreads : OwnStep(t)
  <2>1. UNCHANGED <<inFds, fdOf, registered, todo>>
    BY <1>8 DEF OwnStep, Create, Delete, Get, GetTakes, InstallQueue, RemoveQueue,
           UsesFreedInstance, Fault,
           rpmsgVars, tableVars, peerVars, callVars
  <2> QED
    BY <1>1, <2>1
<1>9. CASE AttachStep \/ Stop \/ Send \/ Crash
  <2>1. todo' = todo /\ inFds' = inFds
    BY <1>9 DEF AttachStep, Attach, AttachDone, Detach, DetachUnlocks, Unregister, DetachDone,
           Joined, Stop, Send, Crash,
           CreateInstance, DeleteInstance, SendShutdown, rpmsgVars, tableVars, callVars
  <2>2. fdOf' = NoBinding \/ (fdOf' = fdOf /\ (registered' => registered))
    BY <1>9 DEF AttachStep, Attach, AttachDone, Detach, DetachUnlocks, Unregister, DetachDone,
           Joined, Stop, Send, Crash,
           CreateInstance, DeleteInstance, SendShutdown, rpmsgVars, tableVars, peerVars
  <2> QED
    BY <1>1, <1>2, <2>1, <2>2
<1>10. CASE DispStep
  BY <1>1, <1>10, DispKeeps
<1> QED
  BY <1>4, <1>5, <1>6, <1>7, <1>8, <1>9, <1>10, StepIs DEF QuietStep

\* An object that is looked up is in the table, so it is allocated; one that is
\* about to go is unbound, so its socket is none of the instance's.
LEMMA FoundLives ==
  ASSUME Base, UnboundFirst, Due # {}, NEW t \in QueueThreads, queues[QHere] = t
  PROVE  live[t] /\ (Finishing(t, "delete") => Stuck)
<1>1. Here \in DOMAIN inFds /\ FdHere \in Fds /\ QHere \in Indices
  BY ScansEntry DEF Base
<1>2. qOf[t] = QHere /\ live[t]
  BY <1>1, CallersAre DEF Base, Owns
<1>3. ASSUME Finishing(t, "delete"), fdOf[QHere] = NoFd PROVE Stuck
  <2>1. SUFFICES ASSUME NEW p \in Indices, fdOf[p] = FdHere PROVE FALSE
    BY <1>1 DEF Stuck, Owned, FdHere
  <2>2. PICK i \in DOMAIN inFds : inFds[i].fd = FdHere /\ inFds[i].q = p
    BY <1>1, <2>1, FdsAre DEF Base, Arrays, FdsBound
  <2>3. i = Here
    BY <1>1, <2>2 DEF FdHere, Base, Arrays, FdsDistinct
  <2> QED
    BY <1>1, <1>3, <2>1, <2>2, <2>3, FdsAre DEF QHere
<1>4. ASSUME Finishing(t, "delete"), ~registered PROVE Stuck
  <2>1. gate = t /\ todo[t] = {}
    BY <1>4, CallersAre DEF Finishing, Base, Control, GateHeld, WorkPoints
  <2>2. \A d \in Callers : todo[d] = {}
    BY <2>1, OthersDone, CallersAre DEF Base
  <2> QED
    BY <1>1, <1>4, <2>2 DEF Stuck
<1> QED
  BY <1>2, <1>3, <1>4 DEF UnboundFirst

\* What the dispatch thread holds comes from the table.
LEMMA HeldFrom ==
  ASSUME Base, DispStep
  PROVE  held' = NoObj \/ held' = held \/ (Due # {} /\ held' \in QueueThreads /\ held' = queues[QHere])
<1>1. CASE DispReceives
  <2>1. Due # {} /\ held' = Found
    BY <1>1 DEF DispReceives, Receive
  <2>2. QHere \in Indices
    BY <2>1, ScansEntry DEF Base
  <2> QED
    BY <2>1, <2>2 DEF Found, Base, Owns
<1>2. CASE DispFails
  <2>1. Due # {} /\ (held' = NoObj \/ held' = queues[QHere])
    BY <1>2 DEF DispFails, ReceiveFails
  <2>2. QHere \in Indices
    BY <2>1, ScansEntry DEF Base
  <2> QED
    BY <2>1, <2>2 DEF Base, Owns
<1>3. CASE DispSelects \/ DispReadsEvent \/ DispNoEvent \/ Insert \/ ShutFlag \/ ShutPost \/ UsesFreedQueue
  BY <1>3 DEF DispSelects, DispReadsEvent, DispNoEvent, Insert, ShutFlag, ShutPost, UsesFreedQueue,
         Fault
<1> QED
  BY <1>1, <1>2, <1>3 DEF DispStep

\* The dispatch thread looks up objects of the table, which are live.
LEMMA LivesDisp ==
  ASSUME Base, Lives, DispStep, ClientNext PROVE Lives'
<1>1. UNCHANGED <<at, op, todo, qOf, live, registered, fdOf, inFds>>
  BY DispKeeps
<1>2. Stuck => Stuck'
  BY StuckKept
<1>3. \A t \in QueueThreads : Finishing(t, "delete")' <=> Finishing(t, "delete")
  BY <1>1 DEF Finishing
<1>4. ASSUME Due # {}, held' \in QueueThreads, held' = queues[QHere]
      PROVE  live[held'] /\ (Finishing(held', "delete") => Stuck) /\ DOMAIN inFds # {}
  BY <1>4, FoundLives, ScansEntry DEF Base, Lives
<1>5. \A t \in QueueThreads : Finishing(t, "delete") /\ held' = t => Stuck'
  BY <1>2, <1>4, HeldFrom, CallersAre DEF Lives, UnboundFirst
<1>6. UnboundFirst'
  BY <1>1, <1>3, <1>5 DEF Lives, UnboundFirst
<1>7. HeldLives'
  BY <1>1, <1>2, <1>4, HeldFrom DEF Lives, HeldLives
<1> QED
  BY <1>6, <1>7 DEF Lives

\* A step that edits no descriptors and takes no gate: an object goes only
\* when it has been unbound.
LEMMA LivesKept ==
  ASSUME Base, Lives, ClientNext, UNCHANGED <<inFds, held>>,
         \A t \in QueueThreads : live[t] => live'[t] \/ Finishing(t, "delete"),
         \A t \in QueueThreads : Finishing(t, "delete")' =>
           /\ Finishing(t, "delete") /\ qOf'[t] = qOf[t]
           /\ fdOf' = NoBinding \/ (fdOf' = fdOf /\ (registered' => registered))
  PROVE  Lives'
<1>1. Stuck => Stuck'
  BY StuckKept
<1>2. held \in QueueThreads \cup {NoObj}
  BY DEF Base, Dispatching
<1>3. HeldLives'
  BY <1>1, <1>2 DEF Lives, HeldLives, UnboundFirst
<1>4. ASSUME NEW t \in QueueThreads, Finishing(t, "delete")' PROVE qOf[t] \in Indices
  <2>1. Finishing(t, "delete")
    BY <1>4
  <2> QED
    BY <2>1, CallersAre DEF Finishing, Base, Control, ControlType, OpOf, WorkPoints
<1>5. ASSUME NEW t \in QueueThreads, Finishing(t, "delete")'
      PROVE  (fdOf'[qOf'[t]] = NoFd \/ ~registered') /\ (held' = t => Stuck')
  BY <1>1, <1>4, <1>5 DEF Lives, UnboundFirst, NoBinding
<1>6. UnboundFirst'
  BY <1>5 DEF UnboundFirst, Finishing
<1> QED
  BY <1>3, <1>6 DEF Lives

\* When delete takes the gate its queue has still to be unbound, or there is no
\* instance that is registered and the dispatch thread's entry is left behind.
LEMMA LivesLock ==
  ASSUME Base, Lives, ClientNext, NEW c \in Callers, Lock(c) PROVE Lives'
<1>1. /\ UNCHANGED <<inFds, fdOf, held, registered, live, qOf, op>> /\ gate = NoObj
      /\ todo' = [todo EXCEPT ![c] = Work(c)] /\ at' = [at EXCEPT ![c] = "work"] /\ at[c] = "locking"
  BY DEF Lock, CallerGoto, rpmsgVars, tableVars, peerVars, objVars
<1>2. Stuck => Stuck'
  BY StuckKept
<1>3. HeldLives'
  BY <1>1, <1>2 DEF Lives, HeldLives
<1>4. ASSUME NEW t \in QueueThreads, Finishing(t, "delete")' PROVE ~registered /\ t = c /\ Work(c) = {}
  <2>1. at'[t] = "work" /\ op[t] = "delete" /\ todo'[t] = {}
    BY <1>1, <1>4 DEF Finishing
  <2>2. t = c
    BY <1>1, <2>1, CallersAre DEF Base, Control, ControlType, GateHeld, WorkPoints
  <2>3. Work(c) = {}
    BY <1>1, <2>1, <2>2 DEF Base, Control, ControlType
  <2>4. registered => Work(c) = {qOf[c]}
    BY <2>1, <2>2 DEF Work
  <2> HIDE DEF Work
  <2> QED
    BY <2>2, <2>3, <2>4
<1>5. ASSUME NEW t \in QueueThreads, Finishing(t, "delete")', held = t PROVE Stuck'
  <2>1. ~registered /\ t = c /\ Work(c) = {} /\ DOMAIN inFds # {}
    BY <1>4, <1>5, CallersAre DEF Lives, HeldLives
  <2>2. \A d \in Callers : todo'[d] = {}
    BY <1>1, <2>1, OthersDone DEF Base, Control, ControlType
  <2> QED
    BY <1>1, <2>1, <2>2 DEF Stuck
<1>6. UnboundFirst'
  BY <1>1, <1>4, <1>5 DEF UnboundFirst, Finishing
<1> QED
  BY <1>3, <1>6 DEF Lives

\* bind and unbind end while the dispatch thread is paused and holds nothing.
LEMMA LivesEdit ==
  ASSUME Base, Lives, NEW c \in Callers, BindGetsAck(c) \/ UnbindGetsAck(c) PROVE Lives'
<1>1. held' = NoObj /\ at[c] = "acking" /\ todo[c] # {}
  BY AckedHoldsNone
<1>2. UNCHANGED <<qOf, op>> /\ at' = [at EXCEPT ![c] = "work"]
  BY DEF BindGetsAck, UnbindGetsAck, CallerGoto, objVars
<1>3. ASSUME NEW t \in QueueThreads, Finishing(t, "delete")' PROVE fdOf'[qOf'[t]] = NoFd
  <2>1. t = c /\ op[c] = "delete"
    BY <1>1, <1>2, <1>3, CallersAre DEF Finishing, Base, Control, ControlType, GateHeld, WorkPoints
  <2>2. UnbindGetsAck(c)
    BY <2>1 DEF BindGetsAck, Binders
  <2>3. NextQueue(c) = qOf[c] /\ qOf[c] \in Indices
    BY <1>1, <2>1, NextQueueIs DEF Base, Control, OpOf
  <2> QED
    BY <1>2, <2>1, <2>2, <2>3, ArraysUnbind DEF Base, Arrays, ArraysType
<1>4. UnboundFirst'
  BY <1>1, <1>3, CallersAre DEF UnboundFirst, Finishing, Callers
<1> QED
  BY <1>1, <1>4 DEF Lives, HeldLives

\* Only RemoveQueue frees an object, once it is unbound.
LEMMA LivesThread ==
  ASSUME Base, Lives, ClientNext, NEW t \in QueueThreads, OwnStep(t) PROVE Lives'
<1>1. UNCHANGED <<inFds, held, fdOf, registered, todo>>
  BY DEF OwnStep, Create, Delete, Get, GetTakes, InstallQueue, RemoveQueue, UsesFreedInstance,
         Fault,
         rpmsgVars, tableVars, peerVars, callVars
<1>2. /\ \A u \in QueueThreads \ {t} : UNCHANGED <<at[u], op[u], qOf[u], live[u]>>
      /\ live[t] => live'[t] \/ Finishing(t, "delete")
      /\ at'[t] # "work" \/ UNCHANGED <<at, op, qOf>>
  <2> USE CallersAre DEF Base, Control, ControlType, Owns
  <2>1. CASE Create(t)
    BY <2>1 DEF Create, CallerGoto
  <2>2. CASE Delete(t) \/ Get(t) \/ GetTakes(t) \/ InstallQueue(t)
    BY <2>2 DEF Delete, Get, GetTakes, InstallQueue, CallerGoto, objVars
  <2>3. CASE RemoveQueue(t)
    BY <2>3 DEF RemoveQueue, CallerGoto
  <2>4. CASE UsesFreedInstance(t)
    BY <2>4 DEF UsesFreedInstance, Fault, callVars, objVars
  <2> QED
    BY <2>1, <2>2, <2>3, <2>4 DEF OwnStep
<1>3. \A u \in QueueThreads : live[u] => live'[u] \/ Finishing(u, "delete")
  BY <1>2
<1>4. \A u \in QueueThreads : Finishing(u, "delete")' => Finishing(u, "delete") /\ qOf'[u] = qOf[u]
  BY <1>1, <1>2 DEF Finishing
<1> QED
  BY <1>1, <1>3, <1>4, LivesKept

\* Neither the pauses nor attach, detach, stop or the remote free an object.
LEMMA LivesOther ==
  ASSUME Base, Lives, ClientNext,
         \/ \E c \in Callers : BindSkips(c) \/ BindPauses(c) \/ UnbindPauses(c)
         \/ AttachStep \/ Send \/ Crash \/ Stop
  PROVE  Lives'
<1>1. UNCHANGED <<inFds, held, live, qOf>>
  BY DEF BindSkips, BindPauses, UnbindPauses, AttachStep, Attach, AttachDone, Detach,
         DetachUnlocks, Unregister,
         DetachDone, Joined, Stop, Send, Crash, BindOpen, UnbindPause, CreateInstance, DeleteInstance, SendShutdown,
         rpmsgVars, tableVars, objVars
<1>2. fdOf' = NoBinding \/ (fdOf' = fdOf /\ (registered' => registered))
  BY DEF BindSkips, BindPauses, UnbindPauses, AttachStep, Attach, AttachDone, Detach,
         DetachUnlocks, Unregister,
         DetachDone, Joined, Stop, Send, Crash, BindOpen, UnbindPause, CreateInstance, DeleteInstance, SendShutdown,
         rpmsgVars, tableVars, peerVars
<1>3. \A t \in QueueThreads : Finishing(t, "delete")' => Finishing(t, "delete")
  <2> USE CallersAre DEF Base, Control, ControlType
  <2>1. ASSUME NEW c \in Callers, BindSkips(c) \/ BindPauses(c) \/ UnbindPauses(c), NEW t \in QueueThreads,
               Finishing(t, "delete")'
        PROVE  Finishing(t, "delete")
    <3>1. op' = op /\ \A d \in Callers \ {c} : at'[d] = at[d] /\ todo'[d] = todo[d]
      BY <2>1 DEF BindSkips, BindPauses, UnbindPauses, CallerGoto, NextWork
    <3>2. at'[c] = "acking" \/ op[c] \in Binders
      BY <2>1 DEF BindSkips, BindPauses, UnbindPauses, CallerGoto, AtWork
    <3> QED
      BY <2>1, <3>1, <3>2 DEF Finishing, Binders
  <2>2. ASSUME AttachStep \/ Send \/ Crash
        PROVE  \A t \in QueueThreads : UNCHANGED <<at[t], op[t], todo[t]>>
    BY <2>2 DEF AttachStep, Attach, AttachDone, Detach, DetachUnlocks, Unregister, DetachDone,
           Joined, Send, Crash,
           CallerGoto, callVars
  <2>3. ASSUME Stop PROVE \A t \in QueueThreads : at'[t] = "done"
    BY <2>3 DEF Stop
  <2> QED
    BY <2>1, <2>2, <2>3 DEF Finishing
<1> QED
  BY <1>1, <1>2, <1>3, LivesKept

\* Every step keeps Lives.
LEMMA LivesInv == Base /\ Lives /\ [ClientNext]_lqVars => Lives'
<1> SUFFICES ASSUME Base, Lives, [ClientNext]_lqVars PROVE Lives'
  OBVIOUS
<1>1. CASE ClientNext
  BY <1>1, StepIs, LivesDisp, LivesThread, LivesLock, LivesEdit, LivesOther DEF QuietStep
<1>2. CASE UNCHANGED lqVars
  BY <1>2 DEF lqVars, rpmsgVars, tableVars, objVars, callVars, peerVars, Lives, UnboundFirst,
         HeldLives, Finishing,
         Stuck, Owned
<1> QED
  BY <1>1, <1>2

-----------------------------------------------------------------------------
\* Messages and wake-ups.

\* A queue nobody has unblocked has a message for each wake-up left, and for the
\* thread that took one; the flag is set before shutdown's post.
Taken(t) == IF at[t] = "taken" THEN 1 ELSE 0
Messages ==
  /\ msgs \in [QueueThreads -> Nat] /\ sem \in [QueueThreads -> Nat]
  /\ unblocked \in [QueueThreads -> BOOLEAN]
  /\ \A t \in QueueThreads : ~unblocked[t] => msgs[t] >= sem[t] + Taken(t)
  /\ disp.pc = "post" => unblocked[held] \/ ~live[held]

\* MessageQ_get takes one wake-up and then one message; delete empties the queue.
LEMMA MessagesThread ==
  ASSUME Base, Messages, NEW t \in QueueThreads, Get(t) \/ GetTakes(t) \/ RemoveQueue(t) PROVE Messages'
<1> USE CallersAre DEF Base, Control, ControlType, Messages, Taken
<1>0. UNCHANGED <<disp, held>>
  BY DEF Get, GetTakes, RemoveQueue, rpmsgVars
<1>1. CASE Get(t)
  BY <1>0, <1>1 DEF Get, CallerGoto
<1>2. CASE GetTakes(t)
  BY <1>0, <1>2 DEF GetTakes, CallerGoto
<1>3. CASE RemoveQueue(t)
  <2>1. /\ msgs' = [msgs EXCEPT ![t] = 0] /\ sem' = [sem EXCEPT ![t] = 0] /\ unblocked' = [unblocked EXCEPT ![t] = FALSE]
        /\ live' = [live EXCEPT ![t] = FALSE] /\ at' = [at EXCEPT ![t] = "idle"]
    BY <1>3 DEF RemoveQueue, CallerGoto
  <2>2. disp.pc = "post" => held \in QueueThreads
    BY DEF Dispatching, Delivering
  <2> QED
    BY <1>0, <2>1, <2>2 DEF Owns
<1> QED
  BY <1>1, <1>2, <1>3

\* A message is in the list before its semaphore is posted, and shutdown sets the
\* flag before it posts.
LEMMA MessagesDisp ==
  ASSUME Base, Messages, DispStep PROVE Messages'
<1> USE CallersAre DEF Base, Messages, Taken
<1>1. UNCHANGED <<at, live>>
  BY DispKeeps
<1>2. disp.pc \in Delivering => held \in QueueThreads
  BY DEF Dispatching
<1>3. disp \in DispStates
  BY DEF Dispatching
<1>4. CASE Insert
  <2>1. /\ msgs' = [msgs EXCEPT ![held] = @ + 1] /\ sem' = [sem EXCEPT ![held] = @ + 1] /\ unblocked' = unblocked
        /\ disp'.pc = "scan" /\ held \in QueueThreads
    BY <1>2, <1>3, <1>4 DEF Insert, DispGoto, DispStates, Delivering
  <2> QED
    BY <1>1, <2>1
<1>5. CASE ShutFlag
  <2>1. unblocked' = [unblocked EXCEPT ![held] = TRUE] /\ UNCHANGED <<msgs, sem, held>> /\ held \in QueueThreads
    BY <1>2, <1>5 DEF ShutFlag, Delivering
  <2> QED
    BY <1>1, <2>1
<1>6. CASE ShutPost
  <2>1. /\ sem' = [sem EXCEPT ![held] = @ + 1] /\ UNCHANGED <<msgs, unblocked>> /\ held \in QueueThreads
        /\ disp'.pc = "scan" /\ unblocked[held]
    BY <1>2, <1>3, <1>6 DEF ShutPost, DispGoto, DispStates, Delivering
  <2> QED
    BY <1>1, <2>1
<1>7. CASE DispSelects \/ DispReceives \/ DispFails \/ DispReadsEvent \/ DispNoEvent \/ UsesFreedQueue
  <2>1. UNCHANGED <<msgs, sem, unblocked>>
    BY <1>7 DEF DispSelects, DispReceives, DispFails, DispReadsEvent, DispNoEvent, UsesFreedQueue,
           Fault, objVars
  <2> DEFINE NotPost == disp'.pc # "post" \/ UNCHANGED <<disp, held>>
  <2>2. DispSelects => NotPost
    BY <1>3 DEF DispSelects, Select, DispStates
  <2>3. DispReceives => NotPost
    <3> SUFFICES ASSUME DispReceives PROVE NotPost
      OBVIOUS
    <3>1. disp'.pc = IF Found = NoObj THEN "scan" ELSE "insert"
      BY <1>3 DEF DispReceives, Receive, DispStates
    <3> QED
      BY <3>1
  <2>4. DispFails => NotPost
    <3> SUFFICES ASSUME DispFails PROVE NotPost
      OBVIOUS
    <3>1. disp.pc = "scan"
      BY DEF DispFails, ReceiveFails
    <3>2. \/ disp' = [disp EXCEPT !.pc = IF queues[QHere] = NoObj THEN "scan" ELSE "flag", !.next = Here + 1]
          \/ disp' = [disp EXCEPT !.next = Here + 1]
      BY DEF DispFails, ReceiveFails
    <3> HIDE DEF Here, QHere
    <3> QED
      BY <1>3, <3>1, <3>2 DEF DispStates
  <2>5. DispReadsEvent => NotPost
    BY <1>3 DEF DispReadsEvent, ReadEvent, Parked, DispStates
  <2>6. DispNoEvent => NotPost
    BY <1>3 DEF DispNoEvent, NoEvent, Parked
  <2>7. UsesFreedQueue => NotPost
    BY DEF UsesFreedQueue, Fault, rpmsgVars
  <2>8. NotPost
    BY <1>7, <2>2, <2>3, <2>4, <2>5, <2>6, <2>7
  <2> QED
    BY <1>1, <2>1, <2>8
<1> QED
  BY <1>4, <1>5, <1>6, <1>7 DEF DispStep

\* Every step keeps Messages.
LEMMA MessagesInv == Base /\ Messages /\ [ClientNext]_lqVars => Messages'
<1> SUFFICES ASSUME Base, Messages, [ClientNext]_lqVars PROVE Messages'
  OBVIOUS
<1>0. ASSUME UNCHANGED <<msgs, sem, unblocked, disp, held>>,
             \A t \in QueueThreads : at'[t] = "taken" => at[t] = "taken",
             \/ live' = live
             \/ \E t \in QueueThreads : held # t /\ live' = [live EXCEPT ![t] = TRUE]
      PROVE  Messages'
  <2>1. disp.pc = "post" => held \in QueueThreads
    BY DEF Base, Dispatching, Delivering
  <2>2. \A t \in QueueThreads : Taken(t)' <= Taken(t)
    BY <1>0 DEF Taken
  <2>3. \A t \in QueueThreads : Taken(t) \in Int /\ Taken(t)' \in Int
    BY DEF Taken
  <2>4. \A t \in QueueThreads : ~unblocked[t] => msgs[t] >= sem[t] + Taken(t)'
    BY <2>2, <2>3 DEF Messages
  <2>5. disp.pc = "post" => unblocked[held] \/ ~live'[held]
    BY <1>0, <2>1 DEF Messages, Base, Owns
  <2> HIDE DEF Taken
  <2> QED
    BY <1>0, <2>4, <2>5 DEF Messages
<1>1. ASSUME NEW t \in QueueThreads, Create(t) \/ Delete(t) \/ InstallQueue(t) \/ UsesFreedInstance(t) PROVE Messages'
  <2>1. UNCHANGED <<msgs, sem, unblocked, disp, held>>
    BY <1>1 DEF Create, Delete, InstallQueue, UsesFreedInstance, Fault, rpmsgVars, objVars
  <2>2. \A u \in QueueThreads : at'[u] = "taken" => at[u] = "taken"
    BY <1>1, CallersAre DEF Create, Delete, InstallQueue, UsesFreedInstance, Fault, CallerGoto,
           callVars,
           Base, Control, ControlType
  <2>3. live' = live \/ (held # t /\ live' = [live EXCEPT ![t] = TRUE])
    BY <1>1 DEF Create, Delete, InstallQueue, UsesFreedInstance, Fault, objVars
  <2> QED
    BY <1>0, <2>1, <2>2, <2>3
<1>2. ASSUME NEW c \in Callers, CallerStep(c) PROVE Messages'
  <2>1. UNCHANGED <<msgs, sem, unblocked, live, disp, held>>
    BY <1>2 DEF CallerStep, Lock, BindSkips, BindPauses, BindGetsAck, UnbindPauses, UnbindGetsAck,
           BindOpen, BindAdd,
           UnbindPause, UnbindRemove, rpmsgVars, objVars
  <2>2. \A u \in QueueThreads : at'[u] = "taken" => at[u] = "taken"
    BY <1>2, CallersAre DEF CallerStep, Lock, BindSkips, BindPauses, BindGetsAck, UnbindPauses,
           UnbindGetsAck, CallerGoto,
           Base, Control, ControlType
  <2> QED
    BY <1>0, <2>1, <2>2
<1>3. ASSUME AttachStep \/ Stop \/ Send \/ Crash PROVE Messages'
  <2>1. UNCHANGED <<msgs, sem, unblocked, live, disp, held>>
    BY <1>3 DEF AttachStep, Attach, AttachDone, Detach, DetachUnlocks, Unregister, DetachDone,
           Joined, Stop, Send, Crash,
           CreateInstance, DeleteInstance, SendShutdown, rpmsgVars, objVars
  <2>2. \A u \in QueueThreads : at'[u] = "taken" => at[u] = "taken"
    BY <1>3, CallersAre DEF AttachStep, Attach, AttachDone, Detach, DetachUnlocks, Unregister,
           DetachDone, Joined, Stop,
           Send, Crash, CallerGoto, callVars, Base, Control, ControlType
  <2> QED
    BY <1>0, <2>1, <2>2
<1>4. CASE UNCHANGED lqVars
  <2>1. UNCHANGED <<msgs, sem, unblocked, live, disp, held, at>>
    BY <1>4 DEF lqVars, rpmsgVars, objVars, callVars
  <2> QED
    BY <1>0, <2>1
<1>5. CASE \E t \in QueueThreads : ThreadStep(t)
  BY <1>5, <1>1, <1>2, MessagesThread, CallersAre DEF ThreadStep
<1>6. CASE IpcStep
  BY <1>6, <1>2, <1>3, CallersAre DEF IpcStep, AttachStep
<1>7. CASE ClientCalls
  BY <1>7, <1>1, <1>3, MessagesThread DEF ClientCalls, AttachStep
<1> QED
  BY <1>4, <1>5, <1>6, <1>7, MessagesDisp DEF ClientNext

\* The inductive invariant.
ClientInvariant == Base /\ Lives /\ Messages

\* The inductive invariant holds in every state.
LEMMA ClientHolds == ClientSpec => []ClientInvariant
<1>1. ClientInit => ClientInvariant
  <2> SUFFICES ASSUME ClientInit PROVE ClientInvariant
    OBVIOUS
  <2>1. disp = Parked /\ held = NoObj /\ unblock = 0 /\ ack = 0 /\ at = [c \in Callers |-> "idle"]
    BY DEF ClientInit, RpmsgInit
  <2>2. Dispatching /\ Events
    BY <2>1, CallersAre DEF Dispatching, Events, Parked, DispStates, Delivering, NobodyWaits,
           Stopped
  <2>3. Owns
    BY CallersAre DEF ClientInit, Owns
  <2>4. Lives
    BY <2>1, CallersAre DEF Lives, UnboundFirst, HeldLives, Finishing
  <2>5. Messages
    BY <2>1, CallersAre DEF ClientInit, Messages, Taken, Parked
  <2> QED
    BY <2>2, <2>3, <2>4, <2>5, ControlInit, ArraysInit DEF ClientInvariant, Base
<1>2. ClientInvariant /\ [ClientNext]_lqVars => ClientInvariant'
  BY BaseInv, LivesInv, MessagesInv DEF ClientInvariant
<1> QED
  BY <1>1, <1>2, PTL DEF ClientSpec

\* The dispatch thread selects on and reads open sockets only, the descriptor
\* arrays change only while it is paused (bind, unbind), and it puts a message into
\* or shuts down a live queue unless detach left the socket behind.
THEOREM DispatchSound == ClientSpec => []DispatchIsSound
<1>1. ClientInvariant => EditsArePaused
  BY DEF ClientInvariant, Base, Events, NobodyWaits, EditsArePaused
<1>2. ClientInvariant => DeliversToLive
  <2> SUFFICES ASSUME ClientInvariant, held # NoObj, NoneLeftBehind PROVE live[held]
    BY DEF DeliversToLive
  <2>1. ~Stuck
    BY DEF NoneLeftBehind, Stuck, ArrayFds
  <2> QED
    BY <2>1 DEF ClientInvariant, Lives, HeldLives
<1>3. ClientInvariant => DispatchIsSound
  BY <1>1, <1>2 DEF DispatchIsSound, ClientInvariant, Base, Arrays
<1> QED
  BY <1>3, ClientHolds, PTL

\* MessageQ_get, once past the semaphore of a queue nobody has unblocked, finds a
\* message in the list.
THEOREM GetsFindMessages == ClientSpec => []GetFindsMessage
<1>1. ClientInvariant => GetFindsMessage
  <2> SUFFICES ASSUME ClientInvariant, NEW t \in QueueThreads, at[t] = "taken", ~unblocked[t] PROVE msgs[t] > 0
    BY DEF GetFindsMessage
  <2> QED
    BY DEF ClientInvariant, Messages, Taken
<1> QED
  BY <1>1, ClientHolds, PTL

-----------------------------------------------------------------------------
(***************************************************************************)
(* LinuxGateMP: for any threads, processes, gates and resources, and       *)
(* however many objects malloc can give out.                               *)
(*                                                                         *)
(* The inductive invariant is GatesInvariant.  Registry is what create,    *)
(* delete, open and close keep: a handle is of a live object whose gate    *)
(* has its name still, a name stands for a resource in use, a thread in a  *)
(* call has what its place says, an object that open made counts its       *)
(* openers, and an entry of a table that can be looked up is of a live     *)
(* object.  Entering is what enter and leave keep: the local gate and the  *)
(* object count who is in, and what a thread has entered it has a handle   *)
(* of, so that its spinlock is of one object in the process.               *)
(*                                                                         *)
(* A process that dies leaves its names and resources taken: a table's     *)
(* entry is trusted only while its resource is Known.  The step in which   *)
(* an open counts itself at an object that a close has freed meanwhile     *)
(* sets misused, and all stops there.                                      *)
(***************************************************************************)
\* What a field of an object, and of a thread, holds; the places of a call.
GateObjStates ==
  [live : BOOLEAN, process : Processes \cup {NoOne}, res : Resources \cup {NoRef}, opened : BOOLEAN,
   opens : Nat, nested : Int]
CreatePoints == {"getFree", "store", "name"}
DeletePoints == {"clear", "release"}
OpenPoints   == {"look", "count", "close"}
EnterPoints  == {"idle", "spin", "again"}
UserStates ==
  [pc : CreatePoints \cup DeletePoints \cup OpenPoints \cup EnterPoints, gate : Gates \cup {NoRef},
   obj : GateObjects \cup {NoRef}, res : Resources \cup {NoRef}]

\* Types first.
GateTypes ==
  /\ inUse \in SUBSET Resources /\ gateNames \in [Gates -> Resources \cup {NoRef}]
  /\ lock \in [Resources -> Processes \cup {NoOne, RemoteHolder}]
  /\ gateAlive \in SUBSET Processes
  /\ gateTable \in [Processes -> [Resources -> GateObjects \cup {NoRef}]]
  /\ gateObjs \in [GateObjects -> GateObjStates]
  /\ mutex \in [Processes -> GateUsers \cup {NoOne}]
  /\ localGate \in [Processes -> [owner : GateUsers \cup {NoOne}, depth : Int]]
  /\ thr \in [GateUsers -> UserStates]
  /\ gateHandle \in [GateUsers -> [Gates -> GateObjects \cup {NoRef}]]
  /\ entered \in [GateUsers -> Seq(GateObjects)]

\* A thread in create, delete, open or close; one alone with its resource, which it
\* has not named yet or whose name it has taken back.
InCall(t) == thr[t].pc \notin EnterPoints
Sole(t) ==
  \/ thr[t].pc \in {"name", "clear", "release"}
  \/ thr[t].pc = "store" /\ ~gateObjs[thr[t].obj].opened
\* The gate of the call has its name.
Named(t) ==
  \/ thr[t].pc \in OpenPoints
  \/ thr[t].pc = "store" /\ gateObjs[thr[t].obj].opened
\* The object in hand is its process's, and of the resource in hand.
OwnsObj(t) ==
  /\ gateObjs[thr[t].obj].live /\ gateObjs[thr[t].obj].process = Mine(t)
  /\ gateObjs[thr[t].obj].res = thr[t].res

\* A handle is of a live object, whose gate has its name still.
HandleHeld(t, g) ==
  gateHandle[t][g] # NoRef =>
    /\ gateObjs[gateHandle[t][g]].live /\ gateObjs[gateHandle[t][g]].process = Mine(t)
    /\ gateObjs[gateHandle[t][g]].res \in Resources
    /\ \/ gateNames[g] = gateObjs[gateHandle[t][g]].res
       \/ thr[t].pc \in DeletePoints /\ thr[t].gate = g /\ thr[t].obj = gateHandle[t][g]

\* Every handle is held; a name stands for a resource in use, two for two.
HandlesHeld == \A t \in GateUsers, g \in Gates : HandleHeld(t, g)
NamesApart ==
  /\ \A g \in Gates : gateNames[g] # NoRef => gateNames[g] \in inUse
  /\ \A g, h \in Gates : gateNames[g] = gateNames[h] /\ gateNames[g] # NoRef => g = h

\* Where a thread is in its call.
CallHeld(t) ==
  /\ InCall(t) => thr[t].gate \in Gates /\ (thr[t].pc # "look" => thr[t].obj \in GateObjects)
  /\ thr[t].pc \in CreatePoints \cup {"look", "count"} => gateHandle[t][thr[t].gate] = NoRef
  /\ thr[t].pc = "getFree" => OwnsObj(t) /\ thr[t].res = NoRef /\ ~gateObjs[thr[t].obj].opened
  /\ thr[t].pc = "store" => OwnsObj(t)
  /\ Sole(t) =>
       /\ OwnsObj(t) /\ thr[t].res \in inUse /\ ~gateObjs[thr[t].obj].opened
       /\ \A g \in Gates : gateNames[g] # thr[t].res
  /\ thr[t].pc \in DeletePoints => gateHandle[t][thr[t].gate] = thr[t].obj
  /\ thr[t].pc = "release" => gateTable[Mine(t)][thr[t].res] = NoRef
  /\ Named(t) => gateNames[thr[t].gate] = thr[t].res /\ thr[t].res # NoRef
  /\ thr[t].pc = "count" => (gateObjs[thr[t].obj].live => OwnsObj(t))
  /\ thr[t].pc = "close" =>
       /\ mutex[Mine(t)] = t /\ OwnsObj(t)
       /\ gateObjs[thr[t].obj].opened /\ gateObjs[thr[t].obj].opens = 0

\* Two calls have not the same unnamed resource, nor the same new object.
CallsHold == \A t \in GateUsers : CallHeld(t)
CallsApart ==
  /\ \A t, u \in GateUsers : Sole(t) /\ Sole(u) /\ thr[t].res = thr[u].res => t = u
  /\ \A t, u \in GateUsers :
       thr[t].pc = "getFree" /\ thr[u].pc = "getFree" /\ thr[t].obj = thr[u].obj => t = u

\* An object made by open counts its handles and those to come.
Uses(t, g, o) ==
  gateHandle[t][g] = o \/ (thr[t].pc = "store" /\ thr[t].obj = o /\ thr[t].gate = g)
UsersOf(o) == {tg \in GateUsers \X Gates : Uses(tg[1], tg[2], o)}
OpensCounted ==
  \A o \in GateObjects : gateObjs[o].live /\ gateObjs[o].opened =>
    /\ gateObjs[o].res # NoRef /\ IsFiniteSet(UsersOf(o))
    /\ gateObjs[o].opens = Cardinality(UsersOf(o))

\* A table's entry that can be looked up, its resource being free or of a gate that
\* is not lost, is a live object's.
Known(r) ==
  \/ r \notin inUse
  \/ \E g \in Gates : gateNames[g] = r
  \/ \E t \in GateUsers : Sole(t) /\ thr[t].res = r
EntryHeld(p, r) ==
  Known(r) /\ gateTable[p][r] # NoRef =>
    /\ gateObjs[gateTable[p][r]].live /\ gateObjs[gateTable[p][r]].process = p
    /\ gateObjs[gateTable[p][r]].res = r
TablesHold == \A p \in gateAlive, r \in Resources : EntryHeld(p, r)

\* The objects that create made have resources of their own, in use.
CreatedHeld ==
  /\ \A o \in CreatedGates : gateObjs[o].res \in inUse
  /\ \A o, u \in CreatedGates : gateObjs[o].res = gateObjs[u].res => o = u

\* What create, delete, open and close keep.
Registry ==
  HandlesHeld /\ NamesApart /\ CallsHold /\ CallsApart /\ OpensCounted /\ TablesHold /\ CreatedHeld

\* The local gate of a process, and an object, count who is in them.
Spins(t) == thr[t].pc = "spin"
Inside(t) == Len(entered[t]) + (IF Spins(t) THEN 1 ELSE 0)
Occurs(s, o) == Cardinality({i \in 1 .. Len(s) : s[i] = o})
Times(t, o) == Occurs(entered[t], o) + (IF Spins(t) /\ thr[t].obj = o THEN 1 ELSE 0)
LocalHeld ==
  /\ \A t \in GateUsers : entered[t] # <<>> \/ Spins(t) => localGate[Mine(t)].owner = t
  /\ \A p \in Processes : localGate[p].owner = NoOne => localGate[p].depth = 0
  /\ \A p \in Processes, t \in GateUsers : localGate[p].owner = t =>
       Mine(t) = p /\ localGate[p].depth = Inside(t) /\ localGate[p].depth > 0
NestedIs ==
  \A o \in GateObjects : gateObjs[o].live =>
    /\ gateObjs[o].process \in Processes
    /\ localGate[gateObjs[o].process].owner = NoOne => gateObjs[o].nested = 0
    /\ \A t \in GateUsers : localGate[gateObjs[o].process].owner = t => gateObjs[o].nested = Times(t, o)

\* What a thread has entered it has a handle of, and its spinlock is taken.
EntryOf(t, i) ==
  /\ \E g \in Gates : gateHandle[t][g] = entered[t][i]
  /\ lock[gateObjs[entered[t][i]].res] = Mine(t)
  /\ \A j \in 1 .. Len(entered[t]) :
       gateObjs[entered[t][j]].res = gateObjs[entered[t][i]].res => entered[t][j] = entered[t][i]
EnterHeld(t) ==
  /\ \A i \in 1 .. Len(entered[t]) : EntryOf(t, i)
  /\ thr[t].pc \in {"spin", "again"} =>
       /\ thr[t].gate \in Gates /\ thr[t].obj = gateHandle[t][thr[t].gate] /\ thr[t].obj # NoRef
       /\ thr[t].res = gateObjs[thr[t].obj].res
       /\ \A i \in 1 .. Len(entered[t]) : entered[t][i] # thr[t].obj
  /\ InCall(t) => entered[t] = <<>>
\* Every user is where its entries say; who is in is what is counted.
EntersHeld == \A t \in GateUsers : EnterHeld(t)
Entering == LocalHeld /\ NestedIs /\ EntersHeld

\* The inductive invariant.
GatesInvariant == GateTypes /\ Registry /\ Entering

\* The constants: numbers for resources and objects, and names that are nobody's.
LEMMA GatesConstants ==
  /\ Resources \subseteq Nat /\ NoRef \notin Resources
  /\ GateObjects \subseteq Nat /\ NoRef \notin GateObjects
  /\ NoOne \notin Processes /\ RemoteHolder \notin Processes /\ NoOne # RemoteHolder
  /\ NoOne \notin GateUsers
  /\ \A t \in GateUsers : Mine(t) \in Processes
BY GatesAssumption DEF Processes, Mine, NoRef, NoOne, RemoteHolder

\* An object that is given out was free.
LEMMA FreshObject ==
  ASSUME FreeObjects # {}
  PROVE  Min(FreeObjects) \in GateObjects /\ Min(FreeObjects) \in FreeObjects
<1>1. FreeObjects \subseteq GateObjects /\ FreeObjects \in SUBSET Nat
  BY GatesConstants DEF FreeObjects
<1> QED
  BY <1>1, LeastExists

\* What has been given out has a number and a type.
LEMMA CallocTypes ==
  ASSUME GateTypes, FreeObjects # {}, NEW t \in GateUsers, NEW fields \in GateObjStates, Calloc(t, fields)
  PROVE  gateObjs' \in [GateObjects -> GateObjStates]
<1>1. [fields EXCEPT !.live = TRUE, !.process = Mine(t)] \in GateObjStates
  BY GatesConstants DEF GateObjStates
<1> QED
  BY <1>1, FreshObject DEF Calloc, GateTypes

\* The fields of an object that is free.
LEMMA NoGateObjType == NoGateObj \in GateObjStates
BY DEF NoGateObj, GateObjStates

\* What a sequence has first, and last.
LEMMA FrontLast ==
  ASSUME NEW S, NEW s \in Seq(S), s # <<>>
  PROVE  /\ Last(s) \in S /\ Front(s) \in Seq(S)
         /\ Len(Front(s)) = Len(s) - 1 /\ Len(s) \in Nat /\ Len(s) > 0
         /\ s = Append(Front(s), Last(s))
<1>1. Len(s) \in Nat /\ Len(s) > 0
  BY EmptySeq, LenProperties
<1>2. Front(s) \in Seq(S) /\ Len(Front(s)) = Len(s) - 1 /\ \A i \in 1 .. Len(s) - 1 : Front(s)[i] = s[i]
  <2> DEFINE f == SubSeq(s, 1, Len(s) - 1)
             n == Len(s)
  <2>1. 1 \in 1 .. n + 1 /\ n - 1 \in 1 - 1 .. n
    BY <1>1
  <2>2. /\ f \in Seq(S)
        /\ Len(f) = IF 1 <= n - 1 THEN (n - 1) - 1 + 1 ELSE 0
        /\ \A i \in 1 .. (n - 1) - 1 + 1 : f[i] = s[1 + i - 1]
    BY <2>1, SubSeqProperties
  <2>3. Front(s) = f
    BY DEF Front
  <2>4. n \in Nat /\ n > 0
    BY <1>1
  <2> HIDE DEF f, n
  <2>5. Len(f) = n - 1
    BY <2>2, <2>4
  <2>6. \A i \in 1 .. n - 1 : f[i] = s[i]
    BY <2>2, <2>4
  <2> QED
    BY <2>2, <2>3, <2>5, <2>6 DEF n
<1>3. Last(s) = s[Len(s)] /\ Last(s) \in S
  BY <1>1, ElementOfSeq DEF Last
<1>4. s = Append(Front(s), Last(s))
  <2> DEFINE w == Append(Front(s), Last(s))
  <2>1. w \in Seq(S) /\ Len(w) = Len(s)
    BY <1>1, <1>2, <1>3, AppendProperties
  <2>2. \A i \in 1 .. Len(s) : w[i] = s[i]
    BY <1>1, <1>2, <1>3, AppendProperties
  <2> HIDE DEF w
  <2>3. w = s
    BY <2>1, <2>2, SeqEqual
  <2> QED
    BY <2>3 DEF w
<1> QED
  BY <1>1, <1>2, <1>3, <1>4

\* The initial state is typed.
LEMMA GateTypesInit == GatesInit => GateTypes
<1> SUFFICES ASSUME GatesInit PROVE GateTypes
  OBVIOUS
<1>1. IdleUser \in UserStates
  BY DEF IdleUser, UserStates, EnterPoints
<1>2. gateObjs \in [GateObjects -> GateObjStates] /\ thr \in [GateUsers -> UserStates]
  BY <1>1, NoGateObjType DEF GatesInit
<1>3. <<>> \in Seq(GateObjects)
  BY EmptySeq
<1>4. gateHandle \in [GateUsers -> [Gates -> GateObjects \cup {NoRef}]]
  BY DEF GatesInit, NoneOpen
<1>5. entered \in [GateUsers -> Seq(GateObjects)]
  BY <1>3 DEF GatesInit
<1> QED
  BY <1>2, <1>4, <1>5 DEF GatesInit, GateTypes

\* A thread's next state is typed when its fields are.
LEMMA UserStateIs ==
  ASSUME NEW p \in CreatePoints \cup DeletePoints \cup OpenPoints \cup EnterPoints,
         NEW g \in Gates \cup {NoRef}, NEW o \in GateObjects \cup {NoRef}, NEW r \in Resources \cup {NoRef}
  PROVE  [pc |-> p, gate |-> g, obj |-> o, res |-> r] \in UserStates
BY DEF UserStates

\* A thread that goes on is where it was but for its place.
LEMMA UserGoes ==
  ASSUME GateTypes, NEW t \in GateUsers,
         NEW p \in CreatePoints \cup DeletePoints \cup OpenPoints \cup EnterPoints, UserGoto(t, p)
  PROVE  /\ thr' \in [GateUsers -> UserStates]
         /\ thr'[t].pc = p /\ thr'[t].gate = thr[t].gate /\ thr'[t].obj = thr[t].obj /\ thr'[t].res = thr[t].res
         /\ \A u \in GateUsers \ {t} : thr'[u] = thr[u]
BY DEF UserGoto, GateTypes, UserStates

\* One whose call returns is idle.
LEMMA UserIdles ==
  ASSUME GateTypes, NEW t \in GateUsers, UserReturns(t)
  PROVE  /\ thr' \in [GateUsers -> UserStates] /\ thr'[t].pc = "idle"
         /\ \A u \in GateUsers \ {t} : thr'[u] = thr[u]
<1>1. IdleUser \in UserStates
  BY DEF IdleUser, UserStates, EnterPoints
<1> QED
  BY <1>1 DEF UserReturns, GateTypes, IdleUser

\* A thread's state is replaced by another one.
LEMMA ThreadUpdate ==
  ASSUME GateTypes, NEW t \in GateUsers, NEW w \in UserStates, thr' = [thr EXCEPT ![t] = w] \/ thr' = thr
  PROVE  thr' \in [GateUsers -> UserStates]
<1>1. thr \in [GateUsers -> UserStates]
  BY DEF GateTypes
<1> QED
  BY <1>1

\* And the list of the gates it is in.
LEMMA EnteredUpdate ==
  ASSUME GateTypes, NEW t \in GateUsers, NEW w \in Seq(GateObjects),
         entered' = [entered EXCEPT ![t] = w] \/ entered' = entered
  PROVE  entered' \in [GateUsers -> Seq(GateObjects)]
<1>1. entered \in [GateUsers -> Seq(GateObjects)]
  BY DEF GateTypes
<1> QED
  BY <1>1

\* The fields of a thread, an object and a local gate.
LEMMA FieldTypes ==
  ASSUME GateTypes
  PROVE  /\ \A t \in GateUsers :
              /\ thr[t].pc \in CreatePoints \cup DeletePoints \cup OpenPoints \cup EnterPoints
              /\ thr[t].gate \in Gates \cup {NoRef} /\ thr[t].obj \in GateObjects \cup {NoRef}
              /\ thr[t].res \in Resources \cup {NoRef} /\ entered[t] \in Seq(GateObjects)
              /\ \A g \in Gates : gateHandle[t][g] \in GateObjects \cup {NoRef}
         /\ \A o \in GateObjects :
              /\ gateObjs[o].live \in BOOLEAN /\ gateObjs[o].opened \in BOOLEAN
              /\ gateObjs[o].process \in Processes \cup {NoOne} /\ gateObjs[o].res \in Resources \cup {NoRef}
              /\ gateObjs[o].opens \in Nat /\ gateObjs[o].nested \in Int
         /\ \A p \in Processes : localGate[p].owner \in GateUsers \cup {NoOne} /\ localGate[p].depth \in Int
BY DEF GateTypes, UserStates, GateObjStates

\* Updates of the tables, objects and handles are typed.
LEMMA UpdateTypes ==
  ASSUME GateTypes
  PROVE  /\ \A t \in GateUsers, g \in Gates \cup {NoRef}, o \in GateObjects \cup {NoRef} :
              [gateHandle EXCEPT ![t][g] = o] \in [GateUsers -> [Gates -> GateObjects \cup {NoRef}]]
         /\ \A p \in Processes, r \in Resources \cup {NoRef}, o \in GateObjects \cup {NoRef} :
              [gateTable EXCEPT ![p][r] = o] \in [Processes -> [Resources -> GateObjects \cup {NoRef}]]
         /\ \A o \in GateObjects \cup {NoRef}, n \in Nat :
              [gateObjs EXCEPT ![o].opens = n] \in [GateObjects -> GateObjStates]
         /\ \A o \in GateObjects \cup {NoRef}, n \in Int :
              [gateObjs EXCEPT ![o].nested = n] \in [GateObjects -> GateObjStates]
         /\ \A o \in GateObjects \cup {NoRef}, r \in Resources :
              [gateObjs EXCEPT ![o].res = r] \in [GateObjects -> GateObjStates]
         /\ \A o \in GateObjects \cup {NoRef} :
              [gateObjs EXCEPT ![o] = NoGateObj] \in [GateObjects -> GateObjStates]
<1>1. gateObjs \in [GateObjects -> GateObjStates]
  BY DEF GateTypes
<1>2. ASSUME NEW t \in GateUsers, NEW g \in Gates \cup {NoRef}, NEW o \in GateObjects \cup {NoRef}
      PROVE  [gateHandle EXCEPT ![t][g] = o] \in [GateUsers -> [Gates -> GateObjects \cup {NoRef}]]
  BY DEF GateTypes
<1>3. ASSUME NEW p \in Processes, NEW r \in Resources \cup {NoRef}, NEW o \in GateObjects \cup {NoRef}
      PROVE  [gateTable EXCEPT ![p][r] = o] \in [Processes -> [Resources -> GateObjects \cup {NoRef}]]
  BY DEF GateTypes
<1>4. ASSUME NEW o \in GateObjects \cup {NoRef}, NEW n \in Nat
      PROVE  [gateObjs EXCEPT ![o].opens = n] \in [GateObjects -> GateObjStates]
  BY <1>1 DEF GateObjStates
<1>5. ASSUME NEW o \in GateObjects \cup {NoRef}, NEW n \in Int
      PROVE  [gateObjs EXCEPT ![o].nested = n] \in [GateObjects -> GateObjStates]
  BY <1>1 DEF GateObjStates
<1>6. ASSUME NEW o \in GateObjects \cup {NoRef}, NEW r \in Resources
      PROVE  [gateObjs EXCEPT ![o].res = r] \in [GateObjects -> GateObjStates]
  BY <1>1 DEF GateObjStates
<1>7. ASSUME NEW o \in GateObjects \cup {NoRef}
      PROVE  [gateObjs EXCEPT ![o] = NoGateObj] \in [GateObjects -> GateObjStates]
  BY <1>1, NoGateObjType
<1> QED
  BY <1>2, <1>3, <1>4, <1>5, <1>6, <1>7

\* Create, delete, open and close keep the types.
LEMMA GateTypesCall ==
  ASSUME GateTypes, NEW t \in GateUsers, NEW g \in Gates,
         CreateCall(t, g) \/ DeleteCall(t, g) \/ OpenCall(t, g) \/ Close(t, g)
  PROVE  GateTypes'
<1> USE GatesConstants, FieldTypes
<1>1. CASE CreateCall(t, g)
  <2>1. gateObjs' \in [GateObjects -> GateObjStates]
    BY <1>1, CallocTypes, NoGateObjType DEF CreateCall
  <2>2. thr' \in [GateUsers -> UserStates]
    BY <1>1, FreshObject DEF CreateCall, GateTypes, UserStates, CreatePoints
  <2> QED
    BY <1>1, <2>1, <2>2 DEF CreateCall, GateTypes, gateLadVars, enterVars
<1>2. CASE DeleteCall(t, g)
  <2>1. gateHandle[t][g] \in GateObjects /\ gateObjs[gateHandle[t][g]].res \in Resources \cup {NoRef}
    BY <1>2 DEF DeleteCall
  <2>2. thr' \in [GateUsers -> UserStates]
    BY <1>2, <2>1 DEF DeleteCall, GateTypes, UserStates, DeletePoints
  <2> QED
    BY <1>2, <2>2 DEF DeleteCall, GateTypes, processVars, enterVars
<1>3. CASE OpenCall(t, g)
  <2>1. gateNames[g] \in Resources \cup {NoRef}
    BY DEF GateTypes
  <2>2. thr' \in [GateUsers -> UserStates]
    BY <1>3, <2>1 DEF OpenCall, GateTypes, UserStates, OpenPoints
  <2> QED
    BY <1>3, <2>2 DEF OpenCall, GateTypes, gateLadVars, processVars, enterVars
<1>4. CASE Close(t, g)
  <2>1. gateHandle[t][g] \in GateObjects /\ gateObjs[gateHandle[t][g]].res \in Resources \cup {NoRef}
    BY <1>4 DEF Close
  <2> DEFINE o == gateHandle[t][g]
             w == [pc |-> "close", gate |-> g, obj |-> o, res |-> gateObjs[o].res]
  <2>2. thr' \in [GateUsers -> UserStates]
    <3>1. thr' = [thr EXCEPT ![t] = w] \/ thr' = thr
      BY <1>4 DEF Close
    <3>2. w \in UserStates
      BY <2>1, UserStateIs DEF OpenPoints
    <3> QED
      BY <3>1, <3>2, ThreadUpdate
  <2>3. mutex' \in [Processes -> GateUsers \cup {NoOne}]
    <3>1. mutex' = [mutex EXCEPT ![Mine(t)] = t] \/ mutex' = mutex
      BY <1>4 DEF Close
    <3>2. mutex \in [Processes -> GateUsers \cup {NoOne}]
      BY DEF GateTypes
    <3>3. [mutex EXCEPT ![Mine(t)] = t] \in [Processes -> GateUsers \cup {NoOne}]
      BY <3>2
    <3> QED
      BY <3>1, <3>2, <3>3, Zenon
  <2>4. gateObjs' \in [GateObjects -> GateObjStates]
    <3>1. gateObjs[o].opens - 1 \in Nat
      BY <1>4, <2>1 DEF Close
    <3>2. gateObjs' = [gateObjs EXCEPT ![o].opens = gateObjs[o].opens - 1]
      BY <1>4 DEF Close
    <3> QED
      BY <2>1, <3>1, <3>2, UpdateTypes
  <2>5. gateHandle' \in [GateUsers -> [Gates -> GateObjects \cup {NoRef}]]
    BY <1>4, UpdateTypes DEF Close
  <2> QED
    BY <1>4, <2>2, <2>3, <2>4, <2>5 DEF Close, GateTypes, gateLadVars, enterVars
<1> QED
  BY <1>1, <1>2, <1>3, <1>4

\* So do the steps of create.
LEMMA GateTypesCreate ==
  ASSUME GateTypes, NEW t \in GateUsers, GetFreeResource(t) \/ Store(t) \/ AddName(t)
  PROVE  GateTypes'
<1> USE GatesConstants, FieldTypes, NoGateObjType
<1>1. CASE GetFreeResource(t)
  <2>1. CASE Resources \ inUse # {}
    <3>1. Min(Resources \ inUse) \in Resources
      BY <2>1, LeastExists
    <3> DEFINE r == Min(Resources \ inUse)
    <3> HIDE DEF r
    <3>2. \/ /\ inUse' = inUse \cup {r}
             /\ gateObjs' = [gateObjs EXCEPT ![thr[t].obj].res = r]
             /\ thr' = [thr EXCEPT ![t].pc = "store", ![t].res = r]
          \/ inUse' = inUse /\ gateObjs' = [gateObjs EXCEPT ![thr[t].obj] = NoGateObj] /\ UserReturns(t)
      BY <1>1 DEF GetFreeResource, r
    <3>3. r \in Resources
      BY <3>1 DEF r
    <3>4. gateObjs' \in [GateObjects -> GateObjStates]
      BY <3>2, <3>3, UpdateTypes
    <3>5. thr' \in [GateUsers -> UserStates]
      <4>1. CASE thr' = [thr EXCEPT ![t].pc = "store", ![t].res = r]
        <5>1. thr[t] \in UserStates /\ thr \in [GateUsers -> UserStates]
          BY DEF GateTypes
        <5>2. [thr[t] EXCEPT !.pc = "store", !.res = r] \in UserStates
          BY <3>3, <5>1 DEF UserStates, CreatePoints
        <5>3. thr' = [thr EXCEPT ![t] = [thr[t] EXCEPT !.pc = "store", !.res = r]]
          BY <4>1
        <5> QED
          BY <5>1, <5>2, <5>3
      <4> QED
        BY <3>2, <4>1, UserIdles
    <3>6. inUse' \in SUBSET Resources
      BY <3>2, <3>3 DEF GateTypes
    <3> QED
      BY <1>1, <3>4, <3>5, <3>6 DEF GetFreeResource, GateTypes, enterVars
  <2>2. CASE Resources \ inUse = {}
    <3>1. inUse' = inUse /\ gateObjs' = [gateObjs EXCEPT ![thr[t].obj] = NoGateObj] /\ UserReturns(t)
      BY <1>1, <2>2 DEF GetFreeResource
    <3>2. gateObjs' \in [GateObjects -> GateObjStates]
      BY <3>1 DEF GateTypes
    <3> QED
      BY <1>1, <3>1, <3>2, UserIdles DEF GetFreeResource, GateTypes, enterVars
  <2> QED
    BY <2>1, <2>2
<1>2. CASE Store(t)
  <2>1. thr' \in [GateUsers -> UserStates]
    BY <1>2, UserIdles, UserGoes DEF Store, CreatePoints
  <2>2. gateTable' \in [Processes -> [Resources -> GateObjects \cup {NoRef}]]
    BY <1>2, UpdateTypes DEF Store
  <2>3. gateHandle' \in [GateUsers -> [Gates -> GateObjects \cup {NoRef}]]
    <3>1. gateHandle' = gateHandle \/ gateHandle' = [gateHandle EXCEPT ![t][thr[t].gate] = thr[t].obj]
      BY <1>2 DEF Store
    <3> QED
      BY <3>1, UpdateTypes DEF GateTypes
  <2> QED
    BY <1>2, <2>1, <2>2, <2>3 DEF Store, GateTypes, gateLadVars, enterVars
<1>3. CASE AddName(t)
  <2>1. gateNames' \in [Gates -> Resources \cup {NoRef}]
    BY <1>3 DEF AddName, GateTypes
  <2>2. gateObjs' \in [GateObjects -> GateObjStates]
    BY <1>3, UpdateTypes DEF AddName, GateTypes
  <2>3. gateHandle' \in [GateUsers -> [Gates -> GateObjects \cup {NoRef}]]
    <3>1. gateHandle' = gateHandle \/ gateHandle' = [gateHandle EXCEPT ![t][thr[t].gate] = thr[t].obj]
      BY <1>3 DEF AddName
    <3> QED
      BY <3>1, UpdateTypes DEF GateTypes
  <2> QED
    BY <1>3, <2>1, <2>2, <2>3, UserIdles DEF AddName, GateTypes, enterVars
<1> QED
  BY <1>1, <1>2, <1>3

\* So do those of delete, open and close.
LEMMA GateTypesSteps ==
  ASSUME GateTypes, CallsHold, NEW t \in GateUsers,
         \/ DeleteClears(t) \/ ReleaseResource(t) \/ CloseDeletes(t)
         \/ OpenLooks(t) \/ OpenCounts(t) \/ OpenCountsFreed(t)
  PROVE  GateTypes'
<1> USE GatesConstants, FieldTypes, NoGateObjType
<1>1. CASE DeleteClears(t)
  <2>1. gateTable' \in [Processes -> [Resources -> GateObjects \cup {NoRef}]]
    BY <1>1, UpdateTypes DEF DeleteClears
  <2>2. thr' \in [GateUsers -> UserStates]
    BY <1>1, UserGoes DEF DeleteClears, DeletePoints
  <2> QED
    BY <1>1, <2>1, <2>2 DEF DeleteClears, GateTypes, gateLadVars, enterVars
<1>2. CASE ReleaseResource(t)
  <2>1. gateObjs' \in [GateObjects -> GateObjStates]
    BY <1>2, UpdateTypes DEF ReleaseResource
  <2>2. gateHandle' \in [GateUsers -> [Gates -> GateObjects \cup {NoRef}]]
    BY <1>2, UpdateTypes DEF ReleaseResource
  <2>3. inUse' \in SUBSET Resources
    BY <1>2 DEF ReleaseResource, GateTypes
  <2> QED
    BY <1>2, <2>1, <2>2, <2>3, UserIdles DEF ReleaseResource, GateTypes, enterVars
<1>3. CASE CloseDeletes(t)
  <2>1. gateTable' \in [Processes -> [Resources -> GateObjects \cup {NoRef}]]
    BY <1>3, UpdateTypes DEF CloseDeletes
  <2>2. gateObjs' \in [GateObjects -> GateObjStates]
    BY <1>3, UpdateTypes DEF CloseDeletes
  <2>3. mutex' \in [Processes -> GateUsers \cup {NoOne}]
    BY <1>3 DEF CloseDeletes, GateTypes
  <2> QED
    BY <1>3, <2>1, <2>2, <2>3, UserIdles DEF CloseDeletes, GateTypes, gateLadVars, enterVars
<1>4. CASE OpenLooks(t)
  <2>1. thr[t].res \in Resources
    BY <1>4 DEF OpenLooks, UserAt, CallsHold, CallHeld, Named, OpenPoints
  <2>2. CASE gateTable[Mine(t)][thr[t].res] # NoRef
    <3> DEFINE o == gateTable[Mine(t)][thr[t].res]
               w == [thr[t] EXCEPT !.pc = "count", !.obj = o]
    <3>1. thr' = [thr EXCEPT ![t].pc = "count", ![t].obj = o] /\ gateObjs' = gateObjs
      BY <1>4, <2>2 DEF OpenLooks
    <3>2. thr' = [thr EXCEPT ![t] = w]
      BY <3>1
    <3>3. thr[t] \in UserStates /\ thr \in [GateUsers -> UserStates]
      BY DEF GateTypes
    <3>6. gateTable \in [Processes -> [Resources -> GateObjects \cup {NoRef}]]
      BY DEF GateTypes
    <3>7. o \in GateObjects \cup {NoRef}
      <4>1. Mine(t) \in Processes
        OBVIOUS
      <4>2. gateTable[Mine(t)] \in [Resources -> GateObjects \cup {NoRef}]
        BY <3>6, <4>1, Zenon
      <4> QED
        BY <2>1, <4>2, Zenon
    <3>4. w \in UserStates
      BY <3>3, <3>7 DEF UserStates, OpenPoints
    <3>5. thr' \in [GateUsers -> UserStates]
      BY <3>2, <3>3, <3>4
    <3> QED
      BY <1>4, <3>1, <3>5 DEF OpenLooks, GateTypes, gateLadVars, enterVars
  <2>3. CASE gateTable[Mine(t)][thr[t].res] = NoRef
    <3> DEFINE o == Min(FreeObjects)
               f == [NoGateObj EXCEPT !.res = thr[t].res, !.opened = TRUE, !.opens = 1]
               w == [thr[t] EXCEPT !.pc = "store", !.obj = o]
    <3>1. thr' = [thr EXCEPT ![t].pc = "store", ![t].obj = o] /\ FreeObjects # {} /\ Calloc(t, f)
      BY <1>4, <2>3 DEF OpenLooks
    <3>2. thr' = [thr EXCEPT ![t] = w]
      BY <3>1
    <3>3. o \in GateObjects /\ thr[t] \in UserStates /\ thr \in [GateUsers -> UserStates]
      BY <3>1, FreshObject DEF GateTypes
    <3>4. w \in UserStates
      BY <3>3 DEF UserStates, CreatePoints
    <3>5. thr' \in [GateUsers -> UserStates]
      BY <3>2, <3>3, <3>4
    <3>6. f \in GateObjStates
      BY DEF GateObjStates, NoGateObj
    <3>7. gateObjs' \in [GateObjects -> GateObjStates]
      BY <3>1, <3>6, CallocTypes
    <3> QED
      BY <1>4, <3>5, <3>7 DEF OpenLooks, GateTypes, gateLadVars, enterVars
  <2> QED
    BY <2>2, <2>3
<1>5. CASE OpenCounts(t)
  <2>1. thr[t].obj \in GateObjects
    BY <1>5 DEF OpenCounts, UserAt, CallsHold, CallHeld, InCall, EnterPoints
  <2>2. gateObjs' \in [GateObjects -> GateObjStates]
    <3>0. gateObjs[thr[t].obj].opens \in Nat
      BY <2>1, Zenon
    <3>1. gateObjs[thr[t].obj].opens + 1 \in Nat
      BY <3>0
    <3>2. gateObjs' = [gateObjs EXCEPT ![thr[t].obj].opens = gateObjs[thr[t].obj].opens + 1]
      BY <1>5 DEF OpenCounts
    <3> QED
      BY <3>1, <3>2, UpdateTypes
  <2>3. gateHandle' \in [GateUsers -> [Gates -> GateObjects \cup {NoRef}]]
    BY <1>5, UpdateTypes DEF OpenCounts
  <2> QED
    BY <1>5, <2>2, <2>3, UserIdles DEF OpenCounts, GateTypes, gateLadVars, enterVars
<1>6. CASE OpenCountsFreed(t)
  BY <1>6 DEF OpenCountsFreed, GateTypes, gateLadVars, processVars, enterVars
<1> QED
  BY <1>1, <1>2, <1>3, <1>4, <1>5, <1>6

\* The local gate is typed when a thread enters or leaves it, and belongs to it.
LEMMA LocalIs ==
  ASSUME GateTypes, NEW t \in GateUsers
  PROVE  /\ localGate' = EntersLocal(t) =>
              /\ localGate'[Mine(t)].owner = t /\ localGate'[Mine(t)].depth = localGate[Mine(t)].depth + 1
         /\ localGate' = LeavesLocal(t) =>
              /\ localGate'[Mine(t)].owner = IF localGate[Mine(t)].depth = 1 THEN NoOne ELSE t
              /\ localGate'[Mine(t)].depth = localGate[Mine(t)].depth - 1
         /\ localGate' = EntersLocal(t) \/ localGate' = LeavesLocal(t) =>
              /\ localGate' \in [Processes -> [owner : GateUsers \cup {NoOne}, depth : Int]]
              /\ \A p \in Processes \ {Mine(t)} : localGate'[p] = localGate[p]
<1>1. /\ localGate \in [Processes -> [owner : GateUsers \cup {NoOne}, depth : Int]]
      /\ Mine(t) \in Processes /\ localGate[Mine(t)].depth \in Int
  BY GatesConstants, FieldTypes DEF GateTypes
<1> DEFINE p == Mine(t)
           d == localGate[p].depth
<1>2. CASE localGate' = EntersLocal(t)
  <2>1. localGate' = [localGate EXCEPT ![p] = [owner |-> t, depth |-> d + 1]]
    BY <1>2 DEF EntersLocal
  <2>2. [owner |-> t, depth |-> d + 1] \in [owner : GateUsers \cup {NoOne}, depth : Int]
    BY <1>1
  <2> HIDE DEF p, d
  <2>3. /\ localGate' \in [Processes -> [owner : GateUsers \cup {NoOne}, depth : Int]]
        /\ localGate'[p] = [owner |-> t, depth |-> d + 1]
        /\ \A q \in Processes \ {p} : localGate'[q] = localGate[q]
    BY <1>1, <2>1, <2>2 DEF p
  <2>4. localGate'[p].owner = t /\ localGate'[p].depth = d + 1
    BY <2>3
  <2>5. localGate' = LeavesLocal(t) => FALSE
    <3> SUFFICES ASSUME localGate' = LeavesLocal(t) PROVE FALSE
      OBVIOUS
    <3>1. localGate'[p].depth = d - 1
      BY <1>1 DEF LeavesLocal, p, d
    <3> QED
      BY <1>1, <2>4, <3>1 DEF d, p
  <2> QED
    BY <2>3, <2>4, <2>5 DEF p, d
<1>3. CASE localGate' = LeavesLocal(t)
  <2> DEFINE w == IF d = 1 THEN NoOne ELSE t
  <2>1. localGate' = [localGate EXCEPT ![p] = [owner |-> w, depth |-> d - 1]]
    BY <1>3 DEF LeavesLocal
  <2>2. w \in GateUsers \cup {NoOne} /\ d - 1 \in Int
    BY <1>1
  <2> HIDE DEF w
  <2>3. [owner |-> w, depth |-> d - 1] \in [owner : GateUsers \cup {NoOne}, depth : Int]
    BY <2>2
  <2> HIDE DEF p, d
  <2>4. /\ localGate' \in [Processes -> [owner : GateUsers \cup {NoOne}, depth : Int]]
        /\ localGate'[p] = [owner |-> w, depth |-> d - 1]
        /\ \A q \in Processes \ {p} : localGate'[q] = localGate[q]
    BY <1>1, <2>1, <2>3 DEF p
  <2>5. localGate'[p].owner = w /\ localGate'[p].depth = d - 1
    BY <2>4
  <2>6. localGate' = EntersLocal(t) => FALSE
    <3> SUFFICES ASSUME localGate' = EntersLocal(t) PROVE FALSE
      OBVIOUS
    <3>1. localGate'[p].depth = d + 1
      BY <1>1 DEF EntersLocal, p, d
    <3> QED
      BY <1>1, <2>5, <3>1 DEF d, p
  <2> QED
    BY <2>4, <2>5, <2>6 DEF w, p, d
<1> QED
  BY <1>2, <1>3

\* The steps of entering and leaving keep the types.
LEMMA GateTypesEnter ==
  ASSUME GateTypes, EntersHeld, NEW t \in GateUsers,
         (\E g \in Gates : EnterGate(t, g)) \/ Locks(t) \/ BacksOff(t) \/ Again(t) \/ LeaveGate(t)
  PROVE  GateTypes'
<1> USE GatesConstants, FieldTypes
<1>1. ASSUME NEW g \in Gates, EnterGate(t, g) PROVE GateTypes'
  <2> DEFINE o == gateHandle[t][g]
             w == [pc |-> "spin", gate |-> g, obj |-> o, res |-> gateObjs[o].res]
  <2>1. o \in GateObjects
    BY <1>1 DEF EnterGate
  <2>2. gateObjs' \in [GateObjects -> GateObjStates]
    <3>1. gateObjs' = [gateObjs EXCEPT ![o].nested = gateObjs[o].nested + 1]
      BY <1>1 DEF EnterGate
    <3>2. gateObjs[o].nested + 1 \in Int
      <4>1. \A x \in GateObjects : gateObjs[x].nested \in Int
        OBVIOUS
      <4> HIDE GatesConstants, FieldTypes DEF o
      <4> QED
        BY <2>1, <4>1
    <3> QED
      BY <2>1, <3>1, <3>2, UpdateTypes
  <2>3. thr' \in [GateUsers -> UserStates]
    <3>1. thr' = [thr EXCEPT ![t] = w] \/ thr' = thr
      BY <1>1 DEF EnterGate
    <3>2. w \in UserStates
      BY <2>1, UserStateIs DEF EnterPoints
    <3> QED
      BY <3>1, <3>2, ThreadUpdate
  <2>4. entered' \in [GateUsers -> Seq(GateObjects)]
    <3>1. entered' = [entered EXCEPT ![t] = Append(entered[t], o)] \/ entered' = entered
      BY <1>1 DEF EnterGate
    <3>2. Append(entered[t], o) \in Seq(GateObjects)
      BY <2>1, AppendProperties
    <3> QED
      BY <3>1, <3>2, EnteredUpdate
  <2>5. localGate' \in [Processes -> [owner : GateUsers \cup {NoOne}, depth : Int]]
    BY <1>1, LocalIs DEF EnterGate
  <2> QED
    BY <1>1, <2>2, <2>3, <2>4, <2>5 DEF EnterGate, GateTypes, gateLadVars
<1>2. CASE Locks(t)
  <2>1. thr[t].obj \in GateObjects
    BY <1>2 DEF Locks, UserAt, EntersHeld, EnterHeld
  <2>2. entered' \in [GateUsers -> Seq(GateObjects)]
    <3>1. entered' = [entered EXCEPT ![t] = Append(entered[t], thr[t].obj)]
      BY <1>2 DEF Locks
    <3>2. Append(entered[t], thr[t].obj) \in Seq(GateObjects)
      BY <2>1, AppendProperties
    <3> QED
      BY <3>1, <3>2 DEF GateTypes
  <2>3. lock' \in [Resources -> Processes \cup {NoOne, RemoteHolder}]
    BY <1>2 DEF Locks, GateTypes
  <2> QED
    BY <1>2, <2>2, <2>3, UserIdles DEF Locks, GateTypes, gateLadVars, processVars
<1>3. CASE BacksOff(t)
  <2>1. thr[t].obj \in GateObjects
    BY <1>3 DEF BacksOff, UserAt, EntersHeld, EnterHeld
  <2>2. gateObjs' \in [GateObjects -> GateObjStates]
    <3>1. /\ gateObjs' = [gateObjs EXCEPT ![thr[t].obj].nested = gateObjs[thr[t].obj].nested - 1]
          /\ gateObjs[thr[t].obj].nested - 1 \in Int
      BY <1>3, <2>1 DEF BacksOff, Unnested
    <3> QED
      BY <3>1, UpdateTypes
  <2>3. thr' \in [GateUsers -> UserStates]
    BY <1>3, UserGoes DEF BacksOff, EnterPoints
  <2>4. localGate' \in [Processes -> [owner : GateUsers \cup {NoOne}, depth : Int]]
    BY <1>3, LocalIs DEF BacksOff
  <2> QED
    BY <1>3, <2>2, <2>3, <2>4 DEF BacksOff, GateTypes, gateLadVars
<1>4. CASE Again(t)
  <2>1. thr[t].obj \in GateObjects
    BY <1>4 DEF Again, UserAt, EntersHeld, EnterHeld
  <2>2. gateObjs' \in [GateObjects -> GateObjStates]
    <3>1. /\ gateObjs' = [gateObjs EXCEPT ![thr[t].obj].nested = gateObjs[thr[t].obj].nested + 1]
          /\ gateObjs[thr[t].obj].nested + 1 \in Int
      BY <1>4, <2>1 DEF Again
    <3> QED
      BY <3>1, UpdateTypes
  <2>3. thr' \in [GateUsers -> UserStates]
    BY <1>4, UserGoes DEF Again, EnterPoints
  <2>4. localGate' \in [Processes -> [owner : GateUsers \cup {NoOne}, depth : Int]]
    BY <1>4, LocalIs DEF Again
  <2> QED
    BY <1>4, <2>2, <2>3, <2>4 DEF Again, GateTypes, gateLadVars
<1>5. CASE LeaveGate(t)
  <2> DEFINE o == Last(entered[t])
  <2>1. o \in GateObjects /\ Front(entered[t]) \in Seq(GateObjects)
    BY <1>5, FrontLast DEF LeaveGate
  <2>2. gateObjs' \in [GateObjects -> GateObjStates]
    <3>1. gateObjs' = [gateObjs EXCEPT ![o].nested = gateObjs[o].nested - 1] /\ gateObjs[o].nested - 1 \in Int
      BY <1>5, <2>1 DEF LeaveGate
    <3> QED
      BY <2>1, <3>1, UpdateTypes
  <2>3. entered' \in [GateUsers -> Seq(GateObjects)]
    BY <1>5, <2>1 DEF LeaveGate, GateTypes
  <2>4. lock' \in [Resources -> Processes \cup {NoOne, RemoteHolder}]
    <3>1. lock' = lock \/ lock' = [lock EXCEPT ![gateObjs[o].res] = NoOne]
      BY <1>5 DEF LeaveGate
    <3> QED
      BY <3>1 DEF GateTypes
  <2>5. localGate' \in [Processes -> [owner : GateUsers \cup {NoOne}, depth : Int]]
    BY <1>5, LocalIs DEF LeaveGate
  <2> QED
    BY <1>5, <2>2, <2>3, <2>4, <2>5 DEF LeaveGate, GateTypes, gateLadVars
<1> QED
  BY <1>1, <1>2, <1>3, <1>4, <1>5

\* So do a death and a remote processor.
LEMMA GateTypesOther ==
  ASSUME GateTypes, (\E p \in Processes : Die(p)) \/ (\E r \in Resources : RemoteEnters(r))
  PROVE  GateTypes'
<1> USE GatesConstants
<1>1. ASSUME NEW p \in Processes, Die(p) PROVE GateTypes'
  <2>1. gateObjs' \in [GateObjects -> GateObjStates]
    BY <1>1, NoGateObjType DEF Die, GateTypes
  <2>2. lock' \in [Resources -> Processes \cup {NoOne, RemoteHolder}]
    BY <1>1 DEF Die, GateTypes
  <2>3. thr' \in [GateUsers -> UserStates]
    <3>1. IdleUser \in UserStates
      BY DEF IdleUser, UserStates, EnterPoints
    <3> QED
      BY <1>1, <3>1 DEF Die, GateTypes
  <2>4. gateHandle' \in [GateUsers -> [Gates -> GateObjects \cup {NoRef}]]
    BY <1>1 DEF Die, GateTypes, NoneOpen
  <2>5. entered' \in [GateUsers -> Seq(GateObjects)]
    <3>1. <<>> \in Seq(GateObjects)
      BY EmptySeq
    <3> QED
      BY <1>1, <3>1 DEF Die, GateTypes
  <2>6. localGate' \in [Processes -> [owner : GateUsers \cup {NoOne}, depth : Int]]
    BY <1>1 DEF Die, GateTypes
  <2>7. mutex' \in [Processes -> GateUsers \cup {NoOne}] /\ gateAlive' \in SUBSET Processes
    BY <1>1 DEF Die, GateTypes
  <2> QED
    BY <1>1, <2>1, <2>2, <2>3, <2>4, <2>5, <2>6, <2>7 DEF Die, GateTypes, gateLadVars
<1>2. ASSUME NEW r \in Resources, RemoteEnters(r) PROVE GateTypes'
  <2>1. lock' = [lock EXCEPT ![r] = RemoteHolder] \/ lock' = [lock EXCEPT ![r] = NoOne]
    BY <1>2 DEF RemoteEnters
  <2>2. lock' \in [Resources -> Processes \cup {NoOne, RemoteHolder}]
    BY <2>1 DEF GateTypes
  <2> QED
    BY <1>2, <2>2 DEF RemoteEnters, GateTypes, gateLadVars, processVars
<1> QED
  BY <1>1, <1>2

\* The object keeps what the registry knows of it.
SameObj(o) ==
  /\ gateObjs'[o].live = gateObjs[o].live /\ gateObjs'[o].process = gateObjs[o].process
  /\ gateObjs'[o].res = gateObjs[o].res /\ gateObjs'[o].opened = gateObjs[o].opened
\* The calls whose object is in their thread's hands.
Holding == {"getFree", "store", "name", "clear", "release", "close"}

\* A thread's call holds on when its object and its gate are as they were.
LEMMA CallFrame ==
  ASSUME NEW u \in GateUsers, CallHeld(u), thr'[u] = thr[u], gateHandle'[u] = gateHandle[u],
         thr[u].pc \in Holding => SameObj(thr[u].obj),
         thr[u].pc = "count" /\ gateObjs'[thr[u].obj].live => SameObj(thr[u].obj),
         Sole(u) => thr[u].res \in inUse' /\ \A g \in Gates : gateNames'[g] # thr[u].res,
         thr[u].pc = "release" => gateTable'[Mine(u)][thr[u].res] = NoRef,
         Named(u) => gateNames'[thr[u].gate] = thr[u].res,
         thr[u].pc = "close" => mutex'[Mine(u)] = u /\ gateObjs'[thr[u].obj].opens = 0
  PROVE  CallHeld(u)' /\ (Sole(u)' <=> Sole(u))
<1> USE DEF Holding, SameObj
<1>1. /\ Sole(u)' <=> Sole(u)
      /\ Named(u)' <=> Named(u)
      /\ InCall(u)' <=> InCall(u)
  BY DEF Sole, Named, InCall, OpenPoints
<1>2. thr[u].pc \in Holding => (OwnsObj(u)' <=> OwnsObj(u))
  BY DEF OwnsObj
<1>3. thr[u].pc = "count" /\ gateObjs'[thr[u].obj].live => (OwnsObj(u)' <=> OwnsObj(u)) /\ gateObjs[thr[u].obj].live
  BY DEF OwnsObj
<1>4. Sole(u) => thr[u].pc \in Holding
  BY DEF Sole
<1>5. (InCall(u) => thr[u].gate \in Gates /\ (thr[u].pc # "look" => thr[u].obj \in GateObjects))'
  BY <1>1 DEF CallHeld
<1>6. (thr[u].pc \in CreatePoints \cup {"look", "count"} => gateHandle[u][thr[u].gate] = NoRef)'
  BY DEF CallHeld
<1>7. (thr[u].pc = "getFree" => OwnsObj(u) /\ thr[u].res = NoRef /\ ~gateObjs[thr[u].obj].opened)'
  BY <1>2 DEF CallHeld
<1>8. (thr[u].pc = "store" => OwnsObj(u))'
  BY <1>2 DEF CallHeld
<1>9. (Sole(u) =>
         /\ OwnsObj(u) /\ thr[u].res \in inUse /\ ~gateObjs[thr[u].obj].opened
         /\ \A g \in Gates : gateNames[g] # thr[u].res)'
  BY <1>1, <1>2, <1>4 DEF CallHeld
<1>10. (thr[u].pc \in DeletePoints => gateHandle[u][thr[u].gate] = thr[u].obj)'
  BY DEF CallHeld
<1>11. (thr[u].pc = "release" => gateTable[Mine(u)][thr[u].res] = NoRef)'
  BY DEF CallHeld, Mine
<1>12. (Named(u) => gateNames[thr[u].gate] = thr[u].res /\ thr[u].res # NoRef)'
  BY <1>1 DEF CallHeld
<1>13. (thr[u].pc = "count" => (gateObjs[thr[u].obj].live => OwnsObj(u)))'
  BY <1>3 DEF CallHeld
<1>14. (thr[u].pc = "close" =>
          /\ mutex[Mine(u)] = u /\ OwnsObj(u)
          /\ gateObjs[thr[u].obj].opened /\ gateObjs[thr[u].obj].opens = 0)'
  BY <1>2 DEF CallHeld, Mine
<1>15. CallHeld(u)'
  BY <1>5, <1>6, <1>7, <1>8, <1>9, <1>10, <1>11, <1>12, <1>13, <1>14 DEF CallHeld
<1> QED
  BY <1>1, <1>15

\* A thread's call has returned.
LEMMA CallIdle ==
  ASSUME NEW t \in GateUsers, thr'[t].pc = "idle"
  PROVE  CallHeld(t)' /\ ~Sole(t)' /\ thr'[t].pc # "getFree"
BY DEF CallHeld, Sole, Named, InCall, EnterPoints, CreatePoints, DeletePoints, OpenPoints

\* A handle holds on.
LEMMA HandleFrame ==
  ASSUME NEW u \in GateUsers, NEW g \in Gates, HandleHeld(u, g), gateHandle'[u][g] = gateHandle[u][g],
         gateHandle[u][g] # NoRef =>
           /\ SameObj(gateHandle[u][g]) /\ gateNames'[g] = gateNames[g]
           /\ thr'[u] = thr[u] \/ thr[u].pc \notin DeletePoints
  PROVE  HandleHeld(u, g)'
BY DEF HandleHeld, SameObj, Mine

\* One object's count of openers.
OpenHeld(o) ==
  gateObjs[o].live /\ gateObjs[o].opened =>
    /\ gateObjs[o].res # NoRef /\ IsFiniteSet(UsersOf(o))
    /\ gateObjs[o].opens = Cardinality(UsersOf(o))

\* The openers are counted object by object.
LEMMA OpensAre == OpensCounted <=> \A o \in GateObjects : OpenHeld(o)
BY DEF OpensCounted, OpenHeld

\* And after a step.
LEMMA OpensArePrime == OpensCounted' <=> \A o \in GateObjects : OpenHeld(o)'
BY DEF OpensCounted, OpenHeld

\* The count holds on when the users stay.
LEMMA OpenFrame ==
  ASSUME NEW o \in GateObjects, OpenHeld(o), SameObj(o), gateObjs'[o].opens = gateObjs[o].opens,
         \A u \in GateUsers, g \in Gates : Uses(u, g, o)' <=> Uses(u, g, o)
  PROVE  OpenHeld(o)'
<1>1. UsersOf(o)' = UsersOf(o)
  BY DEF UsersOf
<1> QED
  BY <1>1 DEF OpenHeld, SameObj

\* And with one more user, or one less.
LEMMA OpenMore ==
  ASSUME NEW o \in GateObjects, OpenHeld(o), SameObj(o), gateObjs[o].live,
         gateObjs'[o].opens = gateObjs[o].opens + 1,
         NEW t \in GateUsers, NEW h \in Gates, ~Uses(t, h, o),
         \A u \in GateUsers, g \in Gates : Uses(u, g, o)' <=> Uses(u, g, o) \/ (u = t /\ g = h)
  PROVE  OpenHeld(o)'
<1>1. UsersOf(o)' = UsersOf(o) \cup {<<t, h>>} /\ <<t, h>> \notin UsersOf(o)
  BY DEF UsersOf
<1>2. CASE gateObjs[o].opened
  BY ZenonT(60), <1>1, <1>2, FS_AddElement DEF OpenHeld, SameObj
<1>3. CASE ~gateObjs[o].opened
  BY <1>3 DEF OpenHeld, SameObj
<1> QED
  BY <1>2, <1>3

\* Its counter goes down with its users.
LEMMA OpenLess ==
  ASSUME NEW o \in GateObjects, OpenHeld(o), SameObj(o), gateObjs[o].live,
         gateObjs'[o].opens = gateObjs[o].opens - 1,
         NEW t \in GateUsers, NEW h \in Gates, Uses(t, h, o),
         \A u \in GateUsers, g \in Gates : Uses(u, g, o)' <=> Uses(u, g, o) /\ ~(u = t /\ g = h)
  PROVE  OpenHeld(o)'
<1>1. UsersOf(o)' = UsersOf(o) \ {<<t, h>>} /\ <<t, h>> \in UsersOf(o)
  BY DEF UsersOf
<1>2. CASE gateObjs[o].opened
  BY <1>1, <1>2, FS_RemoveElement DEF OpenHeld, SameObj
<1>3. CASE ~gateObjs[o].opened
  BY <1>3 DEF OpenHeld, SameObj
<1> QED
  BY <1>2, <1>3

\* A table's entry holds on.
LEMMA EntryFrame ==
  ASSUME NEW p, NEW r, EntryHeld(p, r), gateTable'[p][r] = gateTable[p][r],
         Known(r)' => Known(r),
         Known(r)' /\ gateTable[p][r] # NoRef => SameObj(gateTable[p][r])
  PROVE  EntryHeld(p, r)'
BY DEF EntryHeld, SameObj

\* Nobody who was not alone with a resource becomes so: what is known was so.
LEMMA KnownFrame ==
  ASSUME NEW r, r \notin inUse' => r \notin inUse,
         \A g \in Gates : gateNames'[g] = r => gateNames[g] = r \/ Known(r),
         \A u \in GateUsers : Sole(u)' /\ thr'[u].res = r => (Sole(u) /\ thr[u].res = r) \/ Known(r)
  PROVE  Known(r)' => Known(r)
BY DEF Known

\* Created gates stay when no object becomes one.
LEMMA CreatedFrame ==
  ASSUME CreatedHeld, CreatedGates' \subseteq CreatedGates,
         \A o \in CreatedGates' : gateObjs'[o].res = gateObjs[o].res /\ gateObjs[o].res \in inUse'
  PROVE  CreatedHeld'
BY DEF CreatedHeld

\* Two threads are not alone with one resource when nobody becomes so.
LEMMA ApartFrame ==
  ASSUME CallsApart,
         \A u \in GateUsers : Sole(u)' => Sole(u) /\ thr'[u].res = thr[u].res,
         \A u \in GateUsers : thr'[u].pc = "getFree" => thr[u].pc = "getFree" /\ thr'[u].obj = thr[u].obj
  PROVE  CallsApart'
BY DEF CallsApart

\* The parts of the registry for each thread, gate, object and entry.
LEMMA RegistryParts ==
  ASSUME Registry
  PROVE  /\ \A u \in GateUsers : CallHeld(u)
         /\ \A u \in GateUsers, g \in Gates : HandleHeld(u, g)
         /\ \A o \in GateObjects : OpenHeld(o)
         /\ \A p \in gateAlive, r \in Resources : EntryHeld(p, r)
         /\ NamesApart /\ CallsApart /\ CreatedHeld
BY OpensAre DEF Registry, CallsHold, HandlesHeld, TablesHold

\* The parts of Registry, for a step that keeps each.
LEMMA RegistryIs ==
  ASSUME \A u \in GateUsers : CallHeld(u)',
         \A u \in GateUsers, g \in Gates : HandleHeld(u, g)',
         \A o \in GateObjects : OpenHeld(o)',
         \A p \in gateAlive', r \in Resources : EntryHeld(p, r)',
         NamesApart', CallsApart', CreatedHeld'
  PROVE  Registry'
BY OpensArePrime DEF Registry, CallsHold, HandlesHeld, TablesHold

\* Whoever is alone with a resource is alone with its object.
LEMMA SoleObject ==
  ASSUME GateTypes, Registry, NEW t \in GateUsers, Sole(t)
  PROVE  /\ thr[t].obj \in GateObjects /\ thr[t].res \in Resources /\ thr[t].res \in inUse
         /\ gateObjs[thr[t].obj].live /\ gateObjs[thr[t].obj].res = thr[t].res
         /\ gateObjs[thr[t].obj].process = Mine(t) /\ ~gateObjs[thr[t].obj].opened
         /\ \A g \in Gates : gateNames[g] # thr[t].res
         /\ \A u \in GateUsers \ {t} :
              /\ Sole(u) => thr[u].res # thr[t].res
              /\ thr[u].pc \in Holding \cup {"count"} => thr[u].obj # thr[t].obj
         /\ \A u \in GateUsers, g \in Gates :
              gateHandle[u][g] = thr[t].obj => u = t /\ g = thr[t].gate /\ thr[t].pc \in DeletePoints
<1> USE GatesConstants, FieldTypes, RegistryParts
<1>1. InCall(t) /\ thr[t].pc # "look" /\ OwnsObj(t)
  BY DEF CallHeld, Sole, InCall, EnterPoints
<1>2. thr[t].res \in inUse /\ ~gateObjs[thr[t].obj].opened /\ \A g \in Gates : gateNames[g] # thr[t].res
  BY DEF CallHeld
<1>3. thr[t].obj \in GateObjects
  BY <1>1 DEF CallHeld
<1>4. thr[t].res \in Resources
  BY <1>2 DEF GateTypes
<1>5. \A u \in GateUsers \ {t} : Sole(u) => thr[u].res # thr[t].res
  BY DEF CallsApart
<1>6. ASSUME NEW u \in GateUsers \ {t}, thr[u].pc \in Holding \cup {"count"}, thr[u].obj = thr[t].obj
      PROVE  FALSE
  <2>1. gateObjs[thr[u].obj].live /\ gateObjs[thr[u].obj].res = thr[t].res
    BY <1>1, <1>6 DEF OwnsObj
  <2>2. OwnsObj(u)
    BY <1>6, <2>1 DEF CallHeld, Holding, Sole
  <2>3. thr[u].res = thr[t].res
    BY <2>1, <2>2 DEF OwnsObj
  <2>4. ~Sole(u)
    BY <1>5, <2>3
  <2>5. ~Named(u)
    <3> SUFFICES ASSUME Named(u) PROVE FALSE
      OBVIOUS
    <3>1. gateNames[thr[u].gate] = thr[u].res /\ InCall(u)
      BY DEF CallHeld, Named, InCall, EnterPoints, OpenPoints
    <3>2. thr[u].gate \in Gates
      BY <3>1 DEF CallHeld
    <3> QED
      BY <1>2, <2>3, <3>1, <3>2
  <2>6. thr[u].pc = "getFree"
    BY <1>6, <2>4, <2>5 DEF Sole, Named, Holding, OpenPoints
  <2>7. thr[u].res = NoRef
    BY <2>6 DEF CallHeld
  <2> QED
    BY <1>4, <2>3, <2>7
<1>7. ASSUME NEW u \in GateUsers, NEW g \in Gates, gateHandle[u][g] = thr[t].obj
      PROVE  u = t /\ g = thr[t].gate /\ thr[t].pc \in DeletePoints
  <2>1. gateHandle[u][g] # NoRef /\ gateObjs[gateHandle[u][g]].res = thr[t].res
    BY <1>1, <1>3, <1>7 DEF OwnsObj
  <2>2. gateNames[g] # gateObjs[gateHandle[u][g]].res
    BY <1>2, <2>1
  <2>3. thr[u].pc \in DeletePoints /\ thr[u].gate = g /\ thr[u].obj = gateHandle[u][g]
    BY <2>1, <2>2 DEF HandleHeld
  <2>4. thr[u].pc \in Holding
    BY <2>3 DEF DeletePoints, Holding
  <2>5. u = t
    BY <1>6, <1>7, <2>3, <2>4
  <2> QED
    BY <2>3, <2>5
<1>8. \A u \in GateUsers \ {t} : thr[u].pc \in Holding \cup {"count"} => thr[u].obj # thr[t].obj
  BY <1>6
<1> QED
  BY <1>1, <1>2, <1>3, <1>4, <1>5, <1>7, <1>8 DEF OwnsObj

\* So is whoever waits for a resource.
LEMMA GetFreeObject ==
  ASSUME GateTypes, Registry, NEW t \in GateUsers, thr[t].pc = "getFree"
  PROVE  /\ thr[t].obj \in GateObjects /\ gateObjs[thr[t].obj].live /\ gateObjs[thr[t].obj].res = NoRef
         /\ gateObjs[thr[t].obj].process = Mine(t) /\ ~gateObjs[thr[t].obj].opened
         /\ \A u \in GateUsers \ {t} : thr[u].pc \in Holding \cup {"count"} => thr[u].obj # thr[t].obj
         /\ \A u \in GateUsers, g \in Gates : gateHandle[u][g] # thr[t].obj
<1> USE GatesConstants, FieldTypes, RegistryParts
<1>1. OwnsObj(t) /\ thr[t].res = NoRef /\ ~gateObjs[thr[t].obj].opened /\ thr[t].obj \in GateObjects
  BY DEF CallHeld, InCall, EnterPoints
<1>2. ASSUME NEW u \in GateUsers \ {t}, thr[u].pc \in Holding \cup {"count"}, thr[u].obj = thr[t].obj
      PROVE  FALSE
  <2>1. gateObjs[thr[u].obj].live /\ gateObjs[thr[u].obj].res = NoRef
    BY <1>1, <1>2 DEF OwnsObj
  <2>2. OwnsObj(u)
    BY <1>2, <2>1 DEF CallHeld, Holding, Sole
  <2>3. thr[u].res = NoRef
    BY <2>1, <2>2 DEF OwnsObj
  <2>4. ~Sole(u)
    BY <2>3 DEF CallHeld, GateTypes
  <2>5. ~Named(u)
    BY <2>3 DEF CallHeld
  <2>6. thr[u].pc = "getFree"
    BY <1>2, <2>4, <2>5 DEF Sole, Named, Holding, OpenPoints
  <2> QED
    BY <1>2, <2>6 DEF CallsApart
<1>3. ASSUME NEW u \in GateUsers, NEW g \in Gates, gateHandle[u][g] = thr[t].obj
      PROVE  FALSE
  BY <1>1, <1>3 DEF HandleHeld, OwnsObj
<1> QED
  BY <1>1, <1>2, <1>3 DEF OwnsObj

\* A fresh object is nobody's.
LEMMA FreshIs ==
  ASSUME GateTypes, NEW o \in FreeObjects
  PROVE  /\ o \in GateObjects /\ ~gateObjs[o].live
         /\ \A u \in GateUsers : thr[u].obj # o /\ \A g \in Gates : gateHandle[u][g] # o
BY DEF FreeObjects

\* What is given out, and that the others keep what they have.
LEMMA CallocIs ==
  ASSUME GateTypes, FreeObjects # {}, NEW t \in GateUsers, NEW f \in GateObjStates, Calloc(t, f)
  PROVE  LET o == Min(FreeObjects)
         IN /\ o \in GateObjects /\ ~gateObjs[o].live /\ gateObjs'[o].live /\ gateObjs'[o].process = Mine(t)
            /\ gateObjs'[o].res = f.res /\ gateObjs'[o].opened = f.opened
            /\ gateObjs'[o].opens = f.opens /\ gateObjs'[o].nested = f.nested
            /\ \A u \in GateUsers : thr[u].obj # o /\ \A g \in Gates : gateHandle[u][g] # o
            /\ \A u \in GateObjects \ {o} : gateObjs'[u] = gateObjs[u]
<1> DEFINE o == Min(FreeObjects)
           w == [f EXCEPT !.live = TRUE, !.process = Mine(t)]
<1>1. o \in GateObjects /\ o \in FreeObjects
  BY FreshObject
<1>2. gateObjs' = [gateObjs EXCEPT ![o] = w] /\ gateObjs \in [GateObjects -> GateObjStates]
  BY DEF Calloc, GateTypes
<1> HIDE DEF o, w
<1>3. gateObjs'[o] = w /\ \A u \in GateObjects \ {o} : gateObjs'[u] = gateObjs[u]
  BY <1>1, <1>2
<1>4. /\ w.live /\ w.process = Mine(t) /\ w.res = f.res /\ w.opened = f.opened
      /\ w.opens = f.opens /\ w.nested = f.nested
  BY DEF w, GateObjStates
<1> QED
  BY <1>1, <1>3, <1>4, FreshIs DEF o

\* GateMP_create begins with an object of its own.
LEMMA CreateCallKeeps ==
  ASSUME GateTypes, Registry, NEW t \in GateUsers, NEW g \in Gates, CreateCall(t, g)
  PROVE  Registry'
<1> USE GatesConstants, FieldTypes, RegistryParts
<1> DEFINE o == Min(FreeObjects)
<1>1. /\ o \in GateObjects /\ ~gateObjs[o].live /\ gateObjs'[o].live /\ gateObjs'[o].process = Mine(t)
      /\ gateObjs'[o].res = NoRef /\ ~gateObjs'[o].opened
      /\ \A u \in GateUsers : thr[u].obj # o /\ \A h \in Gates : gateHandle[u][h] # o
      /\ \A u \in GateObjects \ {o} : gateObjs'[u] = gateObjs[u]
  BY CallocIs, NoGateObjType DEF CreateCall, NoGateObj
<1>2. /\ thr'[t].pc = "getFree" /\ thr'[t].gate = g /\ thr'[t].obj = o /\ thr'[t].res = NoRef
      /\ \A u \in GateUsers \ {t} : thr'[u] = thr[u]
  BY DEF CreateCall, GateTypes
<1>3. /\ thr[t].pc = "idle" /\ gateHandle[t][g] = NoRef
      /\ UNCHANGED <<inUse, gateNames, gateAlive, gateTable, mutex, gateHandle>>
  BY DEF CreateCall, MayCall, UserAt, gateLadVars
<1> HIDE DEF o
<1>4. \A u \in GateObjects \ {o} : SameObj(u) /\ gateObjs'[u].opens = gateObjs[u].opens
  BY <1>1 DEF SameObj
<1>5. ~Sole(t) /\ ~Sole(t)' /\ ~Named(t)'
  BY <1>1, <1>2, <1>3 DEF Sole, Named, OpenPoints
<1>6. ASSUME NEW u \in GateUsers PROVE CallHeld(u)' /\ (Sole(u)' => Sole(u) /\ thr'[u] = thr[u])
  <2>1. CASE u = t
    <3>1. (OwnsObj(t) /\ thr[t].res = NoRef /\ ~gateObjs[thr[t].obj].opened)'
      BY <1>1, <1>2 DEF OwnsObj, Mine
    <3>2. CallHeld(t)'
      BY <1>1, <1>2, <1>3, <1>5, <3>1 DEF CallHeld, DeletePoints
    <3> QED
      BY <1>5, <2>1, <3>2
  <2>2. CASE u # t
    <3>1. CallHeld(u) /\ thr'[u] = thr[u] /\ gateHandle'[u] = gateHandle[u]
      BY <1>2, <1>3, <2>2
    <3>2. thr[u].pc \in Holding \/ thr[u].pc = "count" => SameObj(thr[u].obj)
      BY <1>1, <1>4 DEF CallHeld, Holding, InCall, EnterPoints
    <3>3. Sole(u) => thr[u].res \in inUse' /\ \A h \in Gates : gateNames'[h] # thr[u].res
      BY <1>3 DEF CallHeld
    <3>4. thr[u].pc = "release" => gateTable'[Mine(u)][thr[u].res] = NoRef
      BY <1>3 DEF CallHeld
    <3>5. Named(u) => gateNames'[thr[u].gate] = thr[u].res
      BY <1>3 DEF CallHeld
    <3>6. thr[u].pc = "close" => mutex'[Mine(u)] = u /\ gateObjs'[thr[u].obj].opens = 0
      <4>1. thr[u].pc = "close" => mutex[Mine(u)] = u /\ gateObjs[thr[u].obj].opens = 0
        BY DEF CallHeld
      <4>2. thr[u].pc = "close" => thr[u].obj \in GateObjects
        BY DEF CallHeld, InCall, EnterPoints
      <4>3. mutex' = mutex /\ thr[u].obj # o /\ \A x \in GateObjects \ {o} : gateObjs'[x] = gateObjs[x]
        BY <1>1, <1>3
      <4> HIDE GatesConstants, FieldTypes, RegistryParts
      <4> QED
        BY <4>1, <4>2, <4>3
    <3> QED
      BY <3>1, <3>2, <3>3, <3>4, <3>5, <3>6, CallFrame
  <2> QED
    BY <2>1, <2>2
<1>7. ASSUME NEW u \in GateUsers, NEW h \in Gates PROVE HandleHeld(u, h)'
  <2>1. gateHandle[u][h] # NoRef => SameObj(gateHandle[u][h])
    <3>1. gateHandle[u][h] # NoRef => gateHandle[u][h] \in GateObjects /\ gateObjs[gateHandle[u][h]].live
      BY DEF HandleHeld
    <3> HIDE GatesConstants, FieldTypes, RegistryParts
    <3> QED
      BY <1>1, <1>4, <3>1
  <2>2. thr'[u] = thr[u] \/ thr[u].pc \notin DeletePoints
    BY <1>2, <1>3 DEF DeletePoints
  <2> QED
    BY <1>3, <2>1, <2>2, HandleFrame
<1>8. ASSUME NEW u \in GateObjects PROVE OpenHeld(u)'
  <2>1. CASE u = o
    BY <1>1, <2>1 DEF OpenHeld
  <2>2. CASE u # o
    <3>1. \A v \in GateUsers, h \in Gates : Uses(v, h, u)' <=> Uses(v, h, u)
      BY <1>2, <1>3 DEF Uses
    <3> QED
      BY <1>4, <2>2, <3>1, OpenFrame
  <2> QED
    BY <2>1, <2>2
<1>9. ASSUME NEW p \in gateAlive', NEW r \in Resources PROVE EntryHeld(p, r)'
  <2>1. p \in gateAlive /\ p \in Processes /\ gateTable[p][r] \in GateObjects \cup {NoRef}
    BY <1>3 DEF GateTypes
  <2>2. Known(r)' => Known(r)
    BY <1>3, <1>6, KnownFrame
  <2>3. Known(r) /\ gateTable[p][r] # NoRef => SameObj(gateTable[p][r])
    BY <1>1, <1>4, <2>1 DEF EntryHeld
  <2> QED
    BY <1>3, <2>1, <2>2, <2>3, EntryFrame
<1>10. NamesApart'
  BY <1>3 DEF NamesApart
<1>11. CallsApart'
  <2>1. ASSUME NEW u \in GateUsers, NEW v \in GateUsers, (Sole(u) /\ Sole(v) /\ thr[u].res = thr[v].res)'
        PROVE  u = v
    BY <1>6, <2>1 DEF CallsApart
  <2>2. ASSUME NEW u \in GateUsers, NEW v \in GateUsers, thr'[u].pc = "getFree", thr'[v].pc = "getFree",
               thr'[u].obj = thr'[v].obj
        PROVE  u = v
    BY <1>1, <1>2, <2>2 DEF CallsApart
  <2> QED
    BY <2>1, <2>2 DEF CallsApart
<1>12. CreatedHeld'
  <2>1. CreatedGates' \subseteq CreatedGates /\ o \notin CreatedGates'
    BY <1>1 DEF CreatedGates
  <2>2. \A u \in CreatedGates' : gateObjs'[u].res = gateObjs[u].res /\ gateObjs[u].res \in inUse'
    BY <1>1, <1>3, <2>1 DEF CreatedGates, CreatedHeld
  <2> QED
    BY <2>1, <2>2, CreatedFrame
<1> QED
  BY <1>6, <1>7, <1>8, <1>9, <1>10, <1>11, <1>12, RegistryIs

\* An object is freed that nobody else has, and the call returns.
LEMMA FreedKeeps ==
  ASSUME GateTypes, Registry, NEW t \in GateUsers, NEW o \in GateObjects,
         gateObjs' = [gateObjs EXCEPT ![o] = NoGateObj], UserReturns(t),
         gateNames' = gateNames, gateAlive' = gateAlive,
         \A u \in GateUsers \ {t} :
           /\ thr[u].pc \in Holding => thr[u].obj # o
           /\ gateHandle'[u] = gateHandle[u]
           /\ Sole(u) => thr[u].res \in inUse'
           /\ thr[u].pc = "close" => mutex'[Mine(u)] = u,
         \A u \in GateUsers, g \in Gates :
           IF gateHandle[u][g] = o THEN gateHandle'[u][g] = NoRef ELSE gateHandle'[u][g] = gateHandle[u][g],
         thr[t].pc # "store", thr[t].obj = o,
         \A g \in Gates : gateNames[g] # NoRef => gateNames[g] \in inUse',
         \A p \in Processes, r \in Resources : gateTable'[p][r] \in {gateTable[p][r], NoRef},
         \A p \in gateAlive, r \in Resources :
           Known(r)' /\ gateTable'[p][r] # NoRef => Known(r) /\ gateTable'[p][r] # o,
         \A u \in CreatedGates \ {o} : gateObjs[u].res \in inUse'
  PROVE  Registry'
<1> USE GatesConstants, FieldTypes, RegistryParts
<1>1. /\ ~gateObjs'[o].live
      /\ \A u \in GateObjects \ {o} : gateObjs'[u] = gateObjs[u]
  BY DEF GateTypes, NoGateObj
<1>2. thr'[t].pc = "idle" /\ \A u \in GateUsers \ {t} : thr'[u] = thr[u]
  BY UserIdles
<1>3. \A u \in GateObjects \ {o} : SameObj(u) /\ gateObjs'[u].opens = gateObjs[u].opens
  BY <1>1 DEF SameObj
<1>4. ASSUME NEW u \in GateUsers PROVE CallHeld(u)' /\ (Sole(u)' => Sole(u) /\ thr'[u] = thr[u])
  <2>1. CASE u = t
    BY <1>2, <2>1, CallIdle
  <2>2. CASE u # t
    <3>1. CallHeld(u) /\ thr'[u] = thr[u] /\ gateHandle'[u] = gateHandle[u]
      BY <1>2, <2>2
    <3>2. thr[u].pc \in Holding => SameObj(thr[u].obj) /\ thr[u].obj \in GateObjects
      BY <1>3, <2>2 DEF CallHeld, Holding, InCall, EnterPoints
    <3>3. thr[u].pc = "count" /\ gateObjs'[thr[u].obj].live => SameObj(thr[u].obj)
      BY <1>1, <1>3 DEF CallHeld, InCall, EnterPoints
    <3>4. Sole(u) => thr[u].res \in inUse' /\ \A h \in Gates : gateNames'[h] # thr[u].res
      BY <2>2 DEF CallHeld
    <3>5. thr[u].pc = "release" => gateTable'[Mine(u)][thr[u].res] = NoRef
      <4>1. thr[u].pc = "release" => thr[u].res \in Resources /\ gateTable[Mine(u)][thr[u].res] = NoRef
        BY DEF CallHeld, Sole, GateTypes
      <4>2. thr[u].pc = "release" => gateTable'[Mine(u)][thr[u].res] \in {gateTable[Mine(u)][thr[u].res], NoRef}
        BY <4>1
      <4> QED
        BY <4>1, <4>2
    <3>6. Named(u) => gateNames'[thr[u].gate] = thr[u].res
      BY DEF CallHeld
    <3>7. thr[u].pc = "close" => mutex'[Mine(u)] = u /\ gateObjs'[thr[u].obj].opens = 0
      <4>1. thr[u].pc = "close" => thr[u].pc \in Holding /\ gateObjs[thr[u].obj].opens = 0
        BY DEF CallHeld, Holding
      <4> QED
        BY <1>3, <2>2, <3>2, <4>1
    <3> QED
      BY <3>1, <3>2, <3>3, <3>4, <3>5, <3>6, <3>7, CallFrame
  <2> QED
    BY <2>1, <2>2
<1>5. ASSUME NEW u \in GateUsers, NEW h \in Gates PROVE HandleHeld(u, h)'
  <2>1. CASE gateHandle'[u][h] = NoRef
    BY <2>1 DEF HandleHeld
  <2>2. CASE gateHandle'[u][h] # NoRef
    <3>1. gateHandle'[u][h] = gateHandle[u][h] /\ SameObj(gateHandle[u][h])
      <4>1. gateHandle[u][h] # o
        BY <2>2
      <4>2. gateHandle'[u][h] = gateHandle[u][h]
        BY <4>1
      <4>3. gateHandle[u][h] \in GateObjects
        BY <2>2, <4>2
      <4> QED
        BY <1>3, <4>1, <4>2, <4>3
    <3>2. /\ gateObjs[gateHandle[u][h]].live /\ gateObjs[gateHandle[u][h]].process = Mine(u)
          /\ gateObjs[gateHandle[u][h]].res \in Resources
          /\ \/ gateNames[h] = gateObjs[gateHandle[u][h]].res
             \/ thr[u].pc \in DeletePoints /\ thr[u].gate = h /\ thr[u].obj = gateHandle[u][h]
      BY <2>2, <3>1 DEF HandleHeld
    <3>3. CASE u = t
      <4>1. gateNames[h] = gateObjs[gateHandle[u][h]].res
        BY <2>2, <3>1, <3>2, <3>3
      <4> QED
        BY <3>1, <3>2, <4>1 DEF HandleHeld, SameObj, Mine
    <3>4. CASE u # t
      BY <1>2, <3>1, <3>2, <3>4 DEF HandleHeld, SameObj, Mine
    <3> QED
      BY <3>3, <3>4
  <2> QED
    BY <2>1, <2>2
<1>6. ASSUME NEW u \in GateObjects PROVE OpenHeld(u)'
  <2>1. CASE u = o
    BY <1>1, <2>1 DEF OpenHeld
  <2>2. CASE u # o
    <3>1. ASSUME NEW v \in GateUsers, NEW h \in Gates PROVE Uses(v, h, u)' <=> Uses(v, h, u)
      <4>1. gateHandle'[v][h] = u <=> gateHandle[v][h] = u
        BY <2>2
      <4>2. (thr'[v].pc = "store" /\ thr'[v].obj = u /\ thr'[v].gate = h) <=>
            (thr[v].pc = "store" /\ thr[v].obj = u /\ thr[v].gate = h)
        BY <1>2
      <4> QED
        BY <4>1, <4>2 DEF Uses
    <3> QED
      BY <1>3, <2>2, <3>1, OpenFrame
  <2> QED
    BY <2>1, <2>2
<1>7. ASSUME NEW p \in gateAlive', NEW r \in Resources PROVE EntryHeld(p, r)'
  <2> SUFFICES ASSUME Known(r)', gateTable'[p][r] # NoRef PROVE EntryHeld(p, r)'
    BY DEF EntryHeld
  <2>1. p \in gateAlive /\ p \in Processes
    BY DEF GateTypes
  <2>5. gateTable'[p][r] \in {gateTable[p][r], NoRef}
    BY <2>1
  <2>6. Known(r) /\ gateTable'[p][r] # o
    BY <2>1
  <2>2. Known(r) /\ gateTable'[p][r] = gateTable[p][r] /\ gateTable[p][r] # o
    BY <2>5, <2>6
  <2>3. gateTable[p][r] \in GateObjects
    BY <2>1, <2>2 DEF GateTypes
  <2>4. SameObj(gateTable[p][r])
    BY <1>3, <2>2, <2>3
  <2> QED
    BY <2>1, <2>2, <2>4, EntryFrame
<1>8. NamesApart'
  BY DEF NamesApart
<1>9. CallsApart'
  BY <1>2, <1>4 DEF CallsApart
<1>10. CreatedHeld'
  <2>1. CreatedGates' \subseteq CreatedGates \ {o}
    BY <1>1 DEF CreatedGates
  <2>2. \A u \in CreatedGates' : gateObjs'[u].res = gateObjs[u].res /\ gateObjs[u].res \in inUse'
    BY <1>1, <2>1 DEF CreatedGates
  <2> QED
    BY <2>1, <2>2, CreatedFrame
<1> QED
  BY <1>4, <1>5, <1>6, <1>7, <1>8, <1>9, <1>10, RegistryIs

\* LAD gives out a resource, or none and create fails.
LEMMA GetFreeKeeps ==
  ASSUME GateTypes, Registry, NEW t \in GateUsers, GetFreeResource(t)
  PROVE  Registry'
<1> USE GatesConstants, FieldTypes, RegistryParts
<1> DEFINE o == thr[t].obj
<1>1. thr[t].pc = "getFree" /\ UNCHANGED <<gateNames, gateAlive, gateTable, mutex, gateHandle>>
  BY DEF GetFreeResource, UserAt
<1>2. /\ o \in GateObjects /\ gateObjs[o].live /\ gateObjs[o].res = NoRef
      /\ gateObjs[o].process = Mine(t) /\ ~gateObjs[o].opened
      /\ \A u \in GateUsers \ {t} : thr[u].pc \in Holding \cup {"count"} => thr[u].obj # o
      /\ \A u \in GateUsers, g \in Gates : gateHandle[u][g] # o
  BY <1>1, GetFreeObject
<1>3. CASE Resources \subseteq inUse
  <2>1. UserReturns(t) /\ inUse' = inUse /\ gateObjs' = [gateObjs EXCEPT ![o] = NoGateObj]
    BY <1>3 DEF GetFreeResource
  <2> HIDE DEF o
  <2>2. \A u \in GateUsers \ {t} :
          /\ thr[u].pc \in Holding => thr[u].obj # o
          /\ gateHandle'[u] = gateHandle[u]
          /\ Sole(u) => thr[u].res \in inUse'
          /\ thr[u].pc = "close" => mutex'[Mine(u)] = u
    BY <1>1, <1>2, <2>1 DEF CallHeld
  <2>3. ASSUME NEW p \in gateAlive, NEW r \in Resources, Known(r)', gateTable'[p][r] # NoRef
        PROVE  Known(r) /\ gateTable'[p][r] # o
    <3>1. \A u \in GateUsers : Sole(u)' => Sole(u) /\ thr'[u].res = thr[u].res
      <4>1. ASSUME NEW u \in GateUsers, Sole(u)' PROVE Sole(u) /\ thr'[u].res = thr[u].res
        <5>1. u # t /\ thr'[u] = thr[u]
          BY <2>1, <4>1, UserIdles, CallIdle
        <5>2. thr[u].pc = "store" => gateObjs'[thr[u].obj] = gateObjs[thr[u].obj]
          BY <1>2, <2>1, <5>1 DEF GateTypes, Holding, CallHeld
        <5> QED
          BY <4>1, <5>1, <5>2 DEF Sole
      <4> QED
        BY <4>1
    <3>2. Known(r)
      BY <1>1, <2>1, <2>3, <3>1, KnownFrame
    <3> QED
      BY <1>1, <1>2, <2>3, <3>2 DEF EntryHeld
  <2>4. \A u \in CreatedGates \ {o} : gateObjs[u].res \in inUse'
    BY <2>1 DEF CreatedHeld
  <2>5. \A g \in Gates : gateNames[g] # NoRef => gateNames[g] \in inUse'
    BY <2>1 DEF NamesApart
  <2>6. thr[t].obj = o
    BY DEF o
  <2>7. gateHandle[t][thr[t].gate] = NoRef \/ thr[t].pc \notin DeletePoints \/ gateHandle'[t][thr[t].gate] = NoRef
    BY <1>1 DEF DeletePoints
  <2>8. thr[t].pc # "store" /\ gateNames' = gateNames /\ gateAlive' = gateAlive
    BY <1>1
  <2>9. \A u \in GateUsers, g \in Gates :
          IF gateHandle[u][g] = o THEN gateHandle'[u][g] = NoRef ELSE gateHandle'[u][g] = gateHandle[u][g]
    BY <1>1, <1>2
  <2>10. \A p \in Processes, r \in Resources : gateTable'[p][r] \in {gateTable[p][r], NoRef}
    BY <1>1
  <2>11. \A p \in gateAlive, r \in Resources :
           Known(r)' /\ gateTable'[p][r] # NoRef => Known(r) /\ gateTable'[p][r] # o
    BY <2>3
  <2>12. o \in GateObjects
    BY <1>2
  <2> HIDE GatesConstants, FieldTypes, RegistryParts
  <2> QED
    BY <2>1, <2>2, <2>4, <2>5, <2>6, <2>7, <2>8, <2>9, <2>10, <2>11, <2>12, FreedKeeps
<1>4. CASE Resources \ inUse # {}
  <2> DEFINE r == Min(Resources \ inUse)
  <2>1. r \in Resources /\ r \notin inUse
    <3>1. Resources \ inUse \in SUBSET Nat
      OBVIOUS
    <3>2. r \in Resources \ inUse
      BY <1>4, <3>1, LeastExists
    <3> QED
      BY <3>2
  <2>2. /\ inUse' = inUse \cup {r} /\ gateObjs' = [gateObjs EXCEPT ![o].res = r]
        /\ thr' = [thr EXCEPT ![t].pc = "store", ![t].res = r]
    BY <1>4 DEF GetFreeResource
  <2> HIDE DEF r
  <2>3. /\ thr'[t].pc = "store" /\ thr'[t].gate = thr[t].gate /\ thr'[t].obj = o /\ thr'[t].res = r
        /\ \A u \in GateUsers \ {t} : thr'[u] = thr[u]
    BY <2>2 DEF GateTypes, UserStates
  <2>4. /\ gateObjs'[o].live /\ gateObjs'[o].process = Mine(t) /\ gateObjs'[o].res = r /\ ~gateObjs'[o].opened
        /\ \A u \in GateObjects \ {o} : gateObjs'[u] = gateObjs[u]
    BY <1>2, <2>2 DEF GateTypes, GateObjStates
  <2> HIDE DEF o
  <2>5. \A u \in GateObjects \ {o} : SameObj(u) /\ gateObjs'[u].opens = gateObjs[u].opens
    BY <2>4 DEF SameObj
  <2>6. r # NoRef /\ Sole(t)' /\ ~Named(t)' /\ \A g \in Gates : gateNames[g] # r
    BY <2>1, <2>3, <2>4 DEF Sole, Named, NamesApart, OpenPoints
  <2>7. CallHeld(t)'
    <3>1. OwnsObj(t)'
      BY <2>3, <2>4 DEF OwnsObj, Mine
    <3>2. thr[t].gate \in Gates /\ gateHandle[t][thr[t].gate] = NoRef
      BY <1>1 DEF CallHeld, InCall, EnterPoints, CreatePoints
    <3>3. /\ (InCall(t) => thr[t].gate \in Gates /\ (thr[t].pc # "look" => thr[t].obj \in GateObjects))'
          /\ (thr[t].pc \in CreatePoints \cup {"look", "count"} => gateHandle[t][thr[t].gate] = NoRef)'
      BY <1>1, <1>2, <2>3, <3>2
    <3>4. (/\ OwnsObj(t) /\ thr[t].res \in inUse /\ ~gateObjs[thr[t].obj].opened
           /\ \A g \in Gates : gateNames[g] # thr[t].res)'
      <4>1. thr'[t].res \in inUse' /\ ~gateObjs'[thr'[t].obj].opened
        BY <2>2, <2>3, <2>4
      <4>2. \A g \in Gates : gateNames'[g] # thr'[t].res
        BY <1>1, <2>3, <2>6
      <4> QED
        BY <3>1, <4>1, <4>2
    <3> QED
      BY <2>3, <2>6, <3>1, <3>3, <3>4 DEF CallHeld, DeletePoints
  <2>8. ASSUME NEW u \in GateUsers, u # t PROVE CallHeld(u)' /\ (Sole(u)' <=> Sole(u))
    <3>1. CallHeld(u) /\ thr'[u] = thr[u] /\ gateHandle'[u] = gateHandle[u]
      BY <1>1, <2>3, <2>8
    <3>2. thr[u].pc \in Holding \/ thr[u].pc = "count" => SameObj(thr[u].obj) /\ thr[u].obj \in GateObjects \ {o}
      BY <1>2, <2>5, <2>8 DEF CallHeld, Holding, InCall, EnterPoints
    <3>3. Sole(u) => thr[u].res \in inUse' /\ \A h \in Gates : gateNames'[h] # thr[u].res
      BY <1>1, <2>2 DEF CallHeld
    <3>4. thr[u].pc = "release" => gateTable'[Mine(u)][thr[u].res] = NoRef
      BY <1>1 DEF CallHeld
    <3>5. Named(u) => gateNames'[thr[u].gate] = thr[u].res
      BY <1>1 DEF CallHeld
    <3>6. thr[u].pc = "close" => mutex'[Mine(u)] = u /\ gateObjs'[thr[u].obj].opens = 0
      BY <1>1, <2>5, <3>2 DEF CallHeld, Holding
    <3> QED
      BY <3>1, <3>2, <3>3, <3>4, <3>5, <3>6, CallFrame
  <2>9. ASSUME NEW u \in GateUsers, NEW h \in Gates PROVE HandleHeld(u, h)'
    <3>1. gateHandle[u][h] # NoRef => SameObj(gateHandle[u][h])
      <4>1. gateHandle[u][h] # NoRef => gateHandle[u][h] \in GateObjects /\ gateObjs[gateHandle[u][h]].live
        BY DEF HandleHeld
      <4> HIDE GatesConstants, FieldTypes, RegistryParts
      <4> QED
        BY <1>2, <2>5, <4>1
    <3>2. thr'[u] = thr[u] \/ thr[u].pc \notin DeletePoints
      BY <1>1, <2>3 DEF DeletePoints
    <3> QED
      BY <1>1, <3>1, <3>2, HandleFrame
  <2>10. ASSUME NEW u \in GateObjects PROVE OpenHeld(u)'
    <3>1. CASE u = o
      BY <2>4, <3>1 DEF OpenHeld
    <3>2. CASE u # o
      <4>1. \A v \in GateUsers, h \in Gates : Uses(v, h, u)' <=> Uses(v, h, u)
        BY <1>1, <2>3, <3>2 DEF Uses
      <4> QED
        BY <2>5, <3>2, <4>1, OpenFrame
    <3> QED
      BY <3>1, <3>2
  <2>11. ASSUME NEW p \in gateAlive', NEW s \in Resources PROVE EntryHeld(p, s)'
    <3>1. p \in gateAlive /\ p \in Processes /\ gateTable[p][s] \in GateObjects \cup {NoRef}
      BY <1>1 DEF GateTypes
    <3>2. Known(s)' => Known(s)
      <4>1. CASE s = r
        BY <2>1, <4>1 DEF Known
      <4>2. CASE s # r
        <5>1. \A u \in GateUsers : (Sole(u) /\ thr[u].res = s)' => Sole(u) /\ thr[u].res = s
          BY <2>3, <2>8, <4>2
        <5>2. gateNames' = gateNames /\ (s \notin inUse' => s \notin inUse)
          BY <1>1, <2>2, <4>2
        <5> HIDE GatesConstants, FieldTypes, RegistryParts
        <5> QED
          BY <5>1, <5>2 DEF Known
      <4> QED
        BY <4>1, <4>2
    <3>3. Known(s) /\ gateTable[p][s] # NoRef => SameObj(gateTable[p][s])
      <4>1. Known(s) /\ gateTable[p][s] # NoRef => gateObjs[gateTable[p][s]].res = s
        BY <3>1 DEF EntryHeld
      <4>2. s # NoRef
        BY GatesConstants
      <4>3. gateObjs[o].res = NoRef
        BY <1>2
      <4> HIDE GatesConstants, FieldTypes, RegistryParts
      <4> QED
        BY <2>5, <3>1, <4>1, <4>2, <4>3
    <3> QED
      BY <1>1, <3>1, <3>2, <3>3, EntryFrame
  <2>12. NamesApart'
    BY <1>1, <2>2 DEF NamesApart
  <2>13. CallsApart'
    <3>1. \A u \in GateUsers : Sole(u) => thr[u].res # r
      BY <2>1 DEF CallHeld
    <3>2. ASSUME NEW u \in GateUsers, NEW v \in GateUsers, (Sole(u) /\ Sole(v) /\ thr[u].res = thr[v].res)'
          PROVE  u = v
      BY <2>3, <2>8, <3>1, <3>2 DEF CallsApart
    <3>3. ASSUME NEW u \in GateUsers, NEW v \in GateUsers, thr'[u].pc = "getFree", thr'[v].pc = "getFree",
                 thr'[u].obj = thr'[v].obj
          PROVE  u = v
      BY <2>3, <3>3 DEF CallsApart
    <3> QED
      BY <3>2, <3>3 DEF CallsApart
  <2>14. CreatedHeld'
    <3>1. CreatedGates' \subseteq CreatedGates \cup {o}
      BY <2>4 DEF CreatedGates
    <3>2. \A u \in CreatedGates' \ {o} : gateObjs'[u].res = gateObjs[u].res /\ gateObjs[u].res \in inUse
      BY <2>5, <3>1 DEF CreatedGates, CreatedHeld, SameObj
    <3> QED
      BY <2>1, <2>2, <2>4, <3>1, <3>2 DEF CreatedHeld
  <2> QED
    BY <2>7, <2>8, <2>9, <2>10, <2>11, <2>12, <2>13, <2>14, RegistryIs
<1> QED
  BY <1>3, <1>4

\* The object is stored, and open returns it.
LEMMA StoreKeeps ==
  ASSUME GateTypes, Registry, NEW t \in GateUsers, Store(t)
  PROVE  Registry'
<1> USE GatesConstants, FieldTypes, RegistryParts
<1> DEFINE o == thr[t].obj
           g == thr[t].gate
           s == thr[t].res
<1>1. thr[t].pc = "store" /\ UNCHANGED <<inUse, gateNames, gateAlive, gateObjs, mutex>>
  BY DEF Store, UserAt, gateLadVars
<1>2. /\ o \in GateObjects /\ gateObjs[o].live /\ gateObjs[o].process = Mine(t) /\ gateObjs[o].res = s
      /\ g \in Gates /\ gateHandle[t][g] = NoRef
  BY <1>1 DEF CallHeld, OwnsObj, InCall, EnterPoints, CreatePoints
<1>3. s \in Resources /\ (gateObjs[o].opened => gateNames[g] = s) /\ (~gateObjs[o].opened => Sole(t))
  <2>1. CASE gateObjs[o].opened
    BY <1>1, <2>1 DEF CallHeld, Named
  <2>2. CASE ~gateObjs[o].opened
    BY <1>1, <2>2 DEF CallHeld, Sole, GateTypes
  <2> QED
    BY <2>1, <2>2
<1>4. gateTable' = [gateTable EXCEPT ![Mine(t)][s] = o]
  BY DEF Store
<1>5. /\ gateTable'[Mine(t)][s] = o
      /\ \A p \in Processes, r \in Resources : p # Mine(t) \/ r # s => gateTable'[p][r] = gateTable[p][r]
  BY <1>3, <1>4 DEF GateTypes
<1>6. \/ /\ gateObjs[o].opened /\ gateHandle' = [gateHandle EXCEPT ![t][g] = o] /\ UserReturns(t)
      \/ /\ ~gateObjs[o].opened /\ gateHandle' = gateHandle /\ UserGoto(t, "name")
  BY DEF Store
<1>7. \A u \in GateUsers \ {t} : thr'[u] = thr[u] /\ gateHandle'[u] = gateHandle[u]
  BY <1>6, UserIdles, UserGoes DEF GateTypes, CreatePoints
<1>8. \/ /\ gateObjs[o].opened /\ thr'[t].pc = "idle" /\ gateHandle'[t][g] = o
         /\ \A h \in Gates \ {g} : gateHandle'[t][h] = gateHandle[t][h]
      \/ /\ ~gateObjs[o].opened /\ thr'[t].pc = "name" /\ gateHandle'[t] = gateHandle[t]
         /\ thr'[t].gate = g /\ thr'[t].obj = o /\ thr'[t].res = s
  <2>1. CASE gateObjs[o].opened
    <3>1. gateHandle' = [gateHandle EXCEPT ![t][g] = o] /\ UserReturns(t)
      BY <1>6, <2>1
    <3>2. gateHandle'[t][g] = o /\ \A h \in Gates \ {g} : gateHandle'[t][h] = gateHandle[t][h]
      BY <1>2, <3>1 DEF GateTypes
    <3> QED
      BY <2>1, <3>1, <3>2, UserIdles
  <2>2. CASE ~gateObjs[o].opened
    <3>1. gateHandle' = gateHandle /\ UserGoto(t, "name")
      BY <1>6, <2>2
    <3> QED
      BY <2>2, <3>1, UserGoes DEF CreatePoints
  <2> QED
    BY <2>1, <2>2
<1> HIDE DEF o, g, s
<1>9. \A u \in GateObjects : SameObj(u) /\ gateObjs'[u].opens = gateObjs[u].opens
  BY <1>1 DEF SameObj
<1>10. CallHeld(t)' /\ (Sole(t)' => Sole(t) /\ thr'[t].res = thr[t].res) /\ (Sole(t) => Sole(t)') /\ thr'[t].pc # "getFree"
  <2>1. CASE gateObjs[o].opened
    <3>1. ~Sole(t)
      BY <1>1, <2>1 DEF Sole, o
    <3> QED
      BY <1>8, <2>1, <3>1, CallIdle
  <2>2. CASE ~gateObjs[o].opened
    <3>1. /\ thr'[t].pc = "name" /\ gateHandle'[t] = gateHandle[t]
          /\ thr'[t].gate = g /\ thr'[t].obj = o /\ thr'[t].res = s
      BY <1>8, <2>2
    <3>2. s \in inUse /\ \A h \in Gates : gateNames[h] # s
      BY <1>3, <2>2 DEF CallHeld, s
    <3>3. (/\ OwnsObj(t) /\ thr[t].res \in inUse /\ ~gateObjs[thr[t].obj].opened
           /\ \A h \in Gates : gateNames[h] # thr[t].res)'
      BY <1>1, <1>2, <2>2, <3>1, <3>2 DEF OwnsObj, Mine
    <3>4. /\ (InCall(t) => thr[t].gate \in Gates /\ (thr[t].pc # "look" => thr[t].obj \in GateObjects))'
          /\ (thr[t].pc \in CreatePoints \cup {"look", "count"} => gateHandle[t][thr[t].gate] = NoRef)'
      BY <1>2, <3>1
    <3>5. CallHeld(t)'
      BY <3>1, <3>3, <3>4 DEF CallHeld, DeletePoints, Named, OpenPoints
    <3> QED
      BY <1>3, <2>2, <3>1, <3>5 DEF Sole, s
  <2> QED
    BY <2>1, <2>2
<1>11. ASSUME NEW u \in GateUsers, u # t PROVE CallHeld(u)' /\ (Sole(u)' <=> Sole(u))
  <2>1. CallHeld(u) /\ thr'[u] = thr[u] /\ gateHandle'[u] = gateHandle[u]
    BY <1>7, <1>11
  <2>2. thr[u].pc \in Holding \/ thr[u].pc = "count" => SameObj(thr[u].obj)
    BY <1>9 DEF CallHeld, Holding, InCall, EnterPoints
  <2>3. Sole(u) => thr[u].res \in inUse' /\ \A h \in Gates : gateNames'[h] # thr[u].res
    BY <1>1 DEF CallHeld
  <2>4. thr[u].pc = "release" => gateTable'[Mine(u)][thr[u].res] = NoRef
    <3> SUFFICES ASSUME thr[u].pc = "release" PROVE gateTable'[Mine(u)][thr[u].res] = NoRef
      OBVIOUS
    <3>1. Sole(u) /\ thr[u].res \in Resources /\ gateTable[Mine(u)][thr[u].res] = NoRef
      BY DEF Sole, CallHeld, GateTypes
    <3>2. thr[u].res # s
      <4>1. CASE gateObjs[o].opened
        BY <1>2, <1>3, <3>1, <4>1 DEF CallHeld
      <4>2. CASE ~gateObjs[o].opened
        BY <1>3, <1>11, <3>1, <4>2 DEF CallsApart, s
      <4> QED
        BY <4>1, <4>2
    <3>3. Mine(u) \in Processes
      BY GatesConstants
    <3> HIDE GatesConstants, FieldTypes, RegistryParts
    <3> QED
      BY <1>5, <3>1, <3>2, <3>3
  <2>5. Named(u) => gateNames'[thr[u].gate] = thr[u].res
    BY <1>1 DEF CallHeld
  <2>6. thr[u].pc = "close" => mutex'[Mine(u)] = u /\ gateObjs'[thr[u].obj].opens = 0
    BY <1>1 DEF CallHeld
  <2> QED
    BY <2>1, <2>2, <2>3, <2>4, <2>5, <2>6, CallFrame
<1>12. ASSUME NEW u \in GateUsers, NEW h \in Gates PROVE HandleHeld(u, h)'
  <2>1. CASE u = t /\ h = g /\ gateObjs[o].opened
    <3>1. gateHandle'[t][g] = o
      BY <1>8, <2>1
    <3> QED
      BY <1>1, <1>2, <1>3, <2>1, <3>1 DEF HandleHeld, Mine
  <2>2. CASE ~(u = t /\ h = g /\ gateObjs[o].opened)
    <3>1. gateHandle'[u][h] = gateHandle[u][h]
      BY <1>7, <1>8, <2>2
    <3>2. gateHandle[u][h] # NoRef => SameObj(gateHandle[u][h]) /\ gateNames'[h] = gateNames[h]
      BY <1>1, <1>9
    <3>3. thr'[u] = thr[u] \/ thr[u].pc \notin DeletePoints
      BY <1>1, <1>7 DEF DeletePoints
    <3> QED
      BY <3>1, <3>2, <3>3, HandleFrame
  <2> QED
    BY <2>1, <2>2
<1>13. ASSUME NEW u \in GateObjects PROVE OpenHeld(u)'
  <2>1. CASE gateObjs[u].opened
    <3>1. ASSUME NEW v \in GateUsers, NEW h \in Gates PROVE Uses(v, h, u)' <=> Uses(v, h, u)
      <4>1. CASE v # t
        BY <1>7, <4>1 DEF Uses
      <4>2. CASE v = t /\ h # g
        <5>1. gateHandle'[t][h] = gateHandle[t][h]
          BY <1>8, <4>2
        <5>2. thr'[t].pc # "store"
          BY <1>8
        <5> QED
          BY <4>2, <5>1, <5>2 DEF Uses, g
      <4>3. CASE v = t /\ h = g
        <5>1. gateHandle'[t][g] = u <=> u = o
          <6>1. CASE gateObjs[o].opened
            BY <1>8, <6>1
          <6>2. CASE ~gateObjs[o].opened
            BY <1>2, <1>8, <2>1, <6>2
          <6> QED
            BY <6>1, <6>2
        <5>2. thr'[t].pc # "store" /\ gateHandle[t][g] # u
          BY <1>2, <1>8
        <5> QED
          BY <1>1, <4>3, <5>1, <5>2 DEF Uses, o, g
      <4> QED
        BY <4>1, <4>2, <4>3
    <3> QED
      BY <1>9, <3>1, OpenFrame
  <2>2. CASE ~gateObjs[u].opened
    BY <1>1, <2>2 DEF OpenHeld
  <2> QED
    BY <2>1, <2>2
<1>14. ASSUME NEW p \in gateAlive', NEW r \in Resources PROVE EntryHeld(p, r)'
  <2>1. p \in gateAlive /\ p \in Processes /\ gateTable[p][r] \in GateObjects \cup {NoRef}
    BY <1>1 DEF GateTypes
  <2>2. CASE p = Mine(t) /\ r = s
    BY <1>1, <1>2, <1>5, <2>2 DEF EntryHeld
  <2>3. CASE ~(p = Mine(t) /\ r = s)
    <3>1. gateTable'[p][r] = gateTable[p][r]
      BY <1>5, <2>1, <2>3
    <3>2. Known(r)' => Known(r)
      BY <1>1, <1>7, <1>10, <1>11 DEF Known
    <3> QED
      BY <1>9, <2>1, <3>1, <3>2, EntryFrame
  <2> QED
    BY <2>2, <2>3
<1>15. NamesApart'
  BY <1>1 DEF NamesApart
<1>16. CallsApart'
  <2>1. \A u \in GateUsers : Sole(u)' => Sole(u) /\ thr'[u].res = thr[u].res
    BY <1>7, <1>10, <1>11
  <2>2. \A u \in GateUsers : thr'[u].pc = "getFree" => thr[u].pc = "getFree" /\ thr'[u].obj = thr[u].obj
    BY <1>7, <1>10
  <2> QED
    BY <2>1, <2>2, ApartFrame
<1>17. CreatedHeld'
  BY <1>1 DEF CreatedHeld, CreatedGates
<1> QED
  BY <1>10, <1>11, <1>12, <1>13, <1>14, <1>15, <1>16, <1>17, RegistryIs

\* An object is freed whose resource stays marked: what its thread was alone with
\* nobody knows any more.
LEMMA SoleFreed ==
  ASSUME GateTypes, Registry, NEW t \in GateUsers, Sole(t),
         gateObjs' = [gateObjs EXCEPT ![thr[t].obj] = NoGateObj], UserReturns(t),
         gateNames' = gateNames, gateHandle' = gateHandle, gateTable' = gateTable,
         inUse' = inUse, mutex' = mutex, gateAlive' = gateAlive,
         thr[t].pc = "name"
  PROVE  Registry'
<1> USE GatesConstants, FieldTypes, RegistryParts
<1> DEFINE o == thr[t].obj
           s == thr[t].res
<1>1. /\ o \in GateObjects /\ s \in Resources /\ s \in inUse /\ gateObjs[o].res = s
      /\ \A g \in Gates : gateNames[g] # s
      /\ \A u \in GateUsers \ {t} :
           /\ Sole(u) => thr[u].res # s
           /\ thr[u].pc \in Holding \cup {"count"} => thr[u].obj # o
      /\ \A u \in GateUsers, g \in Gates : gateHandle[u][g] # o
  BY SoleObject DEF DeletePoints
<1> HIDE DEF o, s
<1>2. ASSUME NEW u \in GateUsers, Sole(u)' PROVE u # t /\ Sole(u) /\ thr'[u].res = thr[u].res
  <2>1. u # t /\ thr'[u] = thr[u]
    BY <1>2, UserIdles, CallIdle
  <2>2. thr[u].pc = "store" => gateObjs'[thr[u].obj] = gateObjs[thr[u].obj]
    BY <1>1, <2>1 DEF GateTypes, Holding, CallHeld, o
  <2> QED
    BY <1>2, <2>1, <2>2 DEF Sole
<1>3. ASSUME NEW p \in gateAlive, NEW r \in Resources, Known(r)', gateTable'[p][r] # NoRef
      PROVE  Known(r) /\ gateTable'[p][r] # o
  <2>1. Known(r) /\ r # s
    BY <1>1, <1>2, <1>3 DEF Known
  <2> QED
    BY <1>1, <1>3, <2>1 DEF EntryHeld
<1>4. \A u \in GateUsers \ {t} :
        /\ thr[u].pc \in Holding => thr[u].obj # o
        /\ gateHandle'[u] = gateHandle[u]
        /\ Sole(u) => thr[u].res \in inUse'
        /\ thr[u].pc = "close" => mutex'[Mine(u)] = u
  BY <1>1 DEF CallHeld
<1>5. \A u \in CreatedGates \ {o} : gateObjs[u].res \in inUse'
  BY DEF CreatedHeld
<1>6. \A g \in Gates : gateNames[g] # NoRef => gateNames[g] \in inUse'
  BY DEF NamesApart
<1>7. \A p \in gateAlive, r \in Resources : Known(r)' /\ gateTable'[p][r] # NoRef => Known(r) /\ gateTable'[p][r] # o
  BY <1>3
<1>8. thr[t].obj = o /\ thr[t].pc # "store" /\ thr[t].pc \notin DeletePoints
  BY DEF o, DeletePoints
<1>9. \A u \in GateUsers, g \in Gates :
        IF gateHandle[u][g] = o THEN gateHandle'[u][g] = NoRef ELSE gateHandle'[u][g] = gateHandle[u][g]
  BY <1>1
<1>10. \A p \in Processes, r \in Resources : gateTable'[p][r] \in {gateTable[p][r], NoRef}
  OBVIOUS
<1>11. o \in GateObjects /\ gateObjs' = [gateObjs EXCEPT ![o] = NoGateObj]
  BY <1>1, <1>8
<1> HIDE GatesConstants, FieldTypes, RegistryParts
<1> QED
  BY <1>4, <1>5, <1>6, <1>7, <1>8, <1>9, <1>10, <1>11, FreedKeeps

\* The gate gets its name, or create fails as another has it.
LEMMA AddNameKeeps ==
  ASSUME GateTypes, Registry, NEW t \in GateUsers, AddName(t)
  PROVE  Registry'
<1> USE GatesConstants, FieldTypes, RegistryParts
<1> DEFINE o == thr[t].obj
           g == thr[t].gate
           s == thr[t].res
<1>1. /\ thr[t].pc = "name" /\ Sole(t) /\ UserReturns(t)
      /\ UNCHANGED <<inUse, gateAlive, gateTable, mutex>>
  BY DEF AddName, UserAt, Sole
<1>2. /\ o \in GateObjects /\ gateObjs[o].live /\ gateObjs[o].process = Mine(t) /\ gateObjs[o].res = s
      /\ ~gateObjs[o].opened /\ s \in Resources /\ s \in inUse
      /\ \A h \in Gates : gateNames[h] # s
      /\ \A u \in GateUsers \ {t} : Sole(u) => thr[u].res # s
      /\ \A u \in GateUsers, h \in Gates : gateHandle[u][h] # o
  BY <1>1, SoleObject DEF DeletePoints
<1>3. g \in Gates /\ gateHandle[t][g] = NoRef
  BY <1>1 DEF CallHeld, InCall, EnterPoints, CreatePoints
<1>4. CASE gateNames[g] # NoRef
  <2>1. gateObjs' = [gateObjs EXCEPT ![thr[t].obj] = NoGateObj] /\ gateNames' = gateNames /\ gateHandle' = gateHandle
    BY <1>4 DEF AddName
  <2> QED
    BY <1>1, <2>1, SoleFreed
<1>5. CASE gateNames[g] = NoRef
  <2>1. /\ gateNames' = [gateNames EXCEPT ![g] = s] /\ gateHandle' = [gateHandle EXCEPT ![t][g] = o]
        /\ gateObjs' = gateObjs
    BY <1>5 DEF AddName
  <2> HIDE DEF o, g, s
  <2>2. /\ gateNames'[g] = s /\ \A h \in Gates \ {g} : gateNames'[h] = gateNames[h]
        /\ gateHandle'[t][g] = o /\ \A h \in Gates \ {g} : gateHandle'[t][h] = gateHandle[t][h]
        /\ \A u \in GateUsers \ {t} : gateHandle'[u] = gateHandle[u]
    BY <1>3, <2>1 DEF GateTypes
  <2>3. thr'[t].pc = "idle" /\ \A u \in GateUsers \ {t} : thr'[u] = thr[u]
    BY <1>1, UserIdles
  <2>4. \A u \in GateObjects : SameObj(u) /\ gateObjs'[u].opens = gateObjs[u].opens
    BY <2>1 DEF SameObj
  <2>5. ASSUME NEW u \in GateUsers PROVE CallHeld(u)' /\ (Sole(u)' => u # t /\ Sole(u) /\ thr'[u] = thr[u])
    <3>1. CASE u = t
      BY <2>3, <3>1, CallIdle
    <3>2. CASE u # t
      <4>1. CallHeld(u) /\ thr'[u] = thr[u] /\ gateHandle'[u] = gateHandle[u]
        BY <2>2, <2>3, <3>2
      <4>2. thr[u].pc \in Holding \/ thr[u].pc = "count" => SameObj(thr[u].obj)
        BY <2>4 DEF CallHeld, Holding, InCall, EnterPoints
      <4>3. Sole(u) => thr[u].res \in inUse' /\ \A h \in Gates : gateNames'[h] # thr[u].res
        <5>1. Sole(u) => thr[u].res \in inUse' /\ thr[u].res # s /\ \A h \in Gates : gateNames[h] # thr[u].res
          BY <1>1, <1>2, <3>2 DEF CallHeld
        <5> QED
          BY <2>2, <5>1
      <4>4. thr[u].pc = "release" => gateTable'[Mine(u)][thr[u].res] = NoRef
        BY <1>1 DEF CallHeld
      <4>5. Named(u) => gateNames'[thr[u].gate] = thr[u].res
        <5>1. Named(u) => gateNames[thr[u].gate] = thr[u].res /\ thr[u].res # NoRef /\ thr[u].gate \in Gates
          BY DEF CallHeld, Named, InCall, OpenPoints, EnterPoints
        <5> QED
          BY <1>5, <2>2, <5>1
      <4>6. thr[u].pc = "close" => mutex'[Mine(u)] = u /\ gateObjs'[thr[u].obj].opens = 0
        BY <1>1, <2>1 DEF CallHeld
      <4> QED
        BY <3>2, <4>1, <4>2, <4>3, <4>4, <4>5, <4>6, CallFrame
    <3> QED
      BY <3>1, <3>2
  <2>6. ASSUME NEW u \in GateUsers, NEW h \in Gates PROVE HandleHeld(u, h)'
    <3>1. CASE u = t /\ h = g
      BY <1>2, <2>1, <2>2, <3>1 DEF HandleHeld, Mine
    <3>2. CASE ~(u = t /\ h = g)
      <4>1. gateHandle'[u][h] = gateHandle[u][h]
        BY <2>2, <3>2
      <4>2. CASE h # g
        <5>1. gateHandle[u][h] # NoRef => SameObj(gateHandle[u][h]) /\ gateNames'[h] = gateNames[h]
          BY <2>2, <2>4, <4>2
        <5>2. thr'[u] = thr[u] \/ thr[u].pc \notin DeletePoints
          BY <1>1, <2>3 DEF DeletePoints
        <5> QED
          BY <4>1, <5>1, <5>2, HandleFrame
      <4>3. CASE h = g /\ u # t
        <5>1. thr'[u] = thr[u]
          BY <2>3, <4>3
        <5>2. gateHandle[u][g] # NoRef =>
                /\ gateObjs[gateHandle[u][g]].live /\ gateObjs[gateHandle[u][g]].process = Mine(u)
                /\ gateObjs[gateHandle[u][g]].res \in Resources
                /\ thr[u].pc \in DeletePoints /\ thr[u].gate = g /\ thr[u].obj = gateHandle[u][g]
          BY <1>3, <1>5 DEF HandleHeld
        <5> QED
          BY <2>1, <4>1, <4>3, <5>1, <5>2 DEF HandleHeld, Mine
      <4> QED
        BY <3>2, <4>2, <4>3
    <3> QED
      BY <3>1, <3>2
  <2>7. ASSUME NEW u \in GateObjects PROVE OpenHeld(u)'
    <3>1. CASE u = o
      BY <1>2, <2>1, <3>1 DEF OpenHeld
    <3>2. CASE u # o
      <4>1. ASSUME NEW v \in GateUsers, NEW h \in Gates PROVE Uses(v, h, u)' <=> Uses(v, h, u)
        <5>1. gateHandle'[v][h] = u <=> gateHandle[v][h] = u
          BY <1>3, <2>2, <3>2
        <5>2. (thr'[v].pc = "store" /\ thr'[v].obj = u /\ thr'[v].gate = h) <=>
              (thr[v].pc = "store" /\ thr[v].obj = u /\ thr[v].gate = h)
          BY <1>1, <2>3
        <5> QED
          BY <5>1, <5>2 DEF Uses
      <4> QED
        BY <2>4, <4>1, OpenFrame
    <3> QED
      BY <3>1, <3>2
  <2>8. ASSUME NEW p \in gateAlive', NEW r \in Resources PROVE EntryHeld(p, r)'
    <3>1. p \in gateAlive /\ p \in Processes /\ gateTable[p][r] \in GateObjects \cup {NoRef}
      BY <1>1 DEF GateTypes
    <3>2. Known(s)
      BY <1>1 DEF Known, s
    <3>3. Known(r)' => Known(r)
      BY <1>1, <2>2, <2>5, <3>2 DEF Known
    <3> QED
      BY <1>1, <2>4, <3>1, <3>3, EntryFrame
  <2>9. NamesApart'
    BY <1>1, <1>2, <2>2 DEF NamesApart
  <2>10. CallsApart'
    <3>1. \A u \in GateUsers : Sole(u)' => Sole(u) /\ thr'[u].res = thr[u].res
      BY <2>5
    <3>2. \A u \in GateUsers : thr'[u].pc = "getFree" => thr[u].pc = "getFree" /\ thr'[u].obj = thr[u].obj
      BY <2>3
    <3> QED
      BY <3>1, <3>2, ApartFrame
  <2>11. CreatedHeld'
    BY <1>1, <2>1 DEF CreatedHeld, CreatedGates
  <2> QED
    BY <2>5, <2>6, <2>7, <2>8, <2>9, <2>10, <2>11, RegistryIs
<1> QED
  BY <1>4, <1>5

\* GateMP_delete takes the name back.
LEMMA DeleteCallKeeps ==
  ASSUME GateTypes, Registry, NEW t \in GateUsers, NEW g \in Gates, DeleteCall(t, g)
  PROVE  Registry'
<1> USE GatesConstants, FieldTypes, RegistryParts
<1> DEFINE o == gateHandle[t][g]
           s == gateObjs[o].res
<1>1. /\ thr[t].pc = "idle" /\ o # NoRef /\ ~gateObjs[o].opened /\ Unused(t, g)
      /\ gateNames' = [gateNames EXCEPT ![g] = NoRef]
      /\ thr' = [thr EXCEPT ![t] = [pc |-> "clear", gate |-> g, obj |-> o, res |-> s]]
      /\ UNCHANGED <<inUse, gateAlive, gateTable, gateObjs, mutex, gateHandle>>
  BY DEF DeleteCall, UserAt, processVars
<1>2. /\ o \in GateObjects /\ gateObjs[o].live /\ gateObjs[o].process = Mine(t) /\ s \in Resources
      /\ gateNames[g] = s
  BY <1>1 DEF HandleHeld, DeletePoints
<1>3. s \in inUse /\ \A h \in Gates \ {g} : gateNames[h] # s
  BY <1>2 DEF NamesApart
<1>4. \A u \in GateUsers \ {t} : gateHandle[u][g] = NoRef /\ thr[u].gate # g
  BY <1>1 DEF Unused
<1> HIDE DEF o, s
<1>5. /\ thr'[t].pc = "clear" /\ thr'[t].gate = g /\ thr'[t].obj = o /\ thr'[t].res = s
      /\ \A u \in GateUsers \ {t} : thr'[u] = thr[u]
      /\ gateNames'[g] = NoRef /\ \A h \in Gates \ {g} : gateNames'[h] = gateNames[h]
  BY <1>1 DEF GateTypes
<1>6. \A u \in GateObjects : SameObj(u) /\ gateObjs'[u].opens = gateObjs[u].opens
  BY <1>1 DEF SameObj
<1>7. CallHeld(t)' /\ thr'[t].pc # "getFree" /\ ~Sole(t)
  <2>1. (/\ OwnsObj(t) /\ thr[t].res \in inUse /\ ~gateObjs[thr[t].obj].opened
         /\ \A h \in Gates : gateNames[h] # thr[t].res)'
    <3>1. OwnsObj(t)' /\ ~gateObjs'[thr'[t].obj].opened
      BY <1>1, <1>2, <1>5 DEF OwnsObj, Mine, s
    <3>2. thr'[t].res \in inUse' /\ \A h \in Gates : gateNames'[h] # thr'[t].res
      BY <1>1, <1>2, <1>3, <1>5
    <3> QED
      BY <3>1, <3>2
  <2>2. gateHandle'[t][thr'[t].gate] = thr'[t].obj
    BY <1>1, <1>5 DEF o
  <2> QED
    BY <1>1, <1>2, <1>5, <2>1, <2>2 DEF CallHeld, CreatePoints, Named, OpenPoints, Sole
<1>8. ASSUME NEW u \in GateUsers, u # t PROVE CallHeld(u)' /\ (Sole(u)' <=> Sole(u))
  <2>1. CallHeld(u) /\ thr'[u] = thr[u] /\ gateHandle'[u] = gateHandle[u]
    BY <1>1, <1>5, <1>8
  <2>2. thr[u].pc \in Holding \/ thr[u].pc = "count" => SameObj(thr[u].obj)
    BY <1>6 DEF CallHeld, Holding, InCall, EnterPoints
  <2>3. Sole(u) => thr[u].res \in inUse' /\ \A h \in Gates : gateNames'[h] # thr[u].res
    <3>1. Sole(u) => thr[u].res \in inUse /\ thr[u].res \in Resources /\ \A h \in Gates : gateNames[h] # thr[u].res
      BY DEF CallHeld, GateTypes
    <3> QED
      BY <1>1, <1>5, <3>1
  <2>4. thr[u].pc = "release" => gateTable'[Mine(u)][thr[u].res] = NoRef
    BY <1>1 DEF CallHeld
  <2>5. Named(u) => gateNames'[thr[u].gate] = thr[u].res
    <3>1. Named(u) => gateNames[thr[u].gate] = thr[u].res /\ thr[u].gate \in Gates
      BY DEF CallHeld, Named, InCall, OpenPoints, EnterPoints
    <3> QED
      BY <1>4, <1>5, <1>8, <3>1
  <2>6. thr[u].pc = "close" => mutex'[Mine(u)] = u /\ gateObjs'[thr[u].obj].opens = 0
    BY <1>1 DEF CallHeld
  <2> QED
    BY <2>1, <2>2, <2>3, <2>4, <2>5, <2>6, CallFrame
<1>9. ASSUME NEW u \in GateUsers, NEW h \in Gates PROVE HandleHeld(u, h)'
  <2>1. CASE h # g
    <3>1. gateHandle[u][h] # NoRef => SameObj(gateHandle[u][h]) /\ gateNames'[h] = gateNames[h]
      BY <1>5, <1>6, <2>1
    <3>2. thr'[u] = thr[u] \/ thr[u].pc \notin DeletePoints
      BY <1>1, <1>5 DEF DeletePoints
    <3> QED
      BY <1>1, <3>1, <3>2, HandleFrame
  <2>2. CASE h = g /\ u # t
    BY <1>1, <1>4, <2>2 DEF HandleHeld
  <2>3. CASE h = g /\ u = t
    <3>1. thr'[t].pc \in DeletePoints /\ thr'[t].gate = g /\ thr'[t].obj = gateHandle'[t][g]
      BY <1>1, <1>5 DEF o, DeletePoints
    <3> QED
      BY <1>1, <1>2, <2>3, <3>1 DEF HandleHeld, Mine, o, s
  <2> QED
    BY <2>1, <2>2, <2>3
<1>10. ASSUME NEW u \in GateObjects PROVE OpenHeld(u)'
  <2>1. \A v \in GateUsers, h \in Gates : Uses(v, h, u)' <=> Uses(v, h, u)
    BY <1>1, <1>5 DEF Uses
  <2> QED
    BY <1>6, <2>1, OpenFrame
<1>11. ASSUME NEW p \in gateAlive', NEW r \in Resources PROVE EntryHeld(p, r)'
  <2>1. p \in gateAlive /\ p \in Processes /\ gateTable[p][r] \in GateObjects \cup {NoRef}
    BY <1>1 DEF GateTypes
  <2>2. Known(s)
    BY <1>2 DEF Known
  <2>3. \A u \in GateUsers : Sole(u)' => (Sole(u) /\ thr'[u].res = thr[u].res) \/ thr'[u].res = s
    BY <1>5, <1>8
  <2>4. \A h \in Gates : gateNames'[h] = r => gateNames[h] = r
    BY <1>5
  <2>5. Known(r)' => Known(r)
    BY <1>1, <2>2, <2>3, <2>4 DEF Known
  <2> QED
    BY <1>1, <1>6, <2>1, <2>5, EntryFrame
<1>12. NamesApart'
  BY <1>1, <1>5 DEF NamesApart
<1>13. CallsApart'
  <2>1. \A u \in GateUsers : Sole(u) => thr[u].res # s
    BY <1>2 DEF CallHeld
  <2>2. ASSUME NEW u \in GateUsers, NEW v \in GateUsers, (Sole(u) /\ Sole(v) /\ thr[u].res = thr[v].res)'
        PROVE  u = v
    BY <1>5, <1>8, <2>1, <2>2 DEF CallsApart
  <2>3. ASSUME NEW u \in GateUsers, NEW v \in GateUsers, thr'[u].pc = "getFree", thr'[v].pc = "getFree",
               thr'[u].obj = thr'[v].obj
        PROVE  u = v
    BY <1>5, <2>3 DEF CallsApart
  <2> QED
    BY <2>2, <2>3 DEF CallsApart
<1>14. CreatedHeld'
  BY <1>1 DEF CreatedHeld, CreatedGates
<1> QED
  BY <1>7, <1>8, <1>9, <1>10, <1>11, <1>12, <1>13, <1>14, RegistryIs

\* The table's entry is cleared.
LEMMA DeleteClearsKeeps ==
  ASSUME GateTypes, Registry, NEW t \in GateUsers, DeleteClears(t)
  PROVE  Registry'
<1> USE GatesConstants, FieldTypes, RegistryParts
<1> DEFINE s == thr[t].res
<1>1. /\ thr[t].pc = "clear" /\ Sole(t) /\ UserGoto(t, "release")
      /\ gateTable' = [gateTable EXCEPT ![Mine(t)][s] = NoRef]
      /\ UNCHANGED <<inUse, gateNames, gateAlive, gateObjs, mutex, gateHandle>>
  BY DEF DeleteClears, UserAt, Sole, gateLadVars
<1>2. /\ thr'[t].pc = "release" /\ thr'[t].gate = thr[t].gate /\ thr'[t].obj = thr[t].obj /\ thr'[t].res = s
      /\ \A u \in GateUsers \ {t} : thr'[u] = thr[u]
  BY <1>1, UserGoes DEF DeletePoints
<1>3. s \in Resources
  BY <1>1, SoleObject
<1> HIDE DEF s
<1>4. /\ gateTable'[Mine(t)][s] = NoRef
      /\ \A p \in Processes, r \in Resources : p # Mine(t) \/ r # s => gateTable'[p][r] = gateTable[p][r]
  BY <1>1, <1>3 DEF GateTypes
<1>5. \A u \in GateObjects : SameObj(u) /\ gateObjs'[u].opens = gateObjs[u].opens
  BY <1>1 DEF SameObj
<1>6. \A u \in GateUsers : (Sole(u)' <=> Sole(u)) /\ thr'[u].res = thr[u].res
  BY <1>1, <1>2 DEF Sole, s
<1>7. ASSUME NEW u \in GateUsers PROVE CallHeld(u)'
  <2>1. CASE u = t
    <3>1. /\ OwnsObj(t) /\ thr[t].res \in inUse /\ ~gateObjs[thr[t].obj].opened
          /\ \A g \in Gates : gateNames[g] # thr[t].res
      BY <1>1 DEF CallHeld
    <3>2. gateHandle[t][thr[t].gate] = thr[t].obj /\ thr[t].gate \in Gates /\ thr[t].obj \in GateObjects
      BY <1>1 DEF CallHeld, DeletePoints, InCall, EnterPoints
    <3>3. (/\ OwnsObj(t) /\ thr[t].res \in inUse /\ ~gateObjs[thr[t].obj].opened
           /\ \A g \in Gates : gateNames[g] # thr[t].res)'
      BY <1>1, <1>2, <3>1 DEF OwnsObj, Mine, s
    <3>4. gateTable'[Mine(t)][thr'[t].res] = NoRef
      BY <1>2, <1>4
    <3> QED
      BY <1>1, <1>2, <2>1, <3>2, <3>3, <3>4 DEF CallHeld, CreatePoints, Named, OpenPoints, Mine
  <2>2. CASE u # t
    <3>1. CallHeld(u) /\ thr'[u] = thr[u] /\ gateHandle'[u] = gateHandle[u]
      BY <1>1, <1>2, <2>2
    <3>2. thr[u].pc \in Holding \/ thr[u].pc = "count" => SameObj(thr[u].obj)
      BY <1>5 DEF CallHeld, Holding, InCall, EnterPoints
    <3>3. Sole(u) => thr[u].res \in inUse' /\ \A h \in Gates : gateNames'[h] # thr[u].res
      BY <1>1 DEF CallHeld
    <3>4. thr[u].pc = "release" => gateTable'[Mine(u)][thr[u].res] = NoRef
      <4>1. thr[u].pc = "release" => thr[u].res \in Resources /\ gateTable[Mine(u)][thr[u].res] = NoRef
        BY DEF CallHeld, Sole, GateTypes
      <4>2. Mine(u) \in Processes
        BY GatesConstants
      <4> HIDE GatesConstants, FieldTypes, RegistryParts
      <4> QED
        BY <1>4, <4>1, <4>2
    <3>5. Named(u) => gateNames'[thr[u].gate] = thr[u].res
      BY <1>1 DEF CallHeld
    <3>6. thr[u].pc = "close" => mutex'[Mine(u)] = u /\ gateObjs'[thr[u].obj].opens = 0
      BY <1>1 DEF CallHeld
    <3> QED
      BY <3>1, <3>2, <3>3, <3>4, <3>5, <3>6, CallFrame
  <2> QED
    BY <2>1, <2>2
<1>8. ASSUME NEW u \in GateUsers, NEW h \in Gates PROVE HandleHeld(u, h)'
  BY <1>1, <1>2 DEF HandleHeld, DeletePoints, Mine
<1>9. ASSUME NEW u \in GateObjects PROVE OpenHeld(u)'
  <2>1. \A v \in GateUsers, h \in Gates : Uses(v, h, u)' <=> Uses(v, h, u)
    BY <1>1, <1>2 DEF Uses
  <2> QED
    BY <1>5, <2>1, OpenFrame
<1>10. ASSUME NEW p \in gateAlive', NEW r \in Resources PROVE EntryHeld(p, r)'
  <2>1. p \in gateAlive /\ p \in Processes /\ gateTable[p][r] \in GateObjects \cup {NoRef}
    BY <1>1 DEF GateTypes
  <2>2. Known(r)' => Known(r)
    BY <1>1, <1>6 DEF Known
  <2>3. CASE p = Mine(t) /\ r = s
    BY <1>4, <2>3 DEF EntryHeld
  <2>4. CASE ~(p = Mine(t) /\ r = s)
    BY <1>4, <1>5, <2>1, <2>2, <2>4, EntryFrame
  <2> QED
    BY <2>3, <2>4
<1>11. NamesApart'
  BY <1>1 DEF NamesApart
<1>12. CallsApart'
  BY <1>1, <1>2, <1>6, ApartFrame
<1>13. CreatedHeld'
  BY <1>1 DEF CreatedHeld, CreatedGates
<1> QED
  BY <1>7, <1>8, <1>9, <1>10, <1>11, <1>12, <1>13, RegistryIs

\* LAD takes the resource back and the object is freed.
LEMMA ReleaseKeeps ==
  ASSUME GateTypes, Registry, NEW t \in GateUsers, ReleaseResource(t)
  PROVE  Registry'
<1> USE GatesConstants, FieldTypes, RegistryParts
<1> DEFINE o == thr[t].obj
           g == thr[t].gate
           s == thr[t].res
<1>1. /\ thr[t].pc = "release" /\ Sole(t) /\ UserReturns(t) /\ inUse' = inUse \ {s}
      /\ gateObjs' = [gateObjs EXCEPT ![o] = NoGateObj] /\ gateHandle' = [gateHandle EXCEPT ![t][g] = NoRef]
      /\ gateNames' = gateNames /\ gateAlive' = gateAlive /\ gateTable' = gateTable /\ mutex' = mutex
  BY DEF ReleaseResource, UserAt, Sole
<1>2. /\ o \in GateObjects /\ gateObjs[o].live /\ gateObjs[o].process = Mine(t) /\ gateObjs[o].res = s
      /\ ~gateObjs[o].opened /\ s \in Resources /\ s \in inUse
      /\ \A h \in Gates : gateNames[h] # s
      /\ \A u \in GateUsers \ {t} :
           /\ Sole(u) => thr[u].res # s
           /\ thr[u].pc \in Holding \cup {"count"} => thr[u].obj # o
      /\ \A u \in GateUsers, h \in Gates : gateHandle[u][h] = o => u = t /\ h = g
  BY <1>1, SoleObject
<1>3. gateHandle[t][g] = o /\ g \in Gates /\ gateTable[Mine(t)][s] = NoRef
  BY <1>1 DEF CallHeld, DeletePoints, InCall, EnterPoints
<1> HIDE DEF o, g, s
<1>4. \A u \in GateUsers \ {t} :
        /\ thr[u].pc \in Holding => thr[u].obj # o
        /\ gateHandle'[u] = gateHandle[u]
        /\ Sole(u) => thr[u].res \in inUse'
        /\ thr[u].pc = "close" => mutex'[Mine(u)] = u
  BY <1>1, <1>2 DEF CallHeld, GateTypes
<1>5. \A u \in GateUsers, h \in Gates :
        IF gateHandle[u][h] = o THEN gateHandle'[u][h] = NoRef ELSE gateHandle'[u][h] = gateHandle[u][h]
  BY <1>1, <1>2, <1>3 DEF GateTypes
<1>6. \A h \in Gates : gateNames[h] # NoRef => gateNames[h] \in inUse'
  BY <1>1, <1>2 DEF NamesApart
<1>7. \A u \in CreatedGates \ {o} : gateObjs[u].res \in inUse'
  <2>1. o \in CreatedGates
    BY <1>2 DEF CreatedGates
  <2> QED
    BY <1>1, <1>2, <2>1 DEF CreatedHeld
<1>8. ASSUME NEW u \in GateUsers, Sole(u)' PROVE u # t /\ Sole(u) /\ thr'[u].res = thr[u].res
  <2>1. u # t /\ thr'[u] = thr[u]
    BY <1>1, <1>8, UserIdles, CallIdle
  <2>2. thr[u].pc = "store" => gateObjs'[thr[u].obj] = gateObjs[thr[u].obj]
    BY <1>1, <1>2, <2>1 DEF GateTypes, Holding, CallHeld
  <2> QED
    BY <1>8, <2>1, <2>2 DEF Sole
<1>9. ASSUME NEW p \in gateAlive, NEW r \in Resources, Known(r)', gateTable'[p][r] # NoRef
      PROVE  Known(r) /\ gateTable'[p][r] # o
  <2>1. Known(s)
    BY <1>1 DEF Known, s
  <2>2. Known(r)
    BY <1>1, <1>8, <1>9, <2>1 DEF Known
  <2>3. gateTable[p][r] # o
    <3>1. gateObjs[gateTable[p][r]].process = p /\ gateObjs[gateTable[p][r]].res = r
      BY <1>1, <1>9, <2>2 DEF EntryHeld
    <3> QED
      BY <1>1, <1>2, <1>3, <1>9, <3>1
  <2> QED
    BY <1>1, <2>2, <2>3
<1>10. \A p \in gateAlive, r \in Resources : Known(r)' /\ gateTable'[p][r] # NoRef => Known(r) /\ gateTable'[p][r] # o
  BY <1>9
<1>11. \A p \in Processes, r \in Resources : gateTable'[p][r] \in {gateTable[p][r], NoRef}
  BY <1>1
<1>12. thr[t].obj = o /\ thr[t].pc # "store" /\ o \in GateObjects /\ gateHandle'[t][thr[t].gate] = NoRef
  BY <1>1, <1>2, <1>3, <1>5 DEF o, g
<1>13. /\ gateObjs' = [gateObjs EXCEPT ![o] = NoGateObj] /\ UserReturns(t)
       /\ gateNames' = gateNames /\ gateAlive' = gateAlive
  BY <1>1
<1> HIDE GatesConstants, FieldTypes, RegistryParts
<1> QED
  BY <1>4, <1>5, <1>6, <1>7, <1>10, <1>11, <1>12, <1>13, FreedKeeps

\* GateMP_open asks for the name, and looks the resource up.
LEMMA OpenCallKeeps ==
  ASSUME GateTypes, Registry, NEW t \in GateUsers, NEW g \in Gates, OpenCall(t, g)
  PROVE  Registry'
<1> USE GatesConstants, FieldTypes, RegistryParts
<1>1. /\ thr[t].pc = "idle" /\ gateHandle[t][g] = NoRef /\ gateNames[g] # NoRef
      /\ thr' = [thr EXCEPT ![t] = [pc |-> "look", gate |-> g, obj |-> NoRef, res |-> gateNames[g]]]
      /\ UNCHANGED <<inUse, gateNames, gateAlive, gateTable, gateObjs, mutex, gateHandle>>
  BY DEF OpenCall, MayCall, UserAt, gateLadVars, processVars
<1>2. /\ thr'[t].pc = "look" /\ thr'[t].gate = g /\ thr'[t].res = gateNames[g]
      /\ \A u \in GateUsers \ {t} : thr'[u] = thr[u]
  BY <1>1 DEF GateTypes
<1>3. \A u \in GateObjects : SameObj(u) /\ gateObjs'[u].opens = gateObjs[u].opens
  BY <1>1 DEF SameObj
<1>4. \A u \in GateUsers : (Sole(u)' <=> Sole(u)) /\ (Sole(u) => thr'[u].res = thr[u].res)
  BY <1>1, <1>2 DEF Sole
<1>5. ASSUME NEW u \in GateUsers PROVE CallHeld(u)'
  <2>1. CASE u = t
    BY <1>1, <1>2, <2>1 DEF CallHeld, CreatePoints, DeletePoints, OpenPoints, EnterPoints, InCall, Sole, Named
  <2>2. CASE u # t
    BY <1>1, <1>2, <2>2 DEF CallHeld, InCall, Sole, Named, OwnsObj, Mine
  <2> QED
    BY <2>1, <2>2
<1>6. ASSUME NEW u \in GateUsers, NEW h \in Gates PROVE HandleHeld(u, h)'
  BY <1>1, <1>2 DEF HandleHeld, DeletePoints, Mine
<1>7. ASSUME NEW u \in GateObjects PROVE OpenHeld(u)'
  <2>1. \A v \in GateUsers, h \in Gates : Uses(v, h, u)' <=> Uses(v, h, u)
    BY <1>1, <1>2 DEF Uses
  <2> QED
    BY <1>3, <2>1, OpenFrame
<1>8. ASSUME NEW p \in gateAlive', NEW r \in Resources PROVE EntryHeld(p, r)'
  <2>1. p \in gateAlive /\ p \in Processes /\ gateTable[p][r] \in GateObjects \cup {NoRef}
    BY <1>1 DEF GateTypes
  <2>2. Known(r)' => Known(r)
    BY <1>1, <1>4 DEF Known
  <2> QED
    BY <1>1, <1>3, <2>1, <2>2, EntryFrame
<1>9. NamesApart'
  BY <1>1 DEF NamesApart
<1>10. CallsApart'
  BY <1>2, <1>4, ApartFrame
<1>11. CreatedHeld'
  BY <1>1 DEF CreatedHeld, CreatedGates
<1> QED
  BY <1>5, <1>6, <1>7, <1>8, <1>9, <1>10, <1>11, RegistryIs

\* An object that open makes.
LEMMA OpenedObjType ==
  ASSUME NEW r \in Resources
  PROVE  LET f == [NoGateObj EXCEPT !.res = r, !.opened = TRUE, !.opens = 1]
         IN f \in GateObjStates /\ f.res = r /\ f.opened = TRUE /\ f.opens = 1 /\ f.nested = 0
<1> DEFINE f == [NoGateObj EXCEPT !.res = r, !.opened = TRUE, !.opens = 1]
<1>1. f \in [live : BOOLEAN, process : {NoOne}, res : {r}, opened : {TRUE}, opens : {1}, nested : {0}]
  BY DEF NoGateObj
<1> HIDE DEF f
<1>2. f.res = r /\ f.opened = TRUE /\ f.opens = 1 /\ f.nested = 0
  BY <1>1
<1>4. 1 \in Nat /\ 0 \in Int /\ TRUE \in BOOLEAN /\ FALSE \in BOOLEAN
  OBVIOUS
<1>5. f \in [live : BOOLEAN, process : Processes \cup {NoOne}, res : Resources \cup {NoRef}, opened : BOOLEAN,
             opens : {1}, nested : {0}]
  BY <1>1, <1>4
<1>3. f \in GateObjStates
  BY <1>4, <1>5 DEF GateObjStates
<1> QED
  BY <1>2, <1>3 DEF f

\* The table has an object, or one is made that has one opener.
LEMMA OpenLooksKeeps ==
  ASSUME GateTypes, Registry, NEW t \in GateUsers, OpenLooks(t)
  PROVE  Registry'
<1> USE GatesConstants, FieldTypes, RegistryParts
<1> DEFINE s == thr[t].res
           g == thr[t].gate
<1>1. /\ thr[t].pc = "look" /\ Mine(t) \in gateAlive
      /\ UNCHANGED <<inUse, gateNames, gateAlive, gateTable, mutex, gateHandle>>
  BY DEF OpenLooks, UserAt, gateLadVars
<1>2. g \in Gates /\ gateHandle[t][g] = NoRef /\ gateNames[g] = s /\ s # NoRef /\ s \in Resources
  <2>1. InCall(t) /\ Named(t)
    BY <1>1 DEF InCall, Named, EnterPoints, OpenPoints
  <2> QED
    BY <1>1, <2>1 DEF CallHeld
<1>3. CASE gateTable[Mine(t)][s] # NoRef
  <2> DEFINE o == gateTable[Mine(t)][s]
  <2>1. thr' = [thr EXCEPT ![t].pc = "count", ![t].obj = o] /\ gateObjs' = gateObjs
    BY <1>3 DEF OpenLooks
  <2>2. Known(s)
    BY <1>2 DEF Known
  <2>3. gateObjs[o].live /\ gateObjs[o].process = Mine(t) /\ gateObjs[o].res = s
    <3>1. EntryHeld(Mine(t), s)
      BY <1>1, <1>2
    <3> QED
      BY <1>3, <2>2, <3>1 DEF EntryHeld
  <2>4. o \in GateObjects
    <3>1. gateTable \in [Processes -> [Resources -> GateObjects \cup {NoRef}]] /\ Mine(t) \in Processes
      BY DEF GateTypes
    <3>2. gateTable[Mine(t)] \in [Resources -> GateObjects \cup {NoRef}]
      BY <3>1, Zenon
    <3> QED
      BY <1>2, <1>3, <3>2
  <2> HIDE DEF o, s, g
  <2>5. /\ thr'[t].pc = "count" /\ thr'[t].gate = g /\ thr'[t].obj = o /\ thr'[t].res = s
        /\ \A u \in GateUsers \ {t} : thr'[u] = thr[u]
    BY <2>1 DEF GateTypes, UserStates, g, s
  <2>6. \A u \in GateObjects : SameObj(u) /\ gateObjs'[u].opens = gateObjs[u].opens
    BY <2>1 DEF SameObj
  <2>7. \A u \in GateUsers : (Sole(u)' <=> Sole(u)) /\ thr'[u].res = thr[u].res
    BY <1>1, <2>1, <2>5 DEF Sole, s
  <2>8. ASSUME NEW u \in GateUsers PROVE CallHeld(u)'
    <3>1. CASE u = t
      <4>1. (OwnsObj(t) /\ gateNames[thr[t].gate] = thr[t].res /\ thr[t].res # NoRef)'
        BY <1>1, <1>2, <2>1, <2>3, <2>5 DEF OwnsObj, Mine
      <4>2. (gateHandle[t][thr[t].gate] = NoRef /\ thr[t].gate \in Gates /\ thr[t].obj \in GateObjects)'
        BY <1>1, <1>2, <2>4, <2>5
      <4> QED
        BY <2>5, <3>1, <4>1, <4>2 DEF CallHeld, DeletePoints, Sole
    <3>2. CASE u # t
      <4>1. CallHeld(u) /\ thr'[u] = thr[u] /\ gateHandle'[u] = gateHandle[u]
        BY <1>1, <2>5, <3>2
      <4>2. thr[u].pc \in Holding \/ thr[u].pc = "count" => SameObj(thr[u].obj)
        BY <2>6 DEF CallHeld, Holding, InCall, EnterPoints
      <4>3. Sole(u) => thr[u].res \in inUse' /\ \A h \in Gates : gateNames'[h] # thr[u].res
        BY <1>1 DEF CallHeld
      <4>4. thr[u].pc = "release" => gateTable'[Mine(u)][thr[u].res] = NoRef
        BY <1>1 DEF CallHeld
      <4>5. Named(u) => gateNames'[thr[u].gate] = thr[u].res
        BY <1>1 DEF CallHeld
      <4>6. thr[u].pc = "close" => mutex'[Mine(u)] = u /\ gateObjs'[thr[u].obj].opens = 0
        BY <1>1, <2>1 DEF CallHeld
      <4> QED
        BY <4>1, <4>2, <4>3, <4>4, <4>5, <4>6, CallFrame
    <3> QED
      BY <3>1, <3>2
  <2>9. ASSUME NEW u \in GateUsers, NEW h \in Gates PROVE HandleHeld(u, h)'
    <3>1. gateHandle[u][h] # NoRef => SameObj(gateHandle[u][h])
      BY <2>6
    <3>2. thr'[u] = thr[u] \/ thr[u].pc \notin DeletePoints
      BY <1>1, <2>5 DEF DeletePoints
    <3> QED
      BY <1>1, <3>1, <3>2, HandleFrame
  <2>10. ASSUME NEW u \in GateObjects PROVE OpenHeld(u)'
    <3>1. \A v \in GateUsers, h \in Gates : Uses(v, h, u)' <=> Uses(v, h, u)
      BY <1>1, <2>5 DEF Uses
    <3> QED
      BY <2>6, <3>1, OpenFrame
  <2>11. ASSUME NEW p \in gateAlive', NEW r \in Resources PROVE EntryHeld(p, r)'
    <3>1. p \in gateAlive /\ p \in Processes /\ gateTable[p][r] \in GateObjects \cup {NoRef}
      BY <1>1 DEF GateTypes
    <3>2. Known(r)' => Known(r)
      BY <1>1, <2>7 DEF Known
    <3> QED
      BY <1>1, <2>6, <3>1, <3>2, EntryFrame
  <2>12. NamesApart'
    BY <1>1 DEF NamesApart
  <2>13. CallsApart'
    BY <2>5, <2>7, ApartFrame
  <2>14. CreatedHeld'
    BY <1>1, <2>1 DEF CreatedHeld, CreatedGates
  <2> QED
    BY <2>8, <2>9, <2>10, <2>11, <2>12, <2>13, <2>14, RegistryIs
<1>4. CASE gateTable[Mine(t)][s] = NoRef
  <2> DEFINE f == [NoGateObj EXCEPT !.res = s, !.opened = TRUE, !.opens = 1]
  <2>14. FreeObjects # {} /\ Calloc(t, f)
    BY <1>4 DEF OpenLooks
  <2>15. PICK o \in GateObjects : o = Min(FreeObjects)
    BY <2>14, FreshObject
  <2>1. thr' = [thr EXCEPT ![t].pc = "store", ![t].obj = o]
    BY <1>4, <2>15 DEF OpenLooks
  <2>2. f \in GateObjStates /\ f.res = s /\ f.opened = TRUE /\ f.opens = 1
    BY <1>2, OpenedObjType
  <2>3. /\ o \in GateObjects /\ ~gateObjs[o].live /\ gateObjs'[o].live /\ gateObjs'[o].process = Mine(t)
        /\ gateObjs'[o].res = s /\ gateObjs'[o].opened /\ gateObjs'[o].opens = 1
        /\ \A u \in GateUsers : thr[u].obj # o /\ \A h \in Gates : gateHandle[u][h] # o
        /\ \A u \in GateObjects \ {o} : gateObjs'[u] = gateObjs[u]
    <3> HIDE DEF f
    <3> QED
      BY <2>2, <2>14, <2>15, CallocIs
  <2> HIDE DEF s, g
  <2>4. /\ thr'[t].pc = "store" /\ thr'[t].gate = g /\ thr'[t].obj = o /\ thr'[t].res = s
        /\ \A u \in GateUsers \ {t} : thr'[u] = thr[u]
    BY <2>1 DEF GateTypes, UserStates, g, s
  <2>5. \A u \in GateObjects \ {o} : SameObj(u) /\ gateObjs'[u].opens = gateObjs[u].opens
    BY <2>3 DEF SameObj
  <2>6. CallHeld(t)' /\ ~Sole(t)' /\ ~Sole(t)
    <3>1. (OwnsObj(t) /\ gateNames[thr[t].gate] = thr[t].res /\ thr[t].res # NoRef)'
      BY <1>1, <1>2, <2>3, <2>4 DEF OwnsObj, Mine
    <3>2. (gateHandle[t][thr[t].gate] = NoRef /\ thr[t].gate \in Gates /\ thr[t].obj \in GateObjects)'
      BY <1>1, <1>2, <2>3, <2>4
    <3>3. ~Sole(t)' /\ ~Sole(t)
      BY <1>1, <2>3, <2>4 DEF Sole
    <3> QED
      BY <2>4, <3>1, <3>2, <3>3 DEF CallHeld, DeletePoints
  <2>7. ASSUME NEW u \in GateUsers, u # t PROVE CallHeld(u)' /\ (Sole(u)' <=> Sole(u))
    <3>1. CallHeld(u) /\ thr'[u] = thr[u] /\ gateHandle'[u] = gateHandle[u]
      BY <1>1, <2>4, <2>7
    <3>2. thr[u].pc \in Holding \/ thr[u].pc = "count" => SameObj(thr[u].obj) /\ thr[u].obj \in GateObjects \ {o}
      BY <2>3, <2>5, <2>7 DEF CallHeld, Holding, InCall, EnterPoints
    <3>3. Sole(u) => thr[u].res \in inUse' /\ \A h \in Gates : gateNames'[h] # thr[u].res
      BY <1>1 DEF CallHeld
    <3>4. thr[u].pc = "release" => gateTable'[Mine(u)][thr[u].res] = NoRef
      BY <1>1 DEF CallHeld
    <3>5. Named(u) => gateNames'[thr[u].gate] = thr[u].res
      BY <1>1 DEF CallHeld
    <3>6. thr[u].pc = "close" => mutex'[Mine(u)] = u /\ gateObjs'[thr[u].obj].opens = 0
      BY <1>1, <2>5, <3>2 DEF CallHeld, Holding
    <3> QED
      BY <3>1, <3>2, <3>3, <3>4, <3>5, <3>6, CallFrame
  <2>8. ASSUME NEW u \in GateUsers, NEW h \in Gates PROVE HandleHeld(u, h)'
    <3>1. gateHandle[u][h] # NoRef => SameObj(gateHandle[u][h])
      BY ZenonT(60), <2>3, <2>5
    <3>2. thr'[u] = thr[u] \/ thr[u].pc \notin DeletePoints
      BY <1>1, <2>4 DEF DeletePoints
    <3> QED
      BY <1>1, <3>1, <3>2, HandleFrame
  <2>9. ASSUME NEW u \in GateObjects PROVE OpenHeld(u)'
    <3>1. CASE u = o
      <4>1. \A v \in GateUsers, h \in Gates : Uses(v, h, o)' <=> v = t /\ h = g
        BY <1>1, <2>3, <2>4 DEF Uses
      <4>2. UsersOf(o)' = {<<t, g>>}
        BY <1>2, <4>1 DEF UsersOf
      <4>4. IsFiniteSet({<<t, g>>}) /\ Cardinality({<<t, g>>}) = 1
        BY FS_Singleton, Zenon
      <4>3. IsFiniteSet(UsersOf(o)') /\ Cardinality(UsersOf(o)') = 1
        BY <4>2, <4>4, Zenon
      <4> QED
        BY <1>2, <2>3, <3>1, <4>3 DEF OpenHeld
    <3>2. CASE u # o
      <4>1. \A v \in GateUsers, h \in Gates : Uses(v, h, u)' <=> Uses(v, h, u)
        BY <1>1, <2>4, <3>2 DEF Uses
      <4> QED
        BY <2>5, <3>2, <4>1, OpenFrame
    <3> QED
      BY <3>1, <3>2
  <2>10. ASSUME NEW p \in gateAlive', NEW r \in Resources PROVE EntryHeld(p, r)'
    <3>1. p \in gateAlive /\ p \in Processes /\ gateTable[p][r] \in GateObjects \cup {NoRef}
      BY <1>1 DEF GateTypes
    <3>2. Known(r)' => Known(r)
      BY <1>1, <2>4, <2>6, <2>7 DEF Known
    <3>3. Known(r) /\ gateTable[p][r] # NoRef => SameObj(gateTable[p][r])
      BY <2>3, <2>5, <3>1 DEF EntryHeld
    <3> QED
      BY <1>1, <3>1, <3>2, <3>3, EntryFrame
  <2>11. NamesApart'
    BY <1>1 DEF NamesApart
  <2>12. CallsApart'
    <3>1. \A u \in GateUsers : Sole(u)' => Sole(u) /\ thr'[u].res = thr[u].res
      BY <2>4, <2>6, <2>7
    <3>2. \A u \in GateUsers : thr'[u].pc = "getFree" => thr[u].pc = "getFree" /\ thr'[u].obj = thr[u].obj
      BY <2>4
    <3> QED
      BY <3>1, <3>2, ApartFrame
  <2>13. CreatedHeld'
    <3>1. CreatedGates' \subseteq CreatedGates /\ o \notin CreatedGates'
      BY <2>3 DEF CreatedGates
    <3>2. \A u \in CreatedGates' : gateObjs'[u].res = gateObjs[u].res /\ gateObjs[u].res \in inUse'
      BY <1>1, <2>3, <3>1 DEF CreatedGates, CreatedHeld
    <3> QED
      BY <3>1, <3>2, CreatedFrame
  <2> QED
    BY <2>6, <2>7, <2>8, <2>9, <2>10, <2>11, <2>12, <2>13, RegistryIs
<1> QED
  BY <1>3, <1>4

\* The opener is counted.
LEMMA OpenCountsKeeps ==
  ASSUME GateTypes, Registry, NEW t \in GateUsers, OpenCounts(t)
  PROVE  Registry'
<1> USE GatesConstants, FieldTypes, RegistryParts
<1>1. /\ thr[t].pc = "count" /\ mutex[Mine(t)] = NoOne /\ gateObjs[thr[t].obj].live /\ UserReturns(t)
      /\ UNCHANGED <<inUse, gateNames, gateAlive, gateTable, mutex>>
  BY DEF OpenCounts, UserAt, gateLadVars
<1>2. PICK o \in GateObjects : o = thr[t].obj
  BY <1>1 DEF CallHeld, InCall, EnterPoints
<1>3. PICK g \in Gates : g = thr[t].gate
  BY <1>1 DEF CallHeld, InCall, EnterPoints
<1>4. /\ gateObjs[o].live /\ gateObjs[o].process = Mine(t) /\ gateObjs[o].res = thr[t].res
      /\ gateNames[g] = thr[t].res /\ thr[t].res \in Resources /\ gateHandle[t][g] = NoRef
  <2>1. Named(t) /\ OwnsObj(t)
    BY <1>1 DEF Named, CallHeld, OpenPoints
  <2> QED
    BY <1>1, <1>2, <1>3, <2>1 DEF CallHeld, OwnsObj
<1>5. /\ gateObjs' = [gateObjs EXCEPT ![o].opens = gateObjs[o].opens + 1]
      /\ gateHandle' = [gateHandle EXCEPT ![t][g] = o]
  BY <1>2, <1>3 DEF OpenCounts
<1>6. /\ gateObjs'[o].opens = gateObjs[o].opens + 1
      /\ \A u \in GateObjects : SameObj(u)
      /\ \A u \in GateObjects \ {o} : gateObjs'[u].opens = gateObjs[u].opens
  BY <1>5 DEF GateTypes, GateObjStates, SameObj
<1>7. /\ gateHandle'[t][g] = o /\ \A h \in Gates \ {g} : gateHandle'[t][h] = gateHandle[t][h]
      /\ \A u \in GateUsers \ {t} : gateHandle'[u] = gateHandle[u]
  BY <1>5 DEF GateTypes
<1>8. thr'[t].pc = "idle" /\ \A u \in GateUsers \ {t} : thr'[u] = thr[u]
  BY <1>1, UserIdles
<1>9. ASSUME NEW u \in GateUsers PROVE CallHeld(u)' /\ (Sole(u)' => Sole(u) /\ thr'[u] = thr[u])
  <2>1. CASE u = t
    BY <1>8, <2>1, CallIdle
  <2>2. CASE u # t
    <3>1. CallHeld(u) /\ thr'[u] = thr[u] /\ gateHandle'[u] = gateHandle[u]
      BY <1>7, <1>8, <2>2
    <3>2. thr[u].pc \in Holding \/ thr[u].pc = "count" => SameObj(thr[u].obj)
      BY <1>6 DEF CallHeld, Holding, InCall, EnterPoints
    <3>3. Sole(u) => thr[u].res \in inUse' /\ \A h \in Gates : gateNames'[h] # thr[u].res
      BY <1>1 DEF CallHeld
    <3>4. thr[u].pc = "release" => gateTable'[Mine(u)][thr[u].res] = NoRef
      BY <1>1 DEF CallHeld
    <3>5. Named(u) => gateNames'[thr[u].gate] = thr[u].res
      BY <1>1 DEF CallHeld
    <3>6. thr[u].pc = "close" => mutex'[Mine(u)] = u /\ gateObjs'[thr[u].obj].opens = 0
      <4> SUFFICES ASSUME thr[u].pc = "close" PROVE mutex'[Mine(u)] = u /\ gateObjs'[thr[u].obj].opens = 0
        OBVIOUS
      <4>1. /\ mutex[Mine(u)] = u /\ gateObjs[thr[u].obj].process = Mine(u) /\ thr[u].obj \in GateObjects
            /\ gateObjs[thr[u].obj].opens = 0
        BY DEF CallHeld, OwnsObj, InCall, EnterPoints
      <4>2. thr[u].obj # o
        BY <1>1, <1>4, <4>1
      <4> QED
        BY <1>1, <1>6, <4>1, <4>2
    <3> QED
      BY <3>1, <3>2, <3>3, <3>4, <3>5, <3>6, CallFrame
  <2> QED
    BY <2>1, <2>2
<1>10. ASSUME NEW u \in GateUsers, NEW h \in Gates PROVE HandleHeld(u, h)'
  <2>1. CASE u = t /\ h = g
    BY <1>1, <1>4, <1>6, <1>7, <2>1 DEF HandleHeld, Mine, SameObj
  <2>2. CASE ~(u = t /\ h = g)
    <3>1. gateHandle'[u][h] = gateHandle[u][h]
      BY <1>7, <2>2
    <3>2. gateHandle[u][h] # NoRef => SameObj(gateHandle[u][h]) /\ gateNames'[h] = gateNames[h]
      <4>1. gateHandle[u][h] \in GateObjects \cup {NoRef}
        BY FieldTypes
      <4> HIDE GatesConstants, FieldTypes, RegistryParts
      <4> QED
        BY <1>1, <1>6, <4>1
    <3>3. thr'[u] = thr[u] \/ thr[u].pc \notin DeletePoints
      BY <1>1, <1>8 DEF DeletePoints
    <3> QED
      BY <3>1, <3>2, <3>3, HandleFrame
  <2> QED
    BY <2>1, <2>2
<1>11. ASSUME NEW u \in GateObjects PROVE OpenHeld(u)'
  <2>1. CASE u # o
    <3>1. ASSUME NEW v \in GateUsers, NEW h \in Gates PROVE Uses(v, h, u)' <=> Uses(v, h, u)
      <4>1. gateHandle'[v][h] = u <=> gateHandle[v][h] = u
        BY <1>4, <1>7, <2>1
      <4>2. (thr'[v].pc = "store" /\ thr'[v].obj = u /\ thr'[v].gate = h) <=>
            (thr[v].pc = "store" /\ thr[v].obj = u /\ thr[v].gate = h)
        BY <1>1, <1>8
      <4> QED
        BY <4>1, <4>2 DEF Uses
    <3> QED
      BY <1>6, <2>1, <3>1, OpenFrame
  <2>2. CASE u = o
    <3>1. ASSUME NEW v \in GateUsers, NEW h \in Gates PROVE Uses(v, h, o)' <=> Uses(v, h, o) \/ (v = t /\ h = g)
      <4>1. gateHandle'[v][h] = o <=> gateHandle[v][h] = o \/ (v = t /\ h = g)
        BY <1>4, <1>7
      <4>2. (thr'[v].pc = "store" /\ thr'[v].obj = o /\ thr'[v].gate = h) <=>
            (thr[v].pc = "store" /\ thr[v].obj = o /\ thr[v].gate = h)
        BY <1>1, <1>8
      <4> QED
        BY <4>1, <4>2 DEF Uses
    <3>2. ~Uses(t, g, o)
      BY <1>1, <1>4 DEF Uses
    <3>3. \A v \in GateUsers, h \in Gates : Uses(v, h, o)' <=> Uses(v, h, o) \/ (v = t /\ h = g)
      BY <3>1
    <3>4. OpenHeld(o) /\ SameObj(o)
      BY <1>6
    <3> HIDE GatesConstants, FieldTypes, RegistryParts
    <3> QED
      BY <1>4, <1>6, <2>2, <3>2, <3>3, <3>4, OpenMore
  <2> QED
    BY <2>1, <2>2
<1>12. ASSUME NEW p \in gateAlive', NEW r \in Resources PROVE EntryHeld(p, r)'
  <2>1. p \in gateAlive /\ p \in Processes /\ gateTable[p][r] \in GateObjects \cup {NoRef}
    BY <1>1 DEF GateTypes
  <2>2. Known(r)' => Known(r)
    BY <1>1, <1>9 DEF Known
  <2> QED
    BY <1>1, <1>6, <2>1, <2>2, EntryFrame
<1>13. NamesApart'
  BY <1>1 DEF NamesApart
<1>14. CallsApart'
  BY <1>8, <1>9, ApartFrame
<1>15. CreatedHeld'
  <2>1. CreatedGates' = CreatedGates
    BY <1>6 DEF CreatedGates, SameObj
  <2>2. \A u \in CreatedGates' : gateObjs'[u].res = gateObjs[u].res /\ gateObjs[u].res \in inUse'
    BY <1>1, <1>6, <2>1 DEF CreatedGates, CreatedHeld, SameObj
  <2> QED
    BY <2>1, <2>2, CreatedFrame
<1> QED
  BY <1>9, <1>10, <1>11, <1>12, <1>13, <1>14, <1>15, RegistryIs

\* GateMP_close gives a handle back, and keeps the mutex if it is the last one.
LEMMA CloseKeeps ==
  ASSUME GateTypes, Registry, NEW t \in GateUsers, NEW g \in Gates, Close(t, g)
  PROVE  Registry'
<1> USE GatesConstants, FieldTypes, RegistryParts
<1>1. /\ thr[t].pc = "idle" /\ gateHandle[t][g] # NoRef /\ mutex[Mine(t)] = NoOne
      /\ UNCHANGED <<inUse, gateNames, gateAlive, gateTable>>
  BY DEF Close, UserAt, gateLadVars
<1>2. PICK o \in GateObjects : o = gateHandle[t][g]
  BY <1>1
<1>3. PICK s \in Resources : s = gateObjs[o].res
  BY <1>1, <1>2 DEF HandleHeld
<1>4. gateObjs[o].live /\ gateObjs[o].process = Mine(t) /\ gateNames[g] = s
  BY <1>1, <1>2, <1>3 DEF HandleHeld, DeletePoints
<1>5. /\ gateObjs[o].opens > 0
      /\ gateObjs' = [gateObjs EXCEPT ![o].opens = gateObjs[o].opens - 1]
      /\ gateHandle' = [gateHandle EXCEPT ![t][g] = NoRef]
  BY <1>2 DEF Close
<1>6. /\ gateObjs'[o].opens = gateObjs[o].opens - 1
      /\ \A u \in GateObjects : SameObj(u)
      /\ \A u \in GateObjects \ {o} : gateObjs'[u].opens = gateObjs[u].opens
  BY <1>5 DEF GateTypes, GateObjStates, SameObj
<1>7. /\ gateHandle'[t][g] = NoRef /\ \A h \in Gates \ {g} : gateHandle'[t][h] = gateHandle[t][h]
      /\ \A u \in GateUsers \ {t} : gateHandle'[u] = gateHandle[u]
  BY <1>5 DEF GateTypes
<1>8. /\ \A u \in GateUsers \ {t} : thr'[u] = thr[u]
      /\ \A p \in Processes \ {Mine(t)} : mutex'[p] = mutex[p]
      /\ \/ thr'[t].pc = "idle"
         \/ /\ thr'[t].pc = "close" /\ thr'[t].gate = g /\ thr'[t].obj = o /\ thr'[t].res = s
            /\ mutex'[Mine(t)] = t /\ gateObjs[o].opens = 1 /\ gateObjs[o].opened
  <2>1. CASE gateObjs[o].opens = 1 /\ gateObjs[o].opened
    <3>1. /\ thr' = [thr EXCEPT ![t] = [pc |-> "close", gate |-> g, obj |-> o, res |-> s]]
          /\ mutex' = [mutex EXCEPT ![Mine(t)] = t]
      BY <1>2, <1>3, <2>1 DEF Close
    <3>2. /\ \A u \in GateUsers \ {t} : thr'[u] = thr[u]
          /\ thr'[t].pc = "close" /\ thr'[t].gate = g /\ thr'[t].obj = o /\ thr'[t].res = s
      BY <3>1 DEF GateTypes
    <3>3. mutex'[Mine(t)] = t /\ \A p \in Processes \ {Mine(t)} : mutex'[p] = mutex[p]
      BY <3>1 DEF GateTypes
    <3> QED
      BY <2>1, <3>2, <3>3
  <2>2. CASE ~(gateObjs[o].opens = 1 /\ gateObjs[o].opened)
    <3>1. thr' = thr /\ mutex' = mutex
      BY <1>2, <2>2 DEF Close
    <3> QED
      BY <1>1, <3>1
  <2> QED
    BY <2>1, <2>2
<1>9. CallHeld(t)' /\ ~Sole(t)' /\ thr'[t].pc # "getFree"
  <2>1. CASE thr'[t].pc = "idle"
    BY <2>1, CallIdle
  <2>2. CASE thr'[t].pc # "idle"
    <3>1. /\ thr'[t].pc = "close" /\ thr'[t].gate = g /\ thr'[t].obj = o /\ thr'[t].res = s
          /\ mutex'[Mine(t)] = t /\ gateObjs[o].opens = 1 /\ gateObjs[o].opened
      BY <1>8, <2>2
    <3>2. (/\ mutex[Mine(t)] = t /\ OwnsObj(t) /\ gateObjs[thr[t].obj].opened /\ gateObjs[thr[t].obj].opens = 0)'
      <4>1. SameObj(o)
        BY <1>6
      <4>2. OwnsObj(t)'
        BY <1>3, <1>4, <3>1, <4>1 DEF OwnsObj, Mine, SameObj
      <4>3. gateObjs'[o].opened
        BY <3>1, <4>1 DEF SameObj
      <4>4. gateObjs'[o].opens = 0
        BY <1>6, <3>1
      <4>5. mutex'[Mine(t)'] = t
        BY <3>1 DEF Mine
      <4> QED
        BY <3>1, <4>2, <4>3, <4>4, <4>5
    <3>3. (gateNames[thr[t].gate] = thr[t].res /\ thr[t].res # NoRef /\ thr[t].gate \in Gates /\ thr[t].obj \in GateObjects)'
      BY <1>1, <1>4, <3>1
    <3> QED
      BY <3>1, <3>2, <3>3 DEF CallHeld, CreatePoints, DeletePoints, Sole
  <2> QED
    BY <2>1, <2>2
<1>10. ASSUME NEW u \in GateUsers, u # t PROVE CallHeld(u)' /\ (Sole(u)' <=> Sole(u))
  <2>1. CallHeld(u) /\ thr'[u] = thr[u] /\ gateHandle'[u] = gateHandle[u]
    BY <1>7, <1>8, <1>10
  <2>2. thr[u].pc \in Holding \/ thr[u].pc = "count" => SameObj(thr[u].obj)
    BY <1>6 DEF CallHeld, Holding, InCall, EnterPoints
  <2>3. Sole(u) => thr[u].res \in inUse' /\ \A h \in Gates : gateNames'[h] # thr[u].res
    BY <1>1 DEF CallHeld
  <2>4. thr[u].pc = "release" => gateTable'[Mine(u)][thr[u].res] = NoRef
    BY <1>1 DEF CallHeld
  <2>5. Named(u) => gateNames'[thr[u].gate] = thr[u].res
    BY <1>1 DEF CallHeld
  <2>6. thr[u].pc = "close" => mutex'[Mine(u)] = u /\ gateObjs'[thr[u].obj].opens = 0
    <3> SUFFICES ASSUME thr[u].pc = "close" PROVE mutex'[Mine(u)] = u /\ gateObjs'[thr[u].obj].opens = 0
      OBVIOUS
    <3>1. /\ mutex[Mine(u)] = u /\ gateObjs[thr[u].obj].process = Mine(u) /\ thr[u].obj \in GateObjects
          /\ gateObjs[thr[u].obj].opens = 0
      BY DEF CallHeld, OwnsObj, InCall, EnterPoints
    <3>2. Mine(u) # Mine(t)
      BY <1>1, <3>1
    <3>3. thr[u].obj # o
      BY <1>4, <3>1, <3>2
    <3> QED
      BY <1>6, <1>8, <3>1, <3>2, <3>3
  <2> QED
    BY <2>1, <2>2, <2>3, <2>4, <2>5, <2>6, CallFrame
<1>11. ASSUME NEW u \in GateUsers, NEW h \in Gates PROVE HandleHeld(u, h)'
  <2>1. CASE u = t /\ h = g
    BY <1>7, <2>1 DEF HandleHeld
  <2>2. CASE ~(u = t /\ h = g)
    <3>1. gateHandle'[u][h] = gateHandle[u][h]
      BY <1>7, <2>2
    <3>2. gateHandle[u][h] # NoRef => SameObj(gateHandle[u][h]) /\ gateNames'[h] = gateNames[h]
      BY <1>1, <1>6
    <3>3. thr'[u] = thr[u] \/ thr[u].pc \notin DeletePoints
      BY <1>1, <1>8 DEF DeletePoints
    <3> QED
      BY <3>1, <3>2, <3>3, HandleFrame
  <2> QED
    BY <2>1, <2>2
<1>12. ASSUME NEW u \in GateObjects PROVE OpenHeld(u)'
  <2>0. \A v \in GateUsers, h \in Gates :
          (thr'[v].pc = "store" /\ thr'[v].obj = u /\ thr'[v].gate = h) <=>
          (thr[v].pc = "store" /\ thr[v].obj = u /\ thr[v].gate = h)
    BY <1>1, <1>8
  <2>1. CASE u # o
    <3>1. \A v \in GateUsers, h \in Gates : Uses(v, h, u)' <=> Uses(v, h, u)
      <4>1. \A v \in GateUsers, h \in Gates : gateHandle'[v][h] = u <=> gateHandle[v][h] = u
        BY <1>2, <1>7, <2>1
      <4> QED
        BY <2>0, <4>1 DEF Uses
    <3> QED
      BY <1>6, <2>1, <3>1, OpenFrame
  <2>2. CASE u = o
    <3>1. \A v \in GateUsers, h \in Gates : Uses(v, h, o)' <=> Uses(v, h, o) /\ ~(v = t /\ h = g)
      <4>1. \A v \in GateUsers, h \in Gates : gateHandle'[v][h] = o <=> gateHandle[v][h] = o /\ ~(v = t /\ h = g)
        BY <1>2, <1>7
      <4>2. ~(thr[t].pc = "store" /\ thr[t].obj = o /\ thr[t].gate = g)
        BY <1>1
      <4> QED
        BY <2>0, <2>2, <4>1, <4>2 DEF Uses
    <3>2. Uses(t, g, o)
      BY <1>2 DEF Uses
    <3>4. OpenHeld(o) /\ SameObj(o)
      BY <1>6
    <3> HIDE GatesConstants, FieldTypes, RegistryParts
    <3> QED
      BY <1>4, <1>6, <2>2, <3>1, <3>2, <3>4, OpenLess
  <2> QED
    BY <2>1, <2>2
<1>13. ASSUME NEW p \in gateAlive', NEW r \in Resources PROVE EntryHeld(p, r)'
  <2>1. p \in gateAlive /\ p \in Processes /\ gateTable[p][r] \in GateObjects \cup {NoRef}
    BY <1>1 DEF GateTypes
  <2>2. Known(r)' => Known(r)
    BY <1>1, <1>8, <1>9, <1>10 DEF Known
  <2> QED
    BY <1>1, <1>6, <2>1, <2>2, EntryFrame
<1>14. NamesApart'
  BY <1>1 DEF NamesApart
<1>15. CallsApart'
  <2>1. \A u \in GateUsers : Sole(u)' => Sole(u) /\ thr'[u].res = thr[u].res
    BY <1>8, <1>9, <1>10
  <2>2. \A u \in GateUsers : thr'[u].pc = "getFree" => thr[u].pc = "getFree" /\ thr'[u].obj = thr[u].obj
    BY <1>8, <1>9
  <2> QED
    BY <2>1, <2>2, ApartFrame
<1>16. CreatedHeld'
  <2>1. CreatedGates' = CreatedGates
    BY <1>6 DEF CreatedGates, SameObj
  <2>2. \A u \in CreatedGates' : gateObjs'[u].res = gateObjs[u].res /\ gateObjs[u].res \in inUse'
    BY <1>1, <1>6, <2>1 DEF CreatedGates, CreatedHeld, SameObj
  <2> QED
    BY <2>1, <2>2, CreatedFrame
<1> QED
  BY <1>9, <1>10, <1>11, <1>12, <1>13, <1>14, <1>15, <1>16, RegistryIs

\* The last one deletes the object, which nobody has any more.
LEMMA CloseDeletesKeeps ==
  ASSUME GateTypes, Registry, NEW t \in GateUsers, CloseDeletes(t)
  PROVE  Registry'
<1> USE GatesConstants, FieldTypes, RegistryParts
<1>1. thr[t].pc = "close" /\ UserReturns(t) /\ UNCHANGED <<inUse, gateNames, gateAlive, gateHandle>>
  BY DEF CloseDeletes, UserAt, gateLadVars
<1>2. PICK o \in GateObjects : o = thr[t].obj
  BY <1>1 DEF CallHeld, InCall, EnterPoints
<1>3. /\ mutex[Mine(t)] = t /\ OwnsObj(t) /\ gateObjs[o].opened /\ gateObjs[o].opens = 0
      /\ gateNames[thr[t].gate] = thr[t].res /\ thr[t].res # NoRef
  BY <1>1, <1>2 DEF CallHeld, Named, OpenPoints
<1>4. PICK s \in Resources : s = thr[t].res
  BY <1>3
<1>5. gateObjs[o].live /\ gateObjs[o].process = Mine(t) /\ gateObjs[o].res = s
  BY <1>2, <1>3, <1>4 DEF OwnsObj
<1>6. /\ gateTable' = [gateTable EXCEPT ![Mine(t)][s] = NoRef]
      /\ gateObjs' = [gateObjs EXCEPT ![o] = NoGateObj]
      /\ mutex' = [mutex EXCEPT ![Mine(t)] = NoOne]
  BY <1>2, <1>4 DEF CloseDeletes
<1>7. \A u \in GateUsers, g \in Gates : ~Uses(u, g, o)
  <2>1. IsFiniteSet(UsersOf(o)) /\ Cardinality(UsersOf(o)) = 0
    BY <1>3, <1>5 DEF OpenHeld
  <2>2. UsersOf(o) = {}
    BY <2>1, FS_EmptySet
  <2>3. ASSUME NEW u \in GateUsers, NEW g \in Gates, Uses(u, g, o) PROVE FALSE
    <3>1. <<u, g>> \in UsersOf(o)
      BY <2>3 DEF UsersOf
    <3> QED
      BY <2>2, <3>1
  <2> QED
    BY <2>3
<1>8. ASSUME NEW u \in GateUsers \ {t}, thr[u].pc \in Holding, thr[u].obj = o PROVE FALSE
  <2>1. OwnsObj(u)
    BY <1>5, <1>8 DEF CallHeld, Holding, Sole
  <2>2. gateObjs[o].process = Mine(u) /\ thr[u].res = s
    BY <1>5, <1>8, <2>1 DEF OwnsObj
  <2>3. thr[u].pc # "store"
    BY <1>7, <1>8 DEF Uses, CallHeld, InCall, EnterPoints
  <2>4. thr[u].pc # "close"
    BY <1>3, <1>5, <2>2 DEF CallHeld
  <2>5. ~Sole(u) /\ thr[u].pc # "getFree"
    BY <1>3, <1>8 DEF CallHeld
  <2> QED
    BY <1>8, <2>3, <2>4, <2>5 DEF Holding, Sole
<1>9. /\ gateTable'[Mine(t)][s] = NoRef
      /\ \A p \in Processes, r \in Resources : p # Mine(t) \/ r # s => gateTable'[p][r] = gateTable[p][r]
  BY <1>6 DEF GateTypes
<1>10. \A p \in Processes \ {Mine(t)} : mutex'[p] = mutex[p]
  BY <1>6 DEF GateTypes
<1>11. \A u \in GateUsers \ {t} :
         /\ thr[u].pc \in Holding => thr[u].obj # o
         /\ gateHandle'[u] = gateHandle[u]
         /\ Sole(u) => thr[u].res \in inUse'
         /\ thr[u].pc = "close" => mutex'[Mine(u)] = u
  <2>1. ASSUME NEW u \in GateUsers \ {t}, thr[u].pc = "close" PROVE mutex'[Mine(u)] = u
    <3>1. mutex[Mine(u)] = u
      BY <2>1 DEF CallHeld
    <3>2. Mine(u) # Mine(t)
      BY <1>3, <3>1
    <3> QED
      BY <1>10, <3>1, <3>2
  <2>2. \A u \in GateUsers \ {t} : Sole(u) => thr[u].res \in inUse'
    BY <1>1 DEF CallHeld
  <2> QED
    BY <1>1, <1>8, <2>1, <2>2
<1>12. \A u \in GateUsers, g \in Gates :
         IF gateHandle[u][g] = o THEN gateHandle'[u][g] = NoRef ELSE gateHandle'[u][g] = gateHandle[u][g]
  BY <1>1, <1>7 DEF Uses
<1>13. \A g \in Gates : gateNames[g] # NoRef => gateNames[g] \in inUse'
  BY <1>1 DEF NamesApart
<1>14. \A u \in CreatedGates \ {o} : gateObjs[u].res \in inUse'
  BY <1>1 DEF CreatedHeld
<1>15. ASSUME NEW u \in GateUsers, Sole(u)' PROVE u # t /\ Sole(u) /\ thr'[u].res = thr[u].res
  <2>1. u # t /\ thr'[u] = thr[u]
    BY <1>1, <1>15, UserIdles, CallIdle
  <2>2. thr[u].pc = "store" => gateObjs'[thr[u].obj] = gateObjs[thr[u].obj]
    BY <1>6, <1>8, <2>1 DEF GateTypes, Holding, CallHeld
  <2> QED
    BY <1>15, <2>1, <2>2 DEF Sole
<1>16. ASSUME NEW p \in gateAlive, NEW r \in Resources, Known(r)', gateTable'[p][r] # NoRef
       PROVE  Known(r) /\ gateTable'[p][r] # o
  <2>1. Known(r)
    BY <1>1, <1>15, <1>16 DEF Known
  <2>2. p \in Processes /\ ~(p = Mine(t) /\ r = s)
    BY <1>9, <1>16 DEF GateTypes
  <2>3. gateTable'[p][r] = gateTable[p][r]
    BY <1>9, <2>2
  <2>4. gateObjs[gateTable[p][r]].process = p /\ gateObjs[gateTable[p][r]].res = r
    BY <1>16, <2>1, <2>3 DEF EntryHeld
  <2> QED
    BY <1>5, <2>1, <2>2, <2>3, <2>4
<1>17. \A p \in gateAlive, r \in Resources : Known(r)' /\ gateTable'[p][r] # NoRef => Known(r) /\ gateTable'[p][r] # o
  BY <1>16
<1>18. \A p \in Processes, r \in Resources : gateTable'[p][r] \in {gateTable[p][r], NoRef}
  BY <1>9
<1>19. thr[t].obj = o /\ thr[t].pc # "store" /\ thr[t].pc \notin DeletePoints
  BY <1>1, <1>2 DEF DeletePoints
<1>20. gateNames' = gateNames /\ gateAlive' = gateAlive
  BY <1>1
<1> HIDE GatesConstants, FieldTypes, RegistryParts
<1> QED
  BY <1>1, <1>6, <1>11, <1>12, <1>13, <1>14, <1>17, <1>18, <1>19, <1>20, FreedKeeps

\* A process dies, and its objects, handles and calls with it.
LEMMA DieKeeps ==
  ASSUME GateTypes, Registry, NEW p \in Processes, Die(p)
  PROVE  Registry'
<1> USE GatesConstants, FieldTypes, RegistryParts
<1>1. /\ gateAlive' = gateAlive \ {p} /\ UNCHANGED <<inUse, gateNames, gateTable>>
      /\ gateObjs' = [o \in GateObjects |-> IF gateObjs[o].process = p THEN NoGateObj ELSE gateObjs[o]]
      /\ thr' = [t \in GateUsers |-> IF Mine(t) = p THEN IdleUser ELSE thr[t]]
      /\ gateHandle' = [t \in GateUsers |-> IF Mine(t) = p THEN NoneOpen ELSE gateHandle[t]]
      /\ mutex' = [mutex EXCEPT ![p] = NoOne]
  BY DEF Die, gateLadVars
<1>2. /\ \A o \in GateObjects : gateObjs[o].process = p => ~gateObjs'[o].live
      /\ \A o \in GateObjects : gateObjs[o].process # p => gateObjs'[o] = gateObjs[o]
  BY <1>1 DEF NoGateObj
<1>3. /\ \A o \in GateObjects : gateObjs[o].process # p => SameObj(o) /\ gateObjs'[o].opens = gateObjs[o].opens
      /\ \A o \in GateObjects : gateObjs'[o].live => gateObjs[o].process # p
  BY <1>2 DEF SameObj
<1>4. /\ \A t \in GateUsers : Mine(t) = p => thr'[t].pc = "idle" /\ \A g \in Gates : gateHandle'[t][g] = NoRef
      /\ \A t \in GateUsers : Mine(t) # p => thr'[t] = thr[t] /\ gateHandle'[t] = gateHandle[t]
      /\ \A q \in Processes \ {p} : mutex'[q] = mutex[q]
  BY <1>1 DEF IdleUser, NoneOpen, GateTypes
<1>5. ASSUME NEW u \in GateUsers PROVE CallHeld(u)' /\ (Sole(u)' => Sole(u) /\ thr'[u] = thr[u])
  <2>1. CASE Mine(u) = p
    BY <1>4, <2>1, CallIdle
  <2>2. CASE Mine(u) # p
    <3>1. CallHeld(u) /\ thr'[u] = thr[u] /\ gateHandle'[u] = gateHandle[u]
      BY <1>4, <2>2
    <3>2. thr[u].pc \in Holding =>
            SameObj(thr[u].obj) /\ thr[u].obj \in GateObjects /\ gateObjs[thr[u].obj].process # p
      <4> SUFFICES ASSUME thr[u].pc \in Holding
                   PROVE  SameObj(thr[u].obj) /\ thr[u].obj \in GateObjects /\ gateObjs[thr[u].obj].process # p
        OBVIOUS
      <4>1. OwnsObj(u) /\ thr[u].obj \in GateObjects
        BY DEF CallHeld, Holding, Sole, InCall, EnterPoints
      <4> QED
        BY <1>3, <2>2, <4>1 DEF OwnsObj
    <3>3. thr[u].pc = "count" /\ gateObjs'[thr[u].obj].live => SameObj(thr[u].obj)
      BY <1>3 DEF CallHeld, InCall, EnterPoints
    <3>4. Sole(u) => thr[u].res \in inUse' /\ \A h \in Gates : gateNames'[h] # thr[u].res
      BY <1>1 DEF CallHeld
    <3>5. thr[u].pc = "release" => gateTable'[Mine(u)][thr[u].res] = NoRef
      BY <1>1 DEF CallHeld
    <3>6. Named(u) => gateNames'[thr[u].gate] = thr[u].res
      BY <1>1 DEF CallHeld
    <3>7. thr[u].pc = "close" => mutex'[Mine(u)] = u /\ gateObjs'[thr[u].obj].opens = 0
      BY <1>3, <1>4, <2>2, <3>2 DEF CallHeld, Holding
    <3> QED
      BY <3>1, <3>2, <3>3, <3>4, <3>5, <3>6, <3>7, CallFrame
  <2> QED
    BY <2>1, <2>2
<1>6. ASSUME NEW u \in GateUsers, NEW h \in Gates PROVE HandleHeld(u, h)'
  <2>1. CASE Mine(u) = p
    BY <1>4, <2>1 DEF HandleHeld
  <2>2. CASE Mine(u) # p
    <3>0. gateHandle[u][h] # NoRef => gateHandle[u][h] \in GateObjects /\ gateObjs[gateHandle[u][h]].process # p
      BY <2>2 DEF HandleHeld
    <3>1. gateHandle[u][h] # NoRef => SameObj(gateHandle[u][h])
      BY <1>3, <3>0
    <3> QED
      BY <1>1, <1>4, <2>2, <3>1, HandleFrame
  <2> QED
    BY <2>1, <2>2
<1>7. ASSUME NEW o \in GateObjects PROVE OpenHeld(o)'
  <2>1. CASE gateObjs'[o].live /\ gateObjs[o].opened
    <3>1. gateObjs[o].process # p /\ SameObj(o) /\ gateObjs'[o].opens = gateObjs[o].opens
      BY <1>3, <2>1
    <3>2. gateObjs[o].live
      BY <2>1, <3>1 DEF SameObj
    <3>3. ASSUME NEW u \in GateUsers, NEW g \in Gates PROVE Uses(u, g, o)' <=> Uses(u, g, o)
      <4>1. CASE Mine(u) # p
        BY <1>4, <4>1 DEF Uses
      <4>2. CASE Mine(u) = p
        <5>1. ~Uses(u, g, o)'
          BY <1>4, <4>2 DEF Uses
        <5>2. gateHandle[u][g] # o
          BY <3>1, <4>2 DEF HandleHeld
        <5>3. ~(thr[u].pc = "store" /\ thr[u].obj = o)
          BY <3>1, <4>2 DEF CallHeld, OwnsObj
        <5> QED
          BY <5>1, <5>2, <5>3 DEF Uses
      <4> QED
        BY <4>1, <4>2
    <3> QED
      BY <3>1, <3>3, OpenFrame
  <2>2. CASE ~(gateObjs'[o].live /\ gateObjs[o].opened)
    BY <1>3, <2>2 DEF OpenHeld, SameObj
  <2> QED
    BY <2>1, <2>2
<1>8. ASSUME NEW q \in gateAlive', NEW r \in Resources PROVE EntryHeld(q, r)'
  <2>1. q \in gateAlive /\ q # p /\ q \in Processes /\ gateTable[q][r] \in GateObjects \cup {NoRef}
    BY <1>1 DEF GateTypes
  <2>2. Known(r)' => Known(r)
    BY <1>1, <1>5 DEF Known
  <2>3. ASSUME Known(r), gateTable[q][r] # NoRef PROVE SameObj(gateTable[q][r])
    <3>1. EntryHeld(q, r) /\ gateTable[q][r] \in GateObjects
      BY <2>1, <2>3
    <3>2. gateObjs[gateTable[q][r]].process # p
      BY <2>1, <2>3, <3>1 DEF EntryHeld
    <3> QED
      BY <1>3, <3>1, <3>2
  <2> QED
    BY <1>1, <2>1, <2>2, <2>3, EntryFrame
<1>9. NamesApart'
  BY <1>1 DEF NamesApart
<1>10. CallsApart'
  <2>1. \A u \in GateUsers : thr'[u].pc = "getFree" => thr[u].pc = "getFree" /\ thr'[u].obj = thr[u].obj
    BY <1>4
  <2> QED
    BY <1>5, <2>1, ApartFrame
<1>11. CreatedHeld'
  <2>1. CreatedGates' \subseteq CreatedGates /\ \A u \in CreatedGates' : gateObjs'[u].res = gateObjs[u].res
    BY <1>3 DEF CreatedGates, SameObj
  <2>2. \A u \in CreatedGates' : gateObjs[u].res \in inUse'
    BY <1>1, <2>1 DEF CreatedHeld
  <2> QED
    BY <2>1, <2>2, CreatedFrame
<1> QED
  BY <1>5, <1>6, <1>7, <1>8, <1>9, <1>10, <1>11, RegistryIs

\* Threads that enter and leave gates, and those that stay, keep the registry.
LEMMA RegistryFrame ==
  ASSUME GateTypes, Registry,
         UNCHANGED <<inUse, gateNames, gateAlive, gateTable, mutex, gateHandle>>,
         \A o \in GateObjects : SameObj(o) /\ gateObjs'[o].opens = gateObjs[o].opens,
         \A u \in GateUsers :
           thr'[u] = thr[u] \/ (thr[u].pc \in EnterPoints /\ thr'[u].pc \in EnterPoints)
  PROVE  Registry'
<1> USE GatesConstants, FieldTypes, RegistryParts
<1>1. ASSUME NEW u \in GateUsers PROVE CallHeld(u)' /\ (Sole(u)' => Sole(u) /\ thr'[u] = thr[u])
  <2>1. CASE thr[u].pc \in EnterPoints /\ thr'[u].pc \in EnterPoints
    <3>1. ~Sole(u)' /\ ~Named(u)' /\ ~InCall(u)'
      BY <2>1 DEF Sole, Named, InCall, EnterPoints, OpenPoints
    <3> QED
      BY <2>1, <3>1 DEF CallHeld, EnterPoints, CreatePoints, DeletePoints
  <2>2. CASE thr'[u] = thr[u]
    <3>1. CallHeld(u) /\ gateHandle'[u] = gateHandle[u]
      OBVIOUS
    <3>2. thr[u].pc \in Holding \/ thr[u].pc = "count" => SameObj(thr[u].obj)
      BY DEF CallHeld, Holding, InCall, EnterPoints
    <3>3. Sole(u) => thr[u].res \in inUse' /\ \A h \in Gates : gateNames'[h] # thr[u].res
      BY DEF CallHeld
    <3>4. thr[u].pc = "release" => gateTable'[Mine(u)][thr[u].res] = NoRef
      BY DEF CallHeld
    <3>5. Named(u) => gateNames'[thr[u].gate] = thr[u].res
      BY DEF CallHeld
    <3>6. thr[u].pc = "close" => mutex'[Mine(u)] = u /\ gateObjs'[thr[u].obj].opens = 0
      BY DEF CallHeld, InCall, EnterPoints
    <3> QED
      BY <2>2, <3>1, <3>2, <3>3, <3>4, <3>5, <3>6, CallFrame
  <2> QED
    BY <2>1, <2>2
<1>2. ASSUME NEW u \in GateUsers, NEW h \in Gates PROVE HandleHeld(u, h)'
  <2>1. thr'[u] = thr[u] \/ thr[u].pc \notin DeletePoints
    BY DEF DeletePoints, EnterPoints
  <2> QED
    BY <2>1, HandleFrame
<1>3. ASSUME NEW o \in GateObjects PROVE OpenHeld(o)'
  <2>1. \A v \in GateUsers, h \in Gates : Uses(v, h, o)' <=> Uses(v, h, o)
    BY DEF Uses, EnterPoints
  <2> QED
    BY <2>1, OpenFrame
<1>4. ASSUME NEW p \in gateAlive', NEW r \in Resources PROVE EntryHeld(p, r)'
  <2>1. p \in gateAlive /\ p \in Processes /\ gateTable[p][r] \in GateObjects \cup {NoRef}
    BY DEF GateTypes
  <2>2. Known(r)' => Known(r)
    BY <1>1 DEF Known
  <2> QED
    BY <2>1, <2>2, EntryFrame
<1>5. NamesApart'
  BY DEF NamesApart
<1>6. CallsApart'
  <2>1. \A u \in GateUsers : thr'[u].pc = "getFree" => thr[u].pc = "getFree" /\ thr'[u].obj = thr[u].obj
    BY DEF EnterPoints
  <2> QED
    BY <1>1, <2>1, ApartFrame
<1>7. CreatedHeld'
  <2>1. CreatedGates' = CreatedGates
    BY DEF CreatedGates, SameObj
  <2>2. \A u \in CreatedGates' : gateObjs'[u].res = gateObjs[u].res /\ gateObjs[u].res \in inUse'
    BY <2>1 DEF CreatedGates, CreatedHeld, SameObj
  <2> QED
    BY <2>1, <2>2, CreatedFrame
<1> QED
  BY <1>1, <1>2, <1>3, <1>4, <1>5, <1>6, <1>7, RegistryIs

\* Entering, backing off and leaving keep the registry.
LEMMA EntersKeep ==
  ASSUME GateTypes, Registry, NEW t \in GateUsers, EnterHeld(t),
         (\E g \in Gates : EnterGate(t, g)) \/ Locks(t) \/ BacksOff(t) \/ Again(t) \/ LeaveGate(t)
  PROVE  Registry'
<1> USE GatesConstants, FieldTypes
<1>1. UNCHANGED <<inUse, gateNames, gateAlive, gateTable, mutex, gateHandle>>
  BY DEF EnterGate, Locks, BacksOff, Again, LeaveGate, gateLadVars, processVars
<1>2. \A u \in GateUsers :
        thr'[u] = thr[u] \/ (thr[u].pc \in EnterPoints /\ thr'[u].pc \in EnterPoints)
  <2>1. \A u \in GateUsers \ {t} : thr'[u] = thr[u]
    BY ZenonT(60), UserIdles DEF EnterGate, Locks, BacksOff, Again, LeaveGate, UserGoto, GateTypes
  <2>2. CASE \E g \in Gates : EnterGate(t, g)
    <3>1. thr[t].pc = "idle" /\ (thr' = thr \/ thr'[t].pc = "spin")
      BY <2>2 DEF EnterGate, UserAt, GateTypes
    <3> QED
      BY <2>1, <3>1 DEF EnterPoints
  <2>3. CASE Locks(t)
    BY <2>1, <2>3, UserIdles DEF Locks, UserAt, EnterPoints
  <2>4. CASE BacksOff(t)
    BY <2>1, <2>4, UserGoes DEF BacksOff, UserAt, EnterPoints
  <2>5. CASE Again(t)
    BY <2>1, <2>5, UserGoes DEF Again, UserAt, EnterPoints
  <2>6. CASE LeaveGate(t)
    BY <2>6 DEF LeaveGate
  <2> QED
    BY <2>2, <2>3, <2>4, <2>5, <2>6
<1>3. \A o \in GateObjects : SameObj(o) /\ gateObjs'[o].opens = gateObjs[o].opens
  <2>0. \A o \in GateObjects : gateObjs[o].nested - 1 \in Int /\ gateObjs[o].nested + 1 \in Int
    <3>1. ASSUME NEW o \in GateObjects PROVE gateObjs[o].nested - 1 \in Int /\ gateObjs[o].nested + 1 \in Int
      <4>1. gateObjs[o].nested \in Int
        BY Zenon
      <4> QED
        BY <4>1
    <3> QED
      BY <3>1
  <2>1. PICK w \in GateObjects \cup {NoRef}, n \in Int :
          gateObjs' = [gateObjs EXCEPT ![w].nested = n] \/ gateObjs' = gateObjs
    <3>1. CASE \E g \in Gates : EnterGate(t, g)
      <4>1. PICK g \in Gates : EnterGate(t, g)
        BY <3>1
      <4>2. gateHandle[t][g] \in GateObjects
        BY <4>1 DEF EnterGate
      <4>3. gateObjs[gateHandle[t][g]].nested + 1 \in Int
        BY <2>0, <4>2
      <4>4. gateObjs' = [gateObjs EXCEPT ![gateHandle[t][g]].nested = gateObjs[gateHandle[t][g]].nested + 1]
        BY <4>1 DEF EnterGate
      <4> QED
        BY <4>2, <4>3, <4>4
    <3>2. CASE Locks(t)
      BY <3>2 DEF Locks, processVars
    <3>3. CASE BacksOff(t) \/ Again(t)
      <4>1. thr[t].obj \in GateObjects
        BY <3>3 DEF BacksOff, Again, UserAt, EnterHeld
      <4>2. gateObjs[thr[t].obj].nested - 1 \in Int /\ gateObjs[thr[t].obj].nested + 1 \in Int
        BY <2>0, <4>1
      <4>3. \/ gateObjs' = [gateObjs EXCEPT ![thr[t].obj].nested = gateObjs[thr[t].obj].nested - 1]
            \/ gateObjs' = [gateObjs EXCEPT ![thr[t].obj].nested = gateObjs[thr[t].obj].nested + 1]
        BY <3>3 DEF BacksOff, Again, Unnested
      <4> QED
        BY <4>1, <4>2, <4>3
    <3>4. CASE LeaveGate(t)
      <4>1. Last(entered[t]) \in GateObjects
        BY <3>4, FrontLast DEF LeaveGate
      <4>2. gateObjs[Last(entered[t])].nested - 1 \in Int
        BY <2>0, <4>1
      <4>3. gateObjs' = [gateObjs EXCEPT ![Last(entered[t])].nested = gateObjs[Last(entered[t])].nested - 1]
        BY <3>4 DEF LeaveGate
      <4> QED
        BY <4>1, <4>2, <4>3
    <3> QED
      BY <3>1, <3>2, <3>3, <3>4
  <2>2. ASSUME NEW o \in GateObjects PROVE SameObj(o) /\ gateObjs'[o].opens = gateObjs[o].opens
    <3>1. gateObjs \in [GateObjects -> GateObjStates] /\ gateObjs[o] \in GateObjStates
      BY DEF GateTypes
    <3>2. gateObjs'[o] = gateObjs[o] \/ gateObjs'[o] = [gateObjs[o] EXCEPT !.nested = n]
      BY <2>1, <3>1
    <3> QED
      BY <3>1, <3>2 DEF SameObj, GateObjStates
  <2> QED
    BY <2>2
<1> HIDE GatesConstants, FieldTypes
<1> QED
  BY <1>1, <1>2, <1>3, RegistryFrame

\* What changes neither objects nor threads keeps the registry.
LEMMA OthersKeep ==
  ASSUME GateTypes, Registry,
         \/ \E t \in GateUsers : OpenCountsFreed(t)
         \/ \E r \in Resources : RemoteEnters(r)
         \/ UNCHANGED linuxGateVars
  PROVE  Registry'
<1>1. UNCHANGED <<inUse, gateNames, gateAlive, gateTable, mutex, gateHandle, gateObjs, thr>>
  BY DEF OpenCountsFreed, RemoteEnters, gateLadVars, processVars, linuxGateVars
<1>2. \A o \in GateObjects : SameObj(o) /\ gateObjs'[o].opens = gateObjs[o].opens
  BY <1>1 DEF SameObj
<1> QED
  BY <1>1, <1>2, RegistryFrame

\* Every step keeps the registry.
LEMMA RegistryInv ==
  ASSUME GateTypes, Registry, EntersHeld, [GatesNext]_linuxGateVars
  PROVE  Registry'
<1>1. ASSUME NEW t \in GateUsers, UserStep(t) PROVE Registry'
  <2>1. EnterHeld(t)
    BY DEF EntersHeld
  <2>2. CASE GetFreeResource(t) \/ Store(t) \/ AddName(t)
    BY <2>2, GetFreeKeeps, StoreKeeps, AddNameKeeps
  <2>3. CASE DeleteClears(t) \/ ReleaseResource(t) \/ OpenLooks(t)
    BY <2>3, DeleteClearsKeeps, ReleaseKeeps, OpenLooksKeeps
  <2>4. CASE OpenCounts(t) \/ OpenCountsFreed(t) \/ CloseDeletes(t)
    BY <2>4, OpenCountsKeeps, OthersKeep, CloseDeletesKeeps
  <2>5. CASE Locks(t) \/ BacksOff(t) \/ Again(t) \/ LeaveGate(t)
    BY <2>1, <2>5, EntersKeep
  <2> QED
    BY <1>1, <2>2, <2>3, <2>4, <2>5 DEF UserStep
<1>2. ASSUME NEW t \in GateUsers, NEW g \in Gates,
             CreateCall(t, g) \/ DeleteCall(t, g) \/ OpenCall(t, g) \/ Close(t, g) \/ EnterGate(t, g)
      PROVE  Registry'
  <2>1. EnterHeld(t)
    BY DEF EntersHeld
  <2> QED
    BY <1>2, <2>1, CreateCallKeeps, DeleteCallKeeps, OpenCallKeeps, CloseKeeps, EntersKeep
<1> QED
  BY <1>1, <1>2, DieKeeps, OthersKeep DEF GatesNext

\* And its types.
LEMMA GateTypesInv ==
  ASSUME GateTypes, CallsHold, EntersHeld, [GatesNext]_linuxGateVars
  PROVE  GateTypes'
<1>1. ASSUME NEW t \in GateUsers, UserStep(t) PROVE GateTypes'
  BY <1>1, GateTypesCreate, GateTypesSteps, GateTypesEnter DEF UserStep
<1>2. ASSUME NEW t \in GateUsers, NEW g \in Gates,
             CreateCall(t, g) \/ DeleteCall(t, g) \/ OpenCall(t, g) \/ Close(t, g) \/ EnterGate(t, g)
      PROVE  GateTypes'
  BY <1>2, GateTypesCall, GateTypesEnter
<1>3. CASE UNCHANGED linuxGateVars
  BY <1>3 DEF linuxGateVars, gateLadVars, processVars, enterVars, GateTypes
<1> QED
  BY <1>1, <1>2, <1>3, GateTypesOther DEF GatesNext

\* Nobody has anything at first.
LEMMA RegistryInit == GatesInit => Registry
<1> SUFFICES ASSUME GatesInit PROVE Registry
  OBVIOUS
<1>1. /\ \A t \in GateUsers : thr[t].pc = "idle" /\ \A g \in Gates : gateHandle[t][g] = NoRef
      /\ \A o \in GateObjects : ~gateObjs[o].live
      /\ \A g \in Gates : gateNames[g] = NoRef
      /\ gateAlive = Processes /\ \A p \in Processes, r \in Resources : gateTable[p][r] = NoRef
  BY DEF GatesInit, IdleUser, NoneOpen, NoGateObj
<1>2. \A t \in GateUsers : CallHeld(t) /\ ~Sole(t) /\ thr[t].pc # "getFree"
  BY <1>1 DEF CallHeld, Sole, Named, InCall, EnterPoints, CreatePoints, DeletePoints, OpenPoints
<1>3. HandlesHeld /\ NamesApart /\ OpensCounted /\ TablesHold
  BY <1>1 DEF HandlesHeld, HandleHeld, NamesApart, OpensCounted, TablesHold, EntryHeld
<1>4. CallsHold /\ CallsApart
  BY <1>2 DEF CallsHold, CallsApart
<1>5. CreatedHeld
  BY <1>1 DEF CreatedHeld, CreatedGates
<1> QED
  BY <1>3, <1>4, <1>5 DEF Registry

\* And nobody is in a gate.
LEMMA EnteringInit == GatesInit => Entering
<1> SUFFICES ASSUME GatesInit PROVE Entering
  OBVIOUS
<1>1. /\ \A t \in GateUsers : thr[t].pc = "idle" /\ entered[t] = <<>>
      /\ \A o \in GateObjects : ~gateObjs[o].live
      /\ \A p \in Processes : localGate[p].owner = NoOne /\ localGate[p].depth = 0
  BY DEF GatesInit, IdleUser, NoGateObj
<1>2. LocalHeld
  BY <1>1, GatesConstants DEF LocalHeld, Spins
<1>3. NestedIs
  BY <1>1 DEF NestedIs
<1>4. ASSUME NEW t \in GateUsers PROVE EnterHeld(t)
  BY <1>1, EmptySeq DEF EnterHeld, InCall, EnterPoints
<1> QED
  BY <1>2, <1>3, <1>4 DEF Entering, EntersHeld

\* How often an object occurs: a number, none when the sequence does
\* not have it.
LEMMA OccursIs ==
  ASSUME NEW S, NEW s \in Seq(S), NEW o
  PROVE  /\ Occurs(s, o) \in Nat
         /\ Occurs(s, o) = 0 <=> \A i \in 1 .. Len(s) : s[i] # o
<1> DEFINE P == {i \in 1 .. Len(s) : s[i] = o}
<1>1. Len(s) \in Nat
  BY LenProperties
<1>2. IsFiniteSet(1 .. Len(s))
  BY <1>1, FS_Interval
<1>3. IsFiniteSet(P) /\ Cardinality(P) \in Nat
  BY <1>2, FS_Subset, FS_CardinalityType
<1>4. Cardinality(P) = 0 <=> P = {}
  BY <1>3, FS_EmptySet
<1> QED
  BY <1>3, <1>4 DEF Occurs

\* Nothing occurs in the empty one.
LEMMA OccursNone == ASSUME NEW o PROVE Occurs(<<>>, o) = 0
<1>1. {i \in 1 .. Len(<<>>) : <<>>[i] = o} = {}
  BY EmptySeq
<1> QED
  BY <1>1, FS_EmptySet DEF Occurs

\* And one more when it is appended.
LEMMA OccursMore ==
  ASSUME NEW S, NEW s \in Seq(S), NEW x \in S, NEW o
  PROVE  Occurs(Append(s, x), o) = Occurs(s, o) + (IF x = o THEN 1 ELSE 0)
<1> DEFINE P == {i \in 1 .. Len(s) : s[i] = o}
           w == Append(s, x)
           Q == {i \in 1 .. Len(w) : w[i] = o}
           n == Len(s) + 1
<1>1. Len(s) \in Nat /\ Len(w) = n /\ w[n] = x /\ \A i \in 1 .. Len(s) : w[i] = s[i]
  BY LenProperties, AppendProperties
<1>2. IsFiniteSet(P) /\ n \notin P /\ Cardinality(P) \in Nat
  <2>1. IsFiniteSet(1 .. Len(s))
    <3>1. 1 \in Int /\ Len(s) \in Int
      BY <1>1
    <3> QED
      BY <3>1, FS_Interval, Zenon
  <2>2. IsFiniteSet(P) /\ Cardinality(P) \in Nat
    BY <2>1, FS_Subset, FS_CardinalityType
  <2> QED
    BY <1>1, <2>2
<1> HIDE DEF w
<1>3. 1 .. n = 1 .. Len(s) \cup {n}
  BY <1>1
<1>4. CASE x = o
  <2>1. Q = P \cup {n}
    BY <1>1, <1>3, <1>4
  <2>2. Cardinality(Q) = Cardinality(P) + 1
    BY <1>2, <2>1, FS_AddElement
  <2> QED
    BY <1>4, <2>2 DEF Occurs, w
<1>5. CASE x # o
  <2>1. Q = P
    BY <1>1, <1>3, <1>5
  <2>2. Cardinality(Q) = Cardinality(P)
    BY <2>1
  <2>3. Occurs(Append(s, x), o) = Cardinality(Q) /\ Occurs(s, o) = Cardinality(P)
    BY DEF Occurs, w
  <2> HIDE DEF P, Q
  <2>4. Occurs(Append(s, x), o) = Occurs(s, o) /\ Occurs(s, o) \in Nat
    BY <1>2, <2>2, <2>3
  <2> QED
    BY <1>5, <2>4
<1> QED
  BY <1>4, <1>5

\* What has been entered: a live object, whose handle and spinlock one has.
LEMMA EntryFacts ==
  ASSUME GateTypes, Registry, EntersHeld, NEW t \in GateUsers, NEW i \in 1 .. Len(entered[t])
  PROVE  /\ entered[t][i] \in GateObjects /\ gateObjs[entered[t][i]].live
         /\ gateObjs[entered[t][i]].process = Mine(t) /\ gateObjs[entered[t][i]].res \in Resources
         /\ lock[gateObjs[entered[t][i]].res] = Mine(t)
         /\ \E g \in Gates : gateHandle[t][g] = entered[t][i]
         /\ \A j \in 1 .. Len(entered[t]) :
              gateObjs[entered[t][j]].res = gateObjs[entered[t][i]].res => entered[t][j] = entered[t][i]
<1> USE GatesConstants, FieldTypes, RegistryParts
<1>1. EntryOf(t, i)
  BY DEF EntersHeld, EnterHeld
<1>2. entered[t][i] \in GateObjects
  BY ElementOfSeq
<1>3. PICK g \in Gates : gateHandle[t][g] = entered[t][i]
  BY <1>1 DEF EntryOf
<1>4. /\ gateObjs[entered[t][i]].live /\ gateObjs[entered[t][i]].process = Mine(t)
      /\ gateObjs[entered[t][i]].res \in Resources
  BY <1>2, <1>3 DEF HandleHeld
<1> QED
  BY <1>1, <1>2, <1>4 DEF EntryOf

\* A thread that may enter, being in or nobody being, is counted as it is, and
\* nobody else of its process is in.
LEMMA LocalTells ==
  ASSUME GateTypes, Entering, NEW t \in GateUsers, MayEnter(t)
  PROVE  /\ Inside(t) \in Nat /\ Len(entered[t]) \in Nat /\ localGate[Mine(t)].depth = Inside(t)
         /\ localGate[Mine(t)].owner = IF Inside(t) = 0 THEN NoOne ELSE t
         /\ \A o \in GateObjects : gateObjs[o].live /\ gateObjs[o].process = Mine(t) =>
              gateObjs[o].nested = Times(t, o)
         /\ \A u \in GateUsers \ {t} : Mine(u) = Mine(t) => entered[u] = <<>> /\ ~Spins(u)
<1> USE GatesConstants, FieldTypes
<1>1. Len(entered[t]) \in Nat /\ (Len(entered[t]) = 0 <=> entered[t] = <<>>)
  BY EmptySeq, LenProperties
<1>2. Inside(t) \in Nat
  <2>1. CASE Spins(t)
    <3>1. Inside(t) = Len(entered[t]) + 1
      BY <2>1 DEF Inside
    <3> QED
      BY <1>1, <3>1
  <2>2. CASE ~Spins(t)
    <3>1. Inside(t) = Len(entered[t]) + 0
      BY <2>2 DEF Inside
    <3> QED
      BY <1>1, <3>1
  <2> QED
    BY <2>1, <2>2
<1>3. \A u \in GateUsers \ {t} : Mine(u) = Mine(t) => entered[u] = <<>> /\ ~Spins(u)
  BY DEF Entering, LocalHeld, MayEnter
<1>4. CASE localGate[Mine(t)].owner = t
  <2>1. localGate[Mine(t)].depth = Inside(t) /\ localGate[Mine(t)].depth > 0
    BY <1>4 DEF Entering, LocalHeld
  <2>2. \A o \in GateObjects : gateObjs[o].live /\ gateObjs[o].process = Mine(t) => gateObjs[o].nested = Times(t, o)
    BY <1>4 DEF Entering, NestedIs
  <2> QED
    BY <1>1, <1>2, <1>3, <1>4, <2>1, <2>2
<1>5. CASE localGate[Mine(t)].owner # t
  <2>1. localGate[Mine(t)].owner = NoOne
    BY <1>5 DEF MayEnter
  <2>2. localGate[Mine(t)].depth = 0 /\ entered[t] = <<>> /\ ~Spins(t)
    BY <1>5, <2>1 DEF Entering, LocalHeld
  <2>3. Inside(t) = 0
    BY <1>1, <2>2 DEF Inside
  <2>4. ASSUME NEW o \in GateObjects, gateObjs[o].live, gateObjs[o].process = Mine(t)
        PROVE  gateObjs[o].nested = Times(t, o)
    <3>1. gateObjs[o].nested = 0
      BY <2>1, <2>4 DEF Entering, NestedIs
    <3>2. Occurs(entered[t], o) = 0
      BY <2>2, OccursNone
    <3> QED
      BY <2>2, <3>1, <3>2 DEF Times
  <2> QED
    BY <1>1, <1>2, <1>3, <2>1, <2>2, <2>3, <2>4
<1> QED
  BY <1>4, <1>5

\* The counts hold on when those of the thread that moves do.
LEMMA LocalFrame ==
  ASSUME GateTypes, Entering, NEW t \in GateUsers,
         \A u \in GateUsers \ {t} : thr'[u] = thr[u] /\ entered'[u] = entered[u],
         \A u \in GateUsers \ {t} : Mine(u) = Mine(t) => entered[u] = <<>> /\ ~Spins(u),
         \A q \in Processes \ {Mine(t)} : localGate'[q] = localGate[q],
         entered'[t] \in Seq(GateObjects),
         localGate'[Mine(t)].depth = Inside(t)',
         localGate'[Mine(t)].owner = IF Inside(t)' = 0 THEN NoOne ELSE t,
         \A o \in GateObjects : SameObj(o),
         \A o \in GateObjects : gateObjs[o].process # Mine(t) => gateObjs'[o].nested = gateObjs[o].nested,
         \A o \in GateObjects : gateObjs[o].live /\ gateObjs[o].process = Mine(t) =>
           gateObjs'[o].nested = Times(t, o)'
  PROVE  LocalHeld' /\ NestedIs'
<1> USE GatesConstants, FieldTypes
<1>1. /\ \A u \in GateUsers \ {t} : Spins(u)' = Spins(u) /\ Inside(u)' = Inside(u)
      /\ \A u \in GateUsers \ {t}, o \in GateObjects : Times(u, o)' = Times(u, o)
  BY DEF Spins, Inside, Times
<1>2. Len(entered'[t]) \in Nat /\ (Len(entered'[t]) = 0 <=> entered'[t] = <<>>)
  BY EmptySeq, LenProperties
<1>3. Inside(t)' \in Nat /\ (Inside(t)' = 0 <=> entered'[t] = <<>> /\ ~Spins(t)')
  <2>1. CASE Spins(t)'
    <3>1. Inside(t)' = Len(entered'[t]) + 1
      BY <2>1 DEF Inside
    <3> QED
      BY <1>2, <2>1, <3>1
  <2>2. CASE ~Spins(t)'
    <3>1. Inside(t)' = Len(entered'[t]) + 0
      BY <2>2 DEF Inside
    <3> QED
      BY <1>2, <2>2, <3>1
  <2> QED
    BY <2>1, <2>2
<1>4. \A u \in GateUsers : Mine(u)' = Mine(u)
  BY DEF Mine
<1>5. LocalHeld'
  <2>1. ASSUME NEW u \in GateUsers, entered'[u] # <<>> \/ Spins(u)' PROVE localGate'[Mine(u)].owner = u
    <3>1. CASE u = t
      BY <1>3, <2>1, <3>1
    <3>2. CASE u # t
      <4>1. entered[u] # <<>> \/ Spins(u)
        BY <1>1, <2>1, <3>2
      <4>2. Mine(u) # Mine(t) /\ localGate[Mine(u)].owner = u
        BY <3>2, <4>1 DEF Entering, LocalHeld
      <4> QED
        BY <4>2
    <3> QED
      BY <3>1, <3>2
  <2>2. ASSUME NEW p \in Processes, localGate'[p].owner = NoOne PROVE localGate'[p].depth = 0
    <3>1. CASE p = Mine(t)
      BY <1>3, <2>2, <3>1
    <3>2. CASE p # Mine(t)
      BY <2>2, <3>2 DEF Entering, LocalHeld
    <3> QED
      BY <3>1, <3>2
  <2>3. ASSUME NEW p \in Processes, NEW u \in GateUsers, localGate'[p].owner = u
        PROVE  Mine(u) = p /\ localGate'[p].depth = Inside(u)' /\ localGate'[p].depth > 0
    <3>1. CASE p = Mine(t)
      <4>1. u = t /\ Inside(t)' # 0
        BY <2>3, <3>1
      <4> QED
        BY <1>3, <3>1, <4>1
    <3>2. CASE p # Mine(t)
      <4>1. Mine(u) = p /\ localGate[p].depth = Inside(u) /\ localGate[p].depth > 0
        BY <2>3, <3>2 DEF Entering, LocalHeld
      <4>2. u # t
        BY <3>2, <4>1
      <4> QED
        BY <1>1, <3>2, <4>1, <4>2
    <3> QED
      BY <3>1, <3>2
  <2> QED
    BY <1>4, <2>1, <2>2, <2>3 DEF LocalHeld
<1>6. NestedIs'
  <2> SUFFICES ASSUME NEW o \in GateObjects, gateObjs'[o].live
               PROVE  /\ gateObjs'[o].process \in Processes
                      /\ localGate'[gateObjs'[o].process].owner = NoOne => gateObjs'[o].nested = 0
                      /\ \A u \in GateUsers :
                           localGate'[gateObjs'[o].process].owner = u => gateObjs'[o].nested = Times(u, o)'
    BY DEF NestedIs
  <2>1. gateObjs[o].live /\ gateObjs'[o].process = gateObjs[o].process
    BY DEF SameObj
  <2>2. gateObjs[o].process \in Processes
    BY <2>1 DEF Entering, NestedIs
  <2>3. CASE gateObjs[o].process = Mine(t)
    <3>1. gateObjs'[o].nested = Times(t, o)'
      BY <2>1, <2>3
    <3>2. ASSUME localGate'[Mine(t)].owner = NoOne PROVE gateObjs'[o].nested = 0
      <4>1. entered'[t] = <<>> /\ ~Spins(t)'
        BY <1>3, <3>2
      <4>2. Occurs(<<>>, o) = 0
        BY OccursNone
      <4>4. Times(t, o)' = Occurs(<<>>, o) + 0
        BY <4>1 DEF Times
      <4> QED
        BY <3>1, <4>2, <4>4
    <3>3. \A u \in GateUsers : localGate'[Mine(t)].owner = u => u = t
      OBVIOUS
    <3> QED
      BY <2>1, <2>2, <2>3, <3>1, <3>2, <3>3
  <2>4. CASE gateObjs[o].process # Mine(t)
    <3> DEFINE q == gateObjs[o].process
    <3>1. gateObjs'[o].nested = gateObjs[o].nested /\ localGate'[q] = localGate[q]
      BY <2>2, <2>4
    <3>2. localGate[q].owner = NoOne => gateObjs[o].nested = 0
      BY <2>1 DEF Entering, NestedIs
    <3>3. ASSUME NEW u \in GateUsers, localGate[q].owner = u PROVE gateObjs[o].nested = Times(u, o)'
      <4>1. Mine(u) = q /\ gateObjs[o].nested = Times(u, o)
        BY <2>1, <2>2, <3>3 DEF Entering, NestedIs, LocalHeld
      <4>2. u # t
        BY <2>4, <4>1
      <4>3. Times(u, o)' = Times(u, o)
        BY <1>1, <4>2
      <4> QED
        BY <4>1, <4>3
    <3> QED
      BY <2>1, <2>2, <3>1, <3>2, <3>3
  <2> QED
    BY <2>3, <2>4
<1> QED
  BY <1>5, <1>6

\* What a thread has entered it keeps while others move.
LEMMA EnterFrame ==
  ASSUME GateTypes, NEW u \in GateUsers, EnterHeld(u), thr'[u] = thr[u], entered'[u] = entered[u],
         gateHandle'[u] = gateHandle[u],
         \A g \in Gates : gateHandle[u][g] # NoRef =>
           gateObjs'[gateHandle[u][g]].res = gateObjs[gateHandle[u][g]].res,
         \A i \in 1 .. Len(entered[u]) : lock'[gateObjs[entered[u][i]].res] = Mine(u)
  PROVE  EnterHeld(u)'
<1> USE GatesConstants, FieldTypes
<1>1. ASSUME NEW i \in 1 .. Len(entered[u])
      PROVE  /\ gateObjs'[entered[u][i]].res = gateObjs[entered[u][i]].res
             /\ \E g \in Gates : gateHandle[u][g] = entered[u][i]
  <2>1. \E g \in Gates : gateHandle[u][g] = entered[u][i]
    BY DEF EnterHeld, EntryOf
  <2>2. entered[u][i] # NoRef
    BY ElementOfSeq
  <2> QED
    BY <2>1, <2>2
<1>2. ASSUME NEW i \in 1 .. Len(entered[u]) PROVE EntryOf(u, i)'
  <2>1. \A j \in 1 .. Len(entered[u]) :
          gateObjs'[entered[u][j]].res = gateObjs'[entered[u][i]].res => entered[u][j] = entered[u][i]
    BY <1>1 DEF EnterHeld, EntryOf
  <2>2. lock'[gateObjs'[entered[u][i]].res] = Mine(u)
    BY <1>1
  <2> QED
    BY <1>1, <2>1, <2>2 DEF EntryOf, Mine
<1>3. thr[u].pc \in {"spin", "again"} =>
        /\ thr[u].gate \in Gates /\ thr[u].obj = gateHandle[u][thr[u].gate] /\ thr[u].obj # NoRef
        /\ thr[u].res = gateObjs'[thr[u].obj].res
        /\ \A i \in 1 .. Len(entered[u]) : entered[u][i] # thr[u].obj
  BY DEF EnterHeld
<1>4. InCall(u)' => entered'[u] = <<>>
  BY DEF EnterHeld, InCall
<1> QED
  BY <1>2, <1>3, <1>4 DEF EnterHeld

\* What is entered stays so while a thread that is in no gate creates, deletes,
\* opens or closes one.
LEMMA EnteringFrame ==
  ASSUME GateTypes, Registry, Entering, NEW t \in GateUsers, entered[t] = <<>>,
         thr[t].pc \notin {"spin", "again"}, thr'[t].pc \notin {"spin", "again"},
         UNCHANGED <<lock, localGate, entered>>,
         \A u \in GateUsers \ {t} : thr'[u] = thr[u] /\ gateHandle'[u] = gateHandle[u],
         \A o \in GateObjects : gateObjs'[o].live =>
           \/ /\ gateObjs[o].live /\ gateObjs'[o].process = gateObjs[o].process
              /\ gateObjs'[o].nested = gateObjs[o].nested
           \/ o \in FreeObjects /\ gateObjs'[o].process = Mine(t) /\ gateObjs'[o].nested = 0,
         \A u \in GateUsers \ {t}, g \in Gates : gateHandle[u][g] # NoRef =>
           gateObjs'[gateHandle[u][g]].res = gateObjs[gateHandle[u][g]].res
  PROVE  Entering'
<1> USE GatesConstants, FieldTypes
<1>1. ~Spins(t) /\ ~Spins(t)' /\ \A u \in GateUsers : Spins(u)' = Spins(u)
  BY DEF Spins
<1>2. \A u \in GateUsers : Inside(u)' = Inside(u)
  BY <1>1 DEF Inside
<1>3. \A u \in GateUsers, o \in GateObjects : Times(u, o)' = Times(u, o)
  <2>1. \A o \in GateObjects : Times(t, o) = Occurs(<<>>, o) + 0 /\ Times(t, o)' = Occurs(<<>>, o) + 0
    BY <1>1 DEF Times
  <2>2. \A u \in GateUsers \ {t}, o \in GateObjects : Times(u, o)' = Times(u, o)
    BY DEF Times, Spins
  <2> QED
    BY <2>1, <2>2
<1>4. LocalHeld'
  BY <1>1, <1>2 DEF Entering, LocalHeld, Mine
<1>5. NestedIs'
  <2> SUFFICES ASSUME NEW o \in GateObjects, gateObjs'[o].live
               PROVE  /\ gateObjs'[o].process \in Processes
                      /\ localGate[gateObjs'[o].process].owner = NoOne => gateObjs'[o].nested = 0
                      /\ \A u \in GateUsers :
                           localGate[gateObjs'[o].process].owner = u => gateObjs'[o].nested = Times(u, o)'
    BY DEF NestedIs
  <2>1. CASE /\ gateObjs[o].live /\ gateObjs'[o].process = gateObjs[o].process
             /\ gateObjs'[o].nested = gateObjs[o].nested
    <3>1. /\ gateObjs[o].process \in Processes
          /\ localGate[gateObjs[o].process].owner = NoOne => gateObjs[o].nested = 0
          /\ \A u \in GateUsers : localGate[gateObjs[o].process].owner = u => gateObjs[o].nested = Times(u, o)
      BY <2>1 DEF Entering, NestedIs
    <3> QED
      BY <1>3, <2>1, <3>1
  <2>2. CASE o \in FreeObjects /\ gateObjs'[o].process = Mine(t) /\ gateObjs'[o].nested = 0
    <3>1. ASSUME NEW u \in GateUsers PROVE Times(u, o) = 0
      <4>1. ~(Spins(u) /\ thr[u].obj = o)
        BY <2>2, FreshIs
      <4>2. \A i \in 1 .. Len(entered[u]) : entered[u][i] # o
        BY <2>2, FreshIs, EntryFacts DEF Entering
      <4>3. Occurs(entered[u], o) = 0
        BY <4>2, OccursIs
      <4>4. Times(u, o) = Occurs(entered[u], o) + 0
        BY <4>1 DEF Times
      <4> QED
        BY <4>3, <4>4
    <3>2. ASSUME NEW u \in GateUsers PROVE Times(u, o)' = 0
      <4>1. Times(u, o)' = Times(u, o)
        BY <1>3
      <4> QED
        BY <3>1, <4>1
    <3> QED
      BY <2>2, <3>2
  <2> QED
    BY <2>1, <2>2
<1>6. ASSUME NEW u \in GateUsers PROVE EnterHeld(u)'
  <2>1. CASE u = t
    <3>1. entered'[t] = <<>> /\ 1 .. Len(<<>>) = {}
      BY EmptySeq
    <3> QED
      BY <2>1, <3>1 DEF EnterHeld
  <2>2. CASE u # t
    <3>1. \A i \in 1 .. Len(entered[u]) : lock'[gateObjs[entered[u][i]].res] = Mine(u)
      BY EntryFacts DEF Entering
    <3>2. EnterHeld(u) /\ thr'[u] = thr[u] /\ entered'[u] = entered[u] /\ gateHandle'[u] = gateHandle[u]
      BY <2>2 DEF Entering, EntersHeld
    <3> QED
      BY <2>2, <3>1, <3>2, EnterFrame
  <2> QED
    BY <2>1, <2>2
<1> QED
  BY <1>4, <1>5, <1>6 DEF Entering, EntersHeld

\* The last handle of an object that close deletes is gone.
LEMMA LastIsGone ==
  ASSUME GateTypes, Registry, NEW t \in GateUsers, thr[t].pc = "close"
  PROVE  \A u \in GateUsers, g \in Gates : ~Uses(u, g, thr[t].obj)
<1> USE GatesConstants, FieldTypes, RegistryParts
<1>1. PICK o \in GateObjects : o = thr[t].obj
  BY DEF CallHeld, InCall, EnterPoints
<1>2. gateObjs[o].opened /\ gateObjs[o].opens = 0 /\ gateObjs[o].live
  BY <1>1 DEF CallHeld, OwnsObj
<1>3. IsFiniteSet(UsersOf(o)) /\ Cardinality(UsersOf(o)) = 0
  BY <1>2 DEF OpenHeld
<1>4. UsersOf(o) = {}
  BY <1>3, FS_EmptySet
<1>5. ASSUME NEW u \in GateUsers, NEW g \in Gates, Uses(u, g, o) PROVE FALSE
  <2>1. <<u, g>> \in UsersOf(o)
    BY <1>5 DEF UsersOf
  <2> QED
    BY <1>4, <2>1
<1> QED
  BY <1>1, <1>5

\* A thread in a call is in no gate.
LEMMA NotInGate ==
  ASSUME GateTypes, Entering, NEW t \in GateUsers, InCall(t) \/ (thr[t].pc = "idle" /\ entered[t] = <<>>)
  PROVE  entered[t] = <<>> /\ thr[t].pc \notin {"spin", "again"}
BY DEF Entering, EntersHeld, EnterHeld, InCall, EnterPoints

\* Objects that are made, used or freed, of whom no other thread has a handle.
LEMMA EnteringObject ==
  ASSUME GateTypes, Registry, Entering, NEW t \in GateUsers, NEW o \in GateObjects,
         InCall(t) \/ (thr[t].pc = "idle" /\ entered[t] = <<>>),
         thr'[t].pc \notin {"spin", "again"},
         UNCHANGED <<lock, localGate, entered>>,
         \A u \in GateUsers \ {t} : thr'[u] = thr[u] /\ gateHandle'[u] = gateHandle[u],
         \A u \in GateObjects \ {o} : gateObjs'[u] = gateObjs[u],
         gateObjs'[o].live =>
           \/ /\ gateObjs[o].live /\ gateObjs'[o].process = gateObjs[o].process
              /\ gateObjs'[o].nested = gateObjs[o].nested
           \/ o \in FreeObjects /\ gateObjs'[o].process = Mine(t) /\ gateObjs'[o].nested = 0,
         \/ gateObjs'[o].res = gateObjs[o].res
         \/ \A u \in GateUsers \ {t}, g \in Gates : gateHandle[u][g] # o
  PROVE  Entering'
<1>1. entered[t] = <<>> /\ thr[t].pc \notin {"spin", "again"}
  BY NotInGate
<1>2. \A u \in GateObjects : gateObjs'[u].live =>
           \/ /\ gateObjs[u].live /\ gateObjs'[u].process = gateObjs[u].process
              /\ gateObjs'[u].nested = gateObjs[u].nested
           \/ u \in FreeObjects /\ gateObjs'[u].process = Mine(t) /\ gateObjs'[u].nested = 0
  BY DEF SameObj
<1>3. \A u \in GateUsers \ {t}, g \in Gates : gateHandle[u][g] # NoRef =>
        gateObjs'[gateHandle[u][g]].res = gateObjs[gateHandle[u][g]].res
  BY FieldTypes
<1> QED
  BY <1>1, <1>2, <1>3, EnteringFrame

\* When no object changes, either.
LEMMA EnteringStill ==
  ASSUME GateTypes, Registry, Entering, NEW t \in GateUsers,
         InCall(t) \/ (thr[t].pc = "idle" /\ entered[t] = <<>>),
         thr'[t].pc \notin {"spin", "again"},
         UNCHANGED <<lock, localGate, entered, gateObjs>>,
         \A u \in GateUsers \ {t} : thr'[u] = thr[u] /\ gateHandle'[u] = gateHandle[u]
  PROVE  Entering'
<1>1. entered[t] = <<>> /\ thr[t].pc \notin {"spin", "again"}
  BY NotInGate
<1> QED
  BY <1>1, EnteringFrame

\* Create keeps what is entered.
LEMMA CreateEntering ==
  ASSUME GateTypes, Registry, Entering, NEW t \in GateUsers,
         (\E g \in Gates : CreateCall(t, g)) \/ GetFreeResource(t) \/ Store(t) \/ AddName(t)
  PROVE  Entering'
<1> USE GatesConstants, FieldTypes
<1>1. UNCHANGED <<lock, localGate, entered>>
  BY DEF CreateCall, GetFreeResource, Store, AddName, enterVars
<1>2. CASE \E g \in Gates : CreateCall(t, g)
  <2>1. PICK g \in Gates : CreateCall(t, g)
    BY <1>2
  <2> DEFINE o == Min(FreeObjects)
  <2>2. /\ o \in GateObjects /\ o \in FreeObjects
        /\ gateObjs'[o].process = Mine(t) /\ gateObjs'[o].nested = 0
        /\ \A u \in GateUsers, h \in Gates : gateHandle[u][h] # o
        /\ \A u \in GateObjects \ {o} : gateObjs'[u] = gateObjs[u]
    BY <2>1, CallocIs, FreshObject, NoGateObjType DEF CreateCall, NoGateObj
  <2>3. thr[t].pc = "idle" /\ entered[t] = <<>> /\ thr'[t].pc = "getFree"
    BY <2>1 DEF CreateCall, MayCall, UserAt, GateTypes
  <2>4. \A u \in GateUsers \ {t} : thr'[u] = thr[u] /\ gateHandle'[u] = gateHandle[u]
    BY <2>1 DEF CreateCall, GateTypes
  <2> HIDE DEF o
  <2> HIDE GatesConstants, FieldTypes
  <2> QED
    BY <1>1, <2>2, <2>3, <2>4, EnteringObject
<1>3. CASE GetFreeResource(t)
  <2> DEFINE o == thr[t].obj
  <2>1. /\ thr[t].pc = "getFree" /\ InCall(t)
    BY <1>3 DEF GetFreeResource, UserAt, InCall, EnterPoints
  <2>2. o \in GateObjects /\ gateObjs[o].live /\ \A u \in GateUsers, h \in Gates : gateHandle[u][h] # o
    BY <2>1, GetFreeObject
  <2>3. \/ UserReturns(t) /\ gateObjs' = [gateObjs EXCEPT ![o] = NoGateObj]
        \/ /\ gateObjs' = [gateObjs EXCEPT ![o].res = Min(Resources \ inUse)]
           /\ thr' = [thr EXCEPT ![t].pc = "store", ![t].res = Min(Resources \ inUse)]
    BY <1>3 DEF GetFreeResource
  <2>4. thr'[t].pc \notin {"spin", "again"} /\ \A u \in GateUsers \ {t} : thr'[u] = thr[u]
    BY <2>3, UserIdles DEF GateTypes, UserStates
  <2>5. /\ \A u \in GateObjects \ {o} : gateObjs'[u] = gateObjs[u]
        /\ gateObjs'[o].live =>
             /\ gateObjs'[o].process = gateObjs[o].process /\ gateObjs'[o].nested = gateObjs[o].nested
    BY <2>2, <2>3 DEF GateTypes, GateObjStates, NoGateObj
  <2>6. gateHandle' = gateHandle
    BY <1>3 DEF GetFreeResource
  <2> HIDE DEF o
  <2> HIDE GatesConstants, FieldTypes
  <2> QED
    BY <1>1, <2>1, <2>2, <2>4, <2>5, <2>6, EnteringObject
<1>4. CASE Store(t)
  <2>1. InCall(t) /\ gateObjs' = gateObjs
    BY <1>4 DEF Store, UserAt, InCall, EnterPoints
  <2>2. thr'[t].pc \notin {"spin", "again"} /\ \A u \in GateUsers \ {t} : thr'[u] = thr[u]
    BY <1>4, UserIdles, UserGoes DEF Store, CreatePoints
  <2>3. \A u \in GateUsers \ {t} : gateHandle'[u] = gateHandle[u]
    BY <1>4 DEF Store, GateTypes
  <2> QED
    BY <1>1, <2>1, <2>2, <2>3, EnteringStill
<1>5. CASE AddName(t)
  <2> DEFINE o == thr[t].obj
  <2>1. InCall(t) /\ Sole(t)
    BY <1>5 DEF AddName, UserAt, InCall, EnterPoints, Sole
  <2>2. /\ o \in GateObjects /\ gateObjs[o].live
        /\ \A u \in GateUsers \ {t}, h \in Gates : gateHandle[u][h] # o
    BY <2>1, SoleObject
  <2>3. gateObjs' = [gateObjs EXCEPT ![o] = NoGateObj] \/ gateObjs' = gateObjs
    BY <1>5 DEF AddName
  <2>4. thr'[t].pc \notin {"spin", "again"} /\ \A u \in GateUsers \ {t} : thr'[u] = thr[u]
    BY <1>5, UserIdles DEF AddName
  <2>5. /\ \A u \in GateObjects \ {o} : gateObjs'[u] = gateObjs[u]
        /\ gateObjs'[o].live =>
             /\ gateObjs'[o].process = gateObjs[o].process /\ gateObjs'[o].nested = gateObjs[o].nested
    BY <2>2, <2>3 DEF GateTypes, GateObjStates, NoGateObj
  <2>6. \A u \in GateUsers \ {t} : gateHandle'[u] = gateHandle[u]
    BY <1>5 DEF AddName, GateTypes
  <2> HIDE DEF o
  <2> HIDE GatesConstants, FieldTypes
  <2> QED
    BY <1>1, <2>1, <2>2, <2>4, <2>5, <2>6, EnteringObject
<1> QED
  BY <1>2, <1>3, <1>4, <1>5

\* So does delete.
LEMMA DeleteEntering ==
  ASSUME GateTypes, Registry, Entering, NEW t \in GateUsers,
         (\E g \in Gates : DeleteCall(t, g)) \/ DeleteClears(t) \/ ReleaseResource(t)
  PROVE  Entering'
<1> USE GatesConstants, FieldTypes
<1>1. UNCHANGED <<lock, localGate, entered>>
  BY DEF DeleteCall, DeleteClears, ReleaseResource, enterVars
<1>2. CASE \E g \in Gates : DeleteCall(t, g)
  <2>1. thr[t].pc = "idle" /\ entered[t] = <<>> /\ gateObjs' = gateObjs /\ gateHandle' = gateHandle
    BY <1>2 DEF DeleteCall, UserAt, processVars
  <2>2. thr'[t].pc = "clear" /\ \A u \in GateUsers \ {t} : thr'[u] = thr[u]
    BY <1>2 DEF DeleteCall, GateTypes
  <2> QED
    BY <1>1, <2>1, <2>2, EnteringStill
<1>3. CASE DeleteClears(t)
  <2>1. InCall(t) /\ gateObjs' = gateObjs /\ gateHandle' = gateHandle
    BY <1>3 DEF DeleteClears, UserAt, InCall, EnterPoints
  <2>2. thr'[t].pc = "release" /\ \A u \in GateUsers \ {t} : thr'[u] = thr[u]
    BY <1>3, UserGoes DEF DeleteClears, DeletePoints
  <2> QED
    BY <1>1, <2>1, <2>2, EnteringStill
<1>4. CASE ReleaseResource(t)
  <2> DEFINE o == thr[t].obj
  <2>1. InCall(t) /\ Sole(t)
    BY <1>4 DEF ReleaseResource, UserAt, InCall, EnterPoints, Sole
  <2>2. /\ o \in GateObjects
        /\ \A u \in GateUsers \ {t}, h \in Gates : gateHandle[u][h] # o
    BY <2>1, SoleObject
  <2>3. gateObjs' = [gateObjs EXCEPT ![o] = NoGateObj]
    BY <1>4 DEF ReleaseResource
  <2>4. thr'[t].pc = "idle" /\ \A u \in GateUsers \ {t} : thr'[u] = thr[u]
    BY <1>4, UserIdles DEF ReleaseResource
  <2>5. ~gateObjs'[o].live /\ \A u \in GateObjects \ {o} : gateObjs'[u] = gateObjs[u]
    BY <2>2, <2>3 DEF GateTypes, GateObjStates, NoGateObj
  <2>6. \A u \in GateUsers \ {t} : gateHandle'[u] = gateHandle[u]
    BY <1>4 DEF ReleaseResource, GateTypes
  <2> HIDE DEF o
  <2> HIDE GatesConstants, FieldTypes
  <2> QED
    BY <1>1, <2>1, <2>2, <2>4, <2>5, <2>6, EnteringObject
<1> QED
  BY <1>2, <1>3, <1>4

\* So do open and close.
LEMMA OpenEntering ==
  ASSUME GateTypes, Registry, Entering, NEW t \in GateUsers,
         \/ \E g \in Gates : OpenCall(t, g)
         \/ OpenLooks(t) \/ OpenCounts(t)
  PROVE  Entering'
<1> USE GatesConstants, FieldTypes, RegistryParts
<1>1. UNCHANGED <<lock, localGate, entered>>
  BY DEF OpenCall, OpenLooks, OpenCounts, enterVars
<1>2. CASE \E g \in Gates : OpenCall(t, g)
  <2>1. thr[t].pc = "idle" /\ entered[t] = <<>> /\ gateObjs' = gateObjs /\ gateHandle' = gateHandle
    BY <1>2 DEF OpenCall, MayCall, UserAt, processVars
  <2>2. thr'[t].pc = "look" /\ \A u \in GateUsers \ {t} : thr'[u] = thr[u]
    BY <1>2 DEF OpenCall, GateTypes
  <2> QED
    BY <1>1, <2>1, <2>2, EnteringStill
<1>3. CASE OpenLooks(t)
  <2>1. InCall(t) /\ gateHandle' = gateHandle
    BY <1>3 DEF OpenLooks, UserAt, InCall, EnterPoints
  <2>2. CASE gateTable[Mine(t)][thr[t].res] # NoRef
    <3>1. gateObjs' = gateObjs
      BY <1>3, <2>2 DEF OpenLooks
    <3>2. thr'[t].pc = "count" /\ \A u \in GateUsers \ {t} : thr'[u] = thr[u]
      BY <1>3, <2>2 DEF OpenLooks, GateTypes, UserStates
    <3> QED
      BY <1>1, <2>1, <3>1, <3>2, EnteringStill
  <2>3. CASE gateTable[Mine(t)][thr[t].res] = NoRef
    <3> DEFINE o == Min(FreeObjects)
               f == [NoGateObj EXCEPT !.res = thr[t].res, !.opened = TRUE, !.opens = 1]
    <3>1. FreeObjects # {} /\ Calloc(t, f) /\ thr' = [thr EXCEPT ![t].pc = "store", ![t].obj = o]
      BY <1>3, <2>3 DEF OpenLooks
    <3>2. f \in GateObjStates /\ f.nested = 0
      <4>1. thr[t].res \in Resources
        BY <1>3 DEF OpenLooks, UserAt, CallHeld, Named, OpenPoints
      <4> QED
        BY <4>1, OpenedObjType
    <3> HIDE DEF f
    <3>3. /\ o \in GateObjects /\ o \in FreeObjects
          /\ gateObjs'[o].process = Mine(t) /\ gateObjs'[o].nested = 0
          /\ \A u \in GateUsers, h \in Gates : gateHandle[u][h] # o
          /\ \A u \in GateObjects \ {o} : gateObjs'[u] = gateObjs[u]
      BY <3>1, <3>2, CallocIs, FreshObject
    <3>4. thr'[t].pc = "store" /\ \A u \in GateUsers \ {t} : thr'[u] = thr[u]
      BY <3>1 DEF GateTypes, UserStates
    <3> HIDE DEF o
    <3> HIDE GatesConstants, FieldTypes, RegistryParts
    <3> QED
      BY <1>1, <2>1, <3>3, <3>4, EnteringObject
  <2> QED
    BY <2>2, <2>3
<1>4. CASE OpenCounts(t)
  <2> DEFINE o == thr[t].obj
             n == gateObjs[o].opens + 1
  <2>1. InCall(t) /\ thr[t].pc = "count"
    BY <1>4 DEF OpenCounts, UserAt, InCall, EnterPoints
  <2>2. o \in GateObjects /\ gateObjs[o].live
    BY <1>4, <2>1 DEF OpenCounts, CallHeld
  <2>3. gateObjs' = [gateObjs EXCEPT ![o].opens = n]
    BY <1>4 DEF OpenCounts
  <2>4. thr'[t].pc = "idle" /\ \A u \in GateUsers \ {t} : thr'[u] = thr[u]
    BY <1>4, UserIdles DEF OpenCounts
  <2> HIDE DEF n
  <2>5. /\ \A u \in GateObjects \ {o} : gateObjs'[u] = gateObjs[u]
        /\ gateObjs'[o].process = gateObjs[o].process /\ gateObjs'[o].nested = gateObjs[o].nested
        /\ gateObjs'[o].res = gateObjs[o].res
    BY <2>2, <2>3 DEF GateTypes, GateObjStates
  <2>6. \A u \in GateUsers \ {t} : gateHandle'[u] = gateHandle[u]
    BY <1>4 DEF OpenCounts, GateTypes
  <2> HIDE DEF o
  <2> HIDE GatesConstants, FieldTypes, RegistryParts
  <2> QED
    BY <1>1, <2>1, <2>2, <2>4, <2>5, <2>6, EnteringObject
<1> QED
  BY <1>2, <1>3, <1>4

\* Close takes a handle away, and with the last one the object.
LEMMA CloseEntering ==
  ASSUME GateTypes, Registry, Entering, NEW t \in GateUsers,
         (\E g \in Gates : Close(t, g)) \/ CloseDeletes(t)
  PROVE  Entering'
<1> USE GatesConstants, FieldTypes, RegistryParts
<1>1. UNCHANGED <<lock, localGate, entered>>
  BY DEF Close, CloseDeletes, enterVars
<1>2. ASSUME NEW g \in Gates, Close(t, g) PROVE Entering'
  <2> DEFINE o == gateHandle[t][g]
             n == gateObjs[o].opens - 1
             w == [pc |-> "close", gate |-> g, obj |-> o, res |-> gateObjs[o].res]
  <2>1. thr[t].pc = "idle" /\ entered[t] = <<>> /\ o \in GateObjects
    BY <1>2 DEF Close, UserAt
  <2>2. gateObjs[o].live
    BY <2>1 DEF HandleHeld
  <2>3. gateObjs' = [gateObjs EXCEPT ![o].opens = n] /\ (thr' = [thr EXCEPT ![t] = w] \/ thr' = thr)
    BY <1>2 DEF Close
  <2>4. thr'[t].pc \in {"idle", "close"} /\ \A u \in GateUsers \ {t} : thr'[u] = thr[u]
    BY <2>1, <2>3 DEF GateTypes
  <2> HIDE DEF n
  <2>5. /\ \A u \in GateObjects \ {o} : gateObjs'[u] = gateObjs[u]
        /\ gateObjs'[o].process = gateObjs[o].process /\ gateObjs'[o].nested = gateObjs[o].nested
        /\ gateObjs'[o].res = gateObjs[o].res
    BY <2>1, <2>3 DEF GateTypes, GateObjStates
  <2>6. \A u \in GateUsers \ {t} : gateHandle'[u] = gateHandle[u]
    BY <1>2 DEF Close, GateTypes
  <2> HIDE DEF o
  <2> HIDE GatesConstants, FieldTypes, RegistryParts
  <2> QED
    BY <1>1, <2>1, <2>2, <2>4, <2>5, <2>6, EnteringObject
<1>3. CASE CloseDeletes(t)
  <2> DEFINE o == thr[t].obj
  <2>1. InCall(t) /\ thr[t].pc = "close" /\ gateHandle' = gateHandle
    BY <1>3 DEF CloseDeletes, UserAt, InCall, EnterPoints
  <2>2. o \in GateObjects /\ \A u \in GateUsers, h \in Gates : gateHandle[u][h] # o
    BY <2>1, LastIsGone DEF CallHeld, Uses
  <2>3. gateObjs' = [gateObjs EXCEPT ![o] = NoGateObj]
    BY <1>3 DEF CloseDeletes
  <2>4. thr'[t].pc = "idle" /\ \A u \in GateUsers \ {t} : thr'[u] = thr[u]
    BY <1>3, UserIdles DEF CloseDeletes
  <2>5. ~gateObjs'[o].live /\ \A u \in GateObjects \ {o} : gateObjs'[u] = gateObjs[u]
    BY <2>2, <2>3 DEF GateTypes, GateObjStates, NoGateObj
  <2> HIDE DEF o
  <2> HIDE GatesConstants, FieldTypes, RegistryParts
  <2> QED
    BY <1>1, <2>1, <2>2, <2>4, <2>5, EnteringObject
<1> QED
  BY <1>2, <1>3

\* One more time in the gate of an object, and in the local gate.
LEMMA CountsMore ==
  ASSUME GateTypes, Registry, Entering, NEW t \in GateUsers, NEW o \in GateObjects, MayEnter(t),
         gateObjs[o].process = Mine(t),
         gateObjs' = [gateObjs EXCEPT ![o].nested = @ + 1], localGate' = EntersLocal(t),
         \A u \in GateUsers \ {t} : thr'[u] = thr[u] /\ entered'[u] = entered[u],
         entered'[t] \in Seq(GateObjects),
         Inside(t)' = Inside(t) + 1,
         \A x \in GateObjects : Times(t, x)' = Times(t, x) + (IF x = o THEN 1 ELSE 0)
  PROVE  LocalHeld' /\ NestedIs' /\ (\A x \in GateObjects : SameObj(x))
<1> USE GatesConstants, FieldTypes
<1> DEFINE n == gateObjs[o].nested + 1
<1>1. gateObjs' = [gateObjs EXCEPT ![o].nested = n]
  OBVIOUS
<1> HIDE DEF n
<1>2. /\ \A x \in GateObjects : SameObj(x)
      /\ gateObjs'[o].nested = n /\ \A x \in GateObjects \ {o} : gateObjs'[x].nested = gateObjs[x].nested
  BY <1>1 DEF SameObj, GateTypes, GateObjStates
<1>3. /\ Inside(t) \in Nat /\ localGate[Mine(t)].depth = Inside(t)
      /\ \A x \in GateObjects : gateObjs[x].live /\ gateObjs[x].process = Mine(t) =>
           gateObjs[x].nested = Times(t, x)
      /\ \A u \in GateUsers \ {t} : Mine(u) = Mine(t) => entered[u] = <<>> /\ ~Spins(u)
  BY LocalTells
<1>4. /\ localGate'[Mine(t)].owner = t /\ localGate'[Mine(t)].depth = localGate[Mine(t)].depth + 1
      /\ \A q \in Processes \ {Mine(t)} : localGate'[q] = localGate[q]
  BY LocalIs
<1>5. localGate'[Mine(t)].depth = Inside(t)' /\ Inside(t)' # 0
  BY <1>3, <1>4
<1>6. ASSUME NEW x \in GateObjects, gateObjs[x].live, gateObjs[x].process = Mine(t)
      PROVE  gateObjs'[x].nested = Times(t, x)'
  <2>1. gateObjs[x].nested = Times(t, x) /\ gateObjs[x].nested \in Int
    BY <1>3, <1>6
  <2>2. CASE x = o
    BY <1>2, <2>1, <2>2 DEF n
  <2>3. CASE x # o
    <3>1. Times(t, x)' = Times(t, x) + 0
      BY <2>3
    <3> QED
      BY <1>2, <2>1, <2>3, <3>1
  <2> QED
    BY <2>2, <2>3
<1>7. \A x \in GateObjects : gateObjs[x].process # Mine(t) => gateObjs'[x].nested = gateObjs[x].nested
  BY <1>2
<1>8. localGate'[Mine(t)].owner = IF Inside(t)' = 0 THEN NoOne ELSE t
  BY <1>4, <1>5
<1> HIDE GatesConstants, FieldTypes
<1> QED
  BY <1>2, <1>3, <1>4, <1>5, <1>6, <1>7, <1>8, LocalFrame

\* And one less.
LEMMA CountsLess ==
  ASSUME GateTypes, Registry, Entering, NEW t \in GateUsers, NEW o \in GateObjects,
         entered[t] # <<>> \/ Spins(t),
         gateObjs[o].process = Mine(t),
         gateObjs' = [gateObjs EXCEPT ![o].nested = @ - 1], localGate' = LeavesLocal(t),
         \A u \in GateUsers \ {t} : thr'[u] = thr[u] /\ entered'[u] = entered[u],
         entered'[t] \in Seq(GateObjects),
         Inside(t) = Inside(t)' + 1,
         \A x \in GateObjects : Times(t, x) = Times(t, x)' + (IF x = o THEN 1 ELSE 0),
         Inside(t)' \in Nat, \A x \in GateObjects : Times(t, x)' \in Int
  PROVE  LocalHeld' /\ NestedIs' /\ (\A x \in GateObjects : SameObj(x))
<1> USE GatesConstants, FieldTypes
<1> DEFINE n == gateObjs[o].nested - 1
<1>1. gateObjs' = [gateObjs EXCEPT ![o].nested = n]
  OBVIOUS
<1> HIDE DEF n
<1>2. /\ \A x \in GateObjects : SameObj(x)
      /\ gateObjs'[o].nested = n /\ \A x \in GateObjects \ {o} : gateObjs'[x].nested = gateObjs[x].nested
  <2>1. gateObjs \in [GateObjects -> GateObjStates]
    BY DEF GateTypes
  <2>2. gateObjs'[o] = [gateObjs[o] EXCEPT !.nested = n] /\ \A x \in GateObjects \ {o} : gateObjs'[x] = gateObjs[x]
    BY <1>1, <2>1
  <2>3. SameObj(o) /\ gateObjs'[o].nested = n
    BY <2>1, <2>2 DEF SameObj, GateObjStates
  <2>4. \A x \in GateObjects \ {o} : SameObj(x) /\ gateObjs'[x].nested = gateObjs[x].nested
    BY <2>2 DEF SameObj
  <2> QED
    BY <2>3, <2>4
<1>3. /\ Inside(t) \in Nat /\ localGate[Mine(t)].depth = Inside(t)
      /\ \A x \in GateObjects : gateObjs[x].live /\ gateObjs[x].process = Mine(t) =>
           gateObjs[x].nested = Times(t, x)
      /\ \A u \in GateUsers \ {t} : Mine(u) = Mine(t) => entered[u] = <<>> /\ ~Spins(u)
  <2>1. MayEnter(t)
    BY DEF Entering, LocalHeld, MayEnter
  <2> QED
    BY <2>1, LocalTells
<1>4. /\ localGate'[Mine(t)].owner = IF localGate[Mine(t)].depth = 1 THEN NoOne ELSE t
      /\ localGate'[Mine(t)].depth = localGate[Mine(t)].depth - 1
      /\ \A q \in Processes \ {Mine(t)} : localGate'[q] = localGate[q]
  BY LocalIs
<1>5. localGate'[Mine(t)].depth = Inside(t)' /\ (localGate[Mine(t)].depth = 1 <=> Inside(t)' = 0)
  BY <1>3, <1>4
<1>6. ASSUME NEW x \in GateObjects, gateObjs[x].live, gateObjs[x].process = Mine(t)
      PROVE  gateObjs'[x].nested = Times(t, x)'
  <2>1. gateObjs[x].nested = Times(t, x) /\ gateObjs[x].nested \in Int /\ Times(t, x)' \in Int
    BY <1>3, <1>6
  <2>2. CASE x = o
    <3>1. Times(t, x) = Times(t, x)' + 1
      BY <2>2
    <3>2. gateObjs'[x].nested = gateObjs[x].nested - 1
      BY <1>2, <2>2 DEF n
    <3> QED
      BY <2>1, <3>1, <3>2
  <2>3. CASE x # o
    <3>1. Times(t, x) = Times(t, x)' + 0
      BY <2>3
    <3> QED
      BY <1>2, <2>1, <2>3, <3>1
  <2> QED
    BY <2>2, <2>3
<1>7. \A x \in GateObjects : gateObjs[x].process # Mine(t) => gateObjs'[x].nested = gateObjs[x].nested
  BY <1>2
<1>8. localGate'[Mine(t)].owner = IF Inside(t)' = 0 THEN NoOne ELSE t
  BY <1>4, <1>5
<1> HIDE GatesConstants, FieldTypes
<1> QED
  BY <1>2, <1>3, <1>4, <1>5, <1>6, <1>7, <1>8, LocalFrame

\* The others keep what they have entered when their spinlocks stay.
LEMMA OthersHeld ==
  ASSUME GateTypes, Registry, Entering, NEW t \in GateUsers, gateHandle' = gateHandle,
         \A u \in GateUsers \ {t} : thr'[u] = thr[u] /\ entered'[u] = entered[u],
         \A x \in GateObjects : SameObj(x),
         \A u \in GateUsers \ {t}, r \in Resources :
           lock[r] = Mine(u) /\ entered[u] # <<>> => lock'[r] = Mine(u)
  PROVE  \A u \in GateUsers \ {t} : EnterHeld(u)'
<1> SUFFICES ASSUME NEW u \in GateUsers \ {t} PROVE EnterHeld(u)'
  OBVIOUS
<1>1. EnterHeld(u)
  BY DEF Entering, EntersHeld
<1>2. \A g \in Gates : gateHandle[u][g] # NoRef =>
        gateObjs'[gateHandle[u][g]].res = gateObjs[gateHandle[u][g]].res
  BY FieldTypes DEF SameObj
<1>3. ASSUME NEW i \in 1 .. Len(entered[u]) PROVE lock'[gateObjs[entered[u][i]].res] = Mine(u)
  <2>1. gateObjs[entered[u][i]].res \in Resources /\ lock[gateObjs[entered[u][i]].res] = Mine(u)
    BY EntryFacts DEF Entering
  <2>2. entered[u] # <<>>
    BY EmptySeq
  <2> QED
    BY <2>1, <2>2
<1> QED
  BY <1>1, <1>2, <1>3, EnterFrame

\* Entries are kept when they are of the thread's entries and their locks stay, or
\* of one more object.
LEMMA EntriesFrame ==
  ASSUME GateTypes, Registry, Entering, NEW t \in GateUsers, gateHandle' = gateHandle,
         \A x \in GateObjects : SameObj(x),
         \A i \in 1 .. Len(entered'[t]) : \E j \in 1 .. Len(entered[t]) : entered'[t][i] = entered[t][j],
         \A i \in 1 .. Len(entered'[t]) : lock'[gateObjs[entered'[t][i]].res] = Mine(t)
  PROVE  \A i \in 1 .. Len(entered'[t]) : EntryOf(t, i)'
<1>1. ASSUME NEW i \in 1 .. Len(entered'[t])
      PROVE  /\ entered'[t][i] \in GateObjects
             /\ \E g \in Gates : gateHandle[t][g] = entered'[t][i]
             /\ \A k \in 1 .. Len(entered[t]) :
                  gateObjs[entered[t][k]].res = gateObjs[entered'[t][i]].res => entered[t][k] = entered'[t][i]
  <2>1. PICK j \in 1 .. Len(entered[t]) : entered'[t][i] = entered[t][j]
    OBVIOUS
  <2> QED
    BY <2>1, EntryFacts DEF Entering
<1>2. \A i \in 1 .. Len(entered'[t]) : gateObjs'[entered'[t][i]].res = gateObjs[entered'[t][i]].res
  BY <1>1 DEF SameObj
<1>3. ASSUME NEW i \in 1 .. Len(entered'[t]) PROVE EntryOf(t, i)'
  <2>1. lock'[gateObjs'[entered'[t][i]].res] = Mine(t)
    BY <1>2
  <2>2. ASSUME NEW j \in 1 .. Len(entered'[t]), gateObjs'[entered'[t][j]].res = gateObjs'[entered'[t][i]].res
        PROVE  entered'[t][j] = entered'[t][i]
    <3>1. gateObjs[entered'[t][j]].res = gateObjs[entered'[t][i]].res
      BY <1>2, <2>2
    <3>2. PICK k \in 1 .. Len(entered[t]) : entered'[t][j] = entered[t][k]
      OBVIOUS
    <3> QED
      BY <1>1, <3>1, <3>2
  <2>3. \E g \in Gates : gateHandle'[t][g] = entered'[t][i]
    BY <1>1
  <2> QED
    BY <2>1, <2>2, <2>3 DEF EntryOf, Mine
<1> QED
  BY <1>3

\* The entries of a sequence with one more.
LEMMA AppendedAre ==
  ASSUME NEW S, NEW s \in Seq(S), NEW x \in S
  PROVE  /\ Append(s, x) \in Seq(S) /\ Len(Append(s, x)) = Len(s) + 1 /\ Len(s) \in Nat
         /\ \A i \in 1 .. Len(Append(s, x)) : i \in 1 .. Len(s) \/ Append(s, x)[i] = x
         /\ \A i \in 1 .. Len(s) : Append(s, x)[i] = s[i]
<1>1. Len(s) \in Nat
  BY LenProperties
<1>2. /\ Append(s, x) \in Seq(S) /\ Len(Append(s, x)) = Len(s) + 1
      /\ \A i \in 1 .. Len(s) : Append(s, x)[i] = s[i]
      /\ Append(s, x)[Len(s) + 1] = x
  BY AppendProperties
<1>3. 1 .. Len(s) + 1 = 1 .. Len(s) \cup {Len(s) + 1}
  BY <1>1
<1> QED
  BY <1>1, <1>2, <1>3

\* A thread enters its local gate, and the object again or towards its spinlock.
LEMMA EnterGateEntering ==
  ASSUME GateTypes, Registry, Entering, NEW t \in GateUsers, NEW g \in Gates, EnterGate(t, g)
  PROVE  Entering'
<1> USE GatesConstants, FieldTypes, RegistryParts
<1>1. /\ thr[t].pc = "idle" /\ ~Spins(t) /\ MayEnter(t) /\ gateHandle' = gateHandle /\ lock' = lock
      /\ localGate' = EntersLocal(t)
  BY DEF EnterGate, UserAt, Spins
<1>2. PICK o \in GateObjects : o = gateHandle[t][g]
  BY DEF EnterGate
<1>3. /\ gateObjs[o].live /\ gateObjs[o].process = Mine(t)
      /\ gateObjs' = [gateObjs EXCEPT ![o].nested = @ + 1]
  BY <1>2 DEF HandleHeld, EnterGate
<1>4. /\ Inside(t) = Len(entered[t]) /\ Len(entered[t]) \in Nat
      /\ \A x \in GateObjects : Times(t, x) = Occurs(entered[t], x) /\ Occurs(entered[t], x) \in Nat
  <2>1. Inside(t) = Len(entered[t]) + 0 /\ Len(entered[t]) \in Nat
    BY <1>1, LenProperties DEF Inside
  <2>2. \A x \in GateObjects : Times(t, x) = Occurs(entered[t], x) + 0 /\ Occurs(entered[t], x) \in Nat
    BY <1>1, OccursIs DEF Times
  <2> QED
    BY <2>1, <2>2
<1>5. gateObjs[o].nested = Occurs(entered[t], o)
  BY <1>1, <1>3, <1>4, LocalTells
<1>6. CASE gateObjs[o].nested = 0
  <2>1. /\ thr' = [thr EXCEPT ![t] = [pc |-> "spin", gate |-> g, obj |-> o, res |-> gateObjs[o].res]]
        /\ entered' = entered
    BY <1>2, <1>6 DEF EnterGate
  <2>2. /\ thr'[t].pc = "spin" /\ thr'[t].gate = g /\ thr'[t].obj = o /\ thr'[t].res = gateObjs[o].res
        /\ \A u \in GateUsers \ {t} : thr'[u] = thr[u] /\ entered'[u] = entered[u]
    BY <2>1 DEF GateTypes
  <2>3. Inside(t)' = Inside(t) + 1
    BY <1>4, <2>1, <2>2 DEF Inside, Spins
  <2>4. \A x \in GateObjects : Times(t, x)' = Times(t, x) + (IF x = o THEN 1 ELSE 0)
    BY <1>4, <2>1, <2>2 DEF Times, Spins
  <2>5. entered'[t] \in Seq(GateObjects)
    BY <2>1
  <2> HIDE GatesConstants, FieldTypes, RegistryParts
  <2>6. LocalHeld' /\ NestedIs' /\ (\A x \in GateObjects : SameObj(x))
    BY <1>1, <1>3, <2>2, <2>3, <2>4, <2>5, CountsMore
  <2>7. \A u \in GateUsers \ {t} : EnterHeld(u)'
    BY <1>1, <2>2, <2>6, OthersHeld
  <2>8. EnterHeld(t)'
    <3>1. \A i \in 1 .. Len(entered'[t]) : EntryOf(t, i)'
      BY <1>1, <2>1, <2>6, EntriesFrame, EntryFacts DEF Entering
    <3>2. \A i \in 1 .. Len(entered[t]) : entered[t][i] # o
      BY <1>5, <1>6, OccursIs, FieldTypes
    <3>3. ~InCall(t)' /\ gateObjs'[o].res = gateObjs[o].res /\ o # NoRef
      BY <2>2, <2>6, GatesConstants DEF InCall, EnterPoints, SameObj
    <3> QED
      BY <1>1, <1>2, <2>1, <2>2, <3>1, <3>2, <3>3 DEF EnterHeld
  <2> QED
    BY <2>6, <2>7, <2>8 DEF Entering, EntersHeld
<1>7. CASE gateObjs[o].nested # 0
  <2>1. thr' = thr /\ entered' = [entered EXCEPT ![t] = Append(entered[t], o)]
    BY <1>2, <1>7 DEF EnterGate
  <2>2. /\ entered'[t] = Append(entered[t], o)
        /\ \A u \in GateUsers \ {t} : thr'[u] = thr[u] /\ entered'[u] = entered[u]
    BY <2>1 DEF GateTypes
  <2>3. /\ entered'[t] \in Seq(GateObjects) /\ Len(entered'[t]) = Len(entered[t]) + 1
        /\ \A i \in 1 .. Len(entered'[t]) : i \in 1 .. Len(entered[t]) \/ entered'[t][i] = o
        /\ \A i \in 1 .. Len(entered[t]) : entered'[t][i] = entered[t][i]
    BY <2>2, AppendedAre
  <2>4. ~Spins(t)'
    BY <1>1, <2>1 DEF Spins
  <2>5. Inside(t)' = Inside(t) + 1
    <3>1. Inside(t)' = Len(entered'[t]) + 0
      BY <2>4 DEF Inside
    <3> QED
      BY <1>4, <2>3, <3>1
  <2>6. ASSUME NEW x \in GateObjects PROVE Times(t, x)' = Times(t, x) + (IF x = o THEN 1 ELSE 0)
    <3>1. Times(t, x)' = Occurs(entered'[t], x) + 0
      BY <2>4 DEF Times
    <3>2. Occurs(entered'[t], x) = Occurs(entered[t], x) + (IF x = o THEN 1 ELSE 0)
      BY <2>2, OccursMore
    <3>3. Occurs(entered[t], x) \in Nat /\ Times(t, x) = Occurs(entered[t], x)
      BY <1>4
    <3>4. CASE x = o
      BY <3>1, <3>2, <3>3, <3>4
    <3>5. CASE x # o
      BY <3>1, <3>2, <3>3, <3>5
    <3> QED
      BY <3>4, <3>5
  <2> HIDE GatesConstants, FieldTypes, RegistryParts
  <2>7. LocalHeld' /\ NestedIs' /\ (\A x \in GateObjects : SameObj(x))
    BY <1>1, <1>3, <2>2, <2>3, <2>5, <2>6, CountsMore
  <2>8. \A u \in GateUsers \ {t} : EnterHeld(u)'
    BY <1>1, <2>2, <2>7, OthersHeld
  <2>9. PICK k \in 1 .. Len(entered[t]) : entered[t][k] = o
    BY <1>5, <1>7, OccursIs, FieldTypes
  <2>10. \A i \in 1 .. Len(entered'[t]) : \E j \in 1 .. Len(entered[t]) : entered'[t][i] = entered[t][j]
    BY <2>3, <2>9
  <2>11. \A i \in 1 .. Len(entered'[t]) : lock'[gateObjs[entered'[t][i]].res] = Mine(t)
    BY <1>1, <2>10, EntryFacts DEF Entering
  <2>12. \A i \in 1 .. Len(entered'[t]) : EntryOf(t, i)'
    BY <1>1, <2>7, <2>10, <2>11, EntriesFrame
  <2>13. EnterHeld(t)'
    BY <1>1, <2>1, <2>12 DEF EnterHeld, InCall, EnterPoints
  <2> QED
    BY <2>7, <2>8, <2>13 DEF Entering, EntersHeld
<1> QED
  BY <1>6, <1>7

\* A thread gets the spinlock it waits for.
LEMMA LocksEntering ==
  ASSUME GateTypes, Registry, Entering, NEW t \in GateUsers, Locks(t)
  PROVE  Entering'
<1> USE GatesConstants, FieldTypes, RegistryParts
<1>1. /\ thr[t].pc = "spin" /\ Spins(t) /\ lock[thr[t].res] = NoOne /\ gateHandle' = gateHandle
      /\ gateObjs' = gateObjs /\ localGate' = localGate /\ UserReturns(t)
  BY DEF Locks, UserAt, Spins, processVars
<1>2. PICK o \in GateObjects : o = thr[t].obj
  BY <1>1 DEF Entering, EntersHeld, EnterHeld
<1>3. /\ thr[t].gate \in Gates /\ gateHandle[t][thr[t].gate] = o /\ thr[t].res = gateObjs[o].res
      /\ \A i \in 1 .. Len(entered[t]) : entered[t][i] # o
  BY <1>1, <1>2 DEF Entering, EntersHeld, EnterHeld
<1>4. PICK r \in Resources : r = gateObjs[o].res
  BY <1>3 DEF HandleHeld
<1>5. gateObjs[o].live /\ gateObjs[o].process = Mine(t)
  BY <1>3 DEF HandleHeld
<1>6. lock' = [lock EXCEPT ![r] = Mine(t)] /\ entered' = [entered EXCEPT ![t] = Append(entered[t], o)]
  BY <1>2, <1>3, <1>4 DEF Locks
<1>7. /\ lock[r] = NoOne /\ lock'[r] = Mine(t)
      /\ \A q \in Resources \ {r} : lock'[q] = lock[q]
      /\ entered'[t] = Append(entered[t], o)
      /\ \A u \in GateUsers \ {t} : thr'[u] = thr[u] /\ entered'[u] = entered[u]
      /\ thr'[t].pc = "idle"
  BY <1>1, <1>3, <1>4, <1>6, UserIdles DEF GateTypes
<1>8. /\ entered'[t] \in Seq(GateObjects) /\ Len(entered'[t]) = Len(entered[t]) + 1 /\ Len(entered[t]) \in Nat
      /\ \A i \in 1 .. Len(entered'[t]) : i \in 1 .. Len(entered[t]) \/ entered'[t][i] = o
      /\ \A i \in 1 .. Len(entered[t]) : entered'[t][i] = entered[t][i]
  BY <1>7, AppendedAre
<1>9. ~Spins(t)' /\ MayEnter(t)
  BY <1>1, <1>7 DEF Spins, Entering, LocalHeld, MayEnter
<1>10. Inside(t)' = Inside(t)
  <2>1. Inside(t)' = Len(entered'[t]) + 0 /\ Inside(t) = Len(entered[t]) + 1
    BY <1>1, <1>9 DEF Inside
  <2> QED
    BY <1>8, <2>1
<1>11. ASSUME NEW x \in GateObjects PROVE Times(t, x)' = Times(t, x)
  <2>1. Times(t, x)' = Occurs(entered'[t], x) + 0
    BY <1>9 DEF Times
  <2>2. Occurs(entered'[t], x) = Occurs(entered[t], x) + (IF o = x THEN 1 ELSE 0)
    BY <1>7, OccursMore
  <2>3. Times(t, x) = Occurs(entered[t], x) + (IF o = x THEN 1 ELSE 0)
    BY <1>1, <1>2 DEF Times
  <2>4. Occurs(entered[t], x) \in Nat
    BY OccursIs
  <2>5. CASE o = x
    BY <2>1, <2>2, <2>3, <2>4, <2>5
  <2>6. CASE o # x
    BY <2>1, <2>2, <2>3, <2>4, <2>6
  <2> QED
    BY <2>5, <2>6
<1>12. \A x \in GateObjects : SameObj(x) /\ gateObjs'[x].nested = gateObjs[x].nested
  BY <1>1 DEF SameObj
<1>13. LocalHeld' /\ NestedIs'
  <2>1. /\ localGate[Mine(t)].depth = Inside(t)
        /\ localGate[Mine(t)].owner = IF Inside(t) = 0 THEN NoOne ELSE t
        /\ \A x \in GateObjects : gateObjs[x].live /\ gateObjs[x].process = Mine(t) =>
             gateObjs[x].nested = Times(t, x)
        /\ \A u \in GateUsers \ {t} : Mine(u) = Mine(t) => entered[u] = <<>> /\ ~Spins(u)
    BY <1>9, LocalTells
  <2> HIDE GatesConstants, FieldTypes, RegistryParts
  <2>2. /\ localGate'[Mine(t)].depth = Inside(t)'
        /\ localGate'[Mine(t)].owner = IF Inside(t)' = 0 THEN NoOne ELSE t
        /\ \A q \in Processes \ {Mine(t)} : localGate'[q] = localGate[q]
    <3>1. localGate' = localGate
      BY <1>1
    <3>2. localGate[Mine(t)].depth = Inside(t) /\ localGate[Mine(t)].owner = IF Inside(t) = 0 THEN NoOne ELSE t
      BY <2>1
    <3> HIDE <2>1
    <3> QED
      BY <1>10, <3>1, <3>2
  <2>3. \A x \in GateObjects : gateObjs[x].live /\ gateObjs[x].process = Mine(t) =>
          gateObjs'[x].nested = Times(t, x)'
    BY <1>11, <1>12, <2>1
  <2>4. \A u \in GateUsers \ {t} : Mine(u) = Mine(t) => entered[u] = <<>> /\ ~Spins(u)
    BY <2>1
  <2>5. \A x \in GateObjects : SameObj(x)
    BY <1>12
  <2>6. \A x \in GateObjects : gateObjs[x].process # Mine(t) => gateObjs'[x].nested = gateObjs[x].nested
    BY <1>12
  <2>7. /\ entered'[t] \in Seq(GateObjects)
        /\ \A u \in GateUsers \ {t} : thr'[u] = thr[u] /\ entered'[u] = entered[u]
    BY <1>7, <1>8
  <2> QED
    BY <2>2, <2>3, <2>4, <2>5, <2>6, <2>7, LocalFrame
<1>14. \A u \in GateUsers \ {t} : EnterHeld(u)'
  <2>1. \A u \in GateUsers \ {t}, q \in Resources :
          lock[q] = Mine(u) /\ entered[u] # <<>> => lock'[q] = Mine(u)
    BY <1>7
  <2> HIDE GatesConstants, FieldTypes, RegistryParts
  <2> QED
    BY <1>1, <1>7, <1>12, <2>1, OthersHeld
<1>15. EnterHeld(t)'
  <2>1. ASSUME NEW i \in 1 .. Len(entered[t])
        PROVE  /\ entered[t][i] \in GateObjects /\ gateObjs[entered[t][i]].res # r
               /\ lock'[gateObjs[entered[t][i]].res] = Mine(t)
               /\ \E g \in Gates : gateHandle[t][g] = entered[t][i]
               /\ \A j \in 1 .. Len(entered[t]) :
                    gateObjs[entered[t][j]].res = gateObjs[entered[t][i]].res => entered[t][j] = entered[t][i]
    <3>1. /\ entered[t][i] \in GateObjects /\ gateObjs[entered[t][i]].res \in Resources
          /\ lock[gateObjs[entered[t][i]].res] = Mine(t)
          /\ \E g \in Gates : gateHandle[t][g] = entered[t][i]
          /\ \A j \in 1 .. Len(entered[t]) :
               gateObjs[entered[t][j]].res = gateObjs[entered[t][i]].res => entered[t][j] = entered[t][i]
      BY EntryFacts DEF Entering
    <3> QED
      BY <1>7, <3>1
  <2>2. ASSUME NEW i \in 1 .. Len(entered'[t])
        PROVE  /\ \E g \in Gates : gateHandle[t][g] = entered'[t][i]
               /\ lock'[gateObjs[entered'[t][i]].res] = Mine(t)
               /\ \A j \in 1 .. Len(entered'[t]) :
                    gateObjs[entered'[t][j]].res = gateObjs[entered'[t][i]].res => entered'[t][j] = entered'[t][i]
    <3>1. CASE i \in 1 .. Len(entered[t])
      <4>1. /\ entered'[t][i] = entered[t][i] /\ gateObjs[entered[t][i]].res # r
            /\ lock'[gateObjs[entered[t][i]].res] = Mine(t)
            /\ \E g \in Gates : gateHandle[t][g] = entered[t][i]
        BY <1>8, <2>1, <3>1
      <4>2. ASSUME NEW j \in 1 .. Len(entered'[t]), gateObjs[entered'[t][j]].res = gateObjs[entered'[t][i]].res
            PROVE  entered'[t][j] = entered'[t][i]
        <5>1. j \in 1 .. Len(entered[t])
          BY <1>4, <1>8, <4>1, <4>2
        <5>2. entered'[t][j] = entered[t][j]
          BY <1>8, <5>1
        <5> QED
          BY <2>1, <3>1, <4>1, <4>2, <5>1, <5>2
      <4> QED
        BY <4>1, <4>2
    <3>2. CASE entered'[t][i] = o
      BY <1>3, <1>4, <1>7, <1>8, <2>1, <3>2
    <3> QED
      BY <1>8, <3>1, <3>2
  <2>3. \A i \in 1 .. Len(entered'[t]) : EntryOf(t, i)'
    BY <1>1, <2>2 DEF EntryOf, Mine
  <2> QED
    BY <1>7, <2>3 DEF EnterHeld, InCall, EnterPoints
<1> QED
  BY <1>13, <1>14, <1>15 DEF Entering, EntersHeld

\* A thread whose spinlock is taken leaves its local gate, and enters it again.
LEMMA BacksOffEntering ==
  ASSUME GateTypes, Registry, Entering, NEW t \in GateUsers, BacksOff(t) \/ Again(t)
  PROVE  Entering'
<1> USE GatesConstants, FieldTypes, RegistryParts
<1>1. /\ thr[t].pc \in {"spin", "again"} /\ lock' = lock /\ gateHandle' = gateHandle /\ entered' = entered
      /\ UserGoto(t, IF thr[t].pc = "spin" THEN "again" ELSE "spin")
  BY DEF BacksOff, Again, UserAt
<1>2. PICK o \in GateObjects : o = thr[t].obj
  BY <1>1 DEF Entering, EntersHeld, EnterHeld
<1>3. gateObjs[o].live /\ gateObjs[o].process = Mine(t)
  BY <1>1, <1>2 DEF Entering, EntersHeld, EnterHeld, HandleHeld
<1>4. /\ thr'[t].pc = IF thr[t].pc = "spin" THEN "again" ELSE "spin"
      /\ thr'[t].gate = thr[t].gate /\ thr'[t].obj = o /\ thr'[t].res = thr[t].res
      /\ \A u \in GateUsers \ {t} : thr'[u] = thr[u] /\ entered'[u] = entered[u]
  BY <1>1, <1>2, UserGoes DEF EnterPoints
<1>5. entered'[t] \in Seq(GateObjects) /\ Len(entered[t]) \in Nat
  BY <1>1, LenProperties
<1>6. LocalHeld' /\ NestedIs' /\ (\A x \in GateObjects : SameObj(x))
  <2>1. CASE BacksOff(t)
    <3>1. /\ thr[t].pc = "spin" /\ localGate' = LeavesLocal(t)
          /\ gateObjs' = [gateObjs EXCEPT ![o].nested = @ - 1]
      BY <1>2, <2>1 DEF BacksOff, UserAt, Unnested
    <3>2. Spins(t) /\ ~Spins(t)'
      BY <1>4, <3>1 DEF Spins
    <3>3. Inside(t) = Inside(t)' + 1 /\ Inside(t)' \in Nat
      <4>1. Inside(t) = Len(entered[t]) + 1 /\ Inside(t)' = Len(entered[t]) + 0
        BY <1>1, <3>2 DEF Inside
      <4> QED
        BY <1>5, <4>1
    <3>4. ASSUME NEW x \in GateObjects
          PROVE  Times(t, x) = Times(t, x)' + (IF x = o THEN 1 ELSE 0) /\ Times(t, x)' \in Int
      <4>1. Times(t, x)' = Occurs(entered[t], x) + 0
        BY <1>1, <3>2 DEF Times
      <4>2. Times(t, x) = Occurs(entered[t], x) + (IF o = x THEN 1 ELSE 0)
        BY <1>2, <3>2 DEF Times
      <4>3. Occurs(entered[t], x) \in Nat
        BY OccursIs
      <4>4. CASE o = x
        BY <4>1, <4>2, <4>3, <4>4
      <4>5. CASE o # x
        BY <4>1, <4>2, <4>3, <4>5
      <4> QED
        BY <4>4, <4>5
    <3> HIDE GatesConstants, FieldTypes, RegistryParts
    <3> QED
      BY <1>3, <1>4, <1>5, <3>1, <3>2, <3>3, <3>4, CountsLess
  <2>2. CASE Again(t)
    <3>1. /\ thr[t].pc = "again" /\ localGate' = EntersLocal(t) /\ MayEnter(t)
          /\ gateObjs' = [gateObjs EXCEPT ![o].nested = @ + 1]
      BY <1>2, <2>2 DEF Again, UserAt
    <3>2. ~Spins(t) /\ Spins(t)'
      BY <1>4, <3>1 DEF Spins
    <3>3. Inside(t)' = Inside(t) + 1
      <4>1. Inside(t)' = Len(entered[t]) + 1 /\ Inside(t) = Len(entered[t]) + 0
        BY <1>1, <3>2 DEF Inside
      <4> QED
        BY <1>5, <4>1
    <3>4. ASSUME NEW x \in GateObjects PROVE Times(t, x)' = Times(t, x) + (IF x = o THEN 1 ELSE 0)
      <4>1. Times(t, x) = Occurs(entered[t], x) + 0
        BY <3>2 DEF Times
      <4>2. Times(t, x)' = Occurs(entered[t], x) + (IF o = x THEN 1 ELSE 0)
        BY <1>1, <1>4, <3>2 DEF Times
      <4>3. Occurs(entered[t], x) \in Nat
        BY OccursIs
      <4>4. CASE o = x
        BY <4>1, <4>2, <4>3, <4>4
      <4>5. CASE o # x
        BY <4>1, <4>2, <4>3, <4>5
      <4> QED
        BY <4>4, <4>5
    <3> HIDE GatesConstants, FieldTypes, RegistryParts
    <3> QED
      BY <1>3, <1>4, <1>5, <3>1, <3>3, <3>4, CountsMore
  <2> QED
    BY <2>1, <2>2
<1>7. \A u \in GateUsers \ {t} : EnterHeld(u)'
  BY <1>1, <1>4, <1>6, OthersHeld
<1>8. EnterHeld(t)'
  <2>1. \A i \in 1 .. Len(entered'[t]) : EntryOf(t, i)'
    <3> HIDE GatesConstants, FieldTypes, RegistryParts
    <3> QED
      BY <1>1, <1>6, EntriesFrame, EntryFacts DEF Entering
  <2>2. /\ thr[t].gate \in Gates /\ o = gateHandle[t][thr[t].gate] /\ o # NoRef
        /\ thr[t].res = gateObjs[o].res
        /\ \A i \in 1 .. Len(entered[t]) : entered[t][i] # o
    BY <1>1, <1>2 DEF Entering, EntersHeld, EnterHeld
  <2>3. gateObjs'[o].res = gateObjs[o].res /\ ~InCall(t)'
    BY <1>4, <1>6 DEF SameObj, InCall, EnterPoints
  <2> QED
    BY <1>1, <1>4, <2>1, <2>2, <2>3 DEF EnterHeld
<1> QED
  BY <1>6, <1>7, <1>8 DEF Entering, EntersHeld

\* A thread leaves the object it entered last, and with the last time its spinlock.
LEMMA LeaveEntering ==
  ASSUME GateTypes, Registry, Entering, NEW t \in GateUsers, LeaveGate(t)
  PROVE  Entering'
<1> USE GatesConstants, FieldTypes, RegistryParts
<1>1. /\ thr[t].pc = "idle" /\ entered[t] # <<>> /\ gateHandle' = gateHandle /\ thr' = thr
      /\ localGate' = LeavesLocal(t)
  BY DEF LeaveGate, UserAt
<1>2. PICK o \in GateObjects : o = Last(entered[t])
  BY <1>1, FrontLast
<1> DEFINE s == entered[t]
           f == Front(s)
<1>3. /\ f \in Seq(GateObjects) /\ Len(s) \in Nat /\ Len(s) = Len(f) + 1 /\ Len(f) \in Nat
      /\ s = Append(f, o)
  <2>1. /\ Front(entered[t]) \in Seq(GateObjects) /\ Len(entered[t]) \in Nat
        /\ Len(Front(entered[t])) = Len(entered[t]) - 1
        /\ entered[t] = Append(Front(entered[t]), Last(entered[t]))
    BY <1>1, FrontLast
  <2>2. Len(Front(entered[t])) \in Nat
    BY <2>1, LenProperties
  <2> QED
    BY <1>2, <2>1, <2>2
<1>4. /\ \A i \in 1 .. Len(f) : s[i] = f[i] /\ i \in 1 .. Len(s)
      /\ Len(s) \in 1 .. Len(s) /\ s[Len(s)] = o
  BY <1>3, AppendProperties
<1>5. \A x \in GateObjects : Occurs(s, x) = Occurs(f, x) + (IF o = x THEN 1 ELSE 0) /\ Occurs(f, x) \in Nat
  <2> SUFFICES ASSUME NEW x \in GateObjects
               PROVE  Occurs(s, x) = Occurs(f, x) + (IF o = x THEN 1 ELSE 0) /\ Occurs(f, x) \in Nat
    OBVIOUS
  <2> HIDE DEF f
  <2>1. Occurs(Append(f, o), x) = Occurs(f, x) + (IF o = x THEN 1 ELSE 0) /\ Occurs(f, x) \in Nat
    BY <1>3, OccursMore, OccursIs
  <2> QED
    BY <1>3, <2>1
<1>6. /\ entered' = [entered EXCEPT ![t] = f]
      /\ gateObjs' = [gateObjs EXCEPT ![o].nested = @ - 1]
      /\ lock' = IF gateObjs[o].nested = 1 THEN [lock EXCEPT ![gateObjs[o].res] = NoOne] ELSE lock
  BY <1>2 DEF LeaveGate
<1>7. /\ gateObjs[o].live /\ gateObjs[o].process = Mine(t) /\ gateObjs[o].res \in Resources
      /\ lock[gateObjs[o].res] = Mine(t)
      /\ \A j \in 1 .. Len(s) : gateObjs[s[j]].res = gateObjs[o].res => s[j] = o
  <2>1. PICK n \in 1 .. Len(entered[t]) : entered[t][n] = o
    BY <1>4
  <2> QED
    BY <2>1, EntryFacts DEF Entering
<1>8. entered'[t] = f /\ \A u \in GateUsers \ {t} : thr'[u] = thr[u] /\ entered'[u] = entered[u]
  BY <1>1, <1>6 DEF GateTypes
<1> HIDE DEF f, s
<1>9. ~Spins(t) /\ ~Spins(t)'
  BY <1>1 DEF Spins
<1>10. Inside(t) = Inside(t)' + 1 /\ Inside(t)' \in Nat
  <2>1. Inside(t) = Len(s) + 0 /\ Inside(t)' = Len(f) + 0
    BY <1>8, <1>9 DEF Inside, s
  <2> QED
    BY <1>3, <2>1
<1>11. ASSUME NEW x \in GateObjects
       PROVE  Times(t, x) = Times(t, x)' + (IF x = o THEN 1 ELSE 0) /\ Times(t, x)' \in Int
  <2>1. Times(t, x) = Occurs(s, x) + 0 /\ Times(t, x)' = Occurs(f, x) + 0
    BY <1>8, <1>9 DEF Times, s
  <2>2. CASE x = o
    BY <1>5, <2>1, <2>2
  <2>3. CASE x # o
    BY <1>5, <2>1, <2>3
  <2> QED
    BY <2>2, <2>3
<1>12. LocalHeld' /\ NestedIs' /\ (\A x \in GateObjects : SameObj(x))
  <2> HIDE GatesConstants, FieldTypes, RegistryParts
  <2> QED
    BY <1>1, <1>3, <1>6, <1>7, <1>8, <1>10, <1>11, CountsLess
<1>13. \A u \in GateUsers \ {t} : Mine(u) = Mine(t) => entered[u] = <<>>
  BY <1>1 DEF Entering, LocalHeld
<1>14. \A r \in Resources : r # gateObjs[o].res => lock'[r] = lock[r]
  BY <1>6 DEF GateTypes
<1>15. \A u \in GateUsers \ {t} : EnterHeld(u)'
  <2>1. ASSUME NEW u \in GateUsers \ {t}, NEW r \in Resources, lock[r] = Mine(u), entered[u] # <<>>
        PROVE  lock'[r] = Mine(u)
    <3>1. r # gateObjs[o].res
      BY <1>7, <1>13, <2>1
    <3> QED
      BY <1>14, <2>1, <3>1
  <2> HIDE GatesConstants, FieldTypes, RegistryParts
  <2> QED
    BY <1>1, <1>8, <1>12, <2>1, OthersHeld
<1>16. gateObjs[o].nested = 1 => \A i \in 1 .. Len(f) : f[i] # o
  <2> SUFFICES ASSUME gateObjs[o].nested = 1 PROVE \A i \in 1 .. Len(f) : f[i] # o
    OBVIOUS
  <2>1. MayEnter(t)
    BY <1>1 DEF Entering, LocalHeld, MayEnter
  <2>2. gateObjs[o].nested = Times(t, o)
    BY <1>7, <2>1, LocalTells
  <2>3. Times(t, o) = Occurs(s, o) + 0
    BY <1>9 DEF Times, s
  <2>4. Occurs(f, o) = 0
    BY <1>5, <2>2, <2>3
  <2> QED
    BY <1>3, <2>4, OccursIs
<1>17. ASSUME NEW i \in 1 .. Len(f)
       PROVE  /\ \E j \in 1 .. Len(entered[t]) : f[i] = entered[t][j]
              /\ lock'[gateObjs[f[i]].res] = Mine(t)
  <2>1. i \in 1 .. Len(entered[t]) /\ f[i] = entered[t][i]
    BY <1>4 DEF s
  <2>2. gateObjs[f[i]].res \in Resources /\ lock[gateObjs[f[i]].res] = Mine(t)
    BY <2>1, EntryFacts DEF Entering
  <2>3. CASE gateObjs[o].nested = 1
    <3>1. gateObjs[f[i]].res # gateObjs[o].res
      BY <1>4, <1>7, <1>16, <2>3
    <3> QED
      BY <1>14, <2>1, <2>2, <3>1
  <2>4. CASE gateObjs[o].nested # 1
    BY <1>6, <2>1, <2>2, <2>4
  <2> QED
    BY <2>3, <2>4
<1>18. EnterHeld(t)'
  <2>1. \A i \in 1 .. Len(entered'[t]) : EntryOf(t, i)'
    <3> HIDE GatesConstants, FieldTypes, RegistryParts
    <3> QED
      BY <1>1, <1>8, <1>12, <1>17, EntriesFrame
  <2> QED
    BY <1>1, <2>1 DEF EnterHeld, InCall, EnterPoints
<1> QED
  BY <1>12, <1>15, <1>18 DEF Entering, EntersHeld

\* A process that dies is in no gate any more.
LEMMA DieEntering ==
  ASSUME GateTypes, Registry, Entering, NEW p \in Processes, Die(p)
  PROVE  Entering'
<1> USE GatesConstants, FieldTypes, RegistryParts
<1>1. /\ gateObjs' = [o \in GateObjects |-> IF gateObjs[o].process = p THEN NoGateObj ELSE gateObjs[o]]
      /\ thr' = [t \in GateUsers |-> IF Mine(t) = p THEN IdleUser ELSE thr[t]]
      /\ gateHandle' = [t \in GateUsers |-> IF Mine(t) = p THEN NoneOpen ELSE gateHandle[t]]
      /\ entered' = [t \in GateUsers |-> IF Mine(t) = p THEN <<>> ELSE entered[t]]
      /\ localGate' = [localGate EXCEPT ![p] = [owner |-> NoOne, depth |-> 0]]
      /\ \E leaves \in {p, NoOne} : lock' = [r \in Resources |-> IF lock[r] = p THEN leaves ELSE lock[r]]
  BY DEF Die
<1>2. /\ \A t \in GateUsers : Mine(t) = p => thr'[t].pc = "idle" /\ entered'[t] = <<>>
      /\ \A t \in GateUsers : Mine(t) # p =>
           thr'[t] = thr[t] /\ gateHandle'[t] = gateHandle[t] /\ entered'[t] = entered[t]
      /\ localGate'[p].owner = NoOne /\ localGate'[p].depth = 0
      /\ \A q \in Processes \ {p} : localGate'[q] = localGate[q]
      /\ \A r \in Resources : lock[r] # p => lock'[r] = lock[r]
  BY <1>1 DEF IdleUser, GateTypes
<1>3. /\ \A o \in GateObjects : gateObjs[o].process # p => gateObjs'[o] = gateObjs[o]
      /\ \A o \in GateObjects : gateObjs'[o].live => gateObjs[o].process # p
  BY <1>1 DEF NoGateObj
<1>4. /\ \A t \in GateUsers : Mine(t) = p => ~Spins(t)'
      /\ \A t \in GateUsers : Mine(t) # p => Spins(t)' = Spins(t) /\ Inside(t)' = Inside(t)
      /\ \A t \in GateUsers, o \in GateObjects : Mine(t) # p => Times(t, o)' = Times(t, o)
  BY <1>2 DEF Spins, Inside, Times
<1>5. LocalHeld'
  <2>1. ASSUME NEW t \in GateUsers, entered'[t] # <<>> \/ Spins(t)' PROVE localGate'[Mine(t)].owner = t
    <3>1. Mine(t) # p
      BY <1>2, <1>4, <2>1
    <3>2. entered[t] # <<>> \/ Spins(t)
      BY <1>2, <1>4, <2>1, <3>1
    <3>3. localGate[Mine(t)].owner = t
      BY <3>2 DEF Entering, LocalHeld
    <3> QED
      BY <1>2, <3>1, <3>3
  <2>2. \A q \in Processes : localGate'[q].owner = NoOne => localGate'[q].depth = 0
    BY <1>2 DEF Entering, LocalHeld
  <2>3. ASSUME NEW q \in Processes, NEW t \in GateUsers, localGate'[q].owner = t
        PROVE  Mine(t) = q /\ localGate'[q].depth = Inside(t)' /\ localGate'[q].depth > 0
    <3>1. q # p /\ localGate'[q] = localGate[q]
      BY <1>2, <2>3
    <3>2. Mine(t) = q /\ localGate[q].depth = Inside(t) /\ localGate[q].depth > 0
      BY <2>3, <3>1 DEF Entering, LocalHeld
    <3> QED
      BY <1>4, <3>1, <3>2
  <2> QED
    BY <2>1, <2>2, <2>3 DEF LocalHeld, Mine
<1>6. NestedIs'
  <2> SUFFICES ASSUME NEW o \in GateObjects, gateObjs'[o].live
               PROVE  /\ gateObjs'[o].process \in Processes
                      /\ localGate'[gateObjs'[o].process].owner = NoOne => gateObjs'[o].nested = 0
                      /\ \A t \in GateUsers :
                           localGate'[gateObjs'[o].process].owner = t => gateObjs'[o].nested = Times(t, o)'
    BY DEF NestedIs
  <2>1. gateObjs'[o] = gateObjs[o] /\ gateObjs[o].live /\ gateObjs[o].process # p
    BY <1>3
  <2> DEFINE q == gateObjs[o].process
  <2>2. q \in Processes /\ (localGate[q].owner = NoOne => gateObjs[o].nested = 0)
    BY <2>1 DEF Entering, NestedIs
  <2>3. localGate'[q] = localGate[q]
    BY <1>2, <2>1, <2>2
  <2>4. ASSUME NEW t \in GateUsers, localGate[q].owner = t PROVE gateObjs[o].nested = Times(t, o)'
    <3>1. Mine(t) = q /\ gateObjs[o].nested = Times(t, o)
      BY <2>1, <2>2, <2>4 DEF Entering, NestedIs, LocalHeld
    <3> HIDE GatesConstants, FieldTypes, RegistryParts
    <3> QED
      BY <1>4, <2>1, <3>1
  <2> QED
    BY <2>1, <2>2, <2>3, <2>4
<1>7. ASSUME NEW t \in GateUsers PROVE EnterHeld(t)'
  <2>1. CASE Mine(t) = p
    <3>1. thr'[t].pc = "idle" /\ entered'[t] = <<>> /\ 1 .. Len(<<>>) = {}
      BY <1>2, <2>1, EmptySeq
    <3> QED
      BY <3>1 DEF EnterHeld
  <2>2. CASE Mine(t) # p
    <3>1. thr'[t] = thr[t] /\ gateHandle'[t] = gateHandle[t] /\ entered'[t] = entered[t] /\ EnterHeld(t)
      BY <1>2, <2>2 DEF Entering, EntersHeld
    <3>2. ASSUME NEW g \in Gates, gateHandle[t][g] # NoRef
          PROVE  gateObjs'[gateHandle[t][g]].res = gateObjs[gateHandle[t][g]].res
      <4>1. gateHandle[t][g] \in GateObjects /\ gateObjs[gateHandle[t][g]].process = Mine(t)
        BY <3>2 DEF HandleHeld
      <4> QED
        BY <1>3, <2>2, <4>1
    <3>3. ASSUME NEW i \in 1 .. Len(entered[t]) PROVE lock'[gateObjs[entered[t][i]].res] = Mine(t)
      <4>1. gateObjs[entered[t][i]].res \in Resources /\ lock[gateObjs[entered[t][i]].res] = Mine(t)
        BY EntryFacts DEF Entering
      <4> QED
        BY <1>2, <2>2, <4>1
    <3> HIDE GatesConstants, FieldTypes, RegistryParts
    <3> QED
      BY <3>1, <3>2, <3>3, EnterFrame
  <2> QED
    BY <2>1, <2>2
<1> QED
  BY <1>5, <1>6, <1>7 DEF Entering, EntersHeld

\* A remote processor takes free spinlocks only, and what is misused changes nothing.
LEMMA OthersEntering ==
  ASSUME GateTypes, Registry, Entering,
         \/ \E t \in GateUsers : OpenCountsFreed(t)
         \/ \E r \in Resources : RemoteEnters(r)
         \/ UNCHANGED linuxGateVars
  PROVE  Entering'
<1> USE GatesConstants, FieldTypes
<1>1. UNCHANGED <<gateObjs, thr, gateHandle, localGate, entered>>
  BY DEF OpenCountsFreed, RemoteEnters, processVars, enterVars, linuxGateVars
<1>2. \A r \in Resources : lock[r] \in Processes => lock'[r] = lock[r]
  <2>1. CASE \E r \in Resources : RemoteEnters(r)
    BY <2>1 DEF RemoteEnters, GateTypes
  <2>2. CASE (\E t \in GateUsers : OpenCountsFreed(t)) \/ UNCHANGED linuxGateVars
    BY <2>2 DEF OpenCountsFreed, linuxGateVars, enterVars
  <2> QED
    BY <2>1, <2>2
<1>3. LocalHeld' /\ NestedIs'
  <2>1. \A t \in GateUsers : Spins(t)' = Spins(t) /\ Inside(t)' = Inside(t)
    BY <1>1 DEF Spins, Inside
  <2>2. \A t \in GateUsers, o \in GateObjects : Times(t, o)' = Times(t, o)
    BY <1>1 DEF Spins, Times
  <2>3. LocalHeld'
    BY <1>1, <2>1 DEF Entering, LocalHeld, Mine
  <2>4. NestedIs'
    BY <1>1, <2>2 DEF Entering, NestedIs
  <2> QED
    BY <2>3, <2>4
<1>4. ASSUME NEW t \in GateUsers PROVE EnterHeld(t)'
  <2>1. EnterHeld(t)
    BY DEF Entering, EntersHeld
  <2>2. ASSUME NEW i \in 1 .. Len(entered[t]) PROVE lock'[gateObjs[entered[t][i]].res] = Mine(t)
    <3>1. gateObjs[entered[t][i]].res \in Resources /\ lock[gateObjs[entered[t][i]].res] = Mine(t)
      BY EntryFacts DEF Entering
    <3> QED
      BY <1>2, <3>1
  <2> HIDE GatesConstants, FieldTypes
  <2> QED
    BY <1>1, <2>1, <2>2, EnterFrame
<1> QED
  BY <1>3, <1>4 DEF Entering, EntersHeld

\* Every step keeps what is entered.
LEMMA EnteringInv ==
  ASSUME GateTypes, Registry, Entering, [GatesNext]_linuxGateVars
  PROVE  Entering'
<1>1. ASSUME NEW t \in GateUsers, UserStep(t) PROVE Entering'
  <2>1. CASE GetFreeResource(t) \/ Store(t) \/ AddName(t)
    BY <2>1, CreateEntering
  <2>2. CASE DeleteClears(t) \/ ReleaseResource(t)
    BY <2>2, DeleteEntering
  <2>3. CASE OpenLooks(t) \/ OpenCounts(t)
    BY <2>3, OpenEntering
  <2>4. CASE OpenCountsFreed(t) \/ CloseDeletes(t)
    BY <2>4, OthersEntering, CloseEntering
  <2>5. CASE Locks(t) \/ BacksOff(t) \/ Again(t) \/ LeaveGate(t)
    BY <2>5, LocksEntering, BacksOffEntering, LeaveEntering
  <2> QED
    BY <1>1, <2>1, <2>2, <2>3, <2>4, <2>5 DEF UserStep
<1>2. ASSUME NEW t \in GateUsers, NEW g \in Gates,
             CreateCall(t, g) \/ DeleteCall(t, g) \/ OpenCall(t, g) \/ Close(t, g) \/ EnterGate(t, g)
      PROVE  Entering'
  BY <1>2, CreateEntering, DeleteEntering, OpenEntering, CloseEntering, EnterGateEntering
<1> QED
  BY <1>1, <1>2, DieEntering, OthersEntering DEF GatesNext

\* The invariant of the Linux gates.
THEOREM GatesHold == GatesSpec => []GatesInvariant
<1>1. GatesInit => GatesInvariant
  BY GateTypesInit, RegistryInit, EnteringInit DEF GatesInvariant
<1>2. GatesInvariant /\ [GatesNext]_linuxGateVars => GatesInvariant'
  <2> SUFFICES ASSUME GatesInvariant, [GatesNext]_linuxGateVars PROVE GatesInvariant'
    OBVIOUS
  <2>1. GateTypes /\ Registry /\ Entering /\ CallsHold /\ EntersHeld
    BY DEF GatesInvariant, Registry, Entering
  <2> QED
    BY <2>1, GateTypesInv, RegistryInv, EnteringInv DEF GatesInvariant
<1> QED
  BY <1>1, <1>2, PTL DEF GatesSpec

\* One thread of all processes is in a gate, whose spinlock its process has;
\* resources and handles are accounted for (GateHWSpinlock_enter, GateMP_open,
\* GateMP_close).
THEOREM ProcessesApart == GatesSpec => []ProcessesExclude
<1>1. GatesInvariant => ProcessesExclude
  <2> SUFFICES ASSUME GatesInvariant PROVE ProcessesExclude
    OBVIOUS
  <2>1. GateTypes /\ Registry /\ Entering /\ EntersHeld
    BY DEF GatesInvariant, Entering
  <2>2. OneInGate
    <3>1. ASSUME NEW t \in GateUsers, NEW i \in DOMAIN entered[t]
          PROVE  /\ lock[gateObjs[entered[t][i]].res] = Mine(t)
                 /\ \A u \in GateUsers \ {t} : \A j \in DOMAIN entered[u] :
                      gateObjs[entered[u][j]].res # gateObjs[entered[t][i]].res
      <4>1. \A u \in GateUsers : DOMAIN entered[u] = 1 .. Len(entered[u])
        BY <2>1, FieldTypes, LenProperties
      <4>2. lock[gateObjs[entered[t][i]].res] = Mine(t)
        BY <2>1, <4>1, EntryFacts
      <4>3. ASSUME NEW u \in GateUsers \ {t}, NEW j \in DOMAIN entered[u],
                   gateObjs[entered[u][j]].res = gateObjs[entered[t][i]].res
            PROVE  FALSE
        <5>1. Mine(u) = Mine(t)
          BY <2>1, <4>1, <4>2, <4>3, EntryFacts
        <5>2. entered[u] # <<>> /\ entered[t] # <<>>
          BY <4>1, EmptySeq
        <5> QED
          BY <2>1, <5>1, <5>2 DEF Entering, LocalHeld
      <4> QED
        BY <4>2, <4>3
    <3> QED
      BY <3>1 DEF OneInGate
  <2>3. ResourcesAccounted
    BY <2>1 DEF Registry, CreatedHeld, NamesApart, ResourcesAccounted
  <2>4. HandlesAreLive
    BY <2>1 DEF Registry, HandlesHeld, HandleHeld, HandlesAreLive
  <2> QED
    BY <2>2, <2>3, <2>4 DEF ProcessesExclude
<1> QED
  BY <1>1, GatesHold, PTL

-----------------------------------------------------------------------------
(***************************************************************************)
(* GatePeterson: for any threads on the two processors and any nesting     *)
(* depth, every variable keeps its type, the gate excludes, and a waiting  *)
(* processor is overtaken at most once.                                    *)
(*                                                                         *)
(* The inductive invariant says which thread a processor's local gate      *)
(* belongs to (LocalGate), that a thread from setTurn to clearFlag shows   *)
(* its flag (FlagShown), that nothing stale is in the cache when it is     *)
(* about to be read (LinesDropped), and what the turn tells about a waiting *)
(* thread: the holder has it (HolderHasTurn), and a thread that was        *)
(* overtaken has it (OvertakenHasTurn).                                    *)
(***************************************************************************)

WaitPoints == {"readFlag", "readTurn"}

LocalGate ==
    /\ \A t \in Threads : pc[t] # "out" => owner[Home[t]] = t
    /\ \A p \in Procs : owner[p] = None => nested[p] = 0
    /\ \A p \in Procs : owner[p] # None =>
           pc[owner[p]] # "out" /\ Home[owner[p]] = p

NestedCount ==
    \A t \in Threads :
        /\ pc[t] = "in" => nested[Home[t]] >= 1
        /\ pc[t] \in {"setFlag", "setTurn", "readFlag", "readTurn"} => nested[Home[t]] = 1
        /\ pc[t] \in {"clearFlag", "leaveLocal"} => nested[Home[t]] = 0

FlagShown ==
    \A t \in Threads :
        pc[t] \in {"setTurn", "readFlag", "readTurn", "in", "clearFlag"}
            => flag[Home[t]] = BUSY

LinesDropped ==
    \A t \in Threads :
        /\ pc[t] = "readFlag" => line[Home[t]] = NoLines
        /\ pc[t] = "readTurn" => line[Home[t]].turn = Absent

HolderHasTurn ==
    \A s, t \in Threads :
        pc[s] = "in" /\ pc[t] \in WaitPoints /\ Home[s] # Home[t] => turn = Home[s]

OvertakenHasTurn ==
    \A s, t \in Threads :
        pc[s] \in WaitPoints /\ pc[t] \in WaitPoints /\ Home[s] # Home[t]
            /\ passed[Home[t]] >= 1 => turn = Home[t]

IInv ==
    /\ TypeOK
    /\ LocalGate
    /\ NestedCount
    /\ FlagShown
    /\ LinesDropped
    /\ HolderHasTurn
    /\ OvertakenHasTurn
    /\ MutualExclusion
    /\ OvertakenOnce

-----------------------------------------------------------------------------
(* Every thread has one of the two processors.                             *)
LEMMA HomeType == Home \in [Threads -> {0, 1}]
  BY DEF Home

USE HomeType, NestAssumption, NoneAssumption, AbsentAssumption

(* The initial states satisfy the inductive invariant. *)
LEMMA InitInv == Init => IInv
BY DEF Init, IInv, TypeOK, LocalGate, NestedCount, FlagShown, LinesDropped, HolderHasTurn,
       OvertakenHasTurn, MutualExclusion, OvertakenOnce, Procs, FREE, BUSY, NoLines,
       Locations, WaitPoints

(* There are two processors, and a thread runs on one of them. *)
LEMMA TwoProcs == /\ \A t \in Threads : Home[t] \in Procs /\ Other(Home[t]) \in Procs
                  /\ \A p \in Procs : Other(p) # p /\ Other(Other(p)) = p
                  /\ \A p, q \in Procs : p # q => q = Other(p)
BY DEF Procs, Other

(* A thread that is inside its local gate is the only one of its processor. *)
LEMMA OneInside ==
    ASSUME LocalGate, NEW s \in Threads, NEW t \in Threads,
           pc[s] # "out", pc[t] # "out", Home[s] = Home[t]
    PROVE  s = t
BY DEF LocalGate

(* enter takes the local gate, or nests.                                   *)
LEMMA EnterInv ==
    ASSUME IInv, NEW u \in Threads, Enter(u)
    PROVE  IInv'
<1> USE DEF Enter, Goto
<1>1. TypeOK'
  <2>1. nested[Home[u]] + 1 \in 0..MaxNest BY TwoProcs DEF IInv, TypeOK
  <2> QED BY <2>1, TwoProcs DEF IInv, TypeOK, Locations
<1>2. LocalGate' BY TwoProcs DEF IInv, TypeOK, LocalGate
<1>3. NestedCount' BY TwoProcs, OneInside DEF IInv, TypeOK, LocalGate, NestedCount
<1>4. FlagShown' BY TwoProcs DEF IInv, TypeOK, LocalGate, NestedCount, FlagShown
<1>5. LinesDropped' BY DEF IInv, TypeOK, LinesDropped
<1>6. pc[u] = "out" => pc'[u] = "setFlag" BY TwoProcs DEF IInv, TypeOK, LocalGate
<1>7. pc[u] = "in" => pc'[u] = "in" BY TwoProcs DEF IInv, TypeOK, NestedCount
<1>8. HolderHasTurn' /\ OvertakenHasTurn' /\ MutualExclusion'
  BY <1>6, <1>7 DEF IInv, TypeOK, HolderHasTurn, OvertakenHasTurn, MutualExclusion, WaitPoints
<1>9. OvertakenOnce' BY DEF IInv, OvertakenOnce
<1> QED BY <1>1, <1>2, <1>3, <1>4, <1>5, <1>8, <1>9 DEF IInv

(* The processor raises its flag.                                          *)
LEMMA SetFlagInv ==
    ASSUME IInv, NEW u \in Threads, SetFlag(u)
    PROVE  IInv'
<1> USE DEF SetFlag, Goto, IInv, TypeOK
<1>1. TypeOK' BY TwoProcs DEF Locations, Procs, FREE, BUSY
<1>2. LocalGate' BY DEF LocalGate
<1>3. NestedCount' BY DEF NestedCount
<1>4. FlagShown' BY TwoProcs, OneInside DEF FlagShown
<1>5. LinesDropped' BY DEF LinesDropped
<1>6. HolderHasTurn' /\ OvertakenHasTurn' /\ MutualExclusion' /\ OvertakenOnce'
  BY DEF HolderHasTurn, OvertakenHasTurn, MutualExclusion, OvertakenOnce, WaitPoints
<1> QED BY <1>1, <1>2, <1>3, <1>4, <1>5, <1>6

(* It gives the turn away.                                                 *)
LEMMA SetTurnInv ==
    ASSUME IInv, NEW u \in Threads, SetTurn(u)
    PROVE  IInv'
<1> USE DEF SetTurn, Goto, IInv, TypeOK
<1>1. TypeOK' BY TwoProcs DEF Locations, NoLines, FREE, BUSY
<1>2. LocalGate' BY DEF LocalGate
<1>3. NestedCount' BY DEF NestedCount
<1>4. FlagShown' BY DEF FlagShown
<1>5. LinesDropped' BY TwoProcs, OneInside DEF LinesDropped, NoLines
<1>6. turn' = Other(Home[u]) /\ turn' # Home[u] BY TwoProcs
<1>7. HolderHasTurn' BY <1>6, TwoProcs, OneInside DEF HolderHasTurn, WaitPoints
<1>8. OvertakenHasTurn' BY <1>6, TwoProcs, OneInside DEF OvertakenHasTurn, WaitPoints
<1>9. MutualExclusion' /\ OvertakenOnce' BY TwoProcs DEF MutualExclusion, OvertakenOnce
<1> QED BY <1>1, <1>2, <1>3, <1>4, <1>5, <1>7, <1>8, <1>9

-----------------------------------------------------------------------------
(* The heart of the argument: a thread gets the gate only while no other
   holds it, then has the turn over every thread that waits, and overtakes
   none a second time. *)
LEMMA AcquireInv ==
    ASSUME IInv, NEW u \in Threads, Acquire(u), pc[u] \in WaitPoints,
           UNCHANGED <<flag, turn, owner, nested>>,
           line' \in [Procs -> [flag : {FREE, BUSY, Absent}, turn : Procs \cup {Absent}]],
           \A p \in Procs : p # Home[u] => line'[p] = line[p],
           \/ flag[Other(Home[u])] = FREE
           \/ turn # Other(Home[u])
    PROVE  IInv'
<1> USE DEF Acquire, Goto, IInv, TypeOK
<1> DEFINE me == Home[u]  you == Other(me)
<1>1. me \in Procs /\ you \in Procs /\ me # you BY TwoProcs
<1>2. pc'[u] = "in" /\ \A t \in Threads : t # u => pc'[t] = pc[t] OBVIOUS
<1>3. \A t \in Threads : Home[t] = me /\ pc[t] # "out" => t = u
  BY OneInside DEF WaitPoints
<1>4. ASSUME NEW t \in Threads, Home[t] = you
      PROVE  pc[t] # "in"
  <2>1. CASE flag[you] = FREE BY <2>1, <1>4 DEF FlagShown, FREE, BUSY
  <2>2. CASE turn # you BY <2>2, <1>1, <1>4 DEF HolderHasTurn
  <2> QED BY <2>1, <2>2
<1>5. ASSUME NEW t \in Threads, Home[t] = you, pc[t] \in WaitPoints
      PROVE  turn = me /\ passed[you] = 0
  <2>1. flag[you] = BUSY BY <1>5 DEF FlagShown, WaitPoints
  <2>2. turn # you BY <2>1 DEF FREE, BUSY
  <2>3. turn = me BY <2>2, TwoProcs, <1>1
  <2>4. ~(passed[you] >= 1) BY <2>2, <1>1, <1>5 DEF OvertakenHasTurn
  <2>5. passed[you] \in Nat BY <1>1
  <2> QED BY <2>3, <2>4, <2>5
<1>6. TypeOK'
  <2>1. passed[you] \in Nat /\ passed[you] + 1 \in Nat BY <1>1
  <2>2. passed' \in [Procs -> Nat] BY <2>1, <1>1
  <2>3. pc' \in [Threads -> Locations] BY DEF Locations
  <2> QED BY <2>2, <2>3
<1>7. LocalGate' BY <1>2 DEF LocalGate, WaitPoints
<1>8. NestedCount' BY <1>2 DEF NestedCount, WaitPoints
<1>9. FlagShown' BY <1>2 DEF FlagShown, WaitPoints
<1>10. LinesDropped'
  <2> SUFFICES ASSUME NEW t \in Threads
               PROVE  /\ pc'[t] = "readFlag" => line'[Home[t]] = NoLines
                      /\ pc'[t] = "readTurn" => line'[Home[t]].turn = Absent
    BY DEF LinesDropped
  <2>1. CASE t = u BY <2>1, <1>2
  <2>2. CASE Home[t] = me /\ t # u BY <2>2, <1>2, <1>3
  <2>3. CASE Home[t] # me BY <2>3, <1>2, TwoProcs DEF LinesDropped
  <2> QED BY <2>1, <2>2, <2>3
<1>11. HolderHasTurn'
  <2> SUFFICES ASSUME NEW s \in Threads, NEW t \in Threads, pc'[s] = "in",
                      pc'[t] \in WaitPoints, Home[s] # Home[t]
               PROVE  turn = Home[s]
    BY DEF HolderHasTurn
  <2>1. t # u /\ pc[t] \in WaitPoints BY <1>2 DEF WaitPoints
  <2>2. Home[t] = you BY <2>1, <1>3, <1>1, TwoProcs DEF WaitPoints
  <2>3. Home[s] = me BY <2>2, <1>1, TwoProcs
  <2> QED BY <2>1, <2>2, <2>3, <1>5
<1>12. OvertakenHasTurn'
  <2> SUFFICES ASSUME NEW s \in Threads, NEW t \in Threads, pc'[s] \in WaitPoints,
                      pc'[t] \in WaitPoints, Home[s] # Home[t]
               PROVE  FALSE
    BY DEF OvertakenHasTurn
  <2>1. s # u /\ t # u /\ pc[s] # "out" /\ pc[t] # "out" BY <1>2 DEF WaitPoints
  <2> QED BY <2>1, <1>3, <1>1, TwoProcs
<1>13. MutualExclusion'
  <2> SUFFICES ASSUME NEW s \in Threads, NEW t \in Threads, pc'[s] = "in", pc'[t] = "in"
               PROVE  s = t
    BY DEF MutualExclusion
  <2>1. \A v \in Threads : v # u => pc'[v] # "in"
    BY <1>2, <1>3, <1>4, <1>1, TwoProcs
  <2> QED BY <2>1
<1>14. OvertakenOnce'
  <2>1. Waiting(you) => passed[you] = 0 BY <1>5 DEF Waiting, WaitPoints
  <2> QED BY <2>1, <1>1 DEF OvertakenOnce
<1> QED BY <1>6, <1>7, <1>8, <1>9, <1>10, <1>11, <1>12, <1>13, <1>14

(* It reads the flag of the other.                                         *)
LEMMA ReadFlagInv ==
    ASSUME IInv, NEW u \in Threads, ReadFlag(u)
    PROVE  IInv'
<1> USE DEF IInv, TypeOK
<1> DEFINE me == Home[u]  seen == Seen(line[me].flag, flag[Other(me)])
<1>1. seen = flag[Other(me)] /\ seen \in {FREE, BUSY}
  BY TwoProcs DEF ReadFlag, LinesDropped, Seen, NoLines
<1>2. line' = [line EXCEPT ![me].flag = seen] /\ UNCHANGED <<flag, turn, owner, nested>>
  BY DEF ReadFlag
<1>3. /\ line' \in [Procs -> [flag : {FREE, BUSY, Absent}, turn : Procs \cup {Absent}]]
      /\ \A p \in Procs : p # me => line'[p] = line[p]
      /\ line'[me].turn = line[me].turn
  BY <1>1, <1>2, TwoProcs
<1>4. CASE seen = FREE /\ Acquire(u)
  BY <1>1, <1>2, <1>3, <1>4, AcquireInv DEF ReadFlag, WaitPoints
<1>5. CASE seen = BUSY /\ Goto(u, "readTurn") /\ UNCHANGED passed
  <2> USE <1>2, <1>3, <1>5 DEF Goto
  <2>0. pc[u] = "readFlag" BY DEF ReadFlag
  <2>1. TypeOK' BY DEF Locations
  <2>2. LocalGate' BY <2>0 DEF LocalGate
  <2>3. NestedCount' BY <2>0 DEF NestedCount
  <2>4. FlagShown' BY <2>0 DEF FlagShown
  <2>5. LinesDropped' BY <2>0, TwoProcs, OneInside DEF LinesDropped, NoLines
  <2>6. HolderHasTurn' /\ OvertakenHasTurn' /\ MutualExclusion' /\ OvertakenOnce'
    BY <2>0 DEF HolderHasTurn, OvertakenHasTurn, MutualExclusion, OvertakenOnce, WaitPoints
  <2> QED BY <2>1, <2>2, <2>3, <2>4, <2>5, <2>6
<1> QED BY <1>4, <1>5 DEF ReadFlag

(* It reads the turn.                                                      *)
LEMMA ReadTurnInv ==
    ASSUME IInv, NEW u \in Threads, ReadTurn(u)
    PROVE  IInv'
<1> USE DEF IInv, TypeOK
<1> DEFINE me == Home[u]  seen == Seen(line[me].turn, turn)
<1>0. pc[u] = "readTurn" /\ UNCHANGED <<flag, turn, owner, nested>> BY DEF ReadTurn
<1>1. seen = turn BY <1>0, TwoProcs DEF LinesDropped, Seen
<1>2. CASE seen # Other(me) /\ line' = [line EXCEPT ![me].turn = seen] /\ Acquire(u)
  <2>1. /\ line' \in [Procs -> [flag : {FREE, BUSY, Absent}, turn : Procs \cup {Absent}]]
        /\ \A p \in Procs : p # me => line'[p] = line[p]
    BY <1>1, <1>2, TwoProcs
  <2> QED BY <1>0, <1>1, <1>2, <2>1, AcquireInv DEF WaitPoints
<1>3. CASE /\ line' = [line EXCEPT ![me] = NoLines]
           /\ Goto(u, "readFlag") /\ UNCHANGED passed
  <2> USE <1>0, <1>3 DEF Goto
  <2>1. TypeOK' BY DEF Locations, NoLines
  <2>2. LocalGate' BY DEF LocalGate
  <2>3. NestedCount' BY DEF NestedCount
  <2>4. FlagShown' BY DEF FlagShown
  <2>5. LinesDropped' BY TwoProcs, OneInside DEF LinesDropped, NoLines
  <2>6. HolderHasTurn' /\ OvertakenHasTurn' /\ MutualExclusion' /\ OvertakenOnce'
    BY DEF HolderHasTurn, OvertakenHasTurn, MutualExclusion, OvertakenOnce, WaitPoints
  <2> QED BY <2>1, <2>2, <2>3, <2>4, <2>5, <2>6
<1> QED BY <1>2, <1>3 DEF ReadTurn

-----------------------------------------------------------------------------
(* leave, the innermost first.                                             *)
LEMMA LeaveInv ==
    ASSUME IInv, NEW u \in Threads, Leave(u)
    PROVE  IInv'
<1> USE DEF Leave, Goto, IInv, TypeOK
<1>0. /\ nested[Home[u]] \in 1..MaxNest
      /\ nested'[Home[u]] = nested[Home[u]] - 1
      /\ \A p \in Procs : p # Home[u] => nested'[p] = nested[p]
  BY TwoProcs DEF NestedCount
<1>1. TypeOK' BY <1>0, TwoProcs DEF Locations
<1>2. LocalGate' BY TwoProcs DEF LocalGate
<1>3. NestedCount' BY <1>0, TwoProcs, OneInside DEF NestedCount
<1>4. FlagShown' BY DEF FlagShown
<1>5. LinesDropped' BY DEF LinesDropped
<1>6. HolderHasTurn' /\ OvertakenHasTurn' /\ MutualExclusion' /\ OvertakenOnce'
  BY DEF HolderHasTurn, OvertakenHasTurn, MutualExclusion, OvertakenOnce, WaitPoints
<1> QED BY <1>1, <1>2, <1>3, <1>4, <1>5, <1>6

(* The flag goes down.                                                     *)
LEMMA ClearFlagInv ==
    ASSUME IInv, NEW u \in Threads, ClearFlag(u)
    PROVE  IInv'
<1> USE DEF ClearFlag, Goto, IInv, TypeOK
<1>1. TypeOK' BY TwoProcs DEF Locations, FREE, BUSY
<1>2. LocalGate' BY DEF LocalGate
<1>3. NestedCount' BY DEF NestedCount
<1>4. FlagShown' BY TwoProcs, OneInside DEF FlagShown
<1>5. LinesDropped' BY DEF LinesDropped
<1>6. HolderHasTurn' /\ OvertakenHasTurn' /\ MutualExclusion' /\ OvertakenOnce'
  BY DEF HolderHasTurn, OvertakenHasTurn, MutualExclusion, OvertakenOnce, WaitPoints
<1> QED BY <1>1, <1>2, <1>3, <1>4, <1>5, <1>6

(* The local gate is given back.                                           *)
LEMMA LeaveLocalInv ==
    ASSUME IInv, NEW u \in Threads, LeaveLocal(u)
    PROVE  IInv'
<1> USE DEF LeaveLocal, Goto, IInv, TypeOK
<1>1. TypeOK' BY TwoProcs DEF Locations
<1>2. LocalGate' BY TwoProcs, OneInside DEF LocalGate, NestedCount
<1>3. NestedCount' BY DEF NestedCount
<1>4. FlagShown' BY DEF FlagShown
<1>5. LinesDropped' BY DEF LinesDropped
<1>6. HolderHasTurn' /\ OvertakenHasTurn' /\ MutualExclusion' /\ OvertakenOnce'
  BY DEF HolderHasTurn, OvertakenHasTurn, MutualExclusion, OvertakenOnce, WaitPoints
<1> QED BY <1>1, <1>2, <1>3, <1>4, <1>5, <1>6

(* The invariant is inductive.                                             *)
LEMMA NextInv == IInv /\ [Next]_vars => IInv'
<1> SUFFICES ASSUME IInv, [Next]_vars PROVE IInv' OBVIOUS
<1>1. CASE UNCHANGED vars
  BY <1>1 DEF vars, IInv, TypeOK, LocalGate, NestedCount, FlagShown, LinesDropped,
              HolderHasTurn, OvertakenHasTurn, MutualExclusion, OvertakenOnce
<1>2. ASSUME NEW t \in Threads, Enter(t) \/ Step(t) \/ Leave(t) PROVE IInv'
  BY <1>2, EnterInv, SetFlagInv, SetTurnInv, ReadFlagInv, ReadTurnInv, LeaveInv,
     ClearFlagInv, LeaveLocalInv DEF Step
<1> QED BY <1>1, <1>2 DEF Next

(* It holds of every behaviour.                                            *)
LEMMA Inductive == Spec => []IInv
<1>1. Init => IInv BY InitInv
<1>2. IInv /\ [Next]_vars => IInv' BY NextInv
<1> QED BY <1>1, <1>2, PTL DEF Spec

(* The gate's variables keep their types. *)
THEOREM TypeCorrect == Spec => []TypeOK
<1>1. IInv => TypeOK BY DEF IInv
<1> QED BY <1>1, Inductive, PTL

(* GatePeterson_enter and GatePeterson_leave exclude: at most one thread of
   the two processors is between them. *)
THEOREM GateExcludes == Spec => []MutualExclusion
<1>1. IInv => MutualExclusion BY DEF IInv
<1> QED BY <1>1, Inductive, PTL

(* While a processor waits in GatePeterson_enter, the other gets the gate at
   most once. *)
THEOREM BoundedOvertaking == Spec => []OvertakenOnce
<1>1. IInv => OvertakenOnce BY DEF IInv
<1> QED BY <1>1, Inductive, PTL
-----------------------------------------------------------------------------
(***************************************************************************)
(* NameServerDaemon: for any number of processors and of sockets.          *)
(*                                                                         *)
(* The inductive invariant is NsInvariant.  OwnSockets says whose socket   *)
(* each is, ListenerAt where the listener holds a set of them, and Asked   *)
(* that the question the command thread waits on has one answer at most on *)
(* its way.  InStep is the handshake: it lists what the two eventfds can   *)
(* hold at each point of the command thread, as long as no reply has been  *)
(* posted that nobody waits for.  From it an acknowledgement can be taken  *)
(* only when the listener has let go of the socket that detach closes.  A  *)
(* socket that an attach closes because it cannot be bound may still be in *)
(* the listener's set: `dropped' remembers it.                             *)
(***************************************************************************)
\* A message is an answer, or with number 0 a question of the remote; the points
\* of the two threads.
NsMessages == [seq : Nat, proc : Remotes]
NsPoints   == {"idle", "bind", "attach", "detach", "get", "got", "join", "done"}
LisPoints  == {"build", "select", "scan", "reattach", "exit"}

\* Types first.
NsTypes ==
  /\ ref \in [Remotes -> Nat] /\ sock \in [Remotes -> NsFds \cup {NoSocket}]
  /\ nsOpen \in SUBSET NsFds /\ inbox \in [NsFds -> Seq(NsMessages)]
  /\ nsUnblock \in Nat /\ wait \in Nat /\ seqNum \in Nat
  /\ due \in SUBSET NsMessages
  /\ main \in [pc : NsPoints, proc : Nat, fd : NsFds \cup {NoSocket}]
  /\ lis \in [pc : LisPoints, rfds : SUBSET NsFds, ready : SUBSET (NsFds \cup {NsUnblockFd}),
              next : Nat, lost : Remotes \cup {0}, run : BOOLEAN]
  /\ stale \in BOOLEAN

\* A processor has a socket while clients are attached or the first one attaches,
\* and one of its own; a detach keeps the socket it has taken out until the
\* acknowledgement.
Binding(r) == main.pc = "bind" /\ main.proc = r
OwnSockets ==
  /\ \A r \in Remotes :
       /\ sock[r] # NoSocket <=> ref[r] > 0 \/ Binding(r)
       /\ sock[r] # NoSocket => sock[r] \in nsOpen /\ sock[r] # main.fd
       /\ \A q \in Remotes : sock[q] = sock[r] /\ sock[r] # NoSocket => q = r
  /\ IF main.pc = "detach" THEN main.fd \in nsOpen ELSE main.fd = NoSocket
  /\ main.pc = "bind" => main.proc \in Remotes /\ ref[main.proc] = 0

\* Where the listener is.
ListenerAt ==
  /\ lis.pc \in {"build", "reattach"} => lis.rfds = {}
  /\ lis.pc = "reattach" => lis.lost # 0

\* A question of the command thread has one answer at most on its way, in flight
\* or in a socket; NoAnswer when there is none.
Numbered ==
  /\ \A d \in due : d.seq =< seqNum
  /\ \A f \in NsFds : \A i \in 1 .. Len(inbox[f]) : inbox[f][i].seq =< seqNum
OneAnswer ==
  /\ seqNum > 0
  /\ \A d, e \in due : d.seq = seqNum /\ e.seq = seqNum => d = e
  /\ \A d \in due : d.seq = seqNum =>
       \A f \in NsFds : \A i \in 1 .. Len(inbox[f]) : inbox[f][i].seq # seqNum
  /\ \A f, g \in NsFds : \A i \in 1 .. Len(inbox[f]), j \in 1 .. Len(inbox[g]) :
       inbox[f][i].seq = seqNum /\ inbox[g][j].seq = seqNum => f = g /\ i = j
NoAnswer ==
  /\ \A d \in due : d.seq # seqNum
  /\ \A f \in NsFds : \A i \in 1 .. Len(inbox[f]) : inbox[f][i].seq # seqNum
Asked == Numbered /\ (main.pc = "get" => OneAnswer)

\* The handshake over the two eventfds.
InStep ==
  /\ main.pc \in {"idle", "bind", "got"} => nsUnblock = 0 /\ wait = 0
  /\ main.pc \in {"attach", "detach"} =>
       \/ nsUnblock = REFRESH /\ wait = 0
       \/ nsUnblock = 0 /\ wait = 1
  /\ main.pc = "get" => nsUnblock = 0 /\ (wait = 0 \/ (wait = 1 /\ NoAnswer))
  /\ \A f \in lis.rfds :
       \/ \E r \in Remotes : sock[r] = f
       \/ main.pc = "detach" /\ nsUnblock = REFRESH /\ f = main.fd
       \/ f \in dropped
  /\ lis.pc = "exit" => ~lis.run \/ lis.rfds \cap dropped # {}
  /\ ~lis.run => main.pc \in {"join", "done"}

NsInvariant == NsTypes /\ OwnSockets /\ ListenerAt /\ Asked /\ (~stale => InStep)

-----------------------------------------------------------------------------
\* The descriptors are numbers, and neither NoSocket nor the eventfd is a socket.
LEMMA NsConstants ==
  /\ NsFds \subseteq Nat /\ NoSocket \notin NsFds
  /\ Cardinality(Remotes) \in Nat /\ Remotes \subseteq Nat \ {0}
<1>1. Cardinality(Remotes) \in Nat
  BY NsAssumption, FS_CardinalityType
<1> QED
  BY <1>1, NsAssumption DEF NsFds, NoSocket

\* A new socket is one that is not open.
LEMMA FreshSocket ==
  ASSUME NsFds \ nsOpen # {}
  PROVE  Min(NsFds \ nsOpen) \in NsFds \ nsOpen
<1>1. NsFds \ nsOpen \in SUBSET Nat
  BY NsConstants
<1> QED
  BY <1>1, LeastExists

\* The listener's walk takes a processor with a socket.
LEMMA NextRemoteIs ==
  ASSUME NsTypes, SocketsDue # {}
  PROVE  NextRemote \in Remotes /\ sock[NextRemote] \in NsFds
<1>1. SocketsDue \in SUBSET Nat
  BY NsConstants DEF SocketsDue
<1>2. NextRemote \in SocketsDue
  BY <1>1, LeastExists DEF NextRemote
<1> QED
  BY <1>2 DEF SocketsDue, NsTypes

\* The event bits of the counter in the cases that can be read.
LEMMA EventBits ==
  /\ ~HasEvent(0, REFRESH) /\ ~HasEvent(0, SHUTDOWN)
  /\ HasEvent(REFRESH, REFRESH) /\ ~HasEvent(REFRESH, SHUTDOWN)
BY DEF HasEvent, REFRESH, SHUTDOWN

\* While questions and messages only go, what is on its way stays as little.
LEMMA AnswersKept ==
  ASSUME NEW shift \in [NsFds -> Nat],
         \A f \in NsFds : \A i \in 1 .. Len(inbox'[f]) :
           i + shift[f] \in 1 .. Len(inbox[f]) /\ inbox'[f][i] = inbox[f][i + shift[f]],
         inbox' \in [NsFds -> Seq(NsMessages)],
         due' \subseteq due, seqNum' = seqNum
  PROVE  /\ Numbered => Numbered'
         /\ OneAnswer => OneAnswer'
         /\ NoAnswer => NoAnswer'
<1>1. ASSUME Numbered PROVE Numbered'
  <2>1. ASSUME NEW f \in NsFds, NEW i \in 1 .. Len(inbox'[f]) PROVE inbox'[f][i].seq =< seqNum'
    <3>1. i + shift[f] \in 1 .. Len(inbox[f]) /\ inbox'[f][i] = inbox[f][i + shift[f]]
      OBVIOUS
    <3> QED
      BY <1>1, <3>1 DEF Numbered
  <2>2. \A d \in due' : d.seq =< seqNum'
    BY <1>1 DEF Numbered
  <2> QED
    BY <2>1, <2>2 DEF Numbered
<1>2. ASSUME NoAnswer PROVE NoAnswer'
  <2>1. ASSUME NEW f \in NsFds, NEW i \in 1 .. Len(inbox'[f]) PROVE inbox'[f][i].seq # seqNum'
    <3>1. i + shift[f] \in 1 .. Len(inbox[f]) /\ inbox'[f][i] = inbox[f][i + shift[f]]
      OBVIOUS
    <3> QED
      BY <1>2, <3>1 DEF NoAnswer
  <2>2. \A d \in due' : d.seq # seqNum'
    BY <1>2 DEF NoAnswer
  <2> QED
    BY <2>1, <2>2 DEF NoAnswer
<1>3. ASSUME OneAnswer PROVE OneAnswer'
  <2>1. seqNum' > 0 /\ \A d, e \in due' : d.seq = seqNum' /\ e.seq = seqNum' => d = e
    BY <1>3 DEF OneAnswer
  <2>2. \A d \in due' : d.seq = seqNum' =>
          \A f \in NsFds : \A i \in 1 .. Len(inbox'[f]) : inbox'[f][i].seq # seqNum'
    <3>1. ASSUME NEW d \in due', d.seq = seqNum', NEW f \in NsFds, NEW i \in 1 .. Len(inbox'[f])
          PROVE  inbox'[f][i].seq # seqNum'
      <4>1. i + shift[f] \in 1 .. Len(inbox[f]) /\ inbox'[f][i] = inbox[f][i + shift[f]]
        OBVIOUS
      <4> QED
        BY <1>3, <3>1, <4>1 DEF OneAnswer
    <3> QED
      BY <3>1
  <2>3. ASSUME NEW f \in NsFds, NEW g \in NsFds,
               NEW i \in 1 .. Len(inbox'[f]), NEW j \in 1 .. Len(inbox'[g]),
               inbox'[f][i].seq = seqNum', inbox'[g][j].seq = seqNum'
        PROVE  f = g /\ i = j
    <3>1. /\ i + shift[f] \in 1 .. Len(inbox[f]) /\ inbox[f][i + shift[f]].seq = seqNum
          /\ j + shift[g] \in 1 .. Len(inbox[g]) /\ inbox[g][j + shift[g]].seq = seqNum
      BY <2>3
    <3>2. f = g /\ i + shift[f] = j + shift[g]
      <4>1. \A m \in 1 .. Len(inbox[f]), n \in 1 .. Len(inbox[g]) :
              inbox[f][m].seq = seqNum /\ inbox[g][n].seq = seqNum => f = g /\ m = n
        BY <1>3 DEF OneAnswer
      <4> HIDE <1>3
      <4> QED
        BY <3>1, <4>1
    <3> QED
      BY <3>2
  <2> QED
    BY <2>1, <2>2, <2>3 DEF OneAnswer
<1> QED
  BY <1>1, <1>2, <1>3

\* No socket is read or written.
LEMMA AnswersSame ==
  ASSUME NsTypes, inbox' = inbox, due' \subseteq due, seqNum' = seqNum
  PROVE  /\ Numbered => Numbered'
         /\ OneAnswer => OneAnswer'
         /\ NoAnswer => NoAnswer'
<1> DEFINE shift == [f \in NsFds |-> 0]
<1>1. \A f \in NsFds : inbox[f] \in Seq(NsMessages)
  BY DEF NsTypes
<1>2. \A f \in NsFds : Len(inbox[f]) \in Nat
  BY <1>1
<1>3. \A f \in NsFds : \A i \in 1 .. Len(inbox'[f]) :
        i + shift[f] \in 1 .. Len(inbox[f]) /\ inbox'[f][i] = inbox[f][i + shift[f]]
  BY <1>2
<1>4. shift \in [NsFds -> Nat] /\ inbox' \in [NsFds -> Seq(NsMessages)]
  BY DEF NsTypes
<1> HIDE DEF shift
<1> QED
  BY <1>3, <1>4, AnswersKept

\* A new socket has nothing in it.
LEMMA AnswersEmpty ==
  ASSUME NsTypes, NEW fd \in NsFds, inbox' = [inbox EXCEPT ![fd] = <<>>],
         due' \subseteq due, seqNum' = seqNum
  PROVE  /\ Numbered => Numbered'
         /\ OneAnswer => OneAnswer'
         /\ NoAnswer => NoAnswer'
<1> DEFINE shift == [f \in NsFds |-> 0]
<1>1. \A f \in NsFds : inbox[f] \in Seq(NsMessages) /\ Len(inbox[f]) \in Nat
  BY DEF NsTypes
<1>2. inbox' \in [NsFds -> Seq(NsMessages)] /\ Len(<<>>) = 0
  BY DEF NsTypes
<1>3. \A f \in NsFds : inbox'[f] = IF f = fd THEN <<>> ELSE inbox[f]
  BY DEF NsTypes
<1>4. \A f \in NsFds : \A i \in 1 .. Len(inbox'[f]) :
        i + shift[f] \in 1 .. Len(inbox[f]) /\ inbox'[f][i] = inbox[f][i + shift[f]]
  BY <1>1, <1>2, <1>3
<1>5. shift \in [NsFds -> Nat]
  OBVIOUS
<1> HIDE DEF shift
<1> QED
  BY <1>2, <1>4, <1>5, AnswersKept

\* The listener takes the first message of a socket; if it is the answer the
\* command thread waits for, no other is on its way.
LEMMA AnswersTaken ==
  ASSUME NsTypes, NEW fd \in NsFds, inbox[fd] # <<>>,
         inbox' = [inbox EXCEPT ![fd] = Tail(@)], due' = due, seqNum' = seqNum
  PROVE  /\ Head(inbox[fd]) \in NsMessages
         /\ inbox' \in [NsFds -> Seq(NsMessages)]
         /\ Numbered => Numbered'
         /\ OneAnswer => OneAnswer'
         /\ NoAnswer => NoAnswer'
         /\ OneAnswer /\ Head(inbox[fd]).seq = seqNum => NoAnswer'
<1> DEFINE shift == [f \in NsFds |-> IF f = fd THEN 1 ELSE 0]
<1>1. \A f \in NsFds : inbox[f] \in Seq(NsMessages) /\ Len(inbox[f]) \in Nat
  BY DEF NsTypes
<1>2. /\ Head(inbox[fd]) \in NsMessages /\ Tail(inbox[fd]) \in Seq(NsMessages)
      /\ Len(inbox[fd]) > 0 /\ Len(Tail(inbox[fd])) = Len(inbox[fd]) - 1
      /\ inbox[fd][1] = Head(inbox[fd])
      /\ \A i \in 1 .. Len(inbox[fd]) - 1 : Tail(inbox[fd])[i] = inbox[fd][i + 1]
  BY <1>1
<1>3. inbox' \in [NsFds -> Seq(NsMessages)]
  BY <1>2 DEF NsTypes
<1>4. \A f \in NsFds : inbox'[f] = IF f = fd THEN Tail(inbox[fd]) ELSE inbox[f]
  BY DEF NsTypes
<1>5. \A f \in NsFds : \A i \in 1 .. Len(inbox'[f]) :
        i + shift[f] \in 1 .. Len(inbox[f]) /\ inbox'[f][i] = inbox[f][i + shift[f]]
  <2> SUFFICES ASSUME NEW f \in NsFds, NEW i \in 1 .. Len(inbox'[f])
               PROVE  i + shift[f] \in 1 .. Len(inbox[f]) /\ inbox'[f][i] = inbox[f][i + shift[f]]
    OBVIOUS
  <2>1. CASE f = fd
    <3>1. inbox'[f] = Tail(inbox[fd]) /\ shift[f] = 1
      BY <1>4, <2>1
    <3>2. i \in 1 .. Len(inbox[fd]) - 1
      BY <1>2, <3>1
    <3>3. i + 1 \in 1 .. Len(inbox[fd]) /\ Tail(inbox[fd])[i] = inbox[fd][i + 1]
      BY <1>1, <1>2, <3>2
    <3> HIDE DEF shift
    <3> QED
      BY <2>1, <3>1, <3>3
  <2>2. CASE f # fd
    BY <1>1, <1>4, <2>2
  <2> QED
    BY <2>1, <2>2
<1>6. shift \in [NsFds -> Nat]
  OBVIOUS
<1>7. ASSUME OneAnswer, Head(inbox[fd]).seq = seqNum PROVE NoAnswer'
  <2>1. 1 \in 1 .. Len(inbox[fd]) /\ inbox[fd][1].seq = seqNum
    BY <1>2, <1>7
  <2>2. \A d \in due' : d.seq # seqNum'
    BY <1>7, <2>1 DEF OneAnswer
  <2>3. \A f \in NsFds : \A i \in 1 .. Len(inbox[f]) : inbox[f][i].seq = seqNum => f = fd /\ i = 1
    BY <1>7, <2>1 DEF OneAnswer
  <2>4. \A f \in NsFds : \A i \in 1 .. Len(inbox'[f]) : inbox'[f][i].seq # seqNum'
    <3> SUFFICES ASSUME NEW f \in NsFds, NEW i \in 1 .. Len(inbox'[f]), inbox'[f][i].seq = seqNum'
                 PROVE  FALSE
      OBVIOUS
    <3>1. i + shift[f] \in 1 .. Len(inbox[f]) /\ inbox[f][i + shift[f]].seq = seqNum
      BY <1>5
    <3>2. f = fd /\ i + shift[f] = 1
      BY <2>3, <3>1
    <3> QED
      BY <1>1, <1>4, <3>2
  <2> QED
    BY <2>2, <2>4 DEF NoAnswer
<1> HIDE DEF shift
<1> QED
  BY <1>2, <1>3, <1>5, <1>6, <1>7, AnswersKept

\* A socket gets a remote's question, or an answer that was in flight.
LEMMA AnswersArrive ==
  ASSUME NsTypes, NEW fd \in NsFds, NEW m \in NsMessages,
         inbox' = [inbox EXCEPT ![fd] = Append(@, m)], seqNum' = seqNum,
         due' \subseteq due, m.seq = 0 \/ m \in due \ due'
  PROVE  /\ inbox' \in [NsFds -> Seq(NsMessages)]
         /\ Numbered => Numbered'
         /\ OneAnswer => OneAnswer'
         /\ seqNum > 0 /\ NoAnswer => NoAnswer'
<1>1. \A f \in NsFds : inbox[f] \in Seq(NsMessages) /\ Len(inbox[f]) \in Nat
  BY DEF NsTypes
<1>2. inbox' \in [NsFds -> Seq(NsMessages)]
  BY <1>1 DEF NsTypes
<1>3. \A f \in NsFds : inbox'[f] = IF f = fd THEN Append(inbox[fd], m) ELSE inbox[f]
  BY DEF NsTypes
<1>4. \A f \in NsFds : \A i \in 1 .. Len(inbox'[f]) :
        \/ i \in 1 .. Len(inbox[f]) /\ inbox'[f][i] = inbox[f][i]
        \/ f = fd /\ i = Len(inbox[fd]) + 1 /\ inbox'[f][i] = m
  <2> SUFFICES ASSUME NEW f \in NsFds, NEW i \in 1 .. Len(inbox'[f])
               PROVE  \/ i \in 1 .. Len(inbox[f]) /\ inbox'[f][i] = inbox[f][i]
                      \/ f = fd /\ i = Len(inbox[fd]) + 1 /\ inbox'[f][i] = m
    OBVIOUS
  <2>1. CASE f = fd
    BY <1>1, <1>3, <2>1
  <2>2. CASE f # fd
    BY <1>1, <1>3, <2>2
  <2> QED
    BY <2>1, <2>2
<1>5. m.seq \in Nat /\ seqNum \in Nat
  BY DEF NsTypes, NsMessages
<1>6. Numbered => Numbered'
  BY <1>4, <1>5 DEF Numbered
<1>7. seqNum > 0 /\ NoAnswer => NoAnswer'
  BY <1>4, <1>5 DEF NoAnswer
<1>8. ASSUME OneAnswer PROVE OneAnswer'
  <2>1. seqNum' > 0 /\ \A d, e \in due' : d.seq = seqNum' /\ e.seq = seqNum' => d = e
    BY <1>8 DEF OneAnswer
  <2>2. m.seq = seqNum => m \in due \ due'
    BY <1>8, <1>5 DEF OneAnswer
  <2>3. ASSUME m.seq = seqNum
        PROVE  /\ \A d \in due' : d.seq # seqNum
               /\ \A f \in NsFds : \A i \in 1 .. Len(inbox[f]) : inbox[f][i].seq # seqNum
    BY <1>8, <2>2, <2>3 DEF OneAnswer
  <2>4. ASSUME NEW d \in due', d.seq = seqNum', NEW f \in NsFds, NEW i \in 1 .. Len(inbox'[f])
        PROVE  inbox'[f][i].seq # seqNum'
    BY <1>4, <1>8, <2>3, <2>4 DEF OneAnswer
  <2>5. ASSUME NEW f \in NsFds, NEW g \in NsFds,
               NEW i \in 1 .. Len(inbox'[f]), NEW j \in 1 .. Len(inbox'[g]),
               inbox'[f][i].seq = seqNum', inbox'[g][j].seq = seqNum'
        PROVE  f = g /\ i = j
    <3>1. CASE m.seq = seqNum
      BY <1>4, <2>3, <2>5, <3>1
    <3>2. CASE m.seq # seqNum
      <4>1. i \in 1 .. Len(inbox[f]) /\ inbox[f][i].seq = seqNum
        BY <1>4, <2>5, <3>2
      <4>2. j \in 1 .. Len(inbox[g]) /\ inbox[g][j].seq = seqNum
        BY <1>4, <2>5, <3>2
      <4> QED
        BY <1>8, <4>1, <4>2 DEF OneAnswer
    <3> QED
      BY <3>1, <3>2
  <2> QED
    BY <2>1, <2>4, <2>5 DEF OneAnswer
<1> QED
  BY <1>2, <1>6, <1>7, <1>8

-----------------------------------------------------------------------------
\* Every step keeps the types; that a lost processor is one needs ListenerAt.
LEMMA NsTypesInv == NsTypes /\ ListenerAt /\ OwnSockets /\ [NsNext]_nsdVars => NsTypes'
<1> SUFFICES ASSUME NsTypes, ListenerAt, OwnSockets, [NsNext]_nsdVars PROVE NsTypes'
  OBVIOUS
<1> USE NsConstants DEF NsTypes, NsPoints, LisPoints, nsSockVars, nsEventVars, nsBounds, Idle
<1>1. CASE UNCHANGED nsdVars
  BY <1>1 DEF nsdVars
<1>2. ASSUME NEW r \in Remotes, NsOpens(r) PROVE NsTypes'
  <2>1. Min(NsFds \ nsOpen) \in NsFds \ nsOpen
    BY <1>2, FreshSocket DEF NsOpens
  <2>2. inbox' \in [NsFds -> Seq(NsMessages)]
    BY <1>2, <2>1 DEF NsOpens
  <2>3. main' \in [pc : NsPoints, proc : Nat, fd : NsFds \cup {NoSocket}]
    BY <1>2 DEF NsOpens
  <2>4. sock' \in [Remotes -> NsFds \cup {NoSocket}] /\ nsOpen' \in SUBSET NsFds
    BY <1>2, <2>1 DEF NsOpens
  <2>5. UNCHANGED <<ref, nsUnblock, wait, seqNum, due, lis, stale>>
    BY <1>2 DEF NsOpens
  <2> QED
    BY <2>2, <2>3, <2>4, <2>5
<1>22. CASE NsBinds
  <2>1. main.proc \in Remotes
    BY <1>22 DEF NsBinds, OwnSockets
  <2>2. ref' \in [Remotes -> Nat]
    BY <1>22, <2>1 DEF NsBinds
  <2>3. main' = [main EXCEPT !.pc = "attach"] /\ nsUnblock' = nsUnblock + REFRESH
    BY <1>22 DEF NsBinds
  <2>4. main' \in [pc : NsPoints, proc : Nat, fd : NsFds \cup {NoSocket}]
    BY <2>3
  <2>5. nsUnblock' \in Nat
    BY <2>3 DEF REFRESH
  <2>6. UNCHANGED <<sock, nsOpen, inbox, wait, seqNum, due, lis, stale>>
    BY <1>22 DEF NsBinds
  <2> QED
    BY <2>2, <2>4, <2>5, <2>6
<1>23. CASE NsBindFails
  <2>1. sock' = [sock EXCEPT ![main.proc] = NoSocket] /\ nsOpen' = nsOpen \ {sock[main.proc]} /\ main' = Idle
    BY <1>23 DEF NsBindFails
  <2>2. sock' \in [Remotes -> NsFds \cup {NoSocket}] /\ nsOpen' \in SUBSET NsFds
    BY <2>1
  <2>3. main' \in [pc : NsPoints, proc : Nat, fd : NsFds \cup {NoSocket}]
    BY <2>1
  <2>4. UNCHANGED <<ref, inbox, nsUnblock, wait, seqNum, due, lis, stale>>
    BY <1>23 DEF NsBindFails
  <2> QED
    BY <2>2, <2>3, <2>4
<1>24. CASE ListenerSelectFails
  <2>1. lis' = [lis EXCEPT !.pc = "exit"] /\ UNCHANGED <<ref, sock, nsOpen, inbox, nsUnblock, wait, seqNum, due, main, stale>>
    BY <1>24 DEF ListenerSelectFails
  <2> QED
    BY <2>1
<1>3. ASSUME NEW r \in Remotes, AttachAgain(r) \/ DetachOne(r) PROVE NsTypes'
  <2>1. ref' \in [Remotes -> Nat]
    BY <1>3 DEF AttachAgain, DetachOne
  <2>2. UNCHANGED <<sock, nsOpen, inbox, nsUnblock, wait, seqNum, due, main, lis, stale>>
    BY <1>3 DEF AttachAgain, DetachOne
  <2> QED
    BY <2>1, <2>2
<1>4. ASSUME NEW r \in Remotes, NsDetach(r) PROVE NsTypes'
  BY <1>4 DEF NsDetach, REFRESH
<1>5. ASSUME NEW r \in Remotes, NsGet(r) PROVE NsTypes'
  <2>1. [seq |-> seqNum + 1, proc |-> r] \in NsMessages
    BY DEF NsMessages
  <2> QED
    BY <1>5, <2>1 DEF NsGet
<1>6. ASSUME NEW r \in Remotes, Request(r) PROVE NsTypes'
  <2>1. sock[r] \in NsFds
    BY <1>6 DEF Request, OwnSockets
  <2>2. [seq |-> 0, proc |-> r] \in NsMessages
    BY DEF NsMessages
  <2>3. inbox' = [inbox EXCEPT ![sock[r]] = Append(@, [seq |-> 0, proc |-> r])] /\ seqNum' = seqNum /\ due' = due
    BY <1>6 DEF Request
  <2>4. inbox' \in [NsFds -> Seq(NsMessages)]
    BY <2>1, <2>2, <2>3, AnswersArrive
  <2> QED
    BY <1>6, <2>4 DEF Request
<1>7. ASSUME NEW r \in Remotes, Restart(r) PROVE NsTypes'
  BY <1>7 DEF Restart
<1>8. CASE GetsAck
  <2>1. main' = Idle /\ nsOpen' = nsOpen \ {main.fd} /\ wait > 0 /\ wait' = wait - 1
    BY <1>8 DEF GetsAck, Acked
  <2>3. wait' \in Nat
    BY <2>1
  <2>2. UNCHANGED <<ref, sock, inbox, nsUnblock, seqNum, due, lis, stale>>
    BY <1>8 DEF GetsAck
  <2> QED
    BY <2>1, <2>2, <2>3
<1>9. CASE GetReads
  <2>1. main' \in [pc : NsPoints, proc : Nat, fd : NsFds \cup {NoSocket}]
    BY <1>9 DEF GetReads
  <2>3. wait > 0 /\ wait' = wait - 1
    BY <1>9 DEF GetReads
  <2>4. wait' \in Nat
    BY <2>3
  <2>2. UNCHANGED <<ref, sock, nsOpen, inbox, nsUnblock, seqNum, due, lis, stale>>
    BY <1>9 DEF GetReads
  <2> QED
    BY <2>1, <2>2, <2>4
<1>10. CASE GetReturns \/ GetTimesOut
  <2>1. main' = Idle /\ UNCHANGED <<ref, sock, nsOpen, inbox, nsUnblock, wait, seqNum, due, lis, stale>>
    BY <1>10 DEF GetReturns, GetTimesOut
  <2> QED
    BY <2>1
<1>11. CASE Destroy
  <2>1. nsUnblock' \in Nat
    BY <1>11 DEF Destroy, SHUTDOWN
  <2>2. main' = [pc |-> "join", proc |-> 0, fd |-> NoSocket]
    BY <1>11 DEF Destroy
  <2>3. UNCHANGED <<ref, sock, nsOpen, inbox, wait, seqNum, due, lis, stale>>
    BY <1>11 DEF Destroy
  <2> QED
    BY <2>1, <2>2, <2>3
<1>12. CASE NsJoined
  BY <1>12 DEF NsJoined
<1>13. CASE BuildSet
  <2>1. Sockets \in SUBSET NsFds
    BY DEF Sockets
  <2>2. lis' \in [pc : LisPoints, rfds : SUBSET NsFds, ready : SUBSET (NsFds \cup {NsUnblockFd}),
                  next : Nat, lost : Remotes \cup {0}, run : BOOLEAN]
    BY <1>13, <2>1 DEF BuildSet
  <2>3. UNCHANGED <<ref, sock, nsOpen, inbox, nsUnblock, wait, seqNum, due, main, stale>>
    BY <1>13 DEF BuildSet
  <2> QED
    BY <2>2, <2>3
<1>14. CASE ListenerSelects
  BY <1>14 DEF ListenerSelects, Marked, ToRead
<1>15. CASE ListenerGetsReply \/ ListenerAnswers
  <2>1. NextRemote \in Remotes /\ sock[NextRemote] \in NsFds /\ inbox[sock[NextRemote]] # <<>>
    BY <1>15, NextRemoteIs DEF ListenerGetsReply, ListenerAnswers, ListenerTakes
  <2>2. inbox' = [inbox EXCEPT ![sock[NextRemote]] = Tail(@)]
    BY <1>15 DEF ListenerGetsReply, ListenerAnswers, ListenerTakes
  <2>3. seqNum' = seqNum /\ due' = due
    BY <1>15 DEF ListenerGetsReply, ListenerAnswers
  <2>4. inbox' \in [NsFds -> Seq(NsMessages)]
    BY <2>1, <2>2, <2>3, AnswersTaken
  <2>5. lis' = [lis EXCEPT !.next = NextRemote + 1]
    BY <1>15 DEF ListenerGetsReply, ListenerAnswers, ListenerTakes
  <2>6. wait' \in Nat /\ stale' \in BOOLEAN
    <3>1. CASE ListenerGetsReply
      BY <3>1 DEF ListenerGetsReply
    <3>2. CASE ListenerAnswers
      BY <3>2 DEF ListenerAnswers
    <3> QED
      BY <1>15, <3>1, <3>2
  <2>7. UNCHANGED <<ref, sock, nsOpen, nsUnblock, main>>
    BY <1>15 DEF ListenerGetsReply, ListenerAnswers
  <2>8. lis' \in [pc : LisPoints, rfds : SUBSET NsFds, ready : SUBSET (NsFds \cup {NsUnblockFd}),
                  next : Nat, lost : Remotes \cup {0}, run : BOOLEAN]
    <3>1. NextRemote + 1 \in Nat
      BY <2>1
    <3> QED
      BY <2>5, <3>1
  <2> QED
    BY <2>3, <2>4, <2>6, <2>7, <2>8
<1>16. CASE ListenerFails
  <2>0. SocketsDue # {}
    BY <1>16 DEF ListenerFails
  <2>1. NextRemote \in Remotes /\ Cardinality(Remotes) + 1 \in Nat
    BY <2>0, NextRemoteIs
  <2>2. lis' = [lis EXCEPT !.lost = NextRemote, !.next = Cardinality(Remotes) + 1]
    BY <1>16 DEF ListenerFails
  <2>3. lis' \in [pc : LisPoints, rfds : SUBSET NsFds, ready : SUBSET (NsFds \cup {NsUnblockFd}),
                  next : Nat, lost : Remotes \cup {0}, run : BOOLEAN]
    BY <2>1, <2>2
  <2>4. UNCHANGED <<ref, sock, nsOpen, inbox, nsUnblock, wait, seqNum, due, main, stale>>
    BY <1>16 DEF ListenerFails
  <2> QED
    BY <2>3, <2>4
<1>17. CASE ListenerReadsEvent
  BY <1>17 DEF ListenerReadsEvent, GoOn, HasEvent
<1>18. CASE ListenerLoopsOn
  BY <1>18 DEF ListenerLoopsOn, GoOn
<1>19. CASE Reattach
  <2>1. Min(NsFds \ nsOpen) \in NsFds \ nsOpen
    BY <1>19, FreshSocket DEF Reattach
  <2>2. inbox' \in [NsFds -> Seq(NsMessages)]
    BY <1>19, <2>1 DEF Reattach
  <2>3. lis.lost \in Remotes
    BY <1>19 DEF Reattach, ListenerAt
  <2> QED
    BY <1>19, <2>1, <2>2, <2>3 DEF Reattach, Reattached
<1>20. CASE ReattachFails
  BY <1>20 DEF ReattachFails, Reattached
<1>21. CASE Answer
  <2>1. PICK d \in due :
          /\ due' = due \ {d}
          /\ inbox' = IF ref[d.proc] = 0 THEN inbox ELSE [inbox EXCEPT ![sock[d.proc]] = Append(@, d)]
    BY <1>21 DEF Answer
  <2>2. d \in NsMessages /\ d.proc \in Remotes /\ seqNum' = seqNum
    BY <1>21 DEF Answer, NsMessages
  <2>3. inbox' \in [NsFds -> Seq(NsMessages)]
    <3>1. CASE ref[d.proc] = 0
      BY <2>1, <3>1
    <3>2. CASE ref[d.proc] # 0
      <4>0. ref[d.proc] > 0
        BY <2>2, <3>2
      <4>3. sock[d.proc] # NoSocket
        BY <2>2, <4>0 DEF OwnSockets
      <4>1. sock[d.proc] \in NsFds /\ inbox' = [inbox EXCEPT ![sock[d.proc]] = Append(@, d)]
        BY <2>1, <2>2, <3>2, <4>3
      <4>2. due' \subseteq due /\ d \in due \ due'
        BY <2>1
      <4> QED
        BY <2>2, <4>1, <4>2, AnswersArrive
    <3> QED
      BY <3>1, <3>2
  <2> QED
    BY <1>21, <2>1, <2>3 DEF Answer
<1> QED
  BY <1>1, <1>2, <1>3, <1>4, <1>5, <1>6, <1>7, <1>8, <1>9, <1>10, <1>11, <1>12, <1>13, <1>14, <1>15,
     <1>16, <1>17, <1>18, <1>19, <1>20, <1>21, <1>22, <1>23, <1>24 DEF NsNext, ListenerStep, MainStep

\* Only attach, detach, its acknowledgement and reattach move sockets about.
LEMMA OwnSocketsInv == NsTypes /\ ListenerAt /\ OwnSockets /\ [NsNext]_nsdVars => OwnSockets'
<1> SUFFICES ASSUME NsTypes, ListenerAt, OwnSockets, [NsNext]_nsdVars PROVE OwnSockets'
  OBVIOUS
<1> USE NsConstants
<1>1. ASSUME UNCHANGED <<ref, sock, nsOpen, main>> PROVE OwnSockets'
  BY <1>1 DEF OwnSockets, Binding
<1>2. ASSUME NEW r \in Remotes, NsOpens(r) PROVE OwnSockets'
  <2>1. PICK fd \in NsFds \ nsOpen : fd = Min(NsFds \ nsOpen)
    BY <1>2, FreshSocket DEF NsOpens
  <2>2. /\ ref' = ref /\ ref[r] = 0 /\ sock' = [sock EXCEPT ![r] = fd] /\ nsOpen' = nsOpen \cup {fd}
        /\ main'.pc = "bind" /\ main'.proc = r /\ main'.fd = NoSocket /\ main.pc = "idle"
    BY <1>2, <2>1 DEF NsOpens
  <2>3. \A q \in Remotes : sock'[q] = IF q = r THEN fd ELSE sock[q]
    BY <2>2 DEF NsTypes
  <2>4. fd # NoSocket /\ \A q \in Remotes : sock[q] # fd
    BY <2>1 DEF OwnSockets
  <2> QED
    <3>1. \A q \in Remotes : (sock'[q] # NoSocket <=> ref'[q] > 0 \/ Binding(q)') /\ (sock'[q] # NoSocket => sock'[q] \in nsOpen')
      BY <2>1, <2>2, <2>3, <2>4 DEF OwnSockets, Binding
    <3>2. \A q \in Remotes : sock'[q] # NoSocket => sock'[q] # main'.fd
      BY <2>2
    <3>3. \A q, p \in Remotes : sock'[p] = sock'[q] /\ sock'[q] # NoSocket => p = q
      BY <2>3, <2>4 DEF OwnSockets
    <3> QED
      BY <2>2, <3>1, <3>2, <3>3 DEF OwnSockets
<1>11. CASE NsBinds
  <2>1. /\ main.pc = "bind" /\ main.proc \in Remotes /\ ref' = [ref EXCEPT ![main.proc] = 1]
        /\ UNCHANGED <<sock, nsOpen>> /\ main'.pc = "attach" /\ main'.fd = main.fd
    BY <1>11 DEF NsBinds, OwnSockets, NsTypes
  <2>2. \A q \in Remotes : ref'[q] = IF q = main.proc THEN 1 ELSE ref[q]
    BY <2>1 DEF NsTypes
  <2> QED
    BY <2>1, <2>2 DEF OwnSockets, Binding
<1>12. CASE NsBindFails
  <2>1. /\ main.pc = "bind" /\ main.proc \in Remotes /\ sock' = [sock EXCEPT ![main.proc] = NoSocket]
        /\ nsOpen' = nsOpen \ {sock[main.proc]} /\ ref' = ref /\ main'.pc = "idle" /\ main'.fd = NoSocket
    BY <1>12 DEF NsBindFails, OwnSockets, Idle
  <2>2. \A q \in Remotes : sock'[q] = IF q = main.proc THEN NoSocket ELSE sock[q]
    BY <2>1 DEF NsTypes
  <2>3. sock[main.proc] # NoSocket /\ \A q \in Remotes : sock[q] = sock[main.proc] => q = main.proc
    BY <2>1 DEF OwnSockets, Binding
  <2>4. ref[main.proc] = 0
    BY <2>1 DEF OwnSockets
  <2> QED
    BY <2>1, <2>2, <2>3, <2>4 DEF OwnSockets, Binding
<1>3. ASSUME NEW r \in Remotes, AttachAgain(r) \/ DetachOne(r) PROVE OwnSockets'
  <2>1. /\ sock' = sock /\ nsOpen' = nsOpen /\ main' = main /\ main.pc = "idle"
        /\ ref[r] > 0 /\ ref' = [ref EXCEPT ![r] = ref'[r]] /\ ref'[r] > 0
    BY <1>3 DEF AttachAgain, DetachOne, NsTypes
  <2>2. \A q \in Remotes : ref'[q] > 0 <=> ref[q] > 0
    BY <2>1 DEF NsTypes
  <2> QED
    BY <2>1, <2>2 DEF OwnSockets, Binding
<1>4. ASSUME NEW r \in Remotes, NsDetach(r) PROVE OwnSockets'
  <2>1. /\ main.pc = "idle" /\ ref[r] = 1 /\ ref' = [ref EXCEPT ![r] = 0] /\ sock' = [sock EXCEPT ![r] = NoSocket]
        /\ nsOpen' = nsOpen /\ main'.pc = "detach" /\ main'.fd = sock[r]
    BY <1>4 DEF NsDetach
  <2>2. /\ \A q \in Remotes : ref'[q] = IF q = r THEN 0 ELSE ref[q]
        /\ \A q \in Remotes : sock'[q] = IF q = r THEN NoSocket ELSE sock[q]
    BY <2>1 DEF NsTypes
  <2>3. sock[r] # NoSocket
    BY <2>1 DEF OwnSockets
  <2> QED
    BY <2>1, <2>2, <2>3 DEF OwnSockets, Binding
<1>5. ASSUME NEW r \in Remotes, NsGet(r) \/ Request(r) \/ Restart(r) PROVE OwnSockets'
  <2>1. CASE NsGet(r)
    <3>1. UNCHANGED <<ref, sock, nsOpen>> /\ main.pc = "idle" /\ main'.pc = "get" /\ main'.fd = NoSocket
      BY <2>1 DEF NsGet, nsSockVars
    <3> QED
      BY <3>1 DEF OwnSockets, Binding
  <2>2. CASE Request(r)
    BY <1>1, <2>2 DEF Request
  <2>3. CASE Restart(r)
    BY <1>1, <2>3 DEF Restart
  <2> QED
    BY <1>5, <2>1, <2>2, <2>3
<1>6. CASE GetsAck
  <2>1. /\ main.pc # "bind" /\ nsOpen' = nsOpen \ {main.fd} /\ main'.pc = "idle" /\ main'.fd = NoSocket
        /\ UNCHANGED <<ref, sock>>
    BY <1>6 DEF GetsAck, Idle
  <2> QED
    BY <2>1 DEF OwnSockets, Binding
<1>7. CASE GetReads \/ GetReturns \/ GetTimesOut \/ Destroy \/ NsJoined
  <2>1. UNCHANGED <<ref, sock, nsOpen>> /\ main.pc \notin {"bind", "detach"} /\ main'.pc \notin {"bind", "detach"}
    BY <1>7 DEF GetReads, GetReturns, GetTimesOut, Destroy, NsJoined, nsSockVars, Idle, NsTypes
  <2>2. main'.fd = main.fd \/ main'.fd = NoSocket
    BY <1>7 DEF GetReads, GetReturns, GetTimesOut, Destroy, NsJoined, Idle, NsTypes
  <2> QED
    BY <2>1, <2>2 DEF OwnSockets, Binding
<1>8. CASE BuildSet \/ ListenerSelects \/ ListenerSelectFails \/ ListenerGetsReply \/ ListenerAnswers \/ ListenerReadsEvent
           \/ ListenerFails \/ ListenerLoopsOn \/ ReattachFails \/ Answer
  <2>1. UNCHANGED <<ref, sock, nsOpen, main>>
    BY <1>8 DEF BuildSet, ListenerSelects, ListenerSelectFails, ListenerGetsReply, ListenerAnswers, ListenerReadsEvent,
       ListenerFails, ListenerLoopsOn, ReattachFails, Answer, nsSockVars
  <2> QED
    BY <1>1, <2>1
<1>9. CASE Reattach
  <2>1. PICK fd \in NsFds \ nsOpen : fd = Min(NsFds \ nsOpen)
    BY <1>9, FreshSocket DEF Reattach
  <2>2. /\ lis.lost \in Remotes /\ ref[lis.lost] > 0 /\ sock' = [sock EXCEPT ![lis.lost] = fd]
        /\ nsOpen' = (nsOpen \ {sock[lis.lost]}) \cup {fd} /\ ref' = ref /\ main' = main
    BY <1>9, <2>1 DEF Reattach, ListenerAt, NsTypes
  <2>3. \A q \in Remotes : sock'[q] = IF q = lis.lost THEN fd ELSE sock[q]
    BY <2>2 DEF NsTypes
  <2>4. fd # NoSocket /\ fd # main.fd /\ \A q \in Remotes : sock[q] # fd
    BY <2>1 DEF OwnSockets
  <2>5. sock[lis.lost] # NoSocket /\ sock[lis.lost] # main.fd
        /\ \A q \in Remotes : q # lis.lost => sock[q] # sock[lis.lost]
    BY <2>2 DEF OwnSockets
  <2>6. \A q \in Remotes : sock'[q] # NoSocket => sock'[q] \in nsOpen' /\ sock'[q] # main'.fd
    BY <2>1, <2>2, <2>3, <2>4, <2>5 DEF OwnSockets
  <2>7. \A q \in Remotes : sock'[q] # NoSocket <=> ref'[q] > 0 \/ Binding(q)'
    BY <2>2, <2>3, <2>4, <2>5 DEF OwnSockets, Binding
  <2>8. \A p, q \in Remotes : sock'[q] = sock'[p] /\ sock'[p] # NoSocket => q = p
    BY <2>2, <2>3, <2>4 DEF OwnSockets
  <2>9. main'.pc = "detach" => main'.fd \in nsOpen'
    BY <2>1, <2>2, <2>5 DEF OwnSockets
  <2>10. (main'.pc # "detach" => main'.fd = NoSocket) /\ (main'.pc = "bind" => main'.proc \in Remotes /\ ref'[main'.proc] = 0)
    BY <2>2 DEF OwnSockets
  <2> QED
    BY <2>6, <2>7, <2>8, <2>9, <2>10 DEF OwnSockets
<1>10. CASE UNCHANGED nsdVars
  BY <1>1, <1>10 DEF nsdVars, nsSockVars
<1> QED
  BY <1>2, <1>3, <1>4, <1>5, <1>6, <1>7, <1>8, <1>9, <1>10, <1>11, <1>12 DEF NsNext, ListenerStep, MainStep

\* The set of sockets is empty wherever the listener does not select or walk.
LEMMA ListenerAtInv == NsTypes /\ ListenerAt /\ [NsNext]_nsdVars => ListenerAt'
<1> SUFFICES ASSUME NsTypes, ListenerAt, [NsNext]_nsdVars PROVE ListenerAt'
  OBVIOUS
<1>1. ASSUME lis' = lis PROVE ListenerAt'
  BY <1>1 DEF ListenerAt
<1>2. CASE BuildSet \/ ListenerSelects \/ ListenerSelectFails
  BY <1>2 DEF BuildSet, ListenerSelects, ListenerSelectFails, ListenerAt, NsTypes
<1>3. CASE ListenerGetsReply \/ ListenerAnswers \/ ListenerFails
  <2>1. lis.pc = "scan" /\ lis'.pc = "scan"
    BY <1>3 DEF ListenerGetsReply, ListenerAnswers, ListenerTakes, ListenerFails, NsTypes
  <2> QED
    BY <2>1 DEF ListenerAt
<1>4. CASE ListenerReadsEvent \/ ListenerLoopsOn
  <2>1. PICK run \in BOOLEAN : GoOn(run)
    BY <1>4 DEF ListenerReadsEvent, ListenerLoopsOn, HasEvent
  <2> QED
    BY <2>1 DEF GoOn, ListenerAt
<1>5. CASE Reattach \/ ReattachFails
  <2>1. lis.pc = "reattach" /\ Reattached
    BY <1>5 DEF Reattach, ReattachFails
  <2> QED
    BY <2>1 DEF Reattached, ListenerAt, NsTypes
<1>6. ASSUME NEW r \in Remotes,
             NsOpens(r) \/ AttachAgain(r) \/ NsDetach(r) \/ DetachOne(r) \/ NsGet(r) \/ Request(r) \/ Restart(r)
      PROVE  ListenerAt'
  BY <1>1, <1>6 DEF NsOpens, AttachAgain, NsDetach, DetachOne, NsGet, Request, Restart
<1>7. CASE MainStep \/ GetTimesOut \/ Destroy \/ Answer \/ UNCHANGED nsdVars
  BY <1>1, <1>7 DEF MainStep, NsBinds, NsBindFails, GetsAck, GetReads, GetReturns, NsJoined, GetTimesOut, Destroy, Answer, nsdVars
<1> QED
  BY <1>2, <1>3, <1>4, <1>5, <1>6, <1>7 DEF NsNext, ListenerStep

\* Every message comes from a question or a remote; nothing answers twice.
LEMMA AskedInv == NsTypes /\ OwnSockets /\ ListenerAt /\ Asked /\ [NsNext]_nsdVars => Asked'
<1> SUFFICES ASSUME NsTypes, OwnSockets, ListenerAt, Asked, [NsNext]_nsdVars PROVE Asked'
  OBVIOUS
<1>1. ASSUME inbox' = inbox, due' \subseteq due, seqNum' = seqNum, main'.pc = "get" => main.pc = "get"
      PROVE  Asked'
  BY <1>1, AnswersSame DEF Asked
<1>2. ASSUME NEW r \in Remotes, NsOpens(r) PROVE Asked'
  <2>1. PICK fd \in NsFds \ nsOpen : fd = Min(NsFds \ nsOpen)
    BY <1>2, FreshSocket DEF NsOpens
  <2>2. inbox' = [inbox EXCEPT ![fd] = <<>>] /\ due' \subseteq due /\ seqNum' = seqNum /\ main'.pc = "bind"
    BY <1>2, <2>1 DEF NsOpens, nsEventVars
  <2> QED
    BY <2>2, AnswersEmpty DEF Asked
<1>3. ASSUME NEW r \in Remotes, AttachAgain(r) \/ DetachOne(r) \/ NsDetach(r) \/ Restart(r) PROVE Asked'
  <2>1. inbox' = inbox /\ due' \subseteq due /\ seqNum' = seqNum /\ (main'.pc = "get" => main.pc = "get")
    BY <1>3 DEF AttachAgain, DetachOne, NsDetach, Restart, nsEventVars
  <2> QED
    BY <1>1, <2>1
<1>4. ASSUME NEW r \in Remotes, NsGet(r) PROVE Asked'
  <2>1. /\ seqNum' = seqNum + 1 /\ due' = due \cup {[seq |-> seqNum + 1, proc |-> r]} /\ inbox' = inbox
        /\ seqNum \in Nat
    BY <1>4 DEF NsGet, nsSockVars, NsTypes
  <2>2. \A d \in due : d.seq \in Nat /\ d.seq =< seqNum
    BY DEF Asked, Numbered, NsTypes, NsMessages
  <2>3. \A f \in NsFds : \A i \in 1 .. Len(inbox[f]) : inbox[f][i].seq \in Nat /\ inbox[f][i].seq =< seqNum
    <3>1. \A f \in NsFds : inbox[f] \in Seq(NsMessages)
      BY DEF NsTypes
    <3>2. \A f \in NsFds : \A i \in 1 .. Len(inbox[f]) : inbox[f][i] \in NsMessages
      BY <3>1
    <3> QED
      BY <3>2 DEF Asked, Numbered, NsMessages
  <2>4. Numbered'
    BY <2>1, <2>2, <2>3 DEF Numbered
  <2>5. OneAnswer'
    BY <2>1, <2>2, <2>3 DEF OneAnswer
  <2> QED
    BY <2>4, <2>5 DEF Asked
<1>5. ASSUME NEW r \in Remotes, Request(r) PROVE Asked'
  <2>1. sock[r] \in NsFds /\ [seq |-> 0, proc |-> r] \in NsMessages
    BY <1>5 DEF Request, OwnSockets, NsTypes, NsMessages
  <2>2. /\ inbox' = [inbox EXCEPT ![sock[r]] = Append(@, [seq |-> 0, proc |-> r])]
        /\ seqNum' = seqNum /\ due' \subseteq due /\ main' = main
    BY <1>5 DEF Request, nsEventVars
  <2> QED
    BY <2>1, <2>2, AnswersArrive DEF Asked
<1>6. CASE Answer
  <2>1. PICK d \in due :
          /\ due' = due \ {d}
          /\ inbox' = IF ref[d.proc] = 0 THEN inbox ELSE [inbox EXCEPT ![sock[d.proc]] = Append(@, d)]
    BY <1>6 DEF Answer
  <2>2. d \in NsMessages /\ d.proc \in Remotes /\ seqNum' = seqNum /\ main' = main
    BY <1>6 DEF Answer, NsMessages, NsTypes
  <2>3. due' \subseteq due /\ d \in due \ due'
    BY <2>1
  <2>4. CASE ref[d.proc] = 0
    BY <1>1, <2>1, <2>2, <2>3, <2>4
  <2>5. CASE ref[d.proc] # 0
    <3>1. sock[d.proc] \in NsFds /\ inbox' = [inbox EXCEPT ![sock[d.proc]] = Append(@, d)]
      BY <2>1, <2>2, <2>5 DEF NsTypes, OwnSockets
    <3> QED
      BY <2>2, <2>3, <3>1, AnswersArrive DEF Asked
  <2> QED
    BY <2>4, <2>5
<1>7. CASE ListenerGetsReply \/ ListenerAnswers
  <2>1. NextRemote \in Remotes /\ sock[NextRemote] \in NsFds /\ inbox[sock[NextRemote]] # <<>>
    BY <1>7, NextRemoteIs DEF ListenerGetsReply, ListenerAnswers, ListenerTakes
  <2>2. inbox' = [inbox EXCEPT ![sock[NextRemote]] = Tail(@)]
    BY <1>7 DEF ListenerGetsReply, ListenerAnswers, ListenerTakes
  <2>3. seqNum' = seqNum /\ due' = due /\ main' = main
    BY <1>7 DEF ListenerGetsReply, ListenerAnswers, nsEventVars
  <2> QED
    BY <2>1, <2>2, <2>3, AnswersTaken DEF Asked
<1>8. CASE Reattach
  <2>1. PICK fd \in NsFds \ nsOpen : fd = Min(NsFds \ nsOpen)
    BY <1>8, FreshSocket DEF Reattach
  <2>2. inbox' = [inbox EXCEPT ![fd] = <<>>] /\ due' \subseteq due /\ seqNum' = seqNum /\ main' = main
    BY <1>8, <2>1 DEF Reattach, nsEventVars
  <2> QED
    BY <2>2, AnswersEmpty DEF Asked
<1>9. CASE BuildSet \/ ListenerSelects \/ ListenerSelectFails \/ ListenerReadsEvent \/ ListenerFails \/ ListenerLoopsOn \/ ReattachFails
  <2>1. inbox' = inbox /\ due' \subseteq due /\ seqNum' = seqNum /\ main' = main
    BY <1>9 DEF BuildSet, ListenerSelects, ListenerSelectFails, ListenerReadsEvent, ListenerFails, ListenerLoopsOn, ReattachFails,
       nsSockVars, nsEventVars
  <2> QED
    BY <1>1, <2>1
<1>10. CASE GetsAck \/ GetReads \/ GetReturns \/ NsJoined \/ GetTimesOut \/ Destroy
  <2>1. inbox' = inbox /\ due' \subseteq due /\ seqNum' = seqNum /\ (main'.pc = "get" => main.pc = "get")
    BY <1>10 DEF GetsAck, GetReads, GetReturns, NsJoined, GetTimesOut, Destroy, Idle,
       nsSockVars, nsEventVars
  <2> QED
    BY <1>1, <2>1
<1>12. CASE NsBinds \/ NsBindFails
  <2>1. inbox' = inbox /\ due' = due /\ seqNum' = seqNum
    BY <1>12 DEF NsBinds, NsBindFails, nsEventVars
  <2>2. main'.pc # "get"
    BY <1>12 DEF NsBinds, NsBindFails, Idle, NsTypes
  <2> QED
    BY <1>1, <2>1, <2>2
<1>11. CASE UNCHANGED nsdVars
  BY <1>1, <1>11 DEF nsdVars, nsSockVars, nsEventVars
<1> QED
  BY <1>2, <1>3, <1>4, <1>5, <1>6, <1>7, <1>8, <1>9, <1>10, <1>11, <1>12 DEF NsNext, ListenerStep, MainStep

\* While nobody has left a reply behind, an acknowledgement that can be taken is
\* one for the set of sockets as it now is.
LEMMA InStepInv ==
  NsTypes /\ OwnSockets /\ ListenerAt /\ Asked /\ (~stale => InStep) /\ [NsNext]_nsdVars
    => (~stale' => InStep')
<1> SUFFICES ASSUME NsTypes, OwnSockets, ListenerAt, Asked, ~stale => InStep, [NsNext]_nsdVars, ~stale'
             PROVE  InStep'
  OBVIOUS
<1>0. ~stale /\ InStep
  <2>1. ASSUME ListenerStep PROVE stale' = stale \/ stale' = TRUE
    BY <2>1 DEF ListenerStep, BuildSet, ListenerSelects, ListenerSelectFails, ListenerGetsReply, ListenerAnswers, ListenerReadsEvent,
       ListenerFails, ListenerLoopsOn, Reattach, ReattachFails, NsTypes
  <2>2. ASSUME NEW r \in Remotes,
               NsOpens(r) \/ AttachAgain(r) \/ NsDetach(r) \/ DetachOne(r) \/ NsGet(r) \/ Request(r) \/ Restart(r)
        PROVE  stale' = stale
    BY <2>2 DEF NsOpens, AttachAgain, NsDetach, DetachOne, NsGet, Request, Restart
  <2>3. ASSUME MainStep \/ GetTimesOut \/ Destroy \/ Answer \/ UNCHANGED nsdVars PROVE stale' = stale
    BY <2>3 DEF MainStep, NsBinds, NsBindFails, GetsAck, GetReads, GetReturns, NsJoined, GetTimesOut, Destroy, Answer, nsdVars
  <2>4. ~stale
    BY <2>1, <2>2, <2>3 DEF NsNext
  <2> QED
    BY <2>4
<1>h. /\ main.pc \in {"idle", "bind", "got"} => nsUnblock = 0 /\ wait = 0
      /\ main.pc \in {"attach", "detach"} => (nsUnblock = REFRESH /\ wait = 0) \/ (nsUnblock = 0 /\ wait = 1)
      /\ main.pc = "get" => nsUnblock = 0 /\ (wait = 0 \/ (wait = 1 /\ NoAnswer))
      /\ ~lis.run => main.pc \in {"join", "done"}
  BY <1>0 DEF InStep
<1>r. \A f \in lis.rfds :
        \/ \E r \in Remotes : sock[r] = f
        \/ main.pc = "detach" /\ nsUnblock = REFRESH /\ f = main.fd
        \/ f \in dropped
  BY <1>0 DEF InStep
<1>e. lis.pc = "exit" => ~lis.run \/ lis.rfds \cap dropped # {}
  BY <1>0 DEF InStep
<1> USE DEF REFRESH
\* Steps that leave the handshake alone.
<1>1. ASSUME UNCHANGED <<nsUnblock, wait, main, sock, lis, dropped>>, main.pc = "get" /\ NoAnswer => NoAnswer'
      PROVE  InStep'
  BY <1>0, <1>1 DEF InStep
<1>2. ASSUME NEW r \in Remotes, NsOpens(r) PROVE InStep'
  <2>1. PICK fd \in NsFds \ nsOpen : fd = Min(NsFds \ nsOpen)
    BY <1>2, FreshSocket DEF NsOpens
  <2>2. /\ main.pc = "idle" /\ main'.pc = "bind" /\ UNCHANGED <<nsUnblock, wait, lis, dropped>>
        /\ ref[r] = 0 /\ sock' = [sock EXCEPT ![r] = fd]
    BY <1>2, <2>1 DEF NsOpens, nsEventVars
  <2>3. \A f \in lis'.rfds : (\E q \in Remotes : sock'[q] = f) \/ f \in dropped'
    <3>1. ASSUME NEW f \in lis.rfds, f \notin dropped PROVE \E q \in Remotes : sock'[q] = f
      <4>1. PICK q \in Remotes : sock[q] = f
        BY <1>r, <2>2, <3>1
      <4>2. f # NoSocket
        BY NsConstants DEF NsTypes
      <4>3. q # r
        BY <2>2, <4>1, <4>2 DEF OwnSockets, Binding
      <4> QED
        BY <2>2, <4>1, <4>3 DEF NsTypes
    <3> QED
      BY <2>2, <3>1
  <2> QED
    BY <1>h, <1>e, <2>2, <2>3 DEF InStep
<1>20. CASE NsBinds
  <2>1. /\ main.pc = "bind" /\ main'.pc = "attach" /\ nsUnblock' = nsUnblock + 2
        /\ UNCHANGED <<wait, lis, dropped, sock>>
    BY <1>20 DEF NsBinds, NsTypes
  <2>2. nsUnblock' = 2 /\ wait' = 0 /\ lis'.run
    BY <1>h, <2>1 DEF NsTypes
  <2> QED
    BY <1>r, <1>e, <2>1, <2>2 DEF InStep
<1>21. CASE NsBindFails
  <2>1. /\ main.pc = "bind" /\ main'.pc = "idle" /\ UNCHANGED <<nsUnblock, wait, lis>>
        /\ sock' = [sock EXCEPT ![main.proc] = NoSocket] /\ dropped' = dropped \cup {sock[main.proc]}
    BY <1>21 DEF NsBindFails, nsEventVars, Idle
  <2>2. \A f \in lis'.rfds : (\E q \in Remotes : sock'[q] = f) \/ f \in dropped'
    <3>1. ASSUME NEW f \in lis.rfds, f \notin dropped' PROVE \E q \in Remotes : sock'[q] = f
      BY <1>r, <2>1, <3>1 DEF NsTypes
    <3> QED
      BY <2>1, <3>1
  <2>3. lis.rfds \cap dropped # {} => lis'.rfds \cap dropped' # {}
    BY <2>1
  <2> QED
    BY <1>h, <1>e, <2>1, <2>2, <2>3 DEF InStep
<1>22. CASE ListenerSelectFails
  <2>1. /\ UNCHANGED <<nsUnblock, wait, main, sock, inbox, due, seqNum, dropped>>
        /\ lis'.rfds = lis.rfds /\ lis'.run = lis.run /\ ~(lis.rfds \subseteq nsOpen)
    BY <1>22 DEF ListenerSelectFails, nsSockVars, nsEventVars, NsTypes
  <2>2. NoAnswer => NoAnswer'
    BY <2>1, AnswersSame
  <2>3. PICK f \in lis.rfds : f \notin nsOpen
    BY <2>1
  <2>4. f # NoSocket
    BY NsConstants DEF NsTypes
  <2>5. f \in dropped
    BY <1>r, <2>3, <2>4 DEF OwnSockets
  <2> QED
    BY <1>h, <1>r, <2>1, <2>2, <2>3, <2>5 DEF InStep
<1>3. ASSUME NEW r \in Remotes, NsDetach(r) PROVE InStep'
  <2>1. /\ main.pc = "idle" /\ main'.pc = "detach" /\ nsUnblock' = nsUnblock + 2 /\ UNCHANGED <<wait, lis, dropped>>
        /\ sock' = [sock EXCEPT ![r] = NoSocket] /\ main'.fd = sock[r]
    BY <1>3 DEF NsDetach
  <2>2. nsUnblock' = 2 /\ wait' = 0 /\ lis'.run
    BY <1>h, <2>1 DEF NsTypes
  <2>3. \A f \in lis'.rfds : (\E q \in Remotes : sock'[q] = f) \/ f = main'.fd \/ f \in dropped'
    <3>1. ASSUME NEW f \in lis.rfds, f # sock[r], f \notin dropped PROVE \E q \in Remotes : sock'[q] = f
      BY <1>r, <2>1, <3>1 DEF NsTypes
    <3> QED
      BY <2>1, <3>1
  <2> QED
    BY <1>e, <2>1, <2>2, <2>3 DEF InStep
<1>4. ASSUME NEW r \in Remotes, NsGet(r) PROVE InStep'
  <2>1. /\ main.pc = "idle" /\ main'.pc = "get" /\ nsUnblock' = nsUnblock /\ wait' = wait /\ lis' = lis
        /\ sock' = sock /\ dropped' = dropped
    BY <1>4 DEF NsGet, nsSockVars
  <2> QED
    BY <1>h, <1>r, <1>e, <2>1 DEF InStep
<1>5. ASSUME NEW r \in Remotes, AttachAgain(r) \/ DetachOne(r) PROVE InStep'
  <2>1. UNCHANGED <<nsUnblock, wait, main, sock, lis, dropped, inbox, due, seqNum>>
    BY <1>5 DEF AttachAgain, DetachOne, nsEventVars
  <2> QED
    BY <1>1, <2>1, AnswersSame
<1>6. ASSUME NEW r \in Remotes, Restart(r) PROVE InStep'
  <2>1. UNCHANGED <<nsUnblock, wait, main, sock, lis, dropped, inbox, seqNum>> /\ due' \subseteq due
    BY <1>6 DEF Restart
  <2> QED
    BY <1>1, <2>1, AnswersSame
<1>7. ASSUME NEW r \in Remotes, Request(r) PROVE InStep'
  <2>1. sock[r] \in NsFds /\ [seq |-> 0, proc |-> r] \in NsMessages
    BY <1>7 DEF Request, OwnSockets, NsTypes, NsMessages
  <2>2. /\ inbox' = [inbox EXCEPT ![sock[r]] = Append(@, [seq |-> 0, proc |-> r])]
        /\ seqNum' = seqNum /\ due' \subseteq due
    BY <1>7 DEF Request, nsEventVars
  <2>3. main.pc = "get" => seqNum > 0
    BY DEF Asked, OneAnswer
  <2>4. main.pc = "get" /\ NoAnswer => NoAnswer'
    BY <2>1, <2>2, <2>3, AnswersArrive
  <2> QED
    BY <1>1, <1>7, <2>4 DEF Request, nsEventVars
<1>8. CASE Answer
  <2>1. PICK d \in due :
          /\ due' = due \ {d}
          /\ inbox' = IF ref[d.proc] = 0 THEN inbox ELSE [inbox EXCEPT ![sock[d.proc]] = Append(@, d)]
    BY <1>8 DEF Answer
  <2>2. d \in NsMessages /\ d.proc \in Remotes /\ seqNum' = seqNum
    BY <1>8 DEF Answer, NsMessages, NsTypes
  <2>3. due' \subseteq due /\ d \in due \ due'
    BY <2>1
  <2>4. main.pc = "get" => seqNum > 0
    BY DEF Asked, OneAnswer
  <2>5. main.pc = "get" /\ NoAnswer => NoAnswer'
    <3>1. CASE ref[d.proc] = 0
      BY <2>1, <2>2, <2>3, <3>1, AnswersSame
    <3>2. CASE ref[d.proc] # 0
      <4>1. sock[d.proc] \in NsFds /\ inbox' = [inbox EXCEPT ![sock[d.proc]] = Append(@, d)]
        BY <2>1, <2>2, <3>2 DEF NsTypes, OwnSockets
      <4> QED
        BY <2>2, <2>3, <2>4, <4>1, AnswersArrive
    <3> QED
      BY <3>1, <3>2
  <2> QED
    BY <1>1, <1>8, <2>5 DEF Answer
<1>9. CASE GetsAck
  <2>1. /\ main.pc \in {"attach", "detach"} /\ wait > 0 /\ wait' = wait - 1 /\ nsUnblock' = nsUnblock
        /\ main'.pc = "idle" /\ UNCHANGED <<sock, lis, dropped>>
    BY <1>9 DEF GetsAck, Acked, Idle
  <2>2. nsUnblock' = 0 /\ wait' = 0 /\ nsUnblock = 0
    BY <1>h, <2>1
  <2> QED
    BY <1>h, <1>r, <1>e, <2>1, <2>2 DEF InStep
<1>10. CASE GetReads
  <2>1. /\ main.pc = "get" /\ wait > 0 /\ wait' = wait - 1 /\ UNCHANGED <<nsUnblock, sock, lis, dropped>>
        /\ main'.pc \in {"get", "got"}
    BY <1>10 DEF GetReads, nsSockVars, NsTypes
  <2>2. nsUnblock' = 0 /\ wait' = 0
    BY <1>h, <2>1
  <2> QED
    BY <1>h, <1>r, <1>e, <2>1, <2>2 DEF InStep
<1>11. CASE GetReturns \/ GetTimesOut
  <2>1. /\ main.pc = "got" \/ (main.pc = "get" /\ wait = 0)
        /\ main'.pc = "idle" /\ UNCHANGED <<nsUnblock, wait, sock, lis, dropped>>
    BY <1>11 DEF GetReturns, GetTimesOut, nsSockVars, nsEventVars, Idle
  <2> QED
    BY <1>h, <1>r, <1>e, <2>1 DEF InStep
<1>12. CASE Destroy \/ NsJoined
  <2>1. main.pc \in {"idle", "join"} /\ main'.pc \in {"join", "done"} /\ UNCHANGED <<sock, lis, dropped>>
    BY <1>12 DEF Destroy, NsJoined, nsSockVars, Idle
  <2> QED
    BY <1>h, <1>r, <1>e, <2>1 DEF InStep
<1>13. CASE BuildSet
  <2>1. /\ UNCHANGED <<nsUnblock, wait, main, sock, inbox, due, seqNum>>
        /\ lis'.rfds = Sockets /\ lis'.run = lis.run /\ lis'.pc = "select"
    BY <1>13 DEF BuildSet, nsSockVars, nsEventVars, NsTypes
  <2>2. NoAnswer => NoAnswer'
    BY <2>1, AnswersSame
  <2>3. \A f \in Sockets : \E r \in Remotes : sock[r] = f
    BY DEF Sockets
  <2> QED
    BY <1>h, <2>1, <2>2, <2>3 DEF InStep
<1>14. CASE ListenerSelects \/ ListenerFails
  <2>1. /\ UNCHANGED <<nsUnblock, wait, main, sock, inbox, due, seqNum, dropped>>
        /\ lis'.rfds = lis.rfds /\ lis'.run = lis.run /\ lis'.pc # "exit"
    BY <1>14 DEF ListenerSelects, ListenerFails, nsSockVars, nsEventVars, NsTypes
  <2>2. NoAnswer => NoAnswer'
    BY <2>1, AnswersSame
  <2> QED
    BY <1>h, <1>r, <2>1, <2>2 DEF InStep
<1>15. CASE ListenerGetsReply \/ ListenerAnswers
  <2>1. NextRemote \in Remotes /\ sock[NextRemote] \in NsFds /\ inbox[sock[NextRemote]] # <<>>
    BY <1>15, NextRemoteIs DEF ListenerGetsReply, ListenerAnswers, ListenerTakes
  <2>2. inbox' = [inbox EXCEPT ![sock[NextRemote]] = Tail(@)]
    BY <1>15 DEF ListenerGetsReply, ListenerAnswers, ListenerTakes
  <2>3. seqNum' = seqNum /\ due' = due
    BY <1>15 DEF ListenerGetsReply, ListenerAnswers, nsEventVars
  <2>4. /\ UNCHANGED <<nsUnblock, main, sock, dropped>> /\ lis'.rfds = lis.rfds /\ lis'.run = lis.run
        /\ lis'.pc # "exit"
    BY <1>15 DEF ListenerGetsReply, ListenerAnswers, ListenerTakes, nsEventVars, NsTypes
  <2>5. /\ NoAnswer => NoAnswer'
        /\ OneAnswer /\ Head(inbox[sock[NextRemote]]).seq = seqNum => NoAnswer'
    BY <2>1, <2>2, <2>3, AnswersTaken
  <2>6. CASE ListenerAnswers
    <3>1. wait' = wait
      BY <2>6 DEF ListenerAnswers, nsEventVars
    <3> QED
      BY <1>h, <1>r, <2>4, <2>5, <3>1 DEF InStep
  <2>7. CASE ListenerGetsReply
    <3>1. main.pc = "get" /\ Message.seq = seqNum /\ wait' = wait + 1
      BY <2>7 DEF ListenerGetsReply
    <3>2. OneAnswer
      BY <3>1 DEF Asked
    <3>3. wait = 0
      <4>1. 1 \in 1 .. Len(inbox[sock[NextRemote]]) /\ inbox[sock[NextRemote]][1] = Message
        <5>1. inbox[sock[NextRemote]] \in Seq(NsMessages)
          BY <2>1 DEF NsTypes
        <5> QED
          BY <2>1, <5>1 DEF Message
      <4>2. ~NoAnswer
        BY <2>1, <3>1, <4>1 DEF NoAnswer
      <4> QED
        BY <1>h, <3>1, <4>2
    <3>4. wait' = 1 /\ NoAnswer' /\ nsUnblock' = 0 /\ main'.pc = "get"
      BY <1>h, <2>4, <2>5, <3>1, <3>2, <3>3 DEF Message
    <3>5. lis'.run /\ \A f \in lis'.rfds : (\E r \in Remotes : sock'[r] = f) \/ f \in dropped'
      BY <1>h, <1>r, <2>4, <3>1
    <3> QED
      BY <2>4, <3>4, <3>5 DEF InStep
  <2> QED
    BY <1>15, <2>6, <2>7
<1>16. CASE ListenerReadsEvent
  <2>1. /\ nsUnblock' = 0 /\ wait' = (IF HasEvent(nsUnblock, REFRESH) THEN wait + 1 ELSE wait)
        /\ lis'.rfds = {} /\ lis'.run = ~HasEvent(nsUnblock, SHUTDOWN) /\ (lis'.pc = "exit" => ~lis'.run)
        /\ UNCHANGED <<main, sock, inbox, due, seqNum>>
    BY <1>16 DEF ListenerReadsEvent, GoOn, Acknowledges, nsSockVars
  <2>2. NoAnswer => NoAnswer'
    BY <2>1, AnswersSame
  <2>3. main.pc \in {"idle", "bind", "got", "get"} => wait' = wait /\ lis'.run
    BY <1>h, <2>1, EventBits DEF REFRESH
  <2>4. main.pc \in {"attach", "detach"} => wait' = 1 /\ lis'.run
    <3>1. CASE nsUnblock = REFRESH /\ wait = 0
      <4>1. HasEvent(nsUnblock, REFRESH) /\ ~HasEvent(nsUnblock, SHUTDOWN)
        BY <3>1 DEF HasEvent, SHUTDOWN
      <4>2. wait' = wait + 1
        BY <2>1, <4>1
      <4>3. lis'.run
        BY <2>1, <4>1
      <4> QED
        BY <3>1, <4>2, <4>3
    <3>2. CASE nsUnblock = 0 /\ wait = 1
      BY <2>1, <3>2, EventBits
    <3> QED
      BY <1>h, <3>1, <3>2
  <2>5. main.pc \in NsPoints
    BY DEF NsTypes
  <2> QED
    BY <1>h, <2>1, <2>2, <2>3, <2>4, <2>5 DEF InStep, NsPoints
<1>17. CASE ListenerLoopsOn
  <2>1. /\ lis'.rfds = {} /\ lis'.run /\ lis'.pc # "exit"
        /\ UNCHANGED <<nsUnblock, wait, main, sock, inbox, due, seqNum>>
    BY <1>17 DEF ListenerLoopsOn, GoOn, nsSockVars, nsEventVars
  <2>2. NoAnswer => NoAnswer'
    BY <2>1, AnswersSame
  <2> QED
    BY <1>h, <2>1, <2>2 DEF InStep
<1>18. CASE Reattach \/ ReattachFails
  <2>1. /\ lis.rfds = {} /\ lis'.rfds = lis.rfds /\ lis'.run = lis.run
        /\ UNCHANGED <<nsUnblock, wait, main, due, seqNum>> /\ (lis'.pc = "exit" => ~lis'.run)
    BY <1>18 DEF Reattach, ReattachFails, Reattached, nsEventVars, ListenerAt, NsTypes
  <2>2. NoAnswer => NoAnswer'
    <3>1. CASE Reattach
      <4>1. PICK fd \in NsFds \ nsOpen : fd = Min(NsFds \ nsOpen)
        BY <3>1, FreshSocket DEF Reattach
      <4>2. inbox' = [inbox EXCEPT ![fd] = <<>>]
        BY <3>1, <4>1 DEF Reattach
      <4> QED
        BY <2>1, <4>2, AnswersEmpty
    <3>2. CASE ReattachFails
      BY <2>1, <3>2, AnswersSame DEF ReattachFails, nsSockVars
    <3> QED
      BY <1>18, <3>1, <3>2
  <2> QED
    BY <1>h, <2>1, <2>2 DEF InStep
<1>19. CASE UNCHANGED nsdVars
  BY <1>1, <1>19, AnswersSame DEF nsdVars, nsSockVars, nsEventVars
<1> QED
  BY <1>2, <1>3, <1>4, <1>5, <1>6, <1>7, <1>8, <1>9, <1>10, <1>11, <1>12, <1>13, <1>14, <1>15, <1>16,
     <1>17, <1>18, <1>19, <1>20, <1>21, <1>22 DEF NsNext, ListenerStep, MainStep

\* LAD starts with nothing attached and nothing on its way.
LEMMA NsInitInv == NsInit => NsInvariant
<1> SUFFICES ASSUME NsInit PROVE NsInvariant
  OBVIOUS
<1> USE NsConstants
<1>1. NsTypes
  <2>1. inbox \in [NsFds -> Seq(NsMessages)]
    BY DEF NsInit
  <2>2. lis \in [pc : LisPoints, rfds : SUBSET NsFds, ready : SUBSET (NsFds \cup {NsUnblockFd}),
                 next : Nat, lost : Remotes \cup {0}, run : BOOLEAN]
    BY DEF NsInit, LisPoints
  <2>3. main \in [pc : NsPoints, proc : Nat, fd : NsFds \cup {NoSocket}]
    BY DEF NsInit, Idle, NsPoints
  <2>4. /\ ref \in [Remotes -> Nat] /\ sock \in [Remotes -> NsFds \cup {NoSocket}]
        /\ nsOpen \in SUBSET NsFds /\ nsUnblock \in Nat /\ wait \in Nat /\ seqNum \in Nat
        /\ due \in SUBSET NsMessages /\ stale \in BOOLEAN
    BY DEF NsInit
  <2> QED
    BY <2>1, <2>2, <2>3, <2>4 DEF NsTypes
<1>2. OwnSockets /\ ListenerAt /\ InStep
  BY DEF NsInit, OwnSockets, Binding, ListenerAt, InStep, Idle
<1>3. Asked
  <2>1. \A f \in NsFds : inbox[f] = <<>>
    BY DEF NsInit
  <2>2. \A f \in NsFds : Len(inbox[f]) = 0
    BY <2>1
  <2> QED
    BY <2>2 DEF NsInit, Asked, Numbered, Idle
<1> QED
  BY <1>1, <1>2, <1>3 DEF NsInvariant

\* NsInvariant is an invariant.
LEMMA NsHolds == NsSpec => []NsInvariant
<1>1. NsInvariant /\ [NsNext]_nsdVars => NsInvariant'
  BY NsTypesInv, OwnSocketsInv, ListenerAtInv, AskedInv, InStepInv DEF NsInvariant
<1> QED
  BY NsInitInv, <1>1, PTL DEF NsSpec

\* For any processors and any number of sockets: as long as no reply has been
\* posted that nobody waits for, the sockets of the listener's set that have been
\* closed under it are those of attaches that failed, and it ends only when
\* NameServer_destroy has told it to or select has met one of them.
THEOREM ListenerSound == NsSpec => []ListenerIsSound
<1>1. NsInvariant => ListenerIsSound
  <2> SUFFICES ASSUME NsInvariant, ~stale
               PROVE  /\ lis.rfds \ nsOpen \subseteq dropped
                      /\ lis.pc = "exit" => main.pc \in {"join", "done"} \/ lis.rfds \cap dropped # {}
    BY DEF ListenerIsSound, ListenersSocketsAreOpen, ListenerStays, ListenerLost
  <2>1. OwnSockets /\ InStep /\ lis.rfds \subseteq NsFds
    BY DEF NsInvariant, NsTypes
  <2>2. \A f \in lis.rfds : f # NoSocket
    BY <2>1, NsConstants
  <2> QED
    BY <2>1, <2>2 DEF OwnSockets, InStep
<1> QED
  BY NsHolds, <1>1, PTL
=============================================================================
