--------------------------- MODULE LinuxMessageQ ---------------------------
(***************************************************************************)
(* The MessageQ client library of a Linux process over TransportRpmsg.     *)
(* Threads create, read and delete queues of their own; one more thread    *)
(* attaches to the remote processor, detaches and stops (Ipc_module's gate *)
(* makes it one at a time).  The queue index comes from the LAD daemon,    *)
(* which answers a thread's request before it takes the next one, so a     *)
(* request is one step here; LAD models that protocol.  The remote         *)
(* processor sends to the sockets bound for it, and may crash.             *)
(*                                                                         *)
(* Source: linux/src/api/MessageQ.c, linux/src/api/Ipc.c                   *)
(***************************************************************************)
EXTENDS TransportRpmsgLinux

CONSTANTS QueueThreads, \* the threads that use queues, at most one queue each
          IpcThread,    \* the one that attaches, detaches and stops
          NoObj,        \* no thread, and no queue object
          MaxCreates,   \* bounds: how many queues are created,
          MaxRemote,    \*   what the remote does: a message sent, or its crash
          MaxAttaches   \*   and how often the process attaches

Callers == QueueThreads \cup {IpcThread}
GrowSize == 1

ASSUME ClientAssumption ==
  /\ IpcThread \notin QueueThreads /\ NoObj \notin Callers
  /\ Indices \subseteq Nat /\ MaxFd \in Nat

VARIABLES
  served,       \* the indices LAD has given out
  queues,       \* the table: the object of each index
  numQueues,    \* its length
  registered,   \* transports[][]: the remote's instance is registered
  gate,         \* who holds the module's gate
  qOf, msgs, sem, unblocked, live,   \* the queue object of each thread
  at, op, todo, \* where each caller is, in which call, and the queues left to it
  held,         \* the object the dispatch thread has looked up
  attached, remoteUp, fault,
  creates, remotes, attaches

objVars   == <<qOf, msgs, sem, unblocked, live>>
tblVars   == <<served, queues, numQueues>>
callVars  == <<gate, at, op, todo>>
boundVars == <<creates, remotes, attaches>>
peerVars  == <<registered, attached, remoteUp, fault>>
lqVars    == <<rpmsgVars, objVars, tblVars, callVars, held, peerVars, boundVars>>

ClientInit ==
  /\ RpmsgInit
  /\ served = {} /\ queues = [q \in Indices |-> NoObj] /\ numQueues = 1
  /\ qOf = [t \in QueueThreads |-> NoFd]
  /\ msgs = [t \in QueueThreads |-> 0] /\ sem = [t \in QueueThreads |-> 0]
  /\ unblocked = [t \in QueueThreads |-> FALSE] /\ live = [t \in QueueThreads |-> FALSE]
  /\ gate = NoObj
  /\ at = [c \in Callers |-> "idle"] /\ op = [c \in Callers |-> "none"]
  /\ todo = [c \in Callers |-> {}]
  /\ held = NoObj
  /\ registered = FALSE /\ attached = FALSE /\ remoteUp = TRUE /\ fault = FALSE
  /\ creates = 0 /\ remotes = 0 /\ attaches = 0

CallerGoto(c, place) == at' = [at EXCEPT ![c] = place]

----------------------------------------------------------------------------
(* The calls of a thread. *)

\* MessageQ_create first asks LAD for a queue; LAD fills the first hole.  (The
\* new object is not one that the dispatch thread still holds.)
Create(t) ==
  /\ at[t] = "idle" /\ qOf[t] = NoFd /\ held # t
  /\ Indices \ served # {} /\ creates < MaxCreates
  /\ creates' = creates + 1
  /\ LET q == Min(Indices \ served)
     IN /\ served' = served \cup {q}
        /\ qOf' = [qOf EXCEPT ![t] = q]
  /\ live' = [live EXCEPT ![t] = TRUE]
  /\ CallerGoto(t, "locking") /\ op' = [op EXCEPT ![t] = "create"]
  /\ UNCHANGED <<rpmsgVars, msgs, sem, unblocked, queues, numQueues, gate, todo, held, peerVars, remotes, attaches>>

\* MessageQ_delete asks LAD to delete it before it takes the queue out of its
\* own table; LAD may give the index to another thread in between.
Delete(t) ==
  /\ at[t] = "idle" /\ qOf[t] # NoFd
  /\ served' = served \ {qOf[t]}
  /\ CallerGoto(t, "locking") /\ op' = [op EXCEPT ![t] = "delete"]
  /\ UNCHANGED <<rpmsgVars, objVars, queues, numQueues, gate, todo, held, peerVars, boundVars>>

\* MessageQ_get gets past the semaphore (a get that waits, or times out, has
\* changed nothing) and then looks at the flag and the list.
Get(t) ==
  /\ at[t] = "idle" /\ qOf[t] # NoFd /\ sem[t] > 0
  /\ sem' = [sem EXCEPT ![t] = @ - 1]
  /\ CallerGoto(t, "taken")
  /\ UNCHANGED <<rpmsgVars, qOf, msgs, unblocked, live, tblVars, gate, op, todo, held, peerVars,
                 boundVars>>
\* A queue that has been unblocked or shut down says so; any other has a message.
GetTakes(t) ==
  /\ at[t] = "taken"
  /\ msgs' = IF unblocked[t] THEN msgs ELSE [msgs EXCEPT ![t] = @ - 1]
  /\ CallerGoto(t, "idle")
  /\ UNCHANGED <<rpmsgVars, qOf, sem, unblocked, live, tblVars, gate, op, todo, held, peerVars,
                 boundVars>>

----------------------------------------------------------------------------
(* What create, delete, attach and detach do under the module's gate: bind or
   unbind each queue of todo, the lowest index first, then finish. *)

Occupied == {q \in Indices : queues[q] # NoObj}
Work(c) ==
  CASE ~registered -> {}
    [] registered /\ op[c] \in {"create", "delete"} -> {qOf[c]}
    [] registered /\ op[c] \in {"attach", "detach"} -> Occupied

Lock(c) ==
  /\ at[c] = "locking" /\ gate = NoObj
  /\ gate' = c
  /\ todo' = [todo EXCEPT ![c] = Work(c)]
  /\ CallerGoto(c, "work")
  /\ UNCHANGED <<rpmsgVars, objVars, tblVars, op, held, peerVars, boundVars>>

AtWork(c, calls) == at[c] = "work" /\ op[c] \in calls /\ todo[c] # {}
NextQueue(c) == Min(todo[c])
NextWork(c) == todo' = [todo EXCEPT ![c] = @ \ {NextQueue(c)}]
Binders   == {"create", "attach"}
Unbinders == {"delete", "detach"}

\* The queue is bound already, or the socket cannot be had: bind returns, and
\* its callers do not look at the status.
BindSkips(c) ==
  /\ AtWork(c, Binders) /\ inst
  /\ fdOf[NextQueue(c)] # NoFd \/ ~remoteUp \/ FreeFds = {}
  /\ NextWork(c)
  /\ UNCHANGED <<rpmsgVars, objVars, tblVars, gate, at, op, held, peerVars, boundVars>>
BindPauses(c) ==
  /\ AtWork(c, Binders) /\ inst
  /\ fdOf[NextQueue(c)] = NoFd /\ remoteUp /\ FreeFds # {}
  /\ BindOpen
  /\ CallerGoto(c, "acking")
  /\ UNCHANGED <<objVars, tblVars, gate, op, todo, held, peerVars, boundVars>>
NewFd == CHOOSE f \in open : \A i \in DOMAIN inFds : inFds[i].fd # f
BindGetsAck(c) ==
  /\ at[c] = "acking" /\ op[c] \in Binders /\ ack > 0
  /\ BindAdd(NextQueue(c), NewFd)
  /\ NextWork(c) /\ CallerGoto(c, "work")
  /\ UNCHANGED <<objVars, tblVars, gate, op, held, peerVars, boundVars>>

UnbindPauses(c) ==
  /\ AtWork(c, Unbinders) /\ inst
  /\ UnbindPause
  /\ CallerGoto(c, "acking")
  /\ UNCHANGED <<objVars, tblVars, gate, op, todo, held, peerVars, boundVars>>
UnbindGetsAck(c) ==
  /\ at[c] = "acking" /\ op[c] \in Unbinders /\ UnbindAcked(NextQueue(c))
  /\ UnbindRemove(NextQueue(c))
  /\ NextWork(c) /\ CallerGoto(c, "work")
  /\ UNCHANGED <<objVars, tblVars, gate, op, held, peerVars, boundVars>>

\* Detach freed the instance between this caller's read of transports[][] and
\* its call: it uses freed memory, and what follows is not modelled.
Fault ==
  /\ fault' = TRUE
  /\ UNCHANGED <<rpmsgVars, objVars, tblVars, callVars, held, registered, attached, remoteUp,
                 boundVars>>
UsesFreedInstance(t) == AtWork(t, Binders \cup Unbinders) /\ ~inst /\ Fault

Finishing(c, call) == at[c] = "work" /\ op[c] = call /\ todo[c] = {}

\* create grows the table to LAD's, stores the object and announces it.
InstallQueue(t) ==
  /\ Finishing(t, "create")
  /\ numQueues' = IF qOf[t] >= numQueues THEN qOf[t] + GrowSize ELSE numQueues
  /\ queues' = [queues EXCEPT ![qOf[t]] = t]
  /\ gate' = NoObj /\ CallerGoto(t, "idle") /\ op' = [op EXCEPT ![t] = "none"]
  /\ UNCHANGED <<rpmsgVars, objVars, served, todo, held, peerVars, boundVars>>
\* delete clears whatever the table has at its index and frees its object.
RemoveQueue(t) ==
  /\ Finishing(t, "delete")
  /\ queues' = [queues EXCEPT ![qOf[t]] = NoObj]
  /\ qOf' = [qOf EXCEPT ![t] = NoFd] /\ live' = [live EXCEPT ![t] = FALSE]
  /\ gate' = NoObj /\ CallerGoto(t, "idle") /\ op' = [op EXCEPT ![t] = "none"]
  /\ msgs' = [msgs EXCEPT ![t] = 0] /\ sem' = [sem EXCEPT ![t] = 0]
  /\ unblocked' = [unblocked EXCEPT ![t] = FALSE]
  /\ UNCHANGED <<rpmsgVars, served, numQueues, todo, held, peerVars,
                 boundVars>>

----------------------------------------------------------------------------
(* Ipc_attach, Ipc_detach and Ipc_stop. *)

\* The transport's factory creates the instance and registers it.
Attach ==
  /\ at[IpcThread] = "idle" /\ ~attached /\ remoteUp /\ attaches < MaxAttaches
  /\ attaches' = attaches + 1
  /\ CreateInstance /\ registered' = TRUE
  /\ CallerGoto(IpcThread, "locking") /\ op' = [op EXCEPT ![IpcThread] = "attach"]
  /\ UNCHANGED <<objVars, tblVars, gate, todo, held, attached, remoteUp, fault, creates, remotes>>
AttachDone ==
  /\ Finishing(IpcThread, "attach")
  /\ attached' = TRUE
  /\ gate' = NoObj /\ CallerGoto(IpcThread, "idle") /\ op' = [op EXCEPT ![IpcThread] = "none"]
  /\ UNCHANGED <<rpmsgVars, objVars, tblVars, todo, held, registered, remoteUp, fault,
                 boundVars>>

Detach ==
  /\ at[IpcThread] = "idle" /\ attached
  /\ attached' = FALSE
  /\ CallerGoto(IpcThread, "locking") /\ op' = [op EXCEPT ![IpcThread] = "detach"]
  /\ UNCHANGED <<rpmsgVars, objVars, tblVars, gate, todo, held, registered, remoteUp, fault,
                 boundVars>>
\* MessageQ_unbind lets the gate go; the transport is unregistered and its
\* instance freed without it.
DetachUnlocks ==
  /\ Finishing(IpcThread, "detach")
  /\ gate' = NoObj /\ CallerGoto(IpcThread, "unregistering")
  /\ UNCHANGED <<rpmsgVars, objVars, tblVars, op, todo, held, peerVars, boundVars>>
Unregister ==
  /\ at[IpcThread] = "unregistering"
  /\ registered' = FALSE
  /\ CallerGoto(IpcThread, "deleting")
  /\ UNCHANGED <<rpmsgVars, objVars, tblVars, gate, op, todo, held, attached, remoteUp, fault,
                 boundVars>>
DetachDone ==
  /\ at[IpcThread] = "deleting"
  /\ DeleteInstance
  /\ CallerGoto(IpcThread, "idle") /\ op' = [op EXCEPT ![IpcThread] = "none"]
  /\ UNCHANGED <<objVars, tblVars, gate, todo, held, peerVars, boundVars>>

\* The application stops once its threads are done; the dispatch thread is joined.
Stop ==
  /\ at[IpcThread] = "idle" /\ ~attached
  /\ \A t \in QueueThreads : at[t] = "idle" /\ qOf[t] = NoFd
  /\ SendShutdown
  /\ at' = [c \in Callers |-> IF c = IpcThread THEN "joining" ELSE "done"]
  /\ UNCHANGED <<objVars, tblVars, gate, op, todo, held, peerVars, boundVars>>
Joined ==
  /\ at[IpcThread] = "joining" /\ disp.pc = "exit"
  /\ CallerGoto(IpcThread, "done")
  /\ UNCHANGED <<rpmsgVars, objVars, tblVars, gate, op, todo, held, peerVars, boundVars>>

----------------------------------------------------------------------------
(* The dispatch thread delivers. *)

clientVars == <<tblVars, callVars, peerVars, boundVars>>
\* TransportRpmsg's gate is held by whoever is in bind or unbind.
RpmsgGateIsFree == \A c \in Callers : at[c] # "acking"

DispSelects == Select /\ UNCHANGED <<objVars, held, clientVars>>
DispReadsEvent == ReadEvent /\ UNCHANGED <<objVars, held, clientVars>>
DispNoEvent == NoEvent /\ UNCHANGED <<objVars, held, clientVars>>

DispGoto(place) == disp' = [disp EXCEPT !.pc = place]
Found == IF QHere < numQueues THEN queues[QHere] ELSE NoObj

\* A message: MessageQ_put reads the table without a gate.  One for a queue
\* that is not there goes to this processor's own transport, and there is none.
DispReceives ==
  /\ Receive(IF Found = NoObj THEN "scan" ELSE "insert")
  /\ held' = Found
  /\ UNCHANGED <<objVars, clientVars>>
Insert ==
  /\ disp.pc = "insert" /\ live[held]
  /\ msgs' = [msgs EXCEPT ![held] = @ + 1]
  /\ sem' = [sem EXCEPT ![held] = @ + 1]
  /\ held' = NoObj /\ DispGoto("scan")
  /\ UNCHANGED <<qOf, unblocked, live, tableVars, eventVars, sockVars, clientVars>>

\* An error: MessageQ_shutdown is getLocalHandle, the flag, the semaphore.
DispFails ==
  /\ ReceiveFails(RpmsgGateIsFree, IF queues[QHere] = NoObj THEN "scan" ELSE "flag")
  /\ held' = IF RpmsgGateIsFree THEN queues[QHere] ELSE NoObj
  /\ UNCHANGED <<objVars, clientVars>>
\* A mutant: the semaphore is posted and the flag left for later.
ShutPostOnly ==
  /\ disp.pc = "flag" /\ live[held]
  /\ sem' = [sem EXCEPT ![held] = @ + 1]
  /\ DispGoto("post")
  /\ UNCHANGED <<qOf, msgs, unblocked, live, held, tableVars, eventVars, sockVars, clientVars>>
ShutFlag ==
  /\ disp.pc = "flag" /\ live[held]
  /\ unblocked' = [unblocked EXCEPT ![held] = TRUE]
  /\ DispGoto("post")
  /\ UNCHANGED <<qOf, msgs, sem, live, held, tableVars, eventVars, sockVars, clientVars>>
ShutPost ==
  /\ disp.pc = "post" /\ live[held]
  /\ sem' = [sem EXCEPT ![held] = @ + 1]
  /\ held' = NoObj /\ DispGoto("scan")
  /\ UNCHANGED <<qOf, msgs, unblocked, live, tableVars, eventVars, sockVars, clientVars>>

\* The queue was deleted since it was looked up: a use of freed memory.
UsesFreedQueue == disp.pc \in {"insert", "flag", "post"} /\ ~live[held] /\ Fault

(* The remote processor sends to a socket bound for it, or crashes for good. *)
Remote == remotes < MaxRemote /\ remotes' = remotes + 1
Send ==
  /\ remoteUp /\ Remote
  /\ \E f \in open \ broken : pending' = [pending EXCEPT ![f] = @ + 1]
  /\ UNCHANGED <<objVars, tableVars, eventVars, open, broken, disp, held, tblVars, callVars,
                 peerVars, creates, attaches>>
Crash ==
  /\ remoteUp /\ Remote
  /\ remoteUp' = FALSE /\ broken' = open
  /\ UNCHANGED <<objVars, tableVars, eventVars, open, pending, disp, held, tblVars, callVars,
                 registered, attached, fault, creates, attaches>>
----------------------------------------------------------------------------
CallerStep(c) ==
  \/ Lock(c)
  \/ BindSkips(c) \/ BindPauses(c) \/ BindGetsAck(c)
  \/ UnbindPauses(c) \/ UnbindGetsAck(c)
ThreadStep(t) ==
  \/ CallerStep(t)
  \/ GetTakes(t) \/ InstallQueue(t) \/ RemoveQueue(t) \/ UsesFreedInstance(t)
IpcStep ==
  \/ CallerStep(IpcThread)
  \/ AttachDone \/ DetachUnlocks \/ Unregister \/ DetachDone
  \/ Joined
DispStep ==
  \/ DispSelects \/ DispReceives \/ DispFails \/ DispReadsEvent \/ DispNoEvent
  \/ Insert \/ ShutFlag \/ ShutPost \/ UsesFreedQueue
ClientCalls ==
  \/ \E t \in QueueThreads : Create(t) \/ Delete(t) \/ Get(t)
  \/ Attach \/ Detach \/ Stop
  \/ Send \/ Crash

ClientNext ==
  /\ ~fault
  /\ \/ \E t \in QueueThreads : ThreadStep(t)
     \/ IpcStep \/ DispStep \/ ClientCalls

\* The kernel runs every thread that can run; what the threads call is theirs
\* to choose.
ClientFairness ==
  /\ \A t \in QueueThreads : WF_lqVars(~fault /\ ThreadStep(t))
  /\ WF_lqVars(~fault /\ IpcStep)
  /\ WF_lqVars(~fault /\ DispStep)
ClientSpec == ClientInit /\ [][ClientNext]_lqVars /\ ClientFairness

----------------------------------------------------------------------------
ClientTypeOK ==
  /\ inst \in BOOLEAN /\ fdOf \in [Indices -> Fds \cup {NoFd}]
  /\ \A i \in DOMAIN inFds : inFds[i] \in [fd : Fds, q : Indices]
  /\ rfds \subseteq Fds \cup {UnblockFd} /\ maxFd \in Fds \cup {UnblockFd}
  /\ unblock \in Nat /\ ack \in 0 .. 1
  /\ open \subseteq Fds /\ broken \subseteq open /\ pending \in [Fds -> Nat]
  /\ disp.pc \in {"select", "scan", "insert", "flag", "post", "paused", "exit"}
  /\ served \subseteq Indices /\ queues \in [Indices -> QueueThreads \cup {NoObj}]
  /\ gate \in Callers \cup {NoObj} /\ held \in QueueThreads \cup {NoObj}
  /\ msgs \in [QueueThreads -> Nat] /\ sem \in [QueueThreads -> Nat]
  /\ at \in [Callers -> {"idle", "locking", "work", "acking", "taken", 
                         "unregistering", "deleting", "joining", "done"}]

\* While the dispatch thread may use a descriptor - it is in the array, or in
\* the set it selects on - the socket is open.
ArrayFds == {inFds[i].fd : i \in DOMAIN inFds}
DispatchedFdsAreOpen == ArrayFds \subseteq open /\ rfds \subseteq ArrayFds \cup {UnblockFd}

\* A thread that got past the semaphore of a queue nobody has unblocked finds
\* a message in the list.
GetFindsMessage == \A t \in QueueThreads : at[t] = "taken" /\ ~unblocked[t] => msgs[t] > 0

\* What the dispatch thread has looked up is still allocated when it is used,
\* unless a socket was left behind by a detach that ran beside create.
Owned == {fdOf[q] : q \in Indices}
NoneLeftBehind == ArrayFds \subseteq IF registered THEN Owned ELSE {}
DeliversToLive == held # NoObj /\ NoneLeftBehind => live[held]

\* Who edits the descriptors after the dispatch thread's acknowledgement edits
\* them while it is paused, whatever PAUSE, CONTINUE and SHUTDOWN add up to.
EditsArePaused == \A c \in Callers : at[c] = "acking" /\ ack > 0 => disp.pc = "paused"

\* The dispatch thread uses open sockets, stands still while they change, and
\* uses live queues.
DispatchIsSound == DispatchedFdsAreOpen /\ EditsArePaused /\ DeliversToLive

\* A caller that asked the dispatch thread to pause gets its acknowledgement.
BindsReturn == \A c \in Callers : at[c] = "acking" ~> at[c] # "acking" \/ fault

\* The table has no other queue at the index LAD gave out.
IndexIsFree ==
  [][\A t \in QueueThreads : InstallQueue(t) => queues[qOf[t]] = NoObj]_lqVars
=============================================================================
