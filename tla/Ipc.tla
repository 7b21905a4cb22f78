-------------------------------- MODULE Ipc --------------------------------
(***************************************************************************)
(* Attaching two processors to each other and detaching them again         *)
(* (packages/ti/sdo/ipc/Ipc.c, procSync PAIR), with the shared-memory      *)
(* message transport at work between them                                  *)
(* (packages/ti/sdo/ipc/transports/TransportShm.c).                        *)
(*                                                                         *)
(* Each processor owns one Reserved slot in shared region 0 and writes its *)
(* startedKey there.  The slave (smaller processor id) allocates the       *)
(* shared memory of the notify driver, the name server and the transport,  *)
(* creates its side in it and leaves the pointers in its slot; the master  *)
(* opens what it finds there.  Detaching runs the other way: the master    *)
(* closes, then the slave deletes and frees.                               *)
(*                                                                         *)
(* Each processor runs one task, one swi and one isr.  The task calls      *)
(* Ipc_attach, Ipc_detach and MessageQ_put, attach and detach in a loop    *)
(* until they succeed, as Ipc.h says; the swi empties the transport's list *)
(* of incoming messages.  The isr interrupts both; the swi preempts the    *)
(* task, except while the task holds the gate, which also excludes the     *)
(* other processor.                                                        *)
(***************************************************************************)
EXTENDS Integers, Sequences, SequencesExt

CONSTANTS
    Messages,      \* message buffers of the shared region
    RingRoom,      \* bound: events the circular notify driver can hold
    MaxAttached,   \* bound: how often a task attaches without detaching
    MaxFailures    \* bound: how often an allocation or a setup fails

ASSUME IpcAssumption ==
    RingRoom \in Nat \ {0} /\ MaxAttached \in Nat \ {0} /\ MaxFailures \in Nat

Slave  == 0
Master == 1
Procs  == {Slave, Master}
Peer(p) == 1 - p

Drivers == {"shm", "circ"}
NoProc  == -1

VARIABLES
    driver,      \* the notify driver of the build
    pc,          \* pc[p]: where p's task is
    flagUp,      \* is the creator's Attrs.flag UP?
    open,        \* open[p]: are obj->localList and obj->remoteList open?
    registered,  \* registered[p]: is p's Notify event registered?
    transport,   \* transport[p]: is the object in MessageQ's table?
    list,        \* list[p]: p's localList, the peer's remoteList
    event,       \* event[p]: the events raised for p and not yet served
    notify,      \* notify[p]: does p have a notify driver?
    posted, swi, \* p's swi: is it posted, does it run?
    gate,        \* the processor whose task holds the gate, or NoProc
    sending,     \* sending[p]: the message of p's put, a set of at most one
    held         \* held[p]: the messages p's programs own

object == <<flagUp, open, registered, transport>>
swis   == <<posted, swi>>
shmVars == <<driver, pc, object, list, event, notify, swis, gate, sending, held>>

InitTransport ==
    /\ driver \in Drivers
    /\ pc = [p \in Procs |-> "idle"]
    /\ flagUp = FALSE
    /\ open = [p \in Procs |-> FALSE]
    /\ registered = [p \in Procs |-> FALSE]
    /\ transport = [p \in Procs |-> FALSE]
    /\ list = [p \in Procs |-> <<>>]
    /\ event = [p \in Procs |-> 0]
    /\ notify = [p \in Procs |-> FALSE]
    /\ posted = [p \in Procs |-> FALSE]
    /\ swi = [p \in Procs |-> FALSE]
    /\ gate = NoProc
    /\ sending = [p \in Procs |-> {}]
    /\ \E own \in SUBSET Messages :
            held = [p \in Procs |-> IF p = Slave THEN own ELSE Messages \ own]

(* The task runs while its processor's swi does not, and the swi runs as   *)
(* soon as it is posted, unless the task holds the gate.                   *)
Task(p, at) == pc[p] = at /\ ~swi[p] /\ (posted[p] => gate = p)
Goto(p, to) == pc' = [pc EXCEPT ![p] = to]

-----------------------------------------------------------------------------
(***************************************************************************)
(* TransportShm_Instance_init, from the lists to the flag.  The slave      *)
(* creates the two lists, empty; the master opens them.                    *)
(***************************************************************************)
InitLists(p) ==
    /\ Task(p, "lists")
    /\ open' = [open EXCEPT ![p] = TRUE]
    /\ list' = IF p = Slave THEN [q \in Procs |-> <<>>] ELSE list
    /\ Goto(p, "event")
    /\ UNCHANGED <<driver, flagUp, registered, transport, event, notify, swis,
                   gate, sending, held>>

InitEvent(p) ==
    /\ Task(p, "event")
    /\ registered' = [registered EXCEPT ![p] = TRUE]
    /\ Goto(p, "register")
    /\ UNCHANGED <<driver, flagUp, open, transport, list, event, notify, swis,
                   gate, sending, held>>

InitRegister(p) ==
    /\ Task(p, "register")
    /\ transport' = [transport EXCEPT ![p] = TRUE]
    /\ Goto(p, "flag")
    /\ UNCHANGED <<driver, flagUp, open, registered, list, event, notify, swis,
                   gate, sending, held>>

(* The master sets the flag of the other Attrs, which nobody reads.        *)
InitFlag(p) ==
    /\ Task(p, "flag")
    /\ flagUp' = (p = Slave \/ flagUp)
    /\ Goto(p, "finish")
    /\ UNCHANGED <<driver, open, registered, transport, list, event, notify,
                   swis, gate, sending, held>>

InitStep(p) == InitLists(p) \/ InitEvent(p) \/ InitRegister(p) \/ InitFlag(p)

(***************************************************************************)
(* TransportShm_Instance_finalize: the lists go first, the event last.     *)
(* The slave deletes the lists with what is left on them.                  *)
(***************************************************************************)
FinalizeLists(p) ==
    /\ Task(p, "closeLists")
    /\ flagUp' = (p = Master /\ flagUp)
    /\ open' = [open EXCEPT ![p] = FALSE]
    /\ list' = IF p = Slave THEN [q \in Procs |-> <<>>] ELSE list
    /\ Goto(p, "unregister")
    /\ UNCHANGED <<driver, registered, transport, event, notify, swis, gate,
                   sending, held>>

FinalizeRegister(p) ==
    /\ Task(p, "unregister")
    /\ transport' = [transport EXCEPT ![p] = FALSE]
    /\ Goto(p, "unregisterEvent")
    /\ UNCHANGED <<driver, flagUp, open, registered, list, event, notify, swis,
                   gate, sending, held>>

FinalizeEvent(p) ==
    /\ Task(p, "unregisterEvent")
    /\ registered' = [registered EXCEPT ![p] = FALSE]
    /\ Goto(p, "freeTransport")
    /\ UNCHANGED <<driver, flagUp, open, transport, list, event, notify, swis,
                   gate, sending, held>>

FinalizeStep(p) == FinalizeLists(p) \/ FinalizeRegister(p) \/ FinalizeEvent(p)

-----------------------------------------------------------------------------
(***************************************************************************)
(* TransportShm_put.  Notify_sendEvent is one step here; its own steps are *)
(* those of NotifyDriverShm and NotifyDriverCirc, called with waitClear    *)
(* FALSE: the first raises the flag of a registered event, the second adds *)
(* an entry if the ring has room, whoever listens.                         *)
(***************************************************************************)
PutLink(p, m) ==
    /\ Task(p, "idle")
    /\ transport[p]
    /\ m \in held[p]
    /\ gate = NoProc
    /\ gate' = p
    /\ held' = [held EXCEPT ![p] = @ \ {m}]
    /\ sending' = [sending EXCEPT ![p] = {m}]
    /\ list' = [list EXCEPT ![Peer(p)] = Append(@, m)]
    /\ Goto(p, "notify")
    /\ UNCHANGED <<driver, object, event, notify, swis>>

CanSend(p) == IF driver = "shm" THEN registered[Peer(p)]
                                ELSE event[Peer(p)] < RingRoom

PutNotify(p) ==
    /\ Task(p, "notify")
    /\ CanSend(p)
    /\ event' = [event EXCEPT ![Peer(p)] = IF driver = "shm" THEN 1 ELSE @ + 1]
    /\ sending' = [sending EXCEPT ![p] = {}]
    /\ Goto(p, "leave")
    /\ UNCHANGED <<driver, object, list, notify, swis, gate, held>>

(* The message is taken off the list again, wherever it is on it, and put  *)
(* returns FALSE.                                                          *)
PutFail(p) ==
    /\ Task(p, "notify")
    /\ ~CanSend(p)
    /\ \E i \in DOMAIN list[Peer(p)] :
          /\ list[Peer(p)][i] \in sending[p]
          /\ list' = [list EXCEPT ![Peer(p)] = RemoveAt(@, i)]
    /\ sending' = [sending EXCEPT ![p] = {}]
    /\ held' = [held EXCEPT ![p] = @ \cup sending[p]]
    /\ Goto(p, "leave")
    /\ UNCHANGED <<driver, object, event, notify, swis, gate>>

PutLeave(p) ==
    /\ Task(p, "leave")
    /\ gate' = NoProc
    /\ Goto(p, "idle")
    /\ UNCHANGED <<driver, object, list, event, notify, swis, sending, held>>

PutStep(p) == PutNotify(p) \/ PutFail(p) \/ PutLeave(p)

-----------------------------------------------------------------------------
(***************************************************************************)
(* The receiver: the notify driver's isr calls notifyFxn, which posts the  *)
(* swi; an event nobody has registered is dropped.                         *)
(***************************************************************************)
NotifyFxn(p) ==
    /\ event[p] > 0 /\ notify[p]
    /\ event' = [event EXCEPT ![p] = @ - 1]
    /\ posted' = [posted EXCEPT ![p] = @ \/ registered[p]]
    /\ UNCHANGED <<driver, pc, object, list, notify, swi, gate, sending, held>>

SwiStart(p) ==
    /\ posted[p] /\ ~swi[p]
    /\ gate # p
    /\ posted' = [posted EXCEPT ![p] = FALSE]
    /\ swi' = [swi EXCEPT ![p] = TRUE]
    /\ UNCHANGED <<driver, pc, object, list, event, notify, gate, sending, held>>

(* ListMP_getHead and MessageQ_put.  With the list closed its handle is    *)
(* NULL and the swi faults: no step.                                       *)
SwiTake(p) ==
    /\ swi[p] /\ open[p]
    /\ gate = NoProc
    /\ list[p] # <<>>
    /\ held' = [held EXCEPT ![p] = @ \cup {Head(list[p])}]
    /\ list' = [list EXCEPT ![p] = Tail(@)]
    /\ UNCHANGED <<driver, pc, object, event, notify, swis, gate, sending>>

(* Mutant: the swi takes one message and returns.                          *)
SwiEndEarly(p) ==
    /\ swi[p] /\ open[p]
    /\ gate = NoProc
    /\ swi' = [swi EXCEPT ![p] = FALSE]
    /\ UNCHANGED <<driver, pc, object, list, event, notify, posted, gate,
                   sending, held>>

SwiEnd(p) ==
    /\ swi[p] /\ open[p]
    /\ gate = NoProc
    /\ list[p] = <<>>
    /\ swi' = [swi EXCEPT ![p] = FALSE]
    /\ UNCHANGED <<driver, pc, object, list, event, notify, posted, gate,
                   sending, held>>

SwiStep(p) == SwiStart(p) \/ SwiTake(p) \/ SwiEnd(p)

-----------------------------------------------------------------------------
(***************************************************************************)
(* Ipc.c: what attaching adds.  The setups of the notify driver, the name  *)
(* server and the transport run one after the other in one task.           *)
(***************************************************************************)
Keys   == {"none", "START", "FINISH", "DETACH"}
Goals  == {"none", "attach", "detach"}
Setups == {"notify", "nameServer", "transport"}

VARIABLES
    startedKey,  \* startedKey[p]: in p's Reserved slot
    attached,    \* attached[p]: Ipc_module->procEntry[peer].attached
    goal,        \* goal[p]: the call p's task repeats
    srPtr,       \* srPtr[s]: does the slave's slot hold a pointer for s?
    memory,      \* memory[s]: is the shared memory of s allocated?
    nameServer,  \* nameServer[p]: is p's remote name server set up?
    failures

setup   == <<srPtr, memory, nameServer, failures>>
ipcVars == <<startedKey, attached, goal, setup>>
vars    == <<shmVars, ipcVars>>

(* The owner of region 0 zeroes the slots in Ipc_start.                    *)
Init ==
    /\ InitTransport
    /\ startedKey = [p \in Procs |-> "none"]
    /\ attached = [p \in Procs |-> 0]
    /\ goal = [p \in Procs |-> "none"]
    /\ srPtr = [s \in Setups |-> FALSE]
    /\ memory = [s \in Setups |-> FALSE]
    /\ nameServer = [p \in Procs |-> FALSE]
    /\ failures = 0

(* isRegistered and intLineRegistered of the three setups.                 *)
IsRegistered(p, s) ==
    CASE s = "notify"     -> notify[p]
      [] s = "nameServer" -> nameServer[p]
      [] s = "transport"  -> transport[p]

-----------------------------------------------------------------------------
Decide(p, g) ==
    /\ Task(p, "idle")
    /\ goal[p] = "none"
    /\ \/ g = "attach" /\ attached[p] < MaxAttached
       \/ g = "detach" /\ attached[p] > 0
    /\ goal' = [goal EXCEPT ![p] = g]
    /\ UNCHANGED <<shmVars, startedKey, attached, setup>>

(***************************************************************************)
(* Ipc_attach of a processor attached already, and the beginning of        *)
(* procSyncStart: the slave announces itself; the master does when it has  *)
(* done so before or the slave has.                                        *)
(***************************************************************************)
AttachAgain(p) ==
    /\ Task(p, "idle")
    /\ goal[p] = "attach" /\ attached[p] > 0
    /\ attached' = [attached EXCEPT ![p] = @ + 1]
    /\ goal' = [goal EXCEPT ![p] = "none"]
    /\ UNCHANGED <<shmVars, startedKey, setup>>

MayStart(p) ==
    \/ p = Slave
    \/ startedKey[p] = "START"
    \/ startedKey[Peer(p)] = "START"

AttachCall(p) ==
    /\ Task(p, "idle")
    /\ goal[p] = "attach" /\ attached[p] = 0
    /\ MayStart(p)
    /\ startedKey' = [startedKey EXCEPT ![p] = "START"]
    /\ Goto(p, "readKey")
    /\ UNCHANGED <<driver, object, list, event, notify, swis, gate, sending,
                   held, attached, goal, setup>>

(* The second half of procSyncStart: is the peer ready, or E_NOTREADY?     *)
(* Mutant: the master does not wait for the slave to finish.               *)
PeerReady(p) ==
    startedKey[Peer(p)] = IF p = Slave THEN "START" ELSE "FINISH"

AttachReadKey(p) ==
    /\ Task(p, "readKey")
    /\ Goto(p, IF PeerReady(p) THEN "attachNotify" ELSE "idle")
    /\ UNCHANGED <<driver, object, list, event, notify, swis, gate, sending,
                   held, ipcVars>>

(***************************************************************************)
(* One setup: skipped when registered.  The slave allocates and publishes  *)
(* the pointer before it creates; an allocation that fails returns         *)
(* E_MEMORY, a creation that fails frees the memory and returns E_FAIL,    *)
(* both leaving the setups made so far.  The master opens through the      *)
(* pointer, and the transport only if its flag is UP.                      *)
(***************************************************************************)
Setup(p, s, here, next) ==
    /\ Task(p, here)
    /\ IF IsRegistered(p, s)
       THEN Goto(p, next) /\ UNCHANGED <<notify, nameServer, event, srPtr, memory>>
       ELSE /\ p = Master /\ s = "transport" => flagUp
            /\ srPtr' = [srPtr EXCEPT ![s] = TRUE]
            /\ memory' = IF p = Slave THEN [memory EXCEPT ![s] = TRUE] ELSE memory
            /\ notify' = IF s = "notify" THEN [notify EXCEPT ![p] = TRUE] ELSE notify
            /\ nameServer' = IF s = "nameServer" THEN [nameServer EXCEPT ![p] = TRUE]
                                                 ELSE nameServer
            /\ event' = IF p = Slave /\ s = "notify" THEN [q \in Procs |-> 0]
                                                     ELSE event
            /\ Goto(p, next)
    /\ UNCHANGED <<driver, object, list, swis, gate, sending, held, startedKey,
                   attached, goal, failures>>

SetupFails(p, s, here) ==
    /\ Task(p, here)
    /\ ~IsRegistered(p, s)
    /\ failures < MaxFailures \/ (p = Master /\ s = "transport" /\ ~flagUp)
    /\ failures' = failures + 1
    /\ \/ UNCHANGED srPtr
       \/ p = Slave /\ srPtr' = [srPtr EXCEPT ![s] = TRUE]
    /\ Goto(p, "idle")
    /\ UNCHANGED <<driver, object, list, event, notify, swis, gate, sending, held,
                   startedKey, attached, goal, memory, nameServer>>

AttachNotify(p)     == Setup(p, "notify", "attachNotify", "attachNameServer")
AttachNameServer(p) == Setup(p, "nameServer", "attachNameServer", "attachTransport")
AttachTransport(p)  == Setup(p, "transport", "attachTransport",
                             IF transport[p] THEN "finish" ELSE "lists")
AttachFails(p) ==
    \/ SetupFails(p, "notify", "attachNotify")
    \/ SetupFails(p, "nameServer", "attachNameServer")
    \/ SetupFails(p, "transport", "attachTransport")

Attached(p) ==
    /\ attached' = [attached EXCEPT ![p] = @ + 1]
    /\ goal' = [goal EXCEPT ![p] = "none"]
    /\ Goto(p, "idle")

(* Mutant: the slave does not wait for the master.                         *)
AttachFinishNoWait(p) ==
    /\ Task(p, "finish")
    /\ startedKey' = [startedKey EXCEPT ![p] = "FINISH"]
    /\ Attached(p)
    /\ UNCHANGED <<driver, object, list, event, notify, swis, gate, sending, held,
                   setup>>

(* procSyncFinish: the slave then waits for the master.                    *)
AttachFinish(p) ==
    /\ Task(p, "finish")
    /\ startedKey' = [startedKey EXCEPT ![p] = "FINISH"]
    /\ IF p = Slave THEN Goto(p, "wait") /\ UNCHANGED <<attached, goal>>
                    ELSE Attached(p)
    /\ UNCHANGED <<driver, object, list, event, notify, swis, gate, sending, held,
                   setup>>

(* Mutant: the slave waits for FINISH only.                                *)
AttachWaitFinish(p) ==
    /\ Task(p, "wait")
    /\ startedKey[Peer(p)] = "FINISH"
    /\ Attached(p)
    /\ UNCHANGED <<driver, object, list, event, notify, swis, gate, sending, held,
                   startedKey, setup>>

AttachWait(p) ==
    /\ Task(p, "wait")
    /\ startedKey[Peer(p)] \in {"FINISH", "DETACH"}
    /\ Attached(p)
    /\ UNCHANGED <<driver, object, list, event, notify, swis, gate, sending, held,
                   startedKey, setup>>

AttachStep(p) ==
    \/ AttachAgain(p) \/ AttachCall(p) \/ AttachReadKey(p)
    \/ AttachNotify(p) \/ AttachNameServer(p) \/ AttachTransport(p)
    \/ AttachFinish(p) \/ AttachWait(p)

-----------------------------------------------------------------------------
(***************************************************************************)
(* Ipc_detach.                                                             *)
(***************************************************************************)
DetachOnce(p) ==
    /\ Task(p, "idle")
    /\ goal[p] = "detach" /\ attached[p] > 1
    /\ attached' = [attached EXCEPT ![p] = @ - 1]
    /\ goal' = [goal EXCEPT ![p] = "none"]
    /\ UNCHANGED <<shmVars, startedKey, setup>>

(* Mutant: the slave does not wait for the master to detach.               *)
MayDetach(p) ==
    /\ startedKey[Peer(p)] # "START"
    /\ p = Slave => startedKey[Peer(p)] = "DETACH"

DetachCall(p) ==
    /\ Task(p, "idle")
    /\ goal[p] = "detach" /\ attached[p] = 1
    /\ MayDetach(p)
    /\ Goto(p, IF transport[p] THEN "closeLists" ELSE "detachNameServer")
    /\ UNCHANGED <<driver, object, list, event, notify, swis, gate, sending, held,
                   ipcVars>>

(* The slave frees the memory and invalidates the pointer.                 *)
Release(p, s) ==
    /\ srPtr' = IF p = Slave THEN [srPtr EXCEPT ![s] = FALSE] ELSE srPtr
    /\ memory' = IF p = Slave THEN [memory EXCEPT ![s] = FALSE] ELSE memory

DetachTransport(p) ==
    /\ Task(p, "freeTransport")
    /\ Release(p, "transport")
    /\ Goto(p, "detachNameServer")
    /\ UNCHANGED <<driver, object, list, event, notify, swis, gate, sending, held,
                   startedKey, attached, goal, nameServer, failures>>

DetachNameServer(p) ==
    /\ Task(p, "detachNameServer")
    /\ nameServer' = [nameServer EXCEPT ![p] = FALSE]
    /\ Release(p, "nameServer")
    /\ Goto(p, "detachNotify")
    /\ UNCHANGED <<driver, object, list, event, notify, swis, gate, sending, held,
                   startedKey, attached, goal, failures>>

DetachNotify(p) ==
    /\ Task(p, "detachNotify")
    /\ notify' = [notify EXCEPT ![p] = FALSE]
    /\ Release(p, "notify")
    /\ Goto(p, "detached")
    /\ UNCHANGED <<driver, object, list, event, swis, gate, sending, held,
                   startedKey, attached, goal, nameServer, failures>>

Detached(p) ==
    /\ Task(p, "detached")
    /\ startedKey' = [startedKey EXCEPT ![p] = "DETACH"]
    /\ attached' = [attached EXCEPT ![p] = 0]
    /\ goal' = [goal EXCEPT ![p] = "none"]
    /\ Goto(p, "idle")
    /\ UNCHANGED <<driver, object, list, event, notify, swis, gate, sending, held,
                   setup>>

DetachStep(p) ==
    \/ DetachOnce(p) \/ DetachCall(p) \/ DetachTransport(p)
    \/ DetachNameServer(p) \/ DetachNotify(p) \/ Detached(p)
-----------------------------------------------------------------------------
Quiet(A) == A /\ UNCHANGED ipcVars

(* What the task does inside a call or between two attempts of it.         *)
TaskStep(p) ==
    \/ AttachStep(p) \/ Quiet(InitStep(p))
    \/ DetachStep(p) \/ Quiet(FinalizeStep(p))
    \/ Quiet(PutStep(p))

Next ==
    \E p \in Procs :
        \/ \E g \in {"attach", "detach"} : Decide(p, g)
        \/ AttachFails(p)
        \/ goal[p] = "none" /\ \E m \in Messages : Quiet(PutLink(p, m))
        \/ TaskStep(p)
        \/ Quiet(NotifyFxn(p))
        \/ Quiet(SwiStep(p))

(* Calls return to their loop and loops go on; interrupts and posted swis  *)
(* are served.  Nobody has to attach, detach or put.                       *)
Fairness ==
    \A p \in Procs :
        /\ WF_vars(TaskStep(p))
        /\ WF_vars(Quiet(NotifyFxn(p)))
        /\ WF_vars(Quiet(SwiStep(p)))

Spec == Init /\ [][Next]_vars /\ Fairness

-----------------------------------------------------------------------------
InAttach == {"readKey", "attachNotify", "attachNameServer", "attachTransport",
             "lists", "event", "register", "flag", "finish", "wait"}
InDetach == {"closeLists", "unregister", "unregisterEvent", "freeTransport",
             "detachNameServer", "detachNotify", "detached"}
InPut    == {"notify", "leave"}

(* Every variable keeps its type.                                          *)
TypeOK ==
    /\ driver \in Drivers
    /\ pc \in [Procs -> {"idle"} \cup InAttach \cup InDetach \cup InPut]
    /\ flagUp \in BOOLEAN
    /\ open \in [Procs -> BOOLEAN]
    /\ registered \in [Procs -> BOOLEAN]
    /\ transport \in [Procs -> BOOLEAN]
    /\ list \in [Procs -> Seq(Messages)]
    /\ event \in [Procs -> 0 .. RingRoom]
    /\ notify \in [Procs -> BOOLEAN]
    /\ posted \in [Procs -> BOOLEAN]
    /\ swi \in [Procs -> BOOLEAN]
    /\ gate \in Procs \cup {NoProc}
    /\ sending \in [Procs -> SUBSET Messages]
    /\ held \in [Procs -> SUBSET Messages]
    /\ startedKey \in [Procs -> Keys]
    /\ attached \in [Procs -> 0 .. MaxAttached]
    /\ goal \in [Procs -> Goals]
    /\ srPtr \in [Setups -> BOOLEAN]
    /\ memory \in [Setups -> BOOLEAN]
    /\ nameServer \in [Procs -> BOOLEAN]
    /\ failures \in 0 .. MaxFailures

(***************************************************************************)
(* Ipc_detach, "The slave processor waits for master to finish its detach  *)
(* sequence": what the master has open, down to lists it is just closing,  *)
(* lies in memory the slave has not freed.                                 *)
(***************************************************************************)
OpenIsLive ==
    /\ \A s \in Setups : IsRegistered(Master, s) => memory[s]
    /\ open[Master] => memory["transport"] /\ open[Slave]

(***************************************************************************)
(* procSyncStart and procSyncFinish: whoever attached and has not begun to *)
(* detach finds the other side's event and lists ready, unless the other   *)
(* has begun to detach; and the slave never begins first.                  *)
(***************************************************************************)
Serving(p) == open[p] /\ registered[p] /\ notify[p] /\ nameServer[p]

AttachedIsReachable ==
    \A p \in Procs :
        attached[p] > 0 /\ pc[p] \notin InDetach =>
            \/ Serving(Peer(p))
            \/ p = Slave /\ (pc[Master] \in InDetach \/ startedKey[Master] = "DETACH")

(* What a processor has open is there, and whoever attached is reached.    *)
PeersAreThere == OpenIsLive /\ AttachedIsReachable

(***************************************************************************)
(* TransportShm_put: the message is given away or kept, never both, though *)
(* it is linked before the outcome is known.  The gate keeps the receiver  *)
(* off it meanwhile.                                                       *)
(***************************************************************************)
OneOwner ==
    /\ held[Slave] \cap held[Master] = {}
    /\ ToSet(list[Slave]) \cap ToSet(list[Master]) = {}
    /\ \A p, q \in Procs : held[p] \cap ToSet(list[q]) = {}
    /\ \A p \in Procs :
          /\ \A i, j \in DOMAIN list[p] : list[p][i] = list[p][j] => i = j
          /\ sending[p] \subseteq ToSet(list[Peer(p)])

(***************************************************************************)
(* swiFxn empties the list and one event may stand for several messages: a *)
(* message on the list of a processor whose event is registered has an     *)
(* event, a posted or a running swi coming, or its put has yet to raise it.*)
(***************************************************************************)
NoStranded ==
    \A p \in Procs :
        list[p] # <<>> /\ open[p] /\ registered[p] =>
            event[p] > 0 \/ posted[p] \/ swi[p] \/ sending[Peer(p)] # {}

(* put and swiFxn together: no message is doubled, lost or left behind.    *)
MessagesAccounted == OneOwner /\ NoStranded

(* Instance_finalize closes the lists before it unregisters the event: a   *)
(* swi posted in between reads through a NULL handle.  The code does not   *)
(* exclude it, so the liveness properties below do.                        *)
Faulted == \E p \in Procs : swi[p] /\ ~open[p]

(***************************************************************************)
(* The handshakes.  When both processors loop in Ipc_attach, the slave,    *)
(* which is the second of the two to finish, attaches; when both loop in   *)
(* their last Ipc_detach, the slave, again the second, is detached.        *)
(***************************************************************************)
AttachCompletes ==
    (\A p \in Procs : goal[p] = "attach" /\ attached[p] = 0)
        ~> (attached[Slave] > 0 \/ Faulted)

DetachCompletes ==
    (\A p \in Procs : goal[p] = "detach" /\ attached[p] = 1)
        ~> (attached[Slave] = 0 \/ Faulted)

HandshakesComplete == AttachCompletes /\ DetachCompletes
=============================================================================
