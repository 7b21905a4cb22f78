----------------------------- MODULE RPMessage -----------------------------
(***************************************************************************)
(* RPMessage over its two virtio rings, on one BIOS processor              *)
(* (packages/ti/ipc/rpmsg/RPMessage.c, packages/ti/ipc/family/vayu/        *)
(* VirtQueue.c).  The host fills both rings' available lists; this side    *)
(* only ever takes available buffers and returns them used.                *)
(*                                                                         *)
(*   toHost    empty buffers are taken, filled by RPMessage_send, returned *)
(*   fromHost  full buffers are taken by RPMessage_swiFxn, which copies    *)
(*             each onto its endpoint's queue and returns it empty         *)
(*                                                                         *)
(* Each ring has a flag per direction that asks the other side not to      *)
(* interrupt.  GateHwi and Swis order the code of this processor: a swi    *)
(* runs before any task, nothing runs while a gate is held - except the    *)
(* host, which reads and writes the rings at any time.  The host is        *)
(* external: it follows the scheme at the head of RPMessage.c and honours  *)
(* VRING_USED_F_NO_NOTIFY.                                                 *)
(***************************************************************************)
EXTENDS Naturals, Sequences

CONSTANTS
    Senders,      \* tasks that call RPMessage_send to the host
    Endpoints,    \* endpoints, each with the one task that reads it
    Payloads,     \* what the host may send
    NumBufs,      \* buffers of each ring
    NumBlocks,    \* blocks of the heap the payloads are copied to
    MailboxDepth  \* bound: kicks of the host on their way to one ring

NoOne    == "none"
TheSwi   == "swi"
Places   == {"idle", "retry", "test", "starved", "fill", "kick", "delete", "pend", "woken"}

ASSUME RPMessageAssumption ==
    /\ Senders \cap Endpoints = {}
    /\ (Senders \cup Endpoints) \cap ({NoOne, TheSwi} \cup Places) = {}
    /\ NumBufs \in Nat \ {0} /\ NumBlocks \in Nat /\ MailboxDepth \in Nat \ {0}

Rings    == {"toHost", "fromHost"}
Tasks    == Senders \cup Endpoints
Messages == [dst : Endpoints, payload : Payloads]
NoMsg    == [dst |-> NoOne, payload |-> NoOne]

VARIABLES
    avail,       \* avail[r]: buffers of ring r this side has not taken
    used,        \* used[r]: buffers this side returned, the host not yet took
    inbox,       \* the messages in the available buffers of fromHost
    noNotify,    \* noNotify[r]: VRING_USED_F_NO_NOTIFY, set by this side
    noInterrupt, \* VRING_AVAIL_F_NO_INTERRUPT of fromHost, set by the host
    kick,        \* kick[r]: interrupts of the host on their way
    hostInt,     \* hostInt[r]: interrupt of this side, pending at the host
    host,        \* host[r]: where the host stands in its work on ring r
    hostFree,    \* buffers of fromHost the host holds
    gate,        \* who is inside VirtQueue_getAvailBuf, interrupts disabled
    posted,      \* the swi is posted
    swi,         \* where RPMessage_swiFxn stands
    cur,         \* the message the swi has taken
    usedBufAdded,
    semToHost,   \* semHandle_toHost, a binary semaphore
    pc,          \* pc[t]: where task t stands
    endpoint,    \* endpoint[e]: the object behind msgqObjects[e]
    queue, sem,  \* queue[e], sem[e]: its list and its counting semaphore
    unblocked,   \* unblocked[e]
    blocks       \* free blocks of the heap

rings   == <<avail, used, inbox, noNotify, noInterrupt>>
hosts   == <<kick, hostInt, host, hostFree>>
swis    == <<posted, swi, cur, usedBufAdded>>
objects == <<endpoint, queue, sem, unblocked, blocks>>
vars    == <<rings, hosts, gate, swis, semToHost, pc, objects>>

(* The host primes toHost before VirtQueue_startup returns.                *)
Init ==
    /\ avail = [r \in Rings |-> IF r = "toHost" THEN NumBufs ELSE 0]
    /\ used = [r \in Rings |-> 0]
    /\ inbox = <<>>
    /\ noNotify = [r \in Rings |-> FALSE]
    /\ noInterrupt = TRUE
    /\ kick = [r \in Rings |-> 0]
    /\ hostInt = [r \in Rings |-> FALSE]
    /\ host = [r \in Rings |-> "idle"]
    /\ hostFree = NumBufs
    /\ gate = NoOne
    /\ posted = FALSE /\ swi = "idle" /\ cur = NoMsg /\ usedBufAdded = FALSE
    /\ semToHost = FALSE
    /\ pc = [t \in Tasks |-> "idle"]
    /\ endpoint = [e \in Endpoints |-> "absent"]
    /\ queue = [e \in Endpoints |-> <<>>]
    /\ sem = [e \in Endpoints |-> 0]
    /\ unblocked = [e \in Endpoints |-> FALSE]
    /\ blocks = NumBlocks

-----------------------------------------------------------------------------
(* Who may take a step: tasks when no swi is ready, nobody past a gate.    *)
TaskRuns(t) == swi = "idle" /\ ~posted /\ gate \in {NoOne, t}
SwiRuns     == gate \in {NoOne, TheSwi}
At(t, here) == pc[t] = here /\ TaskRuns(t)
Goto(t, there) == pc' = [pc EXCEPT ![t] = there]

(***************************************************************************)
(* VirtQueue_getAvailBuf: the flag is cleared before the ring is looked at *)
(* and set again when a buffer was there.                                  *)
(***************************************************************************)
(* Mutant: the flag is only ever set.                                      *)
AskForKickNever(r) == UNCHANGED noNotify
AskForKick(r) == noNotify' = [noNotify EXCEPT ![r] = FALSE]

TakeAvail(r) ==
    /\ avail[r] > 0
    /\ avail' = [avail EXCEPT ![r] = @ - 1]
    /\ noNotify' = [noNotify EXCEPT ![r] = TRUE]

AddUsed(r) == used' = [used EXCEPT ![r] = @ + 1]

Suppressed(r) == r = "fromHost" /\ noInterrupt

(* VirtQueue_kick.                                                         *)
Kick(r) ==
    hostInt' = IF Suppressed(r) THEN hostInt ELSE [hostInt EXCEPT ![r] = TRUE]

-----------------------------------------------------------------------------
(***************************************************************************)
(* RPMessage_send to the host.                                             *)
(***************************************************************************)
SendGetBuf(t) ==
    /\ At(t, "idle") \/ At(t, "retry")
    /\ gate' = t
    /\ AskForKick("toHost")
    /\ Goto(t, "test")
    /\ UNCHANGED <<avail, used, inbox, noInterrupt, hosts, swis, semToHost, objects>>

SendTakeBuf(t) ==
    /\ At(t, "test")
    /\ TakeAvail("toHost")
    /\ gate' = NoOne
    /\ Goto(t, "fill")
    /\ UNCHANGED <<used, inbox, noInterrupt, hosts, swis, semToHost, objects>>

SendNoBuf(t) ==
    /\ At(t, "test")
    /\ avail["toHost"] = 0
    /\ gate' = NoOne
    /\ Goto(t, "starved")
    /\ UNCHANGED <<rings, hosts, swis, semToHost, objects>>

SendWake(t) ==
    /\ At(t, "starved")
    /\ semToHost
    /\ semToHost' = FALSE
    /\ Goto(t, "retry")
    /\ UNCHANGED <<rings, hosts, gate, swis, objects>>

SendFill(t) ==
    /\ At(t, "fill")
    /\ AddUsed("toHost")
    /\ Goto(t, "kick")
    /\ UNCHANGED <<avail, inbox, noNotify, noInterrupt, hosts, gate, swis,
                   semToHost, objects>>

SendKick(t) ==
    /\ At(t, "kick")
    /\ Kick("toHost")
    /\ Goto(t, "idle")
    /\ UNCHANGED <<rings, kick, host, hostFree, gate, swis, semToHost, objects>>

SendStep(t) == SendGetBuf(t) \/ SendTakeBuf(t) \/ SendNoBuf(t) \/ SendWake(t)
               \/ SendFill(t) \/ SendKick(t)

-----------------------------------------------------------------------------
(***************************************************************************)
(* VirtQueue_isr and callback_availBufReady, then RPMessage_swiFxn.        *)
(***************************************************************************)
Isr(r) ==
    /\ gate = NoOne
    /\ kick[r] > 0
    /\ kick' = [kick EXCEPT ![r] = @ - 1]
    /\ posted' = (posted \/ r = "fromHost")
    /\ semToHost' = (semToHost \/ r = "toHost")
    /\ UNCHANGED <<rings, hostInt, host, hostFree, gate, swi, cur, usedBufAdded,
                   pc, objects>>

SwiGetBuf ==
    /\ SwiRuns
    /\ \/ swi = "idle" /\ posted /\ posted' = FALSE
       \/ swi = "next" /\ UNCHANGED posted
    /\ gate' = TheSwi
    /\ AskForKick("fromHost")
    /\ swi' = "test"
    /\ UNCHANGED <<avail, used, inbox, noInterrupt, hosts, cur, usedBufAdded,
                   semToHost, pc, objects>>

SwiTakeBuf ==
    /\ SwiRuns /\ swi = "test"
    /\ TakeAvail("fromHost")
    /\ cur' = Head(inbox) /\ inbox' = Tail(inbox)
    /\ gate' = NoOne
    /\ swi' = "deliver"
    /\ UNCHANGED <<used, noInterrupt, hosts, posted, usedBufAdded, semToHost, pc,
                   objects>>

SwiEmpty ==
    /\ SwiRuns /\ swi = "test"
    /\ avail["fromHost"] = 0
    /\ gate' = NoOne
    /\ swi' = IF usedBufAdded THEN "kick" ELSE "idle"
    /\ UNCHANGED <<rings, hosts, posted, cur, usedBufAdded, semToHost, pc, objects>>

(***************************************************************************)
(* RPMessage_send to an endpoint of this processor, called from the swi:   *)
(* no object, a callback, a copy on its queue, or no block for the copy.   *)
(* An object that is being deleted is still found in the table and has     *)
(* lost its callback, its semaphore or its list: the call goes through a   *)
(* NULL handle.  No task runs until the buffer is returned, and only the   *)
(* return is visible to the host: one step.                                *)
(***************************************************************************)
Copy(e) ==
    \/ /\ blocks > 0
       /\ queue' = [queue EXCEPT ![e] = Append(@, cur)]
       /\ blocks' = blocks - 1
       /\ sem' = [sem EXCEPT ![e] = @ + 1]
    \/ blocks = 0 /\ UNCHANGED <<queue, blocks, sem>>

SwiDeliver ==
    LET e == cur.dst IN
    /\ SwiRuns /\ swi = "deliver"
    /\ ~(endpoint[e] = "torn" /\ blocks > 0)
    /\ \/ endpoint[e] = "queue" /\ Copy(e)
       \/ endpoint[e] # "queue" /\ UNCHANGED <<queue, blocks, sem>>
    /\ AddUsed("fromHost")
    /\ usedBufAdded' = TRUE
    /\ cur' = NoMsg
    /\ swi' = "next"
    /\ UNCHANGED <<avail, inbox, noNotify, noInterrupt, hosts, gate, posted,
                   semToHost, pc, endpoint, unblocked>>

SwiFault ==
    /\ SwiRuns /\ swi = "deliver"
    /\ endpoint[cur.dst] = "torn" /\ blocks > 0
    /\ swi' = "fault"
    /\ UNCHANGED <<rings, hosts, gate, posted, cur, usedBufAdded, semToHost, pc,
                   objects>>

SwiKick ==
    /\ SwiRuns /\ swi = "kick"
    /\ Kick("fromHost")
    /\ usedBufAdded' = FALSE
    /\ swi' = "idle"
    /\ UNCHANGED <<rings, kick, host, hostFree, gate, posted, cur, semToHost, pc,
                   objects>>

SwiStep == SwiGetBuf \/ SwiTakeBuf \/ SwiEmpty \/ SwiDeliver \/ SwiFault \/ SwiKick

-----------------------------------------------------------------------------
(***************************************************************************)
(* Endpoints.  The task that reads an endpoint creates and deletes it, and *)
(* creates it with a queue or with a callback.                             *)
(* RPMessage_delete deletes semaphore and list first and takes the object  *)
(* out of the table last; a callback is cleared first.                     *)
(***************************************************************************)
Create(e) ==
    /\ At(e, "idle")
    /\ endpoint[e] = "absent"
    /\ \E kind \in {"queue", "callback"} :
          endpoint' = [endpoint EXCEPT ![e] = kind]
    /\ queue' = [queue EXCEPT ![e] = <<>>]
    /\ sem' = [sem EXCEPT ![e] = 0]
    /\ unblocked' = [unblocked EXCEPT ![e] = FALSE]
    /\ UNCHANGED <<rings, hosts, gate, swis, semToHost, pc, blocks>>

Unblocking(e) == \E t \in Senders : pc[t] = e

DeleteTear(e) ==
    /\ At(e, "idle")
    /\ endpoint[e] \in {"queue", "callback"} /\ ~Unblocking(e)
    /\ endpoint' = [endpoint EXCEPT ![e] = "torn"]
    /\ blocks' = blocks + Len(queue[e])
    /\ queue' = [queue EXCEPT ![e] = <<>>]
    /\ sem' = [sem EXCEPT ![e] = 0]
    /\ Goto(e, "delete")
    /\ UNCHANGED <<rings, hosts, gate, swis, semToHost, unblocked>>

DeleteSlot(e) ==
    /\ At(e, "delete")
    /\ endpoint' = [endpoint EXCEPT ![e] = "absent"]
    /\ Goto(e, "idle")
    /\ UNCHANGED <<rings, hosts, gate, swis, semToHost, queue, sem, unblocked, blocks>>

(* RPMessage_recv: look at the ring, wait, test unblocked, take a message: *)
(* nothing but this task takes from the queue, the last two are one step.  *)
RecvCall(e) ==
    /\ At(e, "idle")
    /\ endpoint[e] = "queue"
    /\ posted' = TRUE
    /\ Goto(e, "pend")
    /\ UNCHANGED <<rings, hosts, gate, swi, cur, usedBufAdded, semToHost, objects>>

RecvWake(e) ==
    /\ At(e, "pend")
    /\ sem[e] > 0
    /\ sem' = [sem EXCEPT ![e] = @ - 1]
    /\ Goto(e, "woken")
    /\ UNCHANGED <<rings, hosts, gate, swis, semToHost, endpoint, queue, unblocked,
                   blocks>>

RecvTimeOut(e) ==
    /\ At(e, "pend")
    /\ sem[e] = 0
    /\ Goto(e, "idle")
    /\ UNCHANGED <<rings, hosts, gate, swis, semToHost, objects>>

RecvUnblocked(e) ==
    /\ At(e, "woken")
    /\ unblocked[e]
    /\ Goto(e, "idle")
    /\ UNCHANGED <<rings, hosts, gate, swis, semToHost, objects>>

RecvGet(e) ==
    /\ At(e, "woken")
    /\ ~unblocked[e] /\ queue[e] # <<>>
    /\ queue' = [queue EXCEPT ![e] = Tail(@)]
    /\ blocks' = blocks + 1
    /\ Goto(e, "idle")
    /\ UNCHANGED <<rings, hosts, gate, swis, semToHost, endpoint, sem, unblocked>>

RecvStep(e) == RecvWake(e) \/ RecvUnblocked(e) \/ RecvGet(e) \/ DeleteSlot(e)

(* RPMessage_unblock, once per queue: it may not be used afterwards.       *)
Unblock(t, e) ==
    /\ At(t, "idle")
    /\ endpoint[e] = "queue" /\ ~unblocked[e]
    /\ unblocked' = [unblocked EXCEPT ![e] = TRUE]
    /\ Goto(t, e)
    /\ UNCHANGED <<rings, hosts, gate, swis, semToHost, endpoint, queue, sem, blocks>>

UnblockPost(t, e) ==
    /\ At(t, e)
    /\ sem' = [sem EXCEPT ![e] = @ + 1]
    /\ Goto(t, "idle")
    /\ UNCHANGED <<rings, hosts, gate, swis, semToHost, endpoint, queue, unblocked,
                   blocks>>

-----------------------------------------------------------------------------
(***************************************************************************)
(* The host.  Messages to it: interrupted, it takes every used buffer of   *)
(* toHost, makes it available again, and kicks unless asked not to.        *)
(***************************************************************************)
HostAt(r, here, there) == host[r] = here /\ host' = [host EXCEPT ![r] = there]

HostKick(r) ==
    \/ noNotify[r] /\ UNCHANGED kick
    \/ ~noNotify[r] /\ kick[r] < MailboxDepth /\ kick' = [kick EXCEPT ![r] = @ + 1]

HostInterrupted ==
    /\ hostInt["toHost"]
    /\ HostAt("toHost", "idle", "receive")
    /\ hostInt' = [hostInt EXCEPT !["toHost"] = FALSE]
    /\ UNCHANGED <<rings, kick, hostFree, gate, swis, semToHost, pc, objects>>

HostReceive ==
    /\ HostAt("toHost", "receive", "receive")
    /\ used["toHost"] > 0
    /\ used' = [used EXCEPT !["toHost"] = @ - 1]
    /\ avail' = [avail EXCEPT !["toHost"] = @ + 1]
    /\ UNCHANGED <<inbox, noNotify, noInterrupt, hosts, gate, swis, semToHost, pc,
                   objects>>

HostReceived ==
    /\ HostAt("toHost", "receive", "idle")
    /\ used["toHost"] = 0
    /\ HostKick("toHost")
    /\ UNCHANGED <<rings, hostInt, hostFree, gate, swis, semToHost, pc, objects>>

(***************************************************************************)
(* Messages from it: it fills a buffer it holds, makes it available, and   *)
(* kicks unless asked not to.  It collects used buffers when it has none,  *)
(* and sleeps for an interrupt when there are none to collect.             *)
(***************************************************************************)
HostSend(m) ==
    /\ hostFree > 0
    /\ HostAt("fromHost", "idle", "kick")
    /\ hostFree' = hostFree - 1
    /\ inbox' = Append(inbox, m)
    /\ avail' = [avail EXCEPT !["fromHost"] = @ + 1]
    /\ UNCHANGED <<used, noNotify, noInterrupt, kick, hostInt, gate, swis, semToHost,
                   pc, objects>>

HostSent ==
    /\ HostAt("fromHost", "kick", "idle")
    /\ HostKick("fromHost")
    /\ UNCHANGED <<rings, hostInt, hostFree, gate, swis, semToHost, pc, objects>>

HostCollect ==
    /\ hostFree = 0 /\ used["fromHost"] > 0
    /\ HostAt("fromHost", "idle", "idle") \/ HostAt("fromHost", "recheck", "idle")
    /\ hostFree' = used["fromHost"]
    /\ used' = [used EXCEPT !["fromHost"] = 0]
    /\ noInterrupt' = TRUE
    /\ UNCHANGED <<avail, inbox, noNotify, kick, hostInt, gate, swis, semToHost, pc,
                   objects>>

HostStarved ==
    /\ hostFree = 0 /\ used["fromHost"] = 0
    /\ \/ HostAt("fromHost", "idle", "recheck") /\ noInterrupt' = FALSE
       \/ HostAt("fromHost", "recheck", "asleep") /\ UNCHANGED noInterrupt
    /\ UNCHANGED <<avail, used, inbox, noNotify, kick, hostInt, hostFree, gate, swis,
                   semToHost, pc, objects>>

HostWake ==
    /\ hostInt["fromHost"]
    /\ HostAt("fromHost", "asleep", "recheck")
    /\ hostInt' = [hostInt EXCEPT !["fromHost"] = FALSE]
    /\ UNCHANGED <<rings, kick, hostFree, gate, swis, semToHost, pc, objects>>

HostStep == \/ HostInterrupted \/ HostReceive \/ HostReceived
            \/ HostSent \/ HostCollect \/ HostStarved \/ HostWake

-----------------------------------------------------------------------------
Next ==
    \/ \E t \in Senders : SendStep(t)
    \/ \E t \in Senders, e \in Endpoints : Unblock(t, e) \/ UnblockPost(t, e)
    \/ \E r \in Rings : Isr(r)
    \/ SwiStep
    \/ \E e \in Endpoints : Create(e) \/ DeleteTear(e) \/ RecvCall(e)
                            \/ RecvTimeOut(e) \/ RecvStep(e)
    \/ HostStep
    \/ \E m \in Messages : HostSend(m)

Spec == Init /\ [][Next]_vars

-----------------------------------------------------------------------------
(* Every variable has its type; buffers and blocks are no more than there  *)
(* are.                                                                    *)
Types ==
    /\ avail \in [Rings -> Nat] /\ used \in [Rings -> Nat] /\ hostFree \in Nat
    /\ inbox \in Seq(Messages) /\ Len(inbox) = avail["fromHost"]
    /\ noNotify \in [Rings -> BOOLEAN] /\ noInterrupt \in BOOLEAN
    /\ kick \in [Rings -> 0 .. MailboxDepth] /\ hostInt \in [Rings -> BOOLEAN]
    /\ host \in [Rings -> {"idle", "receive", "kick", "recheck", "asleep"}]
    /\ host["toHost"] \in {"idle", "receive"} /\ host["fromHost"] # "receive"
    /\ gate \in Tasks \cup {NoOne, TheSwi}
    /\ posted \in BOOLEAN /\ usedBufAdded \in BOOLEAN /\ semToHost \in BOOLEAN
    /\ swi \in {"idle", "test", "next", "deliver", "kick", "fault"}
    /\ cur \in Messages \cup {NoMsg}
    /\ pc \in [Tasks -> Places \cup Endpoints]
    /\ \A t \in Senders : pc[t] \notin {"delete", "pend", "woken"}
    /\ \A e \in Endpoints : pc[e] \in {"idle", "delete", "pend", "woken"}
    /\ endpoint \in [Endpoints -> {"absent", "queue", "callback", "torn"}]
    /\ queue \in [Endpoints -> Seq(Messages)] /\ sem \in [Endpoints -> Nat]
    /\ unblocked \in [Endpoints -> BOOLEAN] /\ blocks \in Nat

TypeOK ==
    /\ Types
    /\ \A r \in Rings : avail[r] <= NumBufs /\ used[r] <= NumBufs
    /\ hostFree <= NumBufs /\ blocks <= NumBlocks

(***************************************************************************)
(* No buffer is left lying in a ring while the side it waits for sleeps,   *)
(* although both sides turn the other's interrupts off and on: a message   *)
(* of the host has a kick or the swi coming; one to the host an interrupt; *)
(* and a host that sleeps for buffers is interrupted when there are some.  *)
(***************************************************************************)
SwiComing == posted \/ swi # "idle" \/ kick["fromHost"] > 0

NoneStranded ==
    /\ inbox # <<>> => SwiComing \/ host["fromHost"] = "kick"
    /\ used["toHost"] > 0 => \/ hostInt["toHost"] \/ host["toHost"] = "receive"
                             \/ \E t \in Senders : pc[t] = "kick"
    /\ host["fromHost"] = "asleep" /\ used["fromHost"] > 0 =>
          hostInt["fromHost"] \/ usedBufAdded

(***************************************************************************)
(* A task in RPMessage_send that found no buffer is told of the next one:  *)
(* while it sleeps beside an available buffer, the semaphore is posted, an *)
(* interrupt is coming, or another task is about to take the buffer.  The  *)
(* comment in VirtQueue_getAvailBuf says the flag is cleared before the    *)
(* ring is looked at to that end.  With one sender it holds.  With two,    *)
(* the one that is woken sets the flag again (No need to be kicked about   *)
(* added buffers anymore), and the other sleeps on beside a full ring.     *)
(***************************************************************************)
StarvedIsWoken ==
    \A t \in Senders : pc[t] = "starved" /\ avail["toHost"] > 0 =>
        \/ semToHost \/ kick["toHost"] > 0 \/ host["toHost"] = "receive"
        \/ \E other \in Senders : pc[other] \in {"retry", "test"}

(***************************************************************************)
(* A reader that RPMessage_recv's semaphore has woken, and that no unblock *)
(* has told to return, finds a message in its queue, which the swi, the    *)
(* unblock and the deletion share without a common lock.                   *)
(***************************************************************************)
RecvFindsPayload ==
    \A e \in Endpoints : pc[e] = "woken" /\ ~unblocked[e] => queue[e] # <<>>

(* Buffers, senders and readers.                                           *)
RingsAreServed == NoneStranded /\ StarvedIsWoken /\ RecvFindsPayload
=============================================================================
