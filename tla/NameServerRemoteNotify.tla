----------------------- MODULE NameServerRemoteNotify -----------------------
(***************************************************************************)
(* Looking up names on the other processor                                 *)
(* (packages/ti/sdo/ipc/nsremote/NameServerRemoteNotify.c).  Each of two   *)
(* processors has one message slot in shared memory, in which it leaves a  *)
(* request and in which the other processor, in a swi, leaves the answer.  *)
(* Requests and answers are announced by the two payloads of one Notify    *)
(* event, sent with waitClear TRUE: a sender spins until the last one is   *)
(* taken by the other side's isr.  The caller waits on a semaphore.        *)
(*                                                                         *)
(* On each processor the isr interrupts everything, the two swis have the  *)
(* same priority and run one after the other, and tasks run when no swi    *)
(* does.                                                                   *)
(***************************************************************************)
EXTENDS Integers, Sequences, SequencesExt

CONSTANTS
    Tasks0, Tasks1,   \* the tasks of processor 0 and of processor 1
    Names0, Names1,   \* the names that the tasks of each look up
    MayTimeOut,       \* the processors whose timeoutInMicroSecs is finite
    MaxLate           \* bound: a task times out with no more answers under way

ASSUME NameServerAssumption ==
    /\ Tasks0 \cap Tasks1 = {}
    /\ MayTimeOut \subseteq {0, 1}
    /\ MaxLate \in Nat

Procs   == {0, 1}
Peer(p) == 1 - p

(* The tasks that look up names, and the processor of each.                *)
Tasks == Tasks0 \cup Tasks1
Home  == [t \in Tasks |-> IF t \in Tasks0 THEN 0 ELSE 1]
Wanted(p) == IF p = 0 THEN Names0 ELSE Names1

(* The names looked up, each of which stands for its value too, and those  *)
(* looked up at processor p: no others matter in its tables.               *)
Names      == Names0 \cup Names1
AskedOf(p) == Wanted(Peer(p))
TasksOf(p) == {t \in Tasks : Home[t] = p}

NoName   == "no name"
NoEvent  == "none"
Payloads == {"Request", "Response"}
Messages == [name : Names \cup {NoName}, value : Names \cup {NoName},
             requestStatus : BOOLEAN]

VARIABLES
    entries,        \* entries[p]: the names in p's tables
    msg,            \* msg[p]: the slot of p's requests
    event,          \* event[p]: the payload on its way to p, or NoEvent
    ready,          \* ready[p]: the posted swis of p, in order
    swi,            \* swi[p]: where swiFxnRequest is, or "idle"
    semRemoteWait,  \* semRemoteWait[p]: the count of the semaphore
    semMultiBlock,  \* semMultiBlock[p]: its count, 0 or 1
    pc, name,       \* task t: where it is in get, and for which name
    searched        \* history: the last search for p, and what it found

server == <<ready, swi>>
sems   == <<semRemoteWait, semMultiBlock>>
client == <<pc, name>>
vars   == <<entries, msg, event, server, sems, client, searched>>

NoSearch == [name |-> NoName, found |-> FALSE]

Init ==
    /\ entries \in [Procs -> SUBSET Names]
    /\ \A p \in Procs : entries[p] \subseteq AskedOf(p)
    /\ msg = [p \in Procs |-> [name |-> NoName, value |-> NoName,
                               requestStatus |-> FALSE]]
    /\ event = [p \in Procs |-> NoEvent]
    /\ ready = [p \in Procs |-> <<>>]
    /\ swi = [p \in Procs |-> "idle"]
    /\ semRemoteWait = [p \in Procs |-> 0]
    /\ semMultiBlock = [p \in Procs |-> 1]
    /\ pc = [t \in Tasks |-> "idle"]
    /\ name = [t \in Tasks |-> NoName]
    /\ searched = [p \in Procs |-> NoSearch]

(* No swi of p is ready, so p's tasks run.                                 *)
TasksRun(p) == ready[p] = <<>> /\ swi[p] = "idle"

At(t, place) == pc[t] = place /\ TasksRun(Home[t])

(* NameServer_add and NameServer_remove on p, by some task.                *)
ChangeEntries(p, n) ==
    /\ TasksRun(p)
    /\ entries' = [entries EXCEPT
           ![p] = IF n \in @ THEN @ \ {n} ELSE @ \cup {n}]
    /\ UNCHANGED <<msg, event, server, sems, client, searched>>

-----------------------------------------------------------------------------
(* get, once semMultiBlock is free.                                        *)
GetEnter(t, n) ==
    /\ n \in Wanted(Home[t])
    /\ At(t, "idle")
    /\ semMultiBlock[Home[t]] > 0
    /\ semMultiBlock' = [semMultiBlock EXCEPT ![Home[t]] = @ - 1]
    /\ name' = [name EXCEPT ![t] = n]
    /\ pc' = [pc EXCEPT ![t] = "write"]
    /\ UNCHANGED <<entries, msg, event, server, semRemoteWait, searched>>

(* Mutant: the status of the last answer is not cleared.                   *)
GetWriteKeepsStatus(t) ==
    /\ At(t, "write")
    /\ msg' = [msg EXCEPT ![Home[t]].name = name[t]]
    /\ searched' = [searched EXCEPT ![Home[t]] = NoSearch]
    /\ pc' = [pc EXCEPT ![t] = "send"]
    /\ UNCHANGED <<entries, event, server, sems, name>>

(* The value of an earlier answer stays in the slot, its status does not.  *)
GetWrite(t) ==
    /\ At(t, "write")
    /\ msg' = [msg EXCEPT ![Home[t]].name = name[t],
                          ![Home[t]].requestStatus = FALSE]
    /\ searched' = [searched EXCEPT ![Home[t]] = NoSearch]
    /\ pc' = [pc EXCEPT ![t] = "send"]
    /\ UNCHANGED <<entries, event, server, sems, name>>

(* Notify_sendEvent spins while the peer has an event to take.             *)
GetSend(t) ==
    /\ At(t, "send")
    /\ event[Peer(Home[t])] = NoEvent
    /\ event' = [event EXCEPT ![Peer(Home[t])] = "Request"]
    /\ pc' = [pc EXCEPT ![t] = "pend"]
    /\ UNCHANGED <<entries, msg, server, sems, name, searched>>

Return(t) ==
    /\ semMultiBlock' = [semMultiBlock EXCEPT ![Home[t]] = @ + 1]
    /\ pc' = [pc EXCEPT ![t] = "idle"]
    /\ name' = [name EXCEPT ![t] = NoName]

(* The peer has no listener for the event.                                 *)
GetSendFails(t) ==
    /\ At(t, "send")
    /\ Return(t)
    /\ UNCHANGED <<entries, msg, event, server, semRemoteWait, searched>>

GetWake(t) ==
    /\ At(t, "pend")
    /\ semRemoteWait[Home[t]] > 0
    /\ semRemoteWait' = [semRemoteWait EXCEPT ![Home[t]] = @ - 1]
    /\ pc' = [pc EXCEPT ![t] = "read"]
    /\ UNCHANGED <<entries, msg, event, server, semMultiBlock, name, searched>>

(* The tokens that stand for requests of p: the event, the peer's swi, the *)
(* answer's event, p's swi, the semaphore.                                 *)
Count(b) == IF b THEN 1 ELSE 0

Tokens(p) ==
    Count(event[Peer(p)] = "Request") + Count(Contains(ready[Peer(p)], "Request"))
    + Count(swi[Peer(p)] # "idle") + Count(event[p] = "Response")
    + Count(Contains(ready[p], "Response")) + semRemoteWait[p]

GetTimeOut(t) ==
    /\ Home[t] \in MayTimeOut /\ Tokens(Home[t]) <= MaxLate
    /\ At(t, "pend")
    /\ semRemoteWait[Home[t]] = 0
    /\ Return(t)
    /\ UNCHANGED <<entries, msg, event, server, semRemoteWait, searched>>

(* It returns msg.value if msg.requestStatus, E_NOTFOUND otherwise.        *)
GetRead(t) ==
    /\ At(t, "read")
    /\ Return(t)
    /\ searched' = [searched EXCEPT ![Home[t]] = NoSearch]
    /\ UNCHANGED <<entries, msg, event, server, semRemoteWait>>

GetStep(t) ==
    \/ GetWrite(t) \/ GetSend(t) \/ GetSendFails(t)
    \/ GetWake(t) \/ GetTimeOut(t) \/ GetRead(t)

-----------------------------------------------------------------------------
(***************************************************************************)
(* cbFxn, called by the notify driver's isr, which has taken the event.    *)
(***************************************************************************)
(* Swi_post: a swi that is posted already is not posted twice.             *)
Post(p, f) ==
    ready' = [ready EXCEPT ![p] = IF Contains(@, f) THEN @ ELSE Append(@, f)]

CbFxn(p) ==
    /\ event[p] # NoEvent
    /\ event' = [event EXCEPT ![p] = NoEvent]
    /\ Post(p, event[p])
    /\ UNCHANGED <<entries, msg, swi, sems, client, searched>>

SwiStarts(p, f) ==
    /\ swi[p] = "idle"
    /\ ready[p] # <<>>
    /\ Head(ready[p]) = f
    /\ ready' = [ready EXCEPT ![p] = Tail(@)]

(* swiFxnRequest: search the tables of p for the name in the peer's slot,  *)
(* leaving the value there ...                                             *)
RequestSearch(p) ==
    LET n == msg[Peer(p)].name
        found == n \in entries[p]
    IN
    /\ SwiStarts(p, "Request")
    /\ searched' = [searched EXCEPT ![Peer(p)] = [name |-> n, found |-> found]]
    /\ msg' = IF found THEN [msg EXCEPT ![Peer(p)].value = n] ELSE msg
    /\ swi' = [swi EXCEPT ![p] = IF found THEN "found" ELSE "answer"]
    /\ UNCHANGED <<entries, event, sems, client>>

(* ... then the status ...                                                 *)
RequestFound(p) ==
    /\ swi[p] = "found"
    /\ msg' = [msg EXCEPT ![Peer(p)].requestStatus = TRUE]
    /\ swi' = [swi EXCEPT ![p] = "answer"]
    /\ UNCHANGED <<entries, event, ready, sems, client, searched>>

(* Mutant: an answer is sent only if the name was found.                   *)
RequestAnswerFound(p) ==
    /\ swi[p] = "answer"
    /\ event[Peer(p)] = NoEvent
    /\ event' = [event EXCEPT ![Peer(p)] =
                    IF msg[Peer(p)].requestStatus THEN "Response" ELSE @]
    /\ swi' = [swi EXCEPT ![p] = "idle"]
    /\ UNCHANGED <<entries, msg, ready, sems, client, searched>>

(* ... and send the answer, spinning in the swi.                           *)
RequestAnswer(p) ==
    /\ swi[p] = "answer"
    /\ event[Peer(p)] = NoEvent
    /\ event' = [event EXCEPT ![Peer(p)] = "Response"]
    /\ swi' = [swi EXCEPT ![p] = "idle"]
    /\ UNCHANGED <<entries, msg, ready, sems, client, searched>>

(* swiFxnResponse.                                                         *)
ResponsePost(p) ==
    /\ SwiStarts(p, "Response")
    /\ semRemoteWait' = [semRemoteWait EXCEPT ![p] = @ + 1]
    /\ UNCHANGED <<entries, msg, event, swi, semMultiBlock, client, searched>>

SwiStep(p) ==
    RequestSearch(p) \/ RequestFound(p) \/ RequestAnswer(p) \/ ResponsePost(p)

Next ==
    \/ \E p \in Procs : \E n \in AskedOf(p) : ChangeEntries(p, n)
    \/ \E t \in Tasks, n \in Names : GetEnter(t, n)
    \/ \E t \in Tasks : GetStep(t)
    \/ \E p \in Procs : CbFxn(p) \/ SwiStep(p)

(* A processor takes its interrupts and runs its swis, and, when it does   *)
(* not, one of its tasks inside get, if one can go on; nobody has to call  *)
(* get.                                                                    *)
Fairness ==
    \A p \in Procs :
        /\ WF_vars(CbFxn(p) \/ SwiStep(p))
        /\ SF_vars(\E t \in TasksOf(p) : GetStep(t))

Spec == Init /\ [][Next]_vars /\ Fairness

-----------------------------------------------------------------------------
(* Every variable keeps its type.                                          *)
TypeOK ==
    /\ entries \in [Procs -> SUBSET Names]
    /\ msg \in [Procs -> Messages]
    /\ event \in [Procs -> Payloads \cup {NoEvent}]
    /\ ready \in [Procs -> Seq(Payloads)]
    /\ swi \in [Procs -> {"idle", "found", "answer"}]
    /\ semRemoteWait \in [Procs -> Nat]
    /\ semMultiBlock \in [Procs -> {0, 1}]
    /\ pc \in [Tasks -> {"idle", "write", "send", "pend", "read"}]
    /\ name \in [Tasks -> Names \cup {NoName}]
    /\ searched \in [Procs -> [name : Names \cup {NoName}, found : BOOLEAN]]

(***************************************************************************)
(* INameServerRemote's get: what it returns is what the peer's tables held *)
(* for this name when this request was searched for, on a processor that   *)
(* waits for the answer however long it takes.                             *)
(***************************************************************************)
AnswerIsOwn ==
    \A t \in Tasks :
        pc[t] = "read" /\ Home[t] \notin MayTimeOut =>
            LET p == Home[t] IN
            /\ searched[p].name = name[t]
            /\ msg[p].requestStatus = searched[p].found
            /\ msg[p].requestStatus => msg[p].value = name[t]

(***************************************************************************)
(* Both processors may look names up at each other at the same time, and   *)
(* spin in a swi for an event the other must take: every get returns.  (A  *)
(* processor with a finite timeout must come to the end of its lookups:    *)
(* the answers it no longer waits for let it ask again before the other is *)
(* done, which could keep the swi of the other busy for ever.)             *)
(***************************************************************************)
ImpatientStop ==
    <>[][\A t \in Tasks, n \in Names :
            Home[t] \in MayTimeOut => ~GetEnter(t, n)]_vars

GetReturns ==
    ImpatientStop => \A t \in Tasks : pc[t] # "idle" ~> pc[t] = "idle"

(***************************************************************************)
(* NameServer.h, NameServer_get: "If the name is found, the value is       *)
(* copied into the value argument".  A get that returns a value returns    *)
(* that of its own name.  With a finite NameServerRemoteNotify timeout the *)
(* code does not ensure it: the answer that comes after the timeout posts  *)
(* semRemoteWait, and the next request takes it for its own.               *)
(***************************************************************************)
ValueIsOfName ==
    \A t \in Tasks :
        pc[t] = "read" /\ msg[Home[t]].requestStatus => msg[Home[t]].value = name[t]
=============================================================================
