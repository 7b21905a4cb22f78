------------------------- MODULE NameServerRemoteRpmsg -------------------------
(***************************************************************************)
(* Name lookup between a processor and its Linux host                      *)
(* (packages/ti/ipc/namesrv/NameServerRemoteRpmsg.c) over the endpoint     *)
(* that TransportRpmsg creates (packages/ti/ipc/transports/                *)
(* TransportRpmsg.c), whose callback, run in a swi, also takes the         *)
(* MessageQ messages of the host.  The host is external: it answers the    *)
(* requests in the order they came, as late as it likes.                   *)
(***************************************************************************)
EXTENDS Naturals, Sequences

CONSTANTS
    Tasks,
    Names,
    Queues,        \* queues of this processor that the host writes to
    Buffers,       \* messages of the heap
    MaxSeq,        \* bound: requests of this processor
    MaxFromHost,   \* bound: messages and requests of the host
    None

VARIABLES
    init,          \* how far TransportRpmsg_Instance_init is
    nsPort,        \* the host's name server has a port
    toHost,        \* requests: [seq, name]
    toBios,        \* what the host sent: [kind, ...]
    answered,      \* answers to the host's requests
    fromHost,      \* how much the host sent
    nsMsg,         \* the last reply, or None
    semRemoteWait, seqNum,
    gate,          \* the task in gateMutex
    pc, want, answer,
    free,          \* messages in the heap
    inQueue        \* inQueue[q]: the messages delivered to queue q

links == <<toHost, toBios, answered, fromHost>>
reply == <<nsMsg, semRemoteWait>>
calls == <<gate, pc, want, answer>>
msgs  == <<free, inQueue>>
vars  == <<init, nsPort, links, reply, seqNum, calls, msgs>>

Init ==
    /\ init = "start" /\ nsPort = FALSE
    /\ toHost = <<>> /\ toBios = <<>> /\ answered = 0 /\ fromHost = 0
    /\ nsMsg = None /\ semRemoteWait = 0 /\ seqNum = 0
    /\ gate = None
    /\ pc = [t \in Tasks |-> "idle"]
    /\ want = [t \in Tasks |-> None] /\ answer = [t \in Tasks |-> None]
    /\ free = Buffers /\ inQueue = [q \in Queues |-> <<>>]

-----------------------------------------------------------------------------
(***************************************************************************)
(* TransportRpmsg_Instance_init: the host hears of the service before its  *)
(* endpoint exists.                                                        *)
(***************************************************************************)
InitAnnounce ==
    /\ init = "start"
    /\ init' = "announced"
    /\ UNCHANGED <<nsPort, links, reply, seqNum, calls, msgs>>

InitEndpoint ==
    /\ init = "announced"
    /\ init' = "endpoint"
    /\ UNCHANGED <<nsPort, links, reply, seqNum, calls, msgs>>

InitPort ==
    /\ init = "endpoint"
    /\ nsPort' = TRUE
    /\ init' = "done"
    /\ UNCHANGED <<links, reply, seqNum, calls, msgs>>

-----------------------------------------------------------------------------
(* get *)

GetCall(t, n) ==
    /\ pc[t] = "idle" /\ gate = None
    /\ gate' = t
    /\ want' = [want EXCEPT ![t] = n]
    /\ answer' = [answer EXCEPT ![t] = None]
    /\ pc' = [pc EXCEPT ![t] = "send"]
    /\ UNCHANGED <<init, nsPort, links, reply, seqNum, msgs>>

Leave(t) ==
    /\ gate' = None
    /\ pc' = [pc EXCEPT ![t] = "idle"]

GetNoPort(t) ==
    /\ pc[t] = "send"
    /\ ~nsPort
    /\ Leave(t)
    /\ UNCHANGED <<init, nsPort, links, reply, seqNum, want, answer, msgs>>

GetSend(t) ==
    /\ pc[t] = "send"
    /\ nsPort /\ seqNum < MaxSeq
    /\ toHost' = Append(toHost, [seq |-> seqNum, name |-> want[t]])
    /\ seqNum' = seqNum + 1
    /\ pc' = [pc EXCEPT ![t] = "pend"]
    /\ UNCHANGED <<init, nsPort, toBios, answered, fromHost, reply, gate, want, answer, msgs>>

GetTimeout(t) ==
    /\ pc[t] = "pend"
    /\ semRemoteWait = 0
    /\ Leave(t)
    /\ UNCHANGED <<init, nsPort, links, reply, seqNum, want, answer, msgs>>

\* Mutant: any reply will do.
IsCurrentAny == TRUE

IsCurrent == nsMsg.seq = seqNum - 1

GetWake(t) ==
    /\ pc[t] = "pend"
    /\ semRemoteWait > 0
    /\ semRemoteWait' = semRemoteWait - 1
    /\ pc' = [pc EXCEPT ![t] = IF IsCurrent THEN "read" ELSE "pend"]
    /\ UNCHANGED <<init, nsPort, links, nsMsg, seqNum, gate, want, answer, msgs>>

(* The value is copied out of nsMsg, where the next reply goes.            *)
GetRead(t) ==
    /\ pc[t] = "read"
    /\ answer' = [answer EXCEPT ![t] = nsMsg.name]
    /\ Leave(t)
    /\ UNCHANGED <<init, nsPort, links, reply, seqNum, want, msgs>>

-----------------------------------------------------------------------------
(* The host. *)

HostAnswers ==
    /\ toHost # <<>>
    /\ toHost' = Tail(toHost)
    /\ toBios' = Append(toBios, [kind |-> "reply", seq |-> Head(toHost).seq,
                                 name |-> Head(toHost).name])
    /\ UNCHANGED <<init, nsPort, answered, fromHost, reply, seqNum, calls, msgs>>

HostSends ==
    /\ init # "start"
    /\ fromHost < MaxFromHost
    /\ fromHost' = fromHost + 1
    /\ \/ toBios' = Append(toBios, [kind |-> "request"])
       \/ \E q \in Queues : toBios' = Append(toBios, [kind |-> "message", queue |-> q,
                                                      number |-> fromHost'])
    /\ UNCHANGED <<init, nsPort, toHost, answered, reply, seqNum, calls, msgs>>

-----------------------------------------------------------------------------
(***************************************************************************)
(* transportCallbackFxn.  RPMessage drops what comes before the endpoint   *)
(* was created.                                                            *)
(***************************************************************************)
Take(kind) == toBios # <<>> /\ Head(toBios).kind = kind /\ toBios' = Tail(toBios)

HasEndpoint == init \in {"endpoint", "done"}

NoEndpoint ==
    /\ toBios # <<>> /\ ~HasEndpoint
    /\ toBios' = Tail(toBios)
    /\ UNCHANGED <<init, nsPort, toHost, answered, fromHost, reply, seqNum, calls, msgs>>

ProcessRequest ==
    /\ HasEndpoint /\ Take("request")
    /\ answered' = answered + 1
    /\ UNCHANGED <<init, nsPort, toHost, fromHost, reply, seqNum, calls, msgs>>

ProcessReply ==
    /\ HasEndpoint /\ Take("reply")
    /\ nsMsg' = [seq |-> Head(toBios).seq, name |-> Head(toBios).name]
    /\ semRemoteWait' = semRemoteWait + 1
    /\ UNCHANGED <<init, nsPort, toHost, answered, fromHost, seqNum, calls, msgs>>

(* The message is copied into one of the heap, or dropped.                 *)
Deliver ==
    /\ HasEndpoint /\ Take("message")
    /\ IF free = {} THEN UNCHANGED msgs
       ELSE \E b \in free :
              /\ free' = free \ {b}
              /\ inQueue' = [inQueue EXCEPT ![Head(toBios).queue] =
                                              Append(@, <<b, Head(toBios).number>>)]
    /\ UNCHANGED <<init, nsPort, toHost, answered, fromHost, reply, seqNum, calls>>

(* The reader of a queue takes and frees its first message.                *)
Reader(q) ==
    /\ inQueue[q] # <<>>
    /\ free' = free \cup {Head(inQueue[q])[1]}
    /\ inQueue' = [inQueue EXCEPT ![q] = Tail(@)]
    /\ UNCHANGED <<init, nsPort, links, reply, seqNum, calls>>

GetStep(t) == GetNoPort(t) \/ GetSend(t) \/ GetTimeout(t) \/ GetWake(t) \/ GetRead(t)
Callback   == NoEndpoint \/ ProcessRequest \/ ProcessReply \/ Deliver

Next ==
    \/ \E t \in Tasks : GetStep(t) \/ \E n \in Names : GetCall(t, n)
    \/ InitAnnounce \/ InitEndpoint \/ InitPort
    \/ HostAnswers \/ HostSends \/ Callback
    \/ \E q \in Queues : Reader(q)

Spec == Init /\ [][Next]_vars

-----------------------------------------------------------------------------
(***************************************************************************)
(* A call returns the answer to its own request or none, although the      *)
(* replies to calls that timed out go on arriving in the same place, at    *)
(* any time, and each of them wakes somebody.                              *)
(***************************************************************************)
AnswerIsOwn ==
    \A t \in Tasks : pc[t] = "idle" => answer[t] \in {None, want[t]}
=============================================================================
