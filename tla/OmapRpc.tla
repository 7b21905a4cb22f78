------------------------------- MODULE OmapRpc -------------------------------
(***************************************************************************)
(* Service channels and the services made through them: packages/ti/       *)
(* srvmgr/omaprpc/OmapRpc.c, srvmgr/omx/OmxSrvMgr.c, srvmgr/ServiceMgr.c,  *)
(* reached from ipc/mm/MmServiceMgr.c.  Every channel has an endpoint and  *)
(* a task that answers the host's requests on it; the task of OmxSrvMgr is *)
(* one more, which nobody deletes.  All tasks have one priority: they give *)
(* way to each other where they wait, and to RcmServer in create, start    *)
(* and delete.                                                             *)
(* Left out: the function table that ServiceMgr copies, which is freed     *)
(* with the channel although the service's name is kept, and the endpoint  *)
(* that stays when there is no semaphore to wait for its task.             *)
(***************************************************************************)
EXTENDS Naturals, Sequences, FiniteSets

CONSTANTS
    Channels, Omx,      \* the channels, and which of them is OmxSrvMgr's
    Endpoints,          \* addresses that RcmServer instances may get
    MaxTuples, NumDefs, \* MAX_TUPLES, ServiceMgr_NUMSERVICETYPES
    MayFail,            \* what runs out: of {"lists", "endpoint", "sem", "task", "msg",
                        \* "server"}
    MaxRequests,        \* bound: requests on a channel
    Free                \* FREE_TUPLE_KEY, and no address

VARIABLES
    numDefs,            \* services registered
    app,                \* app[c]: where createChannel or deleteChannel of c stands
    obj,                \* obj[c]: the channel's object
    task, cur,          \* where its task stands, and the address it works on
    inbox,              \* requests at its endpoint: [kind, addr]
    received, answered, \* requests taken from it, and answers sent
    tuples,             \* tuples[i]: the key of a tuple; its value is that instance
    servers             \* instances of RcmServer

channel == <<app, obj>>
tasks   == <<task, cur, inbox, received, answered>>
manager == <<numDefs, tuples, servers>>
vars    == <<channel, tasks, manager>>

NoObject == [shutdown |-> FALSE, msgq |-> FALSE, unblocked |-> FALSE,
             exitSem |-> FALSE, exits |-> 0, taskHandle |-> FALSE]

Init ==
    /\ numDefs = 0
    /\ app = [c \in Channels |-> IF c = Omx THEN "open" ELSE "none"]
    /\ obj = [c \in Channels |-> IF c = Omx THEN [NoObject EXCEPT !.msgq = TRUE] ELSE NoObject]
    /\ task = [c \in Channels |-> IF c = Omx THEN "test" ELSE "none"]
    /\ cur = [c \in Channels |-> Free]
    /\ inbox = [c \in Channels |-> <<>>]
    /\ received = [c \in Channels |-> 0] /\ answered = [c \in Channels |-> 0]
    /\ tuples = [i \in 1 .. MaxTuples |-> Free]
    /\ servers = {}

-----------------------------------------------------------------------------
(***************************************************************************)
(* createChannel.  When the service cannot be registered the object is     *)
(* returned all the same, without an endpoint; when something else cannot  *)
(* be made (its lists of functions, the endpoint, the semaphore, the task) *)
(* it is deleted.  Without memory for the object nothing is done.          *)
(***************************************************************************)
App(c, from, to) == app[c] = from /\ app' = [app EXCEPT ![c] = to]

Register(c) ==
    /\ App(c, "none", IF numDefs < NumDefs THEN "endpoint" ELSE "open")
    /\ obj' = [obj EXCEPT ![c] = NoObject]
    /\ numDefs' = IF numDefs < NumDefs THEN numDefs + 1 ELSE numDefs
    /\ UNCHANGED <<tasks, tuples, servers>>

CreateEndpoint(c) ==
    /\ App(c, "endpoint", "task")
    /\ obj' = [obj EXCEPT ![c].msgq = TRUE]
    /\ UNCHANGED <<tasks, manager>>

(* The exit semaphore and the task.                                        *)
CreateTask(c) ==
    /\ App(c, "task", "open")
    /\ obj' = [obj EXCEPT ![c].exitSem = TRUE, ![c].taskHandle = TRUE]
    /\ task' = [task EXCEPT ![c] = "start"]
    /\ UNCHANGED <<cur, inbox, received, answered, manager>>

CreateFails(c, what) ==
    /\ what \in MayFail
    /\ App(c, CASE what = "lists" -> "none" [] what = "endpoint" -> "endpoint"
                [] OTHER -> "task", "delete")
    /\ obj' = [obj EXCEPT ![c].exitSem = what = "task"]
    /\ UNCHANGED <<tasks, manager>>

(* deleteChannel: the task is told and waited for.                         *)
DeleteCall(c) ==
    /\ c # Omx
    /\ App(c, "open", "delete")
    /\ UNCHANGED <<obj, tasks, manager>>

DeleteUnblock(c) ==
    /\ App(c, "delete", IF obj[c].msgq /\ obj[c].exitSem THEN "pend" ELSE "free")
    /\ obj' = [obj EXCEPT ![c].shutdown = TRUE, ![c].unblocked = obj[c].msgq]
    /\ UNCHANGED <<tasks, manager>>

(* The endpoint, the semaphore, the task and the object go.  Instances of  *)
(* its services stay until the host destroys them on another channel.      *)
DeleteFree(c) ==
    /\ \/ App(c, "pend", "none") /\ obj[c].exits > 0
       \/ App(c, "free", "none")
    /\ obj' = [obj EXCEPT ![c] = NoObject]
    /\ task' = [task EXCEPT ![c] = "none"]
    /\ inbox' = [inbox EXCEPT ![c] = <<>>]
    /\ received' = [received EXCEPT ![c] = 0] /\ answered' = [answered EXCEPT ![c] = 0]
    /\ UNCHANGED <<cur, manager>>

-----------------------------------------------------------------------------
(* The host. *)

Request(c, r) ==
    /\ obj[c].msgq
    /\ received[c] + Len(inbox[c]) < MaxRequests
    /\ inbox' = [inbox EXCEPT ![c] = Append(@, r)]
    /\ UNCHANGED <<channel, task, cur, received, answered, manager>>

-----------------------------------------------------------------------------
(* omapRpcTask and OmxSrvMgr_taskFxn *)

Goto(c, from, to) == task[c] = from /\ task' = [task EXCEPT ![c] = to]

TaskStart(c) ==
    /\ Goto(c, "start", "test")
    /\ UNCHANGED <<channel, cur, inbox, received, answered, manager>>

\* No memory for its messages: the task returns and posts nothing.
TaskDies(c) ==
    /\ "msg" \in MayFail
    /\ Goto(c, "start", "dead")
    /\ UNCHANGED <<channel, cur, inbox, received, answered, manager>>

TaskTest(c) ==
    /\ Goto(c, "test", IF obj[c].shutdown THEN "end" ELSE "recv")
    /\ UNCHANGED <<channel, cur, inbox, received, answered, manager>>

TaskUnblocked(c) ==
    /\ Goto(c, "recv", "test")
    /\ obj[c].unblocked
    /\ UNCHANGED <<channel, cur, inbox, received, answered, manager>>

(* RPMessage_recv; a request that is neither a create nor a destroy is     *)
(* answered from the object.                                               *)
TaskRecv(c) ==
    /\ inbox[c] # <<>> /\ ~obj[c].unblocked
    /\ LET r == Head(inbox[c])
       IN  /\ Goto(c, "recv", IF r.kind = "query" THEN "reply" ELSE r.kind)
           /\ cur' = [cur EXCEPT ![c] = r.addr]
    /\ inbox' = [inbox EXCEPT ![c] = Tail(@)]
    /\ received' = [received EXCEPT ![c] = @ + 1]
    /\ UNCHANGED <<channel, answered, manager>>

(* ServiceMgr_createService: an instance, its tuple, its start.            *)
CreateService(c) ==
    /\ Goto(c, "create", "store")
    /\ \E e \in Endpoints \ servers :
          /\ servers' = servers \cup {e}
          /\ cur' = [cur EXCEPT ![c] = e]
    /\ UNCHANGED <<channel, inbox, received, answered, numDefs, tuples>>

CreateServiceFails(c) ==
    /\ "server" \in MayFail \/ servers = Endpoints
    /\ Goto(c, "create", "reply")
    /\ UNCHANGED <<channel, cur, inbox, received, answered, manager>>

FreeSlots == {i \in 1 .. MaxTuples : tuples[i] = Free}
Least(S)  == CHOOSE i \in S : \A j \in S : i <= j

StoreTuple(c) ==
    /\ Goto(c, "store", "reply")
    /\ FreeSlots # {}
    /\ tuples' = [tuples EXCEPT ![Least(FreeSlots)] = cur[c]]
    /\ UNCHANGED <<channel, cur, inbox, received, answered, numDefs, servers>>

\* Mutant: the instance stays when the table is full.
StoreFailsKeeps(c) ==
    /\ Goto(c, "store", "reply")
    /\ FreeSlots = {}
    /\ UNCHANGED <<channel, cur, inbox, received, answered, manager>>

StoreFails(c) ==
    /\ Goto(c, "store", "reply")
    /\ FreeSlots = {}
    /\ servers' = servers \ {cur[c]}
    /\ UNCHANGED <<channel, cur, inbox, received, answered, numDefs, tuples>>

(* ServiceMgr_deleteService: the tuple first, then the instance.           *)
Found(c) == {i \in 1 .. MaxTuples : tuples[i] = cur[c]}

RemoveTuple(c) ==
    /\ Found(c) # {}
    /\ Goto(c, "destroy", "deleteServer")
    /\ tuples' = [tuples EXCEPT ![Least(Found(c))] = Free]
    /\ UNCHANGED <<channel, cur, inbox, received, answered, numDefs, servers>>

RemoveFails(c) ==
    /\ Found(c) = {}
    /\ Goto(c, "destroy", "reply")
    /\ UNCHANGED <<channel, cur, inbox, received, answered, manager>>

DeleteServer(c) ==
    /\ Goto(c, "deleteServer", "reply")
    /\ servers' = servers \ {cur[c]}
    /\ UNCHANGED <<channel, cur, inbox, received, answered, numDefs, tuples>>

(* RPMessage_send; OmxSrvMgr does not answer a disconnect, which counts as *)
(* an answer here.                                                         *)
TaskReply(c) ==
    /\ Goto(c, "reply", "test")
    /\ answered' = [answered EXCEPT ![c] = @ + 1]
    /\ cur' = [cur EXCEPT ![c] = Free]
    /\ UNCHANGED <<channel, inbox, received, manager>>

TaskEnd(c) ==
    /\ Goto(c, "end", "ended")
    /\ obj' = [obj EXCEPT ![c].exits = @ + 1]
    /\ UNCHANGED <<app, cur, inbox, received, answered, manager>>

-----------------------------------------------------------------------------
AppStep(c) ==
    \/ Register(c) \/ CreateEndpoint(c) \/ CreateTask(c)
    \/ \E what \in {"lists", "endpoint", "sem", "task"} : CreateFails(c, what)
    \/ DeleteCall(c) \/ DeleteUnblock(c) \/ DeleteFree(c)
TaskStep(c) ==
    \/ TaskStart(c) \/ TaskDies(c) \/ TaskTest(c) \/ TaskUnblocked(c) \/ TaskRecv(c)
    \/ CreateService(c) \/ CreateServiceFails(c) \/ StoreTuple(c) \/ StoreFails(c)
    \/ RemoveTuple(c) \/ RemoveFails(c) \/ DeleteServer(c)
    \/ TaskReply(c) \/ TaskEnd(c)

Requests == [kind : {"query", "create"}, addr : {Free}] \cup [kind : {"destroy"}, addr : Endpoints]

Next ==
    \E c \in Channels : AppStep(c) \/ TaskStep(c) \/ \E r \in Requests : Request(c, r)

Spec == Init /\ [][Next]_vars

-----------------------------------------------------------------------------
(***************************************************************************)
(* Every instance can be destroyed, once: it has a tuple, or one task is   *)
(* making or deleting it; and a tuple names an instance that is there.     *)
(***************************************************************************)
InHand(e) == {c \in Channels : task[c] \in {"store", "deleteServer"} /\ cur[c] = e}

ServicesAreOwned ==
    /\ \A e \in servers :
          Cardinality({i \in 1 .. MaxTuples : tuples[i] = e}) + Cardinality(InHand(e)) = 1
    /\ \A i \in 1 .. MaxTuples : tuples[i] \in servers \cup {Free}
    /\ \A c \in Channels : task[c] \in {"store", "deleteServer"} => cur[c] \in servers

(***************************************************************************)
(* deleteChannel waits for a task that will post, or for ever for one that *)
(* could not be created, or had no memory for its messages; it frees       *)
(* nothing that the task still uses.  "All messages get responses" that    *)
(* the task takes, whatever comes of the request.                          *)
(***************************************************************************)
Abandoned(c) == ~obj[c].taskHandle \/ task[c] = "dead"
WillPost(c)  ==
    /\ task[c] # "none"
    /\ task[c] = "ended" => obj[c].exits = 1
    /\ task[c] = "recv" => obj[c].unblocked
    /\ task[c] = "test" => obj[c].shutdown

ChannelsEnd ==
    \A c \in Channels :
       /\ app[c] = "pend" => Abandoned(c) \/ WillPost(c)
       /\ app[c] = "free" => task[c] = "none"
       /\ task[c] \notin {"none", "ended", "dead"} => obj[c].msgq
       /\ task[c] \in {"test", "recv", "ended"} => answered[c] = received[c]
=============================================================================
