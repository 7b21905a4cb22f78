------------------------------ MODULE MessageQ ------------------------------
(***************************************************************************)
(* One local message queue of the BIOS MessageQ module                     *)
(* (packages/ti/sdo/ipc/MessageQ.c): many writers, one reader.             *)
(*                                                                         *)
(* A queue instance is two lists and a binary synchronizer.  MessageQ_put  *)
(* links the message and THEN signals; MessageQ_get polls the high list,   *)
(* polls the normal list and THEN waits.  Each List_xxx call and each      *)
(* ISync_xxx call is atomic (interrupts are disabled inside it); between   *)
(* two of them any other thread may run, so each is a step of its own.     *)
(***************************************************************************)
EXTENDS Sequences, SequencesExt

CONSTANTS
    Writers,    \* threads that allocate, put and unblock
    Reader,     \* the one thread that gets
    Messages,   \* the message buffers of the heap
    NoMsg       \* the NULL message pointer

ASSUME MessageQAssumption ==
    /\ Reader \notin Writers
    /\ NoMsg \notin Messages

Threads    == Writers \cup {Reader}
Priorities == {"normal", "high", "urgent"}
Statuses   == {"none", "S_SUCCESS", "E_TIMEOUT", "E_UNBLOCKED", "E_FAIL"}
Timeouts   == {"forever", "finite"}

VARIABLES
    heap,        \* the messages no thread owns
    held,        \* held[t]: the messages thread t owns
    flags,       \* flags[m]: the priority in the message header
    highList,    \* obj->highList
    normalList,  \* obj->normalList
    sem,         \* the binary synchronizer: TRUE when signaled
    unblocked,   \* obj->unblocked
    pc,          \* pc[t]: where thread t stands in put, get or unblock
    cur,         \* cur[t]: the msg argument of put, *msg of get
    timeout,     \* the timeout argument of the reader's get
    status,      \* what the reader's last get returned, "none" during a get
    late,        \* history: linked high since get last found that list empty
    calledAfterUnblock
                 \* history: unblock had returned when this get was called

instance == <<highList, normalList, sem, unblocked>>
history  == <<late, calledAfterUnblock>>
vars     == <<heap, held, flags, instance, pc, cur, timeout, status, history>>

Queued == ToSet(highList) \cup ToSet(normalList)

Init ==
    /\ heap = Messages
    /\ held = [t \in Threads |-> {}]
    /\ flags = [m \in Messages |-> "normal"]
    /\ highList = <<>> /\ normalList = <<>>
    /\ sem = FALSE
    /\ unblocked = FALSE
    /\ pc = [t \in Threads |-> "idle"]
    /\ cur = [t \in Threads |-> NoMsg]
    /\ timeout = "forever"
    /\ status = "none"
    /\ late = {}
    /\ calledAfterUnblock = FALSE

-----------------------------------------------------------------------------
(***************************************************************************)
(* Allocation.  msgInit gives a fresh message the normal priority; its     *)
(* owner may change it (MessageQ_setMsgPri) before the put.  The reader    *)
(* consumes: what it does with a message of its own is free it.            *)
(***************************************************************************)
Alloc(w, m) ==
    /\ pc[w] = "idle"
    /\ m \in heap
    /\ heap' = heap \ {m}
    /\ held' = [held EXCEPT ![w] = @ \cup {m}]
    /\ flags' = [flags EXCEPT ![m] = "normal"]
    /\ UNCHANGED <<instance, pc, cur, timeout, status, history>>

Free(t, m) ==
    /\ pc[t] = "idle"
    /\ m \in held[t]
    /\ held' = [held EXCEPT ![t] = @ \ {m}]
    /\ heap' = heap \cup {m}
    /\ UNCHANGED <<flags, instance, pc, cur, timeout, status, history>>

-----------------------------------------------------------------------------
(***************************************************************************)
(* MessageQ_put to a local queue.  After the signal the function still     *)
(* reads msg->flags for its trace test ("trace").                          *)
(***************************************************************************)
PutCall(w, m, p) ==
    /\ pc[w] = "idle"
    /\ m \in held[w]
    /\ held' = [held EXCEPT ![w] = @ \ {m}]
    /\ flags' = [flags EXCEPT ![m] = p]
    /\ cur' = [cur EXCEPT ![w] = m]
    /\ pc' = [pc EXCEPT ![w] = "link"]
    /\ UNCHANGED <<heap, instance, timeout, status, history>>

(* Only a get that has polled the high list remembers what comes after.    *)
LinkedHigh(m) ==
    late' = IF pc[Reader] \in {"normal", "wait"} THEN late \cup {m} ELSE late

PutLink(w) ==
    /\ pc[w] = "link"
    /\ \/ /\ flags[cur[w]] = "urgent"
          /\ highList' = <<cur[w]>> \o highList
          /\ LinkedHigh(cur[w])
          /\ UNCHANGED normalList
       \/ /\ flags[cur[w]] = "high"
          /\ highList' = Append(highList, cur[w])
          /\ LinkedHigh(cur[w])
          /\ UNCHANGED normalList
       \/ /\ flags[cur[w]] = "normal"
          /\ normalList' = Append(normalList, cur[w])
          /\ UNCHANGED <<highList, late>>
    /\ pc' = [pc EXCEPT ![w] = "signal"]
    /\ UNCHANGED <<heap, held, flags, sem, unblocked, cur, timeout, status,
                   calledAfterUnblock>>

(* Mutant: signal only when the queue was empty before this message.       *)
PutSignalIfFirst(w) ==
    /\ pc[w] = "signal"
    /\ sem' = (sem \/ Len(highList) + Len(normalList) = 1)
    /\ pc' = [pc EXCEPT ![w] = "trace"]
    /\ UNCHANGED <<heap, held, flags, highList, normalList, unblocked, cur,
                   timeout, status, history>>

PutSignal(w) ==
    /\ pc[w] = "signal"
    /\ sem' = TRUE
    /\ pc' = [pc EXCEPT ![w] = "trace"]
    /\ UNCHANGED <<heap, held, flags, highList, normalList, unblocked, cur,
                   timeout, status, history>>

PutReturn(w) ==
    /\ pc[w] = "trace"
    /\ pc' = [pc EXCEPT ![w] = "idle"]
    /\ cur' = [cur EXCEPT ![w] = NoMsg]
    /\ UNCHANGED <<heap, held, flags, instance, timeout, status, history>>

(***************************************************************************)
(* MessageQ_unblock: raise the flag, then signal.                          *)
(***************************************************************************)
UnblockRaise(w) ==
    /\ pc[w] = "idle"
    /\ unblocked' = TRUE
    /\ pc' = [pc EXCEPT ![w] = "unblock"]
    /\ UNCHANGED <<heap, held, flags, highList, normalList, sem, cur, timeout,
                   status, history>>

UnblockSignal(w) ==
    /\ pc[w] = "unblock"
    /\ sem' = TRUE
    /\ pc' = [pc EXCEPT ![w] = "idle"]
    /\ UNCHANGED <<heap, held, flags, highList, normalList, unblocked, cur,
                   timeout, status, history>>

Unblocking == \E w \in Writers : pc[w] = "unblock"

-----------------------------------------------------------------------------
(***************************************************************************)
(* MessageQ_get.  The loop polls high, polls normal, waits, tests the      *)
(* unblocked flag, and starts over.  A finite timeout may expire only      *)
(* while the synchronizer is not signaled; it is restarted by each turn    *)
(* of the loop, because every wait is passed the caller's timeout.         *)
(***************************************************************************)
GetCall(to) ==
    /\ pc[Reader] = "idle"
    /\ timeout' = to
    /\ cur' = [cur EXCEPT ![Reader] = NoMsg]
    /\ status' = "none"
    /\ calledAfterUnblock' = (unblocked /\ ~Unblocking)
    /\ pc' = [pc EXCEPT ![Reader] = "high"]
    /\ UNCHANGED <<heap, held, flags, instance, late>>

(* The return of get: its argument and its history are forgotten.          *)
GetReturn(s) ==
    /\ status' = s
    /\ timeout' = "forever"
    /\ calledAfterUnblock' = FALSE
    /\ late' = {}
    /\ pc' = [pc EXCEPT ![Reader] = "idle"]

(* List_get returned a message: get hands it to the reader.                *)
GetReturnMsg(m) ==
    /\ cur' = [cur EXCEPT ![Reader] = m]
    /\ held' = [held EXCEPT ![Reader] = @ \cup {m}]
    /\ GetReturn("S_SUCCESS")

GetPollHigh ==
    /\ pc[Reader] = "high"
    /\ \/ /\ highList # <<>>
          /\ GetReturnMsg(Head(highList))
          /\ highList' = Tail(highList)
       \/ /\ highList = <<>>
          /\ pc' = [pc EXCEPT ![Reader] = "normal"]
          /\ late' = {}
          /\ UNCHANGED <<highList, held, cur, timeout, status,
                         calledAfterUnblock>>
    /\ UNCHANGED <<heap, flags, normalList, sem, unblocked>>

GetPollNormal ==
    /\ pc[Reader] = "normal"
    /\ \/ /\ normalList # <<>>
          /\ GetReturnMsg(Head(normalList))
          /\ normalList' = Tail(normalList)
       \/ /\ normalList = <<>>
          /\ pc' = [pc EXCEPT ![Reader] = "wait"]
          /\ UNCHANGED <<normalList, held, cur, timeout, status, history>>
    /\ UNCHANGED <<heap, flags, highList, sem, unblocked>>

GetWake ==
    /\ pc[Reader] = "wait"
    /\ sem
    /\ sem' = FALSE
    /\ late' = {}
    /\ pc' = [pc EXCEPT ![Reader] = "woken"]
    /\ UNCHANGED <<heap, held, flags, highList, normalList, unblocked, cur,
                   timeout, status, calledAfterUnblock>>

GetTimeout ==
    /\ pc[Reader] = "wait"
    /\ timeout # "forever"
    /\ ~sem
    /\ GetReturn("E_TIMEOUT")
    /\ UNCHANGED <<heap, held, flags, instance, cur>>

(* ISync_wait may return a negative status: the synchronizer is supplied   *)
(* by the application.                                                     *)
GetWaitFails ==
    /\ pc[Reader] = "wait"
    /\ GetReturn("E_FAIL")
    /\ UNCHANGED <<heap, held, flags, instance, cur>>

(* Mutant: the woken reader does not look at the unblocked flag.           *)
GetIgnoreUnblocked ==
    /\ pc[Reader] = "woken"
    /\ pc' = [pc EXCEPT ![Reader] = "high"]
    /\ UNCHANGED <<timeout, status, history, heap, held, flags, instance, cur>>

GetTestUnblocked ==
    /\ pc[Reader] = "woken"
    /\ \/ /\ unblocked
          /\ GetReturn("E_UNBLOCKED")
       \/ /\ ~unblocked
          /\ pc' = [pc EXCEPT ![Reader] = "high"]
          /\ UNCHANGED <<timeout, status, history>>
    /\ UNCHANGED <<heap, held, flags, instance, cur>>

-----------------------------------------------------------------------------
PutStep(w) == PutLink(w) \/ PutSignal(w) \/ PutReturn(w) \/ UnblockSignal(w)

GetStep == GetPollHigh \/ GetPollNormal \/ GetWake \/ GetTestUnblocked

Next ==
    \/ \E w \in Writers, m \in Messages : Alloc(w, m)
    \/ \E t \in Threads, m \in Messages : Free(t, m)
    \/ \E w \in Writers, m \in Messages, p \in Priorities : PutCall(w, m, p)
    \/ \E w \in Writers : PutStep(w) \/ UnblockRaise(w)
    \/ \E to \in Timeouts : GetCall(to)
    \/ GetStep
    \/ GetTimeout
    \/ GetWaitFails

Spec == Init /\ [][Next]_vars

(***************************************************************************)
(* A thread inside put or unblock is scheduled until it returns, and so is *)
(* the reader inside get; the reader serves its queue in a loop, so it     *)
(* calls get again after every return.  Nobody has to put.                 *)
(***************************************************************************)
ReaderLoop == GetStep \/ \E to \in Timeouts : GetCall(to)

Fairness ==
    /\ \A w \in Writers : WF_vars(PutStep(w))
    /\ WF_vars(ReaderLoop)

FairSpec == Spec /\ Fairness

-----------------------------------------------------------------------------
(* Every variable has its type.                                            *)
TypeOK ==
    /\ heap \in SUBSET Messages
    /\ held \in [Threads -> SUBSET Messages]
    /\ flags \in [Messages -> Priorities]
    /\ highList \in Seq(Messages)
    /\ normalList \in Seq(Messages)
    /\ sem \in BOOLEAN
    /\ unblocked \in BOOLEAN
    /\ pc \in [Threads -> {"idle", "link", "signal", "trace", "unblock",
                           "high", "normal", "wait", "woken"}]
    /\ pc[Reader] \in {"idle", "high", "normal", "wait", "woken"}
    /\ \A w \in Writers : pc[w] \in {"idle", "link", "signal", "trace", "unblock"}
    /\ cur \in [Threads -> Messages \cup {NoMsg}]
    /\ \A w \in Writers : pc[w] \in {"link", "signal", "trace"} => cur[w] # NoMsg
    /\ timeout \in Timeouts
    /\ status \in Statuses
    /\ late \in SUBSET Messages
    /\ calledAfterUnblock \in BOOLEAN

(* The threads between the link and the signal of a put of message m.      *)
SignalPending(m) == \E w \in Writers : pc[w] = "signal" /\ cur[w] = m

(***************************************************************************)
(* No lost wakeup (the hazard of MessageQ_get at its ISync_wait): when the *)
(* reader is about to wait, or waits, on a synchronizer that is not        *)
(* signaled, every message on either list belongs to a put that has linked *)
(* it and has still to signal.  A message whose put has returned is never  *)
(* slept on, although one signal may stand for several puts and a signal   *)
(* may be left over from messages already taken.                           *)
(***************************************************************************)
NoLostWakeup ==
    pc[Reader] = "wait" /\ ~sem => \A m \in Queued : SignalPending(m)

(***************************************************************************)
(* No lost unblock: a get that was called before MessageQ_unblock returned *)
(* never sleeps through it, even when the signal of a put wakes the reader *)
(* between the raising of the flag and its signal.                         *)
(***************************************************************************)
NoLostUnblock ==
    pc[Reader] = "wait" /\ unblocked /\ ~calledAfterUnblock
        => sem \/ Unblocking

(***************************************************************************)
(* Priority: once get goes for a normal message (or sleeps), the only      *)
(* messages on the high list are those linked since it last found that     *)
(* list empty.  Nothing urgent or high that was queued is passed over.     *)
(***************************************************************************)
HighFirst ==
    pc[Reader] \in {"normal", "wait"} => ToSet(highList) \subseteq late

(***************************************************************************)
(* Delivery.  A high message is taken once no urgent one keeps jumping the *)
(* queue; a normal one once the high list stays empty.  Timeouts, failed   *)
(* waits and unblocks in between only make the reader call get again.      *)
(***************************************************************************)
HighTaken ==
    <>[](\A m \in ToSet(highList) : flags[m] # "urgent") =>
        \A m \in Messages : m \in ToSet(highList) ~> m \notin ToSet(highList)

NormalTaken ==
    <>[](highList = <<>>) =>
        \A m \in Messages : m \in ToSet(normalList) ~> m \notin ToSet(normalList)

QueuedTaken == HighTaken /\ NormalTaken
=============================================================================
