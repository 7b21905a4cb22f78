-------------------------- MODULE NameServerMessageQ --------------------------
(***************************************************************************)
(* Remote name lookup over message queues                                  *)
(* (packages/ti/sdo/ipc/nsremote/NameServerMessageQ.c).  Every processor   *)
(* has the reserved queue 0 and a swi that drains it: requests are         *)
(* answered in the message they came in, a response goes to the one task   *)
(* that waits.  Here tasks of one processor ask and another one answers;   *)
(* the transport keeps the order of messages and may take them late.       *)
(***************************************************************************)
EXTENDS Naturals, Sequences

CONSTANTS
    Tasks,
    Names,        \* names looked up
    Messages,     \* messages of the heap
    None

VARIABLES
    heap,         \* messages free in the heap
    toRemote,     \* requests on their way to the answering processor's queue 0
    toLocal,      \* responses on their way to the asking processor's queue 0
    nameIn,       \* nameIn[m]: the name message m asks for and answers
    response,     \* the module's msg
    semRemoteWait,
    gate,         \* the task in gateMutex, which it may enter again, or None
    pc, want, answer,
    late          \* tasks whose call failed inside the gate

channel == <<heap, toRemote, toLocal, nameIn, response, semRemoteWait>>
calls   == <<gate, pc, want, answer, late>>
vars    == <<channel, calls>>

Init ==
    /\ heap = Messages
    /\ toRemote = <<>> /\ toLocal = <<>>
    /\ nameIn = [m \in Messages |-> None]
    /\ response = None /\ semRemoteWait = 0
    /\ gate = None
    /\ pc = [t \in Tasks |-> "idle"]
    /\ want = [t \in Tasks |-> None]
    /\ answer = [t \in Tasks |-> None]
    /\ late = {}

-----------------------------------------------------------------------------
(***************************************************************************)
(* get.  The three returns on errors do not leave the gate: the task that  *)
(* fails owns it for ever, and only it may call again.                     *)
(***************************************************************************)
GetCall(t, n) ==
    /\ pc[t] = "idle"
    /\ gate \in {None, t}
    /\ gate' = t
    /\ want' = [want EXCEPT ![t] = n]
    /\ answer' = [answer EXCEPT ![t] = None]
    /\ pc' = [pc EXCEPT ![t] = "alloc"]
    /\ UNCHANGED <<channel, late>>

Fail(t) ==
    /\ late' = late \cup {t}
    /\ pc' = [pc EXCEPT ![t] = "idle"]
    /\ UNCHANGED <<gate, want, answer>>

GetNoMessage(t) ==
    /\ pc[t] = "alloc"
    /\ heap = {}
    /\ Fail(t)
    /\ UNCHANGED channel

(* MessageQ_alloc, the two names, MessageQ_put.                            *)
GetSend(t) ==
    /\ pc[t] = "alloc"
    /\ \E m \in heap :
          /\ heap' = heap \ {m}
          /\ nameIn' = [nameIn EXCEPT ![m] = want[t]]
          /\ toRemote' = Append(toRemote, m)
    /\ pc' = [pc EXCEPT ![t] = "pend"]
    /\ UNCHANGED <<toLocal, response, semRemoteWait, gate, want, answer, late>>

(* MessageQ_put fails: the message is freed.                               *)
GetSendFails(t) ==
    /\ pc[t] = "alloc"
    /\ heap # {}
    /\ Fail(t)
    /\ UNCHANGED channel

GetTimeout(t) ==
    /\ pc[t] = "pend"
    /\ semRemoteWait = 0
    /\ Fail(t)
    /\ UNCHANGED channel

GetWake(t) ==
    /\ pc[t] = "pend"
    /\ semRemoteWait > 0
    /\ semRemoteWait' = semRemoteWait - 1
    /\ pc' = [pc EXCEPT ![t] = "read"]
    /\ UNCHANGED <<heap, toRemote, toLocal, nameIn, response, gate, want, answer, late>>

(* The response is read and freed, the gate is left: GateMutex counts, and *)
(* the task that never left it after a failure only undoes its last enter. *)
GetRead(t) ==
    /\ pc[t] = "read"
    /\ answer' = [answer EXCEPT ![t] = nameIn[response]]
    /\ heap' = heap \cup {response}
    /\ gate' = IF t \in late THEN t ELSE None
    /\ pc' = [pc EXCEPT ![t] = "idle"]
    /\ UNCHANGED <<toRemote, toLocal, nameIn, response, semRemoteWait, want, late>>

-----------------------------------------------------------------------------
(* swiFxn, on a request and on a response. *)

SwiRequest ==
    /\ toRemote # <<>>
    /\ toRemote' = Tail(toRemote)
    /\ toLocal' = Append(toLocal, Head(toRemote))
    /\ UNCHANGED <<heap, nameIn, response, semRemoteWait, calls>>

SwiResponse ==
    /\ toLocal # <<>>
    /\ toLocal' = Tail(toLocal)
    /\ response' = Head(toLocal)
    /\ semRemoteWait' = semRemoteWait + 1
    /\ UNCHANGED <<heap, toRemote, nameIn, calls>>

GetStep(t) == \/ GetNoMessage(t) \/ GetSend(t) \/ GetSendFails(t) \/ GetTimeout(t)
              \/ GetWake(t) \/ GetRead(t)

Next ==
    \/ \E t \in Tasks : GetStep(t) \/ \E n \in Names : GetCall(t, n)
    \/ SwiRequest \/ SwiResponse

Spec == Init /\ [][Next]_vars

-----------------------------------------------------------------------------
(***************************************************************************)
(* A task none of whose calls failed is answered about the name it asked   *)
(* for.  Responses carry no number: a late one is taken for the next, and  *)
(* only because a failed call keeps the gate does it meet the task that    *)
(* failed and no other.                                                    *)
(***************************************************************************)
AnswerIsOwn ==
    \A t \in Tasks \ late : pc[t] = "idle" => answer[t] \in {None, want[t]}
=============================================================================
