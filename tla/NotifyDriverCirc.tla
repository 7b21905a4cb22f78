-------------------------- MODULE NotifyDriverCirc --------------------------
(***************************************************************************)
(* One direction of the circular-buffer notify driver                      *)
(* (packages/ti/sdo/ipc/notifyDrivers/NotifyDriverCirc.c): threads of the  *)
(* sending processor call sendEvent, the receiving processor runs isr.     *)
(*                                                                         *)
(* Shared memory is seen through caches.  The sender keeps putReadIndex in *)
(* its cache and refreshes it only when the buffer looks full; the         *)
(* receiver writes its getReadIndex back only every modIndex events.       *)
(* Whatever runs with interrupts disabled on one processor is one step.    *)
(***************************************************************************)
EXTENDS Integers, Sequences

CONSTANTS
    Senders,        \* threads of the sending processor
    Events, Payloads,
    NumMsgs,        \* slots of the buffer, a power of two
    ModIndex,       \* the read index is written back every ModIndex events
    CacheEnabled

ASSUME CircAssumption ==
    /\ NumMsgs \in Nat /\ NumMsgs >= 4
    /\ ModIndex \in Nat \ {0}
    /\ CacheEnabled \in BOOLEAN

MaxIndex == NumMsgs - 1
Slots    == 0 .. MaxIndex
Entries  == [event : Events, payload : Payloads]
NoEntry  == <<>>

(* (i + 1) & maxIndex                                                      *)
Succ(i) == IF i = MaxIndex THEN 0 ELSE i + 1

(* How far index j is ahead of index i on the ring.                        *)
Ahead(i, j) == IF j >= i THEN j - i ELSE j - i + NumMsgs

VARIABLES
    buf,          \* putBuffer of the sender, getBuffer of the receiver
    writeIdx,     \* putWriteIndex in the sender's cache
    memWrite,     \* the same word in memory: getWriteIndex
    readIdx,      \* getReadIndex in the receiver's cache
    memRead,      \* the same word in memory
    cachedRead,   \* the same word, putReadIndex, as the sender last saw it
    intPending,   \* the interrupt line towards the receiver
    intEnabled,
    evtRegMask,
    pc,           \* pc[s]: where thread s stands in sendEvent
    args,         \* args[s]: its eventId and payload
    waitClear,    \* waitClear[s]: its waitClear argument
    read,         \* read[s]: its local readIndex
    loop,         \* loop[s]: its local loop flag
    isr,          \* where the receiver's isr stands
    isrWrite,     \* its local writeIndex
    executed      \* the last event handed to Notify_exec

shared   == <<buf, writeIdx, memWrite, readIdx, memRead, cachedRead>>
locals   == <<pc, args, waitClear, read, loop>>
receiver == <<isr, isrWrite, executed>>
vars     == <<shared, intPending, intEnabled, evtRegMask, locals, receiver>>

Init ==
    /\ buf = [i \in Slots |-> NoEntry]
    /\ writeIdx = 0 /\ memWrite = 0
    /\ readIdx = 0 /\ memRead = 0 /\ cachedRead = 0
    /\ intPending = FALSE
    /\ intEnabled = TRUE
    /\ evtRegMask = {}
    /\ pc = [s \in Senders |-> "idle"]
    /\ args = [s \in Senders |-> NoEntry]
    /\ waitClear = [s \in Senders |-> FALSE]
    /\ read = [s \in Senders |-> 0]
    /\ loop = [s \in Senders |-> FALSE]
    /\ isr = "idle"
    /\ isrWrite = 0
    /\ executed = NoEntry

-----------------------------------------------------------------------------
(***************************************************************************)
(* sendEvent.  The read index is fetched BEFORE interrupts are disabled.   *)
(***************************************************************************)
SendCall(s, e, wait) ==
    /\ pc[s] = "idle"
    /\ args' = [args EXCEPT ![s] = e]
    /\ waitClear' = [waitClear EXCEPT ![s] = wait]
    /\ cachedRead' = IF CacheEnabled THEN cachedRead ELSE memRead
    /\ read' = [read EXCEPT ![s] = cachedRead']
    /\ pc' = [pc EXCEPT ![s] = "test"]
    /\ UNCHANGED <<buf, writeIdx, memWrite, readIdx, memRead, intPending,
                   intEnabled, evtRegMask, loop, receiver>>

(* The locals of sendEvent are dead once the event is in, or has failed.   *)
ForgetLocals(s) ==
    /\ args' = [args EXCEPT ![s] = NoEntry]
    /\ waitClear' = [waitClear EXCEPT ![s] = FALSE]
    /\ read' = [read EXCEPT ![s] = 0]
    /\ loop' = [loop EXCEPT ![s] = FALSE]

(* Mutant: the slot test forgets to wrap the index.                        *)
HasSlotNoMask(s) == writeIdx + 1 # read[s]

HasSlot(s) == Succ(writeIdx) # read[s]

(* Interrupts stay disabled from the successful test to the new index.     *)
SendWrite(s) ==
    /\ pc[s] = "test"
    /\ HasSlot(s)
    /\ buf' = [buf EXCEPT ![writeIdx] = args[s]]
    /\ writeIdx' = Succ(writeIdx)
    /\ memWrite' = IF CacheEnabled THEN memWrite ELSE writeIdx'
    /\ ForgetLocals(s)
    /\ pc' = [pc EXCEPT ![s] = "publish"]
    /\ UNCHANGED <<readIdx, memRead, cachedRead, intPending, intEnabled,
                   evtRegMask, receiver>>

SendFail(s) ==
    /\ pc[s] = "test"
    /\ ~HasSlot(s)
    /\ loop[s] /\ ~waitClear[s]
    /\ ForgetLocals(s)
    /\ pc' = [pc EXCEPT ![s] = "idle"]
    /\ UNCHANGED <<shared, intPending, intEnabled, evtRegMask, receiver>>

SendFull(s) ==
    /\ pc[s] = "test"
    /\ ~HasSlot(s)
    /\ ~loop[s] \/ waitClear[s]
    /\ pc' = [pc EXCEPT ![s] = "reread"]
    /\ UNCHANGED <<shared, intPending, intEnabled, evtRegMask, args, waitClear,
                   read, loop, receiver>>

(* Cache_inv, then the read index again.                                   *)
SendReread(s) ==
    /\ pc[s] = "reread"
    /\ cachedRead' = memRead
    /\ read' = [read EXCEPT ![s] = memRead]
    /\ loop' = [loop EXCEPT ![s] = TRUE]
    /\ pc' = [pc EXCEPT ![s] = "test"]
    /\ UNCHANGED <<buf, writeIdx, memWrite, readIdx, memRead, intPending,
                   intEnabled, evtRegMask, args, waitClear, receiver>>

(* Cache_wb of the write index.                                            *)
SendPublish(s) ==
    /\ pc[s] = "publish"
    /\ memWrite' = writeIdx
    /\ pc' = [pc EXCEPT ![s] = "intSend"]
    /\ UNCHANGED <<buf, writeIdx, readIdx, memRead, cachedRead, intPending,
                   intEnabled, evtRegMask, args, waitClear, read, loop, receiver>>

SendInterrupt(s) ==
    /\ pc[s] = "intSend"
    /\ intPending' = TRUE
    /\ pc' = [pc EXCEPT ![s] = "idle"]
    /\ UNCHANGED <<shared, intEnabled, evtRegMask, args, waitClear, read, loop,
                   receiver>>

-----------------------------------------------------------------------------
(***************************************************************************)
(* isr: clear the line, read the write index once, process up to it.       *)
(***************************************************************************)
IsrClear ==
    /\ isr = "idle"
    /\ intPending /\ intEnabled
    /\ intPending' = FALSE
    /\ isr' = "fetch"
    /\ UNCHANGED <<shared, intEnabled, evtRegMask, locals, isrWrite, executed>>

IsrFetch ==
    /\ isr = "fetch"
    /\ isrWrite' = memWrite
    /\ isr' = "loop"
    /\ UNCHANGED <<shared, intPending, intEnabled, evtRegMask, locals, executed>>

(* Notify_exec of the event at the read index, if it is registered.        *)
IsrExec ==
    /\ isr = "loop"
    /\ isrWrite # readIdx
    /\ \/ /\ buf[readIdx].event \in evtRegMask
          /\ executed' = <<buf[readIdx]>>
       \/ /\ buf[readIdx].event \notin evtRegMask
          /\ UNCHANGED executed
    /\ isr' = "advance"
    /\ UNCHANGED <<shared, intPending, intEnabled, evtRegMask, locals, isrWrite>>

WritesBack(i) == ~CacheEnabled \/ i % ModIndex = 0

(* Mutant: the read index is never written back.                           *)
IsrAdvanceNoWriteBack ==
    /\ isr = "advance"
    /\ readIdx' = Succ(readIdx)
    /\ isr' = "loop"
    /\ UNCHANGED <<buf, writeIdx, memWrite, memRead, cachedRead, intPending,
                   intEnabled, evtRegMask, locals, isrWrite, executed>>

IsrAdvance ==
    /\ isr = "advance"
    /\ readIdx' = Succ(readIdx)
    /\ memRead' = IF WritesBack(readIdx') THEN readIdx' ELSE memRead
    /\ isr' = "loop"
    /\ UNCHANGED <<buf, writeIdx, memWrite, cachedRead, intPending, intEnabled,
                   evtRegMask, locals, isrWrite, executed>>

(* Mutant: the line is cleared when the isr is done, not when it starts.   *)
IsrReturnClears ==
    /\ isr = "loop"
    /\ isrWrite = readIdx
    /\ intPending' = FALSE
    /\ isr' = "idle"
    /\ UNCHANGED <<shared, intEnabled, evtRegMask, locals, isrWrite, executed>>

IsrReturn ==
    /\ isr = "loop"
    /\ isrWrite = readIdx
    /\ isr' = "idle"
    /\ UNCHANGED <<shared, intPending, intEnabled, evtRegMask, locals, isrWrite,
                   executed>>

-----------------------------------------------------------------------------
(***************************************************************************)
(* Operations of the receiving processor outside the isr, which interrupts *)
(* them but is not interrupted by them.                                    *)
(***************************************************************************)
RegisterEvent(e) ==
    /\ isr = "idle"
    /\ evtRegMask' = evtRegMask \cup {e}
    /\ UNCHANGED <<shared, intPending, intEnabled, locals, receiver>>

UnregisterEvent(e) ==
    /\ isr = "idle"
    /\ evtRegMask' = evtRegMask \ {e}
    /\ UNCHANGED <<shared, intPending, intEnabled, locals, receiver>>

(* disable; the interrupt is enabled again by enableEvent (enable asserts). *)
SetInterrupt(on) ==
    /\ isr = "idle"
    /\ intEnabled' = on
    /\ UNCHANGED <<shared, intPending, evtRegMask, locals, receiver>>

-----------------------------------------------------------------------------
SendStep(s) == \/ SendWrite(s) \/ SendFail(s) \/ SendFull(s) \/ SendReread(s)
               \/ SendPublish(s) \/ SendInterrupt(s)

IsrStep == IsrClear \/ IsrFetch \/ IsrExec \/ IsrAdvance \/ IsrReturn

Next ==
    \/ \E s \in Senders, e \in Entries, wait \in BOOLEAN : SendCall(s, e, wait)
    \/ \E s \in Senders : SendStep(s)
    \/ IsrStep
    \/ \E e \in Events : RegisterEvent(e) \/ UnregisterEvent(e)
    \/ \E on \in BOOLEAN : SetInterrupt(on)

Spec == Init /\ [][Next]_vars

(***************************************************************************)
(* Threads inside sendEvent are scheduled, and an enabled, pending         *)
(* interrupt is taken.                                                     *)
(***************************************************************************)
Fairness ==
    /\ \A s \in Senders : WF_vars(SendStep(s))
    /\ WF_vars(IsrStep)

FairSpec == Spec /\ Fairness

-----------------------------------------------------------------------------
(* Every variable has its type.                                            *)
TypeOK ==
    /\ buf \in [Slots -> Entries \cup {NoEntry}]
    /\ writeIdx \in Slots /\ memWrite \in Slots
    /\ readIdx \in Slots /\ memRead \in Slots /\ cachedRead \in Slots
    /\ intPending \in BOOLEAN /\ intEnabled \in BOOLEAN
    /\ evtRegMask \in SUBSET Events
    /\ pc \in [Senders -> {"idle", "test", "reread", "publish", "intSend"}]
    /\ args \in [Senders -> Entries \cup {NoEntry}]
    /\ \A s \in Senders : pc[s] \in {"test", "reread"} => args[s] \in Entries
    /\ waitClear \in [Senders -> BOOLEAN]
    /\ read \in [Senders -> Slots]
    /\ loop \in [Senders -> BOOLEAN]
    /\ isr \in {"idle", "fetch", "loop", "advance"}
    /\ isrWrite \in Slots
    /\ executed \in {NoEntry} \cup {<<e>> : e \in Entries \cup {NoEntry}}

(***************************************************************************)
(* The six copies of the two indices stay in ring order: what the sender   *)
(* believes read, what memory says is read, what is read, what the isr     *)
(* will process, what memory says is written, what is written.             *)
(***************************************************************************)
InOrder(seen, mread, rd, isrw, mwrite, wr) ==
    Ahead(seen, wr) = Ahead(seen, mread) + Ahead(mread, rd) + Ahead(rd, isrw)
                      + Ahead(isrw, mwrite) + Ahead(mwrite, wr)

RingOrder ==
    InOrder(cachedRead, memRead, readIdx, isrWrite, memWrite, writeIdx)

(***************************************************************************)
(* Notify.h, Notify_sendEvent: drivers with a FIFO "will spin if waitClear  *)
(* is TRUE until the FIFO has enough room to accept the event", and else   *)
(* fail.  One sending thread obeys.  Several do not: the read index is     *)
(* fetched before interrupts are disabled, and a thread preempted between  *)
(* the two tests against an index a whole turn of the ring old.            *)
(***************************************************************************)
AcceptedOnlyWithRoom ==
    [][writeIdx' # writeIdx => Ahead(readIdx, writeIdx) < MaxIndex]_vars

(***************************************************************************)
(* No lost interrupt: when the isr is not running and the buffer holds     *)
(* published events, the interrupt is pending or its sender is about to    *)
(* raise it.  The isr reads the write index once, so an event published    *)
(* while it runs counts on an interrupt of its own.                        *)
(***************************************************************************)
NoLostInterrupt ==
    isr = "idle" /\ memWrite # readIdx
        => intPending \/ \E s \in Senders : pc[s] \in {"publish", "intSend"}

(***************************************************************************)
(* The buffer implements the event channel: see EventChannel.              *)
(***************************************************************************)
FirstPending == IF isr = "advance" THEN Succ(readIdx) ELSE readIdx

Nth(i, k) == IF i + k - 1 <= MaxIndex THEN i + k - 1 ELSE i + k - 1 - NumMsgs

Window(b, first, end) == [k \in 1 .. Ahead(first, end) |-> b[Nth(first, k)]]

PendingEvents == Window(buf, FirstPending, writeIdx)

Channel == INSTANCE EventChannel
    WITH Capacity <- MaxIndex, pending <- PendingEvents, registered <- evtRegMask

ImplementsChannel == Channel!ChanSpec

(***************************************************************************)
(* A sender waiting for a slot gets one, and every accepted event is       *)
(* processed, once the receiver leaves its interrupt enabled: although the *)
(* sender sees only some of the values of the read index.                  *)
(***************************************************************************)
SendReturns ==
    <>[]intEnabled => \A s \in Senders : pc[s] # "idle" ~> pc[s] = "idle"

Drained ==
    <>[]intEnabled =>
        \A i \in Slots : writeIdx = Succ(i) ~> readIdx = Succ(i)

Progress == SendReturns /\ Drained
=============================================================================
