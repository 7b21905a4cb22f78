--------------------------- MODULE TransportShmCirc ---------------------------
(***************************************************************************)
(* One direction of the message transport over a ring in shared memory     *)
(* (packages/ti/sdo/ipc/transports/TransportShmCirc.c).  put writes the    *)
(* pointer of a message into the next slot and raises a Notify event; the  *)
(* event posts a swi of the other processor, which hands the messages to   *)
(* MessageQ_put.  As in NotifyDriverCirc the indices are seen through      *)
(* caches, and a put that is preempted by another is that module's         *)
(* subject: here one thread puts.                                          *)
(***************************************************************************)
EXTENDS Integers, Sequences

CONSTANTS
    Messages,
    NumMsgs,     \* slots of the ring
    ModIndex,    \* the swi writes its read index back every ModIndex messages
    EventRoom    \* bound: events the notify driver holds

Slots    == 0 .. NumMsgs - 1
MaxIndex == NumMsgs - 1
NoMsg    == <<>>

VARIABLES
    buf,         \* putBuffer
    writeIdx,    \* putWriteIndex in the sender's cache
    memWrite,    \* the same word in memory
    readIdx,     \* getReadIndex in the receiver's cache
    memRead,     \* the same word in memory
    cachedRead,  \* the same word as the sender last saw it
    put,         \* where the call of put stands
    msg,         \* its message, a sequence of at most one
    read, loop,  \* its locals
    events,      \* events raised and not yet served
    registered,  \* the receiver has an instance, its event registered
    posted,      \* its swi is posted
    swi,         \* where the swi stands
    swiWrite,    \* its local writeIndex
    kept         \* messages the sending side owns

ring   == <<buf, writeIdx, memWrite, readIdx, memRead, cachedRead>>
sender == <<put, msg, read, loop, kept>>
taker  == <<posted, swi, swiWrite>>
vars   == <<ring, sender, taker, events, registered>>

Init ==
    /\ buf = [i \in Slots |-> NoMsg]
    /\ writeIdx = 0 /\ memWrite = 0 /\ readIdx = 0 /\ memRead = 0 /\ cachedRead = 0
    /\ put = "idle" /\ msg = NoMsg /\ read = 0 /\ loop = FALSE
    /\ events = 0 /\ registered = FALSE
    /\ posted = FALSE /\ swi = "idle" /\ swiWrite = 0
    /\ kept = Messages

Succ(i) == (i + 1) % NumMsgs

-----------------------------------------------------------------------------
(* put *)

PutCall(m) ==
    /\ put = "idle"
    /\ m \in kept
    /\ kept' = kept \ {m}
    /\ msg' = <<m>>
    /\ read' = cachedRead
    /\ put' = "test"
    /\ UNCHANGED <<ring, taker, loop, events, registered>>

HasSlot == Succ(writeIdx) # read

PutWrite ==
    /\ put = "test"
    /\ HasSlot
    /\ buf' = [buf EXCEPT ![writeIdx] = msg]
    /\ writeIdx' = Succ(writeIdx)
    /\ put' = "publish"
    /\ UNCHANGED <<memWrite, readIdx, memRead, cachedRead, taker, msg, read, loop, kept,
                   events, registered>>

(* No room: the read index is read from memory, once.                      *)
PutReread ==
    /\ put = "test"
    /\ ~HasSlot /\ ~loop
    /\ cachedRead' = memRead
    /\ read' = memRead
    /\ loop' = TRUE
    /\ UNCHANGED <<buf, writeIdx, memWrite, readIdx, memRead, taker, put, msg, kept,
                   events, registered>>

(* put returns; the caller owns the message again if it failed.            *)
PutReturn(success) ==
    /\ put' = "idle"
    /\ kept' = IF success THEN kept ELSE kept \cup {msg[1]}
    /\ msg' = NoMsg /\ read' = 0 /\ loop' = FALSE

PutFull ==
    /\ put = "test"
    /\ ~HasSlot /\ loop
    /\ PutReturn(FALSE)
    /\ UNCHANGED <<ring, taker, events, registered>>

PutPublish ==
    /\ put = "publish"
    /\ memWrite' = writeIdx
    /\ put' = "notify"
    /\ UNCHANGED <<buf, writeIdx, readIdx, memRead, cachedRead, taker, msg, read, loop, kept,
                   events, registered>>

(* Notify_sendEvent, waitClear FALSE: the event is taken by the driver if   *)
(* it has room.  If not, put fails although its message is in the ring.    *)
PutNotify ==
    /\ put = "notify"
    /\ events' = IF events < EventRoom THEN events + 1 ELSE events
    /\ PutReturn(events < EventRoom)
    /\ UNCHANGED <<ring, taker, registered>>

-----------------------------------------------------------------------------
(* notifyFxn and swiFxn; an event nobody is registered for is lost. *)

NotifyFxn ==
    /\ events > 0
    /\ events' = events - 1
    /\ posted' = (registered \/ posted)
    /\ UNCHANGED <<ring, sender, swi, swiWrite, registered>>

SwiBegin ==
    /\ posted /\ swi = "idle"
    /\ posted' = FALSE
    /\ swi' = "fetch"
    /\ UNCHANGED <<ring, sender, swiWrite, events, registered>>

\* Mutant: the write index is read without the Cache_inv.
SwiFetchStale ==
    /\ swi = "fetch"
    /\ swi' = "take"
    /\ UNCHANGED <<ring, sender, posted, swiWrite, events, registered>>

(* Cache_inv of the buffer and of the write index.                         *)
SwiFetch ==
    /\ swi = "fetch"
    /\ swiWrite' = memWrite
    /\ swi' = "take"
    /\ UNCHANGED <<ring, sender, posted, events, registered>>

(* MessageQ_put of the next message, and the new read index.               *)
SwiTake ==
    /\ swi = "take"
    /\ swiWrite # readIdx
    /\ readIdx' = Succ(readIdx)
    /\ memRead' = IF readIdx' % ModIndex = 0 THEN readIdx' ELSE memRead
    /\ kept' = kept \cup {buf[readIdx][1]}
    /\ UNCHANGED <<buf, writeIdx, memWrite, cachedRead, put, msg, read, loop, taker, events,
                   registered>>

SwiReturn ==
    /\ swi = "take"
    /\ swiWrite = readIdx
    /\ swi' = "idle"
    /\ UNCHANGED <<ring, sender, posted, swiWrite, events, registered>>

(* Instance_init of the receiver, which may come after the first puts.     *)
Register ==
    /\ ~registered
    /\ registered' = TRUE
    /\ UNCHANGED <<ring, sender, taker, events>>

-----------------------------------------------------------------------------
PutStep == PutWrite \/ PutReread \/ PutFull \/ PutPublish \/ PutNotify
SwiStep == SwiBegin \/ SwiFetch \/ SwiTake \/ SwiReturn

Next ==
    \/ \E m \in Messages : PutCall(m)
    \/ PutStep \/ NotifyFxn \/ SwiStep \/ Register

Spec == Init /\ [][Next]_vars

-----------------------------------------------------------------------------
(* The messages in the ring, oldest first.                                 *)
Ahead(i, j) == (j - i + NumMsgs) % NumMsgs
InRing == [k \in 1 .. Ahead(readIdx, writeIdx) |-> buf[(readIdx + k - 1) % NumMsgs]]

(***************************************************************************)
(* The ring is a queue: a put adds its message at the end, the swi takes   *)
(* the first, and nothing else moves, although the sender sees one read    *)
(* index of every ModIndex and the swi one write index of every event.     *)
(***************************************************************************)
RingIsFifo ==
    [][\/ InRing' = InRing
       \/ put = "test" /\ InRing' = Append(InRing, msg)
       \/ swi = "take" /\ InRing # <<>> /\ InRing' = Tail(InRing)]_vars

(***************************************************************************)
(* A message in the ring is not forgotten: a swi, an event or a put that   *)
(* has yet to notify will come.  Only messages put before the receiver     *)
(* registered its event wait for the next put.                             *)
(***************************************************************************)
NoneForgotten ==
    [][swi # "idle" /\ swi' = "idle" /\ memWrite # readIdx
         => posted' \/ events > 0 \/ put = "notify"]_vars

(* A queue that its reader does not leave behind.                          *)
MessagesArrive == RingIsFifo /\ NoneForgotten
=============================================================================
