--------------------------- MODULE NotifyDriverMbx ---------------------------
(***************************************************************************)
(* One direction of the mailbox notify driver (packages/ti/sdo/ipc/family/ *)
(* vayu/NotifyDriverMbx.c, c6a8149/NotifyDriverMbx.c).  An event is one    *)
(* word of a hardware queue, its id in the low bits and its payload above  *)
(* them, or, when the payload is too large, a word with an escape for the  *)
(* payload and a second word with the payload.                             *)
(* What runs with interrupts disabled is not preempted on its processor,   *)
(* but the other processor reads between the two words.                    *)
(***************************************************************************)
EXTENDS Integers, Sequences

CONSTANTS
    Senders,      \* threads of the sending processor
    NumEvents,    \* event ids of a line: 32 in the code
    Escape,       \* the payload field that announces a second word: 0x7FFFFFF
    Payloads,     \* payloads sent, of 0 .. NumEvents * (Escape + 1) - 1
    FifoLength,   \* words of a mailbox: 4 in the code
    Scans         \* the isr repeats until the mailbox is empty (c6a8149)

Events  == 0 .. NumEvents - 1
Entries == [event : Events, payload : Payloads]

VARIABLES
    fifo,         \* the words of the mailbox
    newMsg,       \* its interrupt status
    irqEnable,    \* its interrupt is enabled at the receiver
    drvHandle,    \* the receiver has a driver instance
    evtRegMask,
    connected,    \* the sending processor is attached too and may send
    pc,           \* pc[s]: where thread s stands in sendEvent
    args,         \* args[s]: eventId and payload
    isr,          \* where the receiver's isr stands
    hand,         \* the words the isr has read and not delivered
    executed      \* the last event handed to Notify_exec, in a sequence

mailbox  == <<fifo, newMsg>>
instance == <<irqEnable, drvHandle, evtRegMask, connected>>
senders  == <<pc, args>>
receiver == <<isr, hand, executed>>
vars     == <<mailbox, instance, senders, receiver>>

NoEntry == [event |-> 0, payload |-> 0]

Init ==
    /\ fifo = <<>> /\ newMsg = FALSE
    /\ irqEnable = FALSE /\ drvHandle = FALSE /\ evtRegMask = {} /\ connected = FALSE
    /\ pc = [s \in Senders |-> "idle"]
    /\ args = [s \in Senders |-> NoEntry]
    /\ isr = "idle" /\ hand = <<>> /\ executed = <<>>

-----------------------------------------------------------------------------
(* The words of an event. *)

IsSmall(p) == p < Escape

FirstWord(e) == e.event + NumEvents * (IF IsSmall(e.payload) THEN e.payload ELSE Escape)
Words(e)     == IF IsSmall(e.payload) THEN <<FirstWord(e)>> ELSE <<FirstWord(e), e.payload>>

IsEscape(w) == w \div NumEvents = Escape
Decoded(ws) == [event |-> ws[1] % NumEvents,
                payload |-> IF IsEscape(ws[1]) THEN ws[2] ELSE ws[1] \div NumEvents]

(* The mailbox itself: a word written to a full one is lost.               *)
Put(w) ==
    /\ fifo' = IF Len(fifo) < FifoLength THEN Append(fifo, w) ELSE fifo
    /\ newMsg' = TRUE

-----------------------------------------------------------------------------
(* sendEvent: room is tested and the words written with interrupts disabled. *)

InterruptsDisabled == \E s \in Senders : pc[s] = "second"

SendCall(s, e) ==
    /\ connected
    /\ pc[s] = "idle" /\ ~InterruptsDisabled
    /\ args' = [args EXCEPT ![s] = e]
    /\ pc' = [pc EXCEPT ![s] = "room"]
    /\ UNCHANGED <<mailbox, instance, receiver>>

\* Mutant: room for one word is enough.
HasRoomForOne(s) == Len(fifo) < FifoLength

HasRoom(s) == FifoLength - Len(fifo) >= Len(Words(args[s]))

SendReturn(s) ==
    /\ args' = [args EXCEPT ![s] = NoEntry]
    /\ pc' = [pc EXCEPT ![s] = "idle"]

SendFirst(s) ==
    /\ pc[s] = "room" /\ ~InterruptsDisabled
    /\ HasRoom(s)
    /\ Put(FirstWord(args[s]))
    /\ IF IsSmall(args[s].payload)
       THEN SendReturn(s)
       ELSE pc' = [pc EXCEPT ![s] = "second"] /\ UNCHANGED args
    /\ UNCHANGED <<instance, receiver>>

SendSecond(s) ==
    /\ pc[s] = "second"
    /\ Put(args[s].payload)
    /\ SendReturn(s)
    /\ UNCHANGED <<instance, receiver>>

(* Without waitClear the call fails; with it the thread tests again.        *)
SendFail(s) ==
    /\ pc[s] = "room" /\ ~InterruptsDisabled
    /\ ~HasRoom(s)
    /\ SendReturn(s)
    /\ UNCHANGED <<mailbox, instance, receiver>>

-----------------------------------------------------------------------------
(* isr: one event at a time; with Scans, as long as there are words.        *)

IsrFirst ==
    /\ \/ isr = "idle" /\ newMsg /\ irqEnable
       \/ isr = "scan"
    /\ fifo # <<>>
    /\ hand' = <<Head(fifo)>>
    /\ fifo' = Tail(fifo)
    /\ isr' = IF IsEscape(Head(fifo)) THEN "second" ELSE "clear"
    /\ UNCHANGED <<newMsg, instance, senders, executed>>

IsrSecond ==
    /\ isr = "second"
    /\ fifo # <<>>
    /\ hand' = Append(hand, Head(fifo))
    /\ fifo' = Tail(fifo)
    /\ isr' = "clear"
    /\ UNCHANGED <<newMsg, instance, senders, executed>>

(* The status cannot be cleared while the mailbox holds words.             *)
IsrClear ==
    /\ isr = "clear"
    /\ newMsg' = (fifo # <<>>)
    /\ isr' = "exec"
    /\ UNCHANGED <<fifo, instance, senders, hand, executed>>

IsrExec ==
    /\ isr = "exec"
    /\ executed' = IF Decoded(hand).event \in evtRegMask THEN <<Decoded(hand)>> ELSE executed
    /\ hand' = <<>>
    /\ isr' = IF Scans THEN "scan" ELSE "idle"
    /\ UNCHANGED <<mailbox, instance, senders>>

IsrReturn ==
    /\ isr = "scan"
    /\ fifo = <<>>
    /\ isr' = "idle"
    /\ UNCHANGED <<mailbox, instance, senders, hand, executed>>

-----------------------------------------------------------------------------
(***************************************************************************)
(* The receiver's other operations, which its isr preempts.  Ipc_attach    *)
(* synchronises the processors: the instance is made before the sender may *)
(* send, and a new one only after the sender stopped too.                  *)
(***************************************************************************)
RegisterEvent(e) ==
    /\ isr = "idle" /\ drvHandle
    /\ evtRegMask' \in {evtRegMask \cup {e}, evtRegMask \ {e}}
    /\ UNCHANGED <<mailbox, irqEnable, drvHandle, connected, senders, receiver>>

SetEnable(on) ==
    /\ isr = "idle" /\ drvHandle
    /\ irqEnable' = on
    /\ UNCHANGED <<mailbox, drvHandle, evtRegMask, connected, senders, receiver>>

(* Empties the mailbox of old words; c6a8149 does so at startup alone.     *)
InstanceInit ==
    /\ isr = "idle" /\ ~drvHandle /\ ~connected /\ \A s \in Senders : pc[s] = "idle"
    /\ drvHandle' = TRUE /\ irqEnable' = TRUE /\ evtRegMask' = {}
    /\ IF Scans THEN UNCHANGED mailbox ELSE fifo' = <<>> /\ newMsg' = FALSE
    /\ UNCHANGED <<connected, senders, receiver>>

(* Instance_finalize, its interrupt disabled before.                       *)
FinalizeRemove ==
    /\ isr = "idle" /\ drvHandle /\ ~irqEnable
    /\ drvHandle' = FALSE /\ evtRegMask' = {}
    /\ UNCHANGED <<mailbox, irqEnable, connected, senders, receiver>>

Connect(on) ==
    /\ on => drvHandle
    /\ \A s \in Senders : pc[s] = "idle"
    /\ connected' = on
    /\ UNCHANGED <<mailbox, irqEnable, drvHandle, evtRegMask, senders, receiver>>

-----------------------------------------------------------------------------
SendStep(s) == SendFirst(s) \/ SendSecond(s) \/ SendFail(s)
IsrStep     == IsrFirst \/ IsrSecond \/ IsrClear \/ IsrExec \/ IsrReturn

Next ==
    \/ \E s \in Senders, e \in Entries : SendCall(s, e)
    \/ \E s \in Senders : SendStep(s)
    \/ IsrStep
    \/ \E e \in Events : RegisterEvent(e)
    \/ \E on \in BOOLEAN : SetEnable(on) \/ Connect(on)
    \/ InstanceInit \/ FinalizeRemove

Spec == Init /\ [][Next]_vars

-----------------------------------------------------------------------------
(***************************************************************************)
(* The mailbox implements the event channel: see EventChannel.  Whatever   *)
(* the isr finds between two words, and whichever payloads need two, the   *)
(* events it decodes are the events sent, each once and in order; and a    *)
(* new instance sees none of an earlier session.                           *)
(***************************************************************************)
RestOf(s) == IF pc[s] = "second" THEN <<args[s].payload>> ELSE <<>>
Stream ==
    hand \o fifo \o (IF InterruptsDisabled
                     THEN RestOf(CHOOSE s \in Senders : pc[s] = "second") ELSE <<>>)

DecodedFrom ==
    LET f[i \in 1 .. Len(Stream) + 1] ==
          IF i > Len(Stream) THEN <<>>
          ELSE IF IsEscape(Stream[i])
               THEN IF i = Len(Stream) THEN <<NoEntry>>
                    ELSE <<Decoded(SubSeq(Stream, i, i + 1))>> \o f[i + 2]
               ELSE <<Decoded(<<Stream[i]>>)>> \o f[i + 1]
    IN  f[1]

Channel == INSTANCE EventChannel
    WITH Capacity <- FifoLength + 1, pending <- DecodedFrom, registered <- evtRegMask

chan == <<DecodedFrom, evtRegMask, executed>>

ChannelStep ==
    IF ~drvHandle /\ drvHandle' /\ ~Scans
    THEN DecodedFrom' = <<>>
    ELSE Channel!ChanNext \/ UNCHANGED chan

ImplementsChannel == Channel!ChanInit /\ [][ChannelStep]_vars

(* The isr finds the instance whose interrupt it serves.                   *)
IsrHasInstance == newMsg /\ irqEnable => drvHandle
=============================================================================
