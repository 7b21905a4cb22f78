-------------------------- MODULE NotifyDriverShm ---------------------------
(***************************************************************************)
(* One direction of the shared-memory notify driver                        *)
(* (packages/ti/sdo/ipc/notifyDrivers/NotifyDriverShm.c): threads of the   *)
(* sending processor call sendEvent; on the receiving processor an isr and *)
(* one task, which registers, unregisters, disables and enables events.    *)
(* Every event has one entry, a flag and a payload, in shared memory.      *)
(*                                                                         *)
(* The isr interrupts the task and is not interrupted by it, unless the    *)
(* task has disabled the interrupt line.  Interrupts are disabled on the   *)
(* sending processor from the last test of a flag to the interrupt sent.   *)
(***************************************************************************)
EXTENDS Integers, Sequences, SequencesExt

CONSTANTS
    Senders,       \* threads of the sending processor
    Events,        \* event numbers
    Payloads,
    WaitClear,     \* the waitClear arguments used, a subset of BOOLEAN
    Disablable,    \* the events the task disables and enables
    MayTimeOut,    \* is Notify.sendEventPollCount finite?
    MaxRestarts    \* bound: how often the driver is deleted and re-created

ASSUME ShmAssumption ==
    /\ Events \subseteq Nat
    /\ WaitClear \subseteq BOOLEAN
    /\ Disablable \subseteq Events
    /\ MayTimeOut \in BOOLEAN
    /\ MaxRestarts \in Nat
    /\ "empty" \notin Payloads

NoCall  == <<>>
NoEvent == -1
Nothing == "empty"
Calls   == [event : Events, payload : Payloads, wait : WaitClear]

VARIABLES
    recvInitStatus,   \* is it INIT_STAMP?
    eventEnableMask, eventRegMask,
    flag,             \* flag[e]: is it UP?
    payload,          \* payload[e]
    intPending,       \* the interrupt line towards the receiver
    intEnabled,       \* is the line enabled at the receiver?
    driver,           \* "off", or "on" between Instance_init and finalize
    restarts,
    regChart,         \* the registered events, in the receiver's memory
    pc, call,         \* sender s: where it is in sendEvent, its arguments
    isr, index, saved, \* the isr: where it is, i, and the local payload
    task, arg,        \* the task: where it is, its eventId
    executed          \* executed[e]: the last payload handed to Notify_exec

procCtrl == <<recvInitStatus, eventEnableMask, eventRegMask>>
entries  == <<flag, payload>>
line     == <<intPending, intEnabled>>
life     == <<driver, restarts>>
sender   == <<pc, call>>
isrVars  == <<isr, index, saved>>
taskVars == <<task, arg>>
vars == <<procCtrl, entries, line, life, regChart, sender, isrVars, taskVars,
          executed>>

(* The memory of the driver is zeroed by SharedRegion before it is created. *)
Init ==
    /\ recvInitStatus = FALSE
    /\ eventEnableMask = Events
    /\ eventRegMask = {}
    /\ flag = [e \in Events |-> FALSE]
    /\ \E p \in Payloads : payload = [e \in Events |-> p]
    /\ intPending = FALSE /\ intEnabled = TRUE
    /\ driver = "on" /\ restarts = 0
    /\ regChart = <<>>
    /\ pc = [s \in Senders |-> "idle"]
    /\ call = [s \in Senders |-> NoCall]
    /\ isr = "idle" /\ index = 1 /\ saved = NoCall
    /\ task = "idle" /\ arg = NoEvent
    /\ executed = [e \in Events |-> Nothing]

-----------------------------------------------------------------------------
(***************************************************************************)
(* sendEvent: the three words of the receiver's ProcCtrl are read one by   *)
(* one, once, before anything is written.                                  *)
(***************************************************************************)
SendCall(s, c) ==
    /\ pc[s] = "idle"
    /\ recvInitStatus
    /\ call' = [call EXCEPT ![s] = c]
    /\ pc' = [pc EXCEPT ![s] = "enabled"]
    /\ UNCHANGED <<procCtrl, entries, line, life, regChart, isrVars, taskVars,
                   executed>>

Return(s) ==
    /\ pc' = [pc EXCEPT ![s] = "idle"]
    /\ call' = [call EXCEPT ![s] = NoCall]

SendTestEnabled(s) ==
    /\ pc[s] = "enabled"
    /\ \/ /\ call[s].event \in eventEnableMask
          /\ pc' = [pc EXCEPT ![s] = "registered"]
          /\ UNCHANGED call
       \/ /\ call[s].event \notin eventEnableMask
          /\ Return(s)
    /\ UNCHANGED <<procCtrl, entries, line, life, regChart, isrVars, taskVars,
                   executed>>

SendTestRegistered(s) ==
    /\ pc[s] = "registered"
    /\ \/ /\ call[s].event \in eventRegMask
          /\ pc' = [pc EXCEPT ![s] = "write"]
          /\ UNCHANGED call
       \/ /\ call[s].event \notin eventRegMask
          /\ Return(s)
    /\ UNCHANGED <<procCtrl, entries, line, life, regChart, isrVars, taskVars,
                   executed>>

HwiFree == \A s \in Senders : pc[s] # "intSend"

(* Mutant: the flag is not tested before the entry is written.             *)
MustWaitNever(s) == FALSE

MustWait(s) == call[s].wait /\ flag[call[s].event]

(* The poll count runs out while interrupts are restored.                  *)
SendTimeOut(s) ==
    /\ MayTimeOut
    /\ pc[s] = "write"
    /\ HwiFree
    /\ MustWait(s)
    /\ Return(s)
    /\ UNCHANGED <<procCtrl, entries, line, life, regChart, isrVars, taskVars,
                   executed>>

SendWrite(s) ==
    /\ pc[s] = "write"
    /\ HwiFree
    /\ ~MustWait(s)
    /\ payload' = [payload EXCEPT ![call[s].event] = call[s].payload]
    /\ flag' = [flag EXCEPT ![call[s].event] = TRUE]
    /\ pc' = [pc EXCEPT ![s] = "intSend"]
    /\ call' = [call EXCEPT ![s] = NoCall]
    /\ UNCHANGED <<procCtrl, line, life, regChart, isrVars, taskVars, executed>>

SendInterrupt(s) ==
    /\ pc[s] = "intSend"
    /\ intPending' = TRUE
    /\ Return(s)
    /\ UNCHANGED <<procCtrl, entries, intEnabled, life, regChart, isrVars,
                   taskVars, executed>>

-----------------------------------------------------------------------------
(***************************************************************************)
(* isr: clear the line, then scan the registered events in chart order,    *)
(* from the start again after every event that was executed.               *)
(***************************************************************************)
IsrClear ==
    /\ isr = "idle"
    /\ driver = "on" /\ intPending /\ intEnabled
    /\ intPending' = FALSE
    /\ isr' = "scan"
    /\ index' = 1
    /\ UNCHANGED <<procCtrl, entries, intEnabled, life, regChart, sender, saved,
                   taskVars, executed>>

IsrScan ==
    /\ isr = "scan"
    /\ index <= Len(regChart)
    /\ LET e == regChart[index]
       IN  \/ /\ e \in eventEnableMask /\ flag[e]
              /\ saved' = payload[e]
              /\ isr' = "ack"
              /\ UNCHANGED index
           \/ /\ e \notin eventEnableMask \/ ~flag[e]
              /\ index' = index + 1
              /\ UNCHANGED <<isr, saved>>
    /\ UNCHANGED <<procCtrl, entries, line, life, regChart, sender, taskVars,
                   executed>>

(* Acknowledge, then Notify_exec with the payload saved before.            *)
IsrAck ==
    /\ isr = "ack"
    /\ flag' = [flag EXCEPT ![regChart[index]] = FALSE]
    /\ executed' = [executed EXCEPT ![regChart[index]] = saved]
    /\ isr' = "scan" /\ index' = 1 /\ saved' = NoCall
    /\ UNCHANGED <<procCtrl, payload, line, life, regChart, sender, taskVars>>

(* Mutant: the line is cleared when the isr is done, not when it starts.   *)
IsrReturnClears ==
    /\ isr = "scan"
    /\ index > Len(regChart)
    /\ isr' = "idle" /\ index' = 1
    /\ intPending' = FALSE
    /\ UNCHANGED <<procCtrl, entries, intEnabled, life, regChart, sender, saved,
                   taskVars, executed>>

IsrReturn ==
    /\ isr = "scan"
    /\ index > Len(regChart)
    /\ isr' = "idle" /\ index' = 1
    /\ UNCHANGED <<procCtrl, entries, line, life, regChart, sender, saved,
                   taskVars, executed>>

-----------------------------------------------------------------------------
(***************************************************************************)
(* The task.  Notify calls these only for an event whose callback it has   *)
(* just set (register) or is about to clear (unregister).                  *)
(***************************************************************************)
TaskRuns(at) == driver = "on" /\ isr = "idle" /\ task = at

TaskGoes(to, e) == task' = to /\ arg' = e

TaskReturns == TaskGoes("idle", NoEvent) /\ intEnabled' = TRUE

(* The insertion of registerEvent into an ascending chart: the entries     *)
(* above e move up by one, and e takes the place they leave.               *)
Inserted(chart, e) ==
    [j \in 1 .. Len(chart) + 1 |->
        IF j <= Len(chart) /\ chart[j] <= e THEN chart[j]
        ELSE IF j > 1 /\ chart[j - 1] > e THEN chart[j - 1]
        ELSE e]

Register(e) ==
    /\ TaskRuns("idle")
    /\ e \notin ToSet(regChart)
    /\ intEnabled' = FALSE
    /\ regChart' = Inserted(regChart, e)
    /\ TaskGoes("registerClear", e)
    /\ UNCHANGED <<procCtrl, entries, intPending, life, sender, isrVars, executed>>

(* Mutant: the stale flag of an earlier registration is left UP.           *)
RegisterKeepsFlag ==
    /\ TaskRuns("registerClear")
    /\ TaskGoes("registerSet", arg)
    /\ UNCHANGED <<procCtrl, entries, line, life, regChart, sender, isrVars,
                   executed>>

RegisterClear ==
    /\ TaskRuns("registerClear")
    /\ flag' = [flag EXCEPT ![arg] = FALSE]
    /\ TaskGoes("registerSet", arg)
    /\ UNCHANGED <<procCtrl, payload, line, life, regChart, sender, isrVars,
                   executed>>

RegisterSet ==
    /\ TaskRuns("registerSet")
    /\ eventRegMask' = eventRegMask \cup {arg}
    /\ TaskReturns
    /\ UNCHANGED <<recvInitStatus, eventEnableMask, entries, intPending, life,
                   regChart, sender, isrVars, executed>>

Unregister(e) ==
    /\ TaskRuns("idle")
    /\ e \in ToSet(regChart)
    /\ intEnabled' = FALSE
    /\ eventRegMask' = eventRegMask \ {e}
    /\ TaskGoes("unregisterClear", e)
    /\ UNCHANGED <<recvInitStatus, eventEnableMask, entries, intPending, life,
                   regChart, sender, isrVars, executed>>

UnregisterClear ==
    /\ TaskRuns("unregisterClear")
    /\ flag' = [flag EXCEPT ![arg] = FALSE]
    /\ TaskGoes("unregisterRemove", arg)
    /\ UNCHANGED <<procCtrl, payload, line, life, regChart, sender, isrVars,
                   executed>>

(* The compaction of unregisterEvent: the entries above e move down.       *)
Removed(chart, e) ==
    [j \in 1 .. Len(chart) - 1 |->
        IF chart[j] < e THEN chart[j] ELSE chart[j + 1]]

UnregisterRemove ==
    /\ TaskRuns("unregisterRemove")
    /\ regChart' = Removed(regChart, arg)
    /\ TaskReturns
    /\ UNCHANGED <<procCtrl, entries, intPending, life, sender, isrVars, executed>>

DisableEvent(e) ==
    /\ TaskRuns("idle")
    /\ eventEnableMask' = eventEnableMask \ {e}
    /\ TaskGoes("disableLine", e)
    /\ UNCHANGED <<recvInitStatus, eventRegMask, entries, line, life, regChart,
                   sender, isrVars, executed>>

DisableLine ==
    /\ TaskRuns("disableLine")
    /\ intEnabled' = FALSE
    /\ TaskGoes("disableAck", arg)
    /\ UNCHANGED <<procCtrl, entries, intPending, life, regChart, sender,
                   isrVars, executed>>

DisableAck ==
    /\ TaskRuns("disableAck")
    /\ \/ /\ flag[arg]
          /\ flag' = [flag EXCEPT ![arg] = FALSE]
          /\ TaskGoes("disableExec", arg)
          /\ UNCHANGED intEnabled
       \/ /\ ~flag[arg]
          /\ UNCHANGED flag
          /\ TaskReturns
    /\ UNCHANGED <<procCtrl, payload, intPending, life, regChart, sender,
                   isrVars, executed>>

DisableExec ==
    /\ TaskRuns("disableExec")
    /\ executed' = [executed EXCEPT ![arg] = payload[arg]]
    /\ TaskReturns
    /\ UNCHANGED <<procCtrl, entries, intPending, life, regChart, sender, isrVars>>

EnableEvent(e) ==
    /\ TaskRuns("idle")
    /\ eventEnableMask' = eventEnableMask \cup {e}
    /\ UNCHANGED <<recvInitStatus, eventRegMask, entries, line, life, regChart,
                   sender, isrVars, taskVars, executed>>

-----------------------------------------------------------------------------
(***************************************************************************)
(* The life of the driver: Notify_create hands it the notify handle, and   *)
(* Notify_detach deletes it, registered events or not; Notify_attach       *)
(* creates it again over the same memory.                                  *)
(***************************************************************************)
SetNotifyHandle ==
    /\ TaskRuns("idle")
    /\ recvInitStatus' = TRUE
    /\ UNCHANGED <<eventEnableMask, eventRegMask, entries, line, life, regChart,
                   sender, isrVars, taskVars, executed>>

Finalize ==
    /\ TaskRuns("idle")
    /\ restarts < MaxRestarts
    /\ recvInitStatus' = FALSE
    /\ driver' = "off"
    /\ restarts' = restarts + 1
    /\ UNCHANGED <<eventEnableMask, eventRegMask, entries, line, regChart,
                   sender, isrVars, taskVars, executed>>

InstanceInit ==
    /\ driver = "off"
    /\ driver' = "on"
    /\ regChart' = <<>>
    /\ eventEnableMask' = Events
    /\ UNCHANGED <<recvInitStatus, eventRegMask, entries, line, restarts, sender,
                   isrVars, taskVars, executed>>

-----------------------------------------------------------------------------
SendStep(s) == \/ SendTestEnabled(s) \/ SendTestRegistered(s)
               \/ SendWrite(s) \/ SendInterrupt(s)

IsrStep == IsrClear \/ IsrScan \/ IsrAck \/ IsrReturn

TaskStep == \/ RegisterClear \/ RegisterSet \/ UnregisterClear \/ UnregisterRemove
            \/ DisableLine \/ DisableAck \/ DisableExec

Next ==
    \/ \E s \in Senders, c \in Calls : SendCall(s, c)
    \/ \E s \in Senders : SendStep(s) \/ SendTimeOut(s)
    \/ IsrStep
    \/ \E e \in Events : Register(e) \/ Unregister(e)
    \/ \E e \in Disablable : DisableEvent(e) \/ EnableEvent(e)
    \/ TaskStep
    \/ SetNotifyHandle
    \/ Finalize \/ InstanceInit

Spec == Init /\ [][Next]_vars

(***************************************************************************)
(* A call that has begun is scheduled to its end; a poll need not time     *)
(* out.  A pending interrupt preempts the task when its line is enabled,   *)
(* so it is taken although the task may disable the line again and again.  *)
(* Sending threads that share an event may starve each other: liveness is  *)
(* checked for one sending thread.                                         *)
(***************************************************************************)
Fairness ==
    /\ \A s \in Senders : WF_vars(SendStep(s))
    /\ SF_vars(IsrStep)
    /\ WF_vars(TaskStep)

FairSpec == Spec /\ Fairness

-----------------------------------------------------------------------------
(* Every variable has its type.                                            *)
TypeOK ==
    /\ recvInitStatus \in BOOLEAN
    /\ eventEnableMask \subseteq Events /\ eventRegMask \subseteq Events
    /\ flag \in [Events -> BOOLEAN] /\ payload \in [Events -> Payloads]
    /\ intPending \in BOOLEAN /\ intEnabled \in BOOLEAN
    /\ driver \in {"on", "off"} /\ restarts \in 0 .. MaxRestarts
    /\ regChart \in Seq(Events)
    /\ pc \in [Senders -> {"idle", "enabled", "registered", "write", "intSend"}]
    /\ DOMAIN call = Senders
    /\ \A s \in Senders : IF pc[s] \in {"enabled", "registered", "write"}
                          THEN call[s] \in Calls ELSE call[s] = NoCall
    /\ isr \in {"idle", "scan", "ack"}
    /\ index \in 1 .. Len(regChart) + 1
    /\ saved \in Payloads \cup {NoCall}
    /\ task \in {"idle", "registerClear", "registerSet", "unregisterClear",
                 "unregisterRemove", "disableLine", "disableAck", "disableExec"}
    /\ arg \in Events \cup {NoEvent}
    /\ executed \in [Events -> Payloads \cup {Nothing}]

(* The isr finds every registered event once, in the order of the numbers, *)
(* which are the priorities: the chart is ascending.                       *)
ChartAscends ==
    \A i, j \in 1 .. Len(regChart) : i < j => regChart[i] < regChart[j]

(***************************************************************************)
(* No lost interrupt: while the isr is not running, an event that is       *)
(* registered, and never disabled, is UP only if the interrupt is pending  *)
(* or its sender is about to raise it.  The isr clears the line before it  *)
(* scans, and a registration clears the flag an earlier one left behind.   *)
(***************************************************************************)
Served(e) == /\ e \in ToSet(regChart) \ Disablable
             /\ ~(task = "registerClear" /\ arg = e)

NoLostInterrupt ==
    isr = "idle" =>
        \A e \in Events : Served(e) /\ flag[e] => intPending \/ ~HwiFree

(***************************************************************************)
(* A sender that waits for a flag to go down returns, provided its event   *)
(* ends up registered and enabled.  Notify.h promises it "should spin      *)
(* until the previous event has been acknowledged".  It holds for events   *)
(* that are never disabled, across unregistration and re-creation.         *)
(***************************************************************************)
Ready(e) == driver = "on" /\ e \in eventRegMask \cap eventEnableMask
            /\ e \in ToSet(regChart)

Spins(s, e) == pc[s] = "write" /\ call[s].event = e

ReturnsFrom(e) ==
    <>[]Ready(e) => \A s \in Senders : Spins(s, e) ~> ~Spins(s, e)

SendReturns == \A e \in Events \ Disablable : ReturnsFrom(e)

(***************************************************************************)
(* The entries of the events that are never disabled implement one mailbox *)
(* each, see EventMailbox: an event leaves its mailbox when the isr has    *)
(* saved its payload.  (disableEvent acknowledges an event first and reads *)
(* its payload then, when a sender may have overwritten it.)               *)
(***************************************************************************)
MailEvents == Events \ Disablable

Taken(e) == isr = "ack" /\ regChart[index] = e

WaitingPayload ==
    [e \in MailEvents |-> IF flag[e] /\ ~Taken(e) THEN payload[e] ELSE Nothing]

LastDelivered == [e \in MailEvents |-> IF Taken(e) THEN saved ELSE executed[e]]

Mailbox == INSTANCE EventMailbox
    WITH Events <- MailEvents, Overwrites <- FALSE \in WaitClear,
         slot <- WaitingPayload, delivered <- LastDelivered

ImplementsMailbox == Mailbox!MailSpec
=============================================================================
