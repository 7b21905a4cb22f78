------------------------ MODULE NotifyDriverShmProofs ------------------------
(***************************************************************************)
(* The one-slot driver, for any number of sending threads, any events and  *)
(* payloads: the chart is scanned in order, no interrupt is lost, and the  *)
(* entries of the events that are never disabled implement one mailbox     *)
(* each.                                                                   *)
(***************************************************************************)
EXTENDS NotifyDriverShm, SequenceTheorems, TLAPS

USE ShmAssumption
USE DEF vars, procCtrl, entries, line, life, sender, isrVars, taskVars

-----------------------------------------------------------------------------
(***************************************************************************)
(* The two operators of the chart.                                         *)
(***************************************************************************)
LEMMA ElementsOf ==
    ASSUME NEW S, NEW chart \in Seq(S)
    PROVE  /\ ToSet(chart) \subseteq S
           /\ \A x : x \in ToSet(chart) <=> \E i \in 1 .. Len(chart) : chart[i] = x
  BY DEF ToSet

(* What inserting an event makes of a chart.                               *)
LEMMA InsertedIsChart ==
    ASSUME NEW chart \in Seq(Events), NEW e \in Events
    PROVE  /\ Inserted(chart, e) \in Seq(Events)
           /\ Len(Inserted(chart, e)) = Len(chart) + 1
           /\ ToSet(Inserted(chart, e)) \subseteq ToSet(chart) \cup {e}
  <1> DEFINE n == Len(chart) + 1
             new == Inserted(chart, e)
  <1>1. n \in Nat /\ new \in [1 .. n -> Events]
    BY DEF Inserted
  <1>2. new \in Seq(Events) /\ Len(new) = n
    BY <1>1
  <1>3. \A j \in 1 .. n : new[j] = e \/ \E i \in 1 .. Len(chart) : chart[i] = new[j]
    BY DEF Inserted
  <1> QED BY <1>2, <1>3, ElementsOf

(* What removing an event makes of a chart.                                *)
LEMMA RemovedIsChart ==
    ASSUME NEW chart \in Seq(Events), NEW e \in Events
    PROVE  /\ Removed(chart, e) \in Seq(Events)
           /\ \A i \in 1 .. Len(Removed(chart, e)) : i \in 1 .. Len(chart) - 1
           /\ ToSet(Removed(chart, e)) \subseteq ToSet(chart)
  <1> DEFINE n == IF Len(chart) = 0 THEN 0 ELSE Len(chart) - 1
             new == Removed(chart, e)
  <1>1. n \in Nat /\ 1 .. n = 1 .. Len(chart) - 1
    OBVIOUS
  <1>2. new \in [1 .. n -> Events]
    BY <1>1 DEF Removed
  <1>3. new \in Seq(Events) /\ Len(new) = n
    BY <1>1, <1>2
  <1>4. \A j \in 1 .. n : \E i \in 1 .. Len(chart) : chart[i] = new[j]
    BY <1>1 DEF Removed
  <1> QED BY SMTT(30), <1>3, <1>4, ElementsOf

(* An ascending chart stays so, as long as no event is inserted twice.     *)
Ascends(chart) == \A i, j \in 1 .. Len(chart) : i < j => chart[i] < chart[j]

(* Insertion keeps the order.                                              *)
LEMMA InsertedAscends ==
    ASSUME NEW chart \in Seq(Events), NEW e \in Events, Ascends(chart),
           e \notin ToSet(chart)
    PROVE  Ascends(Inserted(chart, e))
  <1> DEFINE new == Inserted(chart, e)
  <1>1. Len(new) = Len(chart) + 1
    BY InsertedIsChart
  <1>2. \A i \in 1 .. Len(chart) : chart[i] \in Nat /\ chart[i] # e
    BY ElementsOf
  <1> SUFFICES ASSUME NEW i \in 1 .. Len(chart) + 1, NEW j \in 1 .. Len(chart) + 1, i < j
               PROVE  new[i] < new[j]
    BY <1>1 DEF Ascends
  <1>3. /\ i < Len(chart) + 1 /\ j > 1 /\ i <= j - 1
        /\ i \in 1 .. Len(chart) /\ j - 1 \in 1 .. Len(chart)
    OBVIOUS
  <1>4. CASE chart[i] <= e
    <2>1. new[i] = chart[i] /\ chart[i] < e
      BY <1>2, <1>3, <1>4 DEF Inserted
    <2> QED BY <1>2, <1>3, <2>1 DEF Inserted, Ascends
  <1>5. CASE chart[i] > e
    <2>1. chart[j - 1] > e /\ (j <= Len(chart) => chart[j] > e)
      BY SMTT(30), <1>2, <1>3, <1>5 DEF Ascends
    <2>2. new[j] = chart[j - 1]
      BY <1>2, <1>3, <2>1 DEF Inserted
    <2>3. new[i] = e \/ (i > 1 /\ new[i] = chart[i - 1])
      BY <1>2, <1>3, <1>5 DEF Inserted
    <2>4. i > 1 => i - 1 \in 1 .. Len(chart) /\ chart[i - 1] < chart[j - 1]
      BY <1>3 DEF Ascends
    <2> QED BY <1>2, <1>3, <2>1, <2>2, <2>3, <2>4
  <1> QED BY <1>2, <1>3, <1>4, <1>5

(* Removal keeps the order.                                                *)
LEMMA RemovedAscends ==
    ASSUME NEW chart \in Seq(Events), NEW e \in Events, Ascends(chart)
    PROVE  Ascends(Removed(chart, e))
  <1> DEFINE new == Removed(chart, e)
  <1>1. \A i \in 1 .. Len(chart) : chart[i] \in Nat
    BY ElementsOf
  <1>2. \A i \in 1 .. Len(new) : i \in 1 .. Len(chart) - 1
    BY RemovedIsChart
  <1> SUFFICES ASSUME NEW i \in 1 .. Len(chart) - 1, NEW j \in 1 .. Len(chart) - 1, i < j
               PROVE  new[i] < new[j]
    BY <1>2 DEF Ascends
  <1>3. i + 1 \in 1 .. Len(chart) /\ j + 1 \in 1 .. Len(chart) /\ i + 1 <= j
    OBVIOUS
  <1> QED BY <1>1, <1>3 DEF Removed, Ascends

-----------------------------------------------------------------------------
(***************************************************************************)
(* The inductive invariant.  ScanInv is NoLostInterrupt while the isr      *)
(* runs: an event that is UP without an interrupt to come is one the scan  *)
(* has yet to reach.  The rest says what the isr and the task hold.        *)
(***************************************************************************)
IsrInv ==
    /\ isr = "idle" => index = 1
    /\ isr = "ack" => index <= Len(regChart) /\ saved \in Payloads
    /\ isr # "idle" => driver = "on"

TaskInv ==
    /\ task # "idle" => arg \in Events
    /\ task \in {"disableLine", "disableAck", "disableExec"} => arg \in Disablable
    /\ Events \ Disablable \subseteq eventEnableMask

Covered(e) ==
    \/ intPending \/ ~HwiFree
    \/ isr = "ack"
    \/ isr = "scan" /\ \E i \in index .. Len(regChart) : regChart[i] = e

ScanInv == \A e \in Events : Served(e) /\ flag[e] => Covered(e)

StateInv == TypeOK /\ IsrInv /\ TaskInv

(* Every variable keeps its type, the isr and the task what they hold.     *)
LEMMA StateStep == StateInv /\ [Next]_vars => StateInv'
  <1> SUFFICES ASSUME StateInv, [Next]_vars PROVE StateInv'
    OBVIOUS
  <1> USE DEF StateInv, TypeOK, IsrInv, TaskInv
  <1>1. ASSUME NEW s \in Senders, NEW c \in Calls, SendCall(s, c) PROVE StateInv'
    BY <1>1 DEF SendCall
  <1>2. ASSUME NEW s \in Senders, SendTestEnabled(s) PROVE StateInv'
    BY SMTT(30), <1>2 DEF SendTestEnabled, Return
  <1>3. ASSUME NEW s \in Senders, SendTestRegistered(s) PROVE StateInv'
    BY <1>3 DEF SendTestRegistered, Return
  <1>4. ASSUME NEW s \in Senders, SendWrite(s) PROVE StateInv'
    <2>1. payload' \in [Events -> Payloads]
      BY <1>4 DEF SendWrite, Calls
    <2> QED BY <1>4, <2>1 DEF SendWrite
  <1>5. ASSUME NEW s \in Senders, SendInterrupt(s) PROVE StateInv'
    BY <1>5 DEF SendInterrupt, Return
  <1>6. ASSUME NEW s \in Senders, SendTimeOut(s) PROVE StateInv'
    BY <1>6 DEF SendTimeOut, Return
  <1>7. CASE IsrClear
    BY <1>7 DEF IsrClear
  <1>8. CASE IsrScan
    <2>1. /\ isr = "scan" /\ index <= Len(regChart)
          /\ \/ isr' = "ack" /\ saved' = payload[regChart[index]] /\ index' = index
             \/ isr' = isr /\ saved' = saved /\ index' = index + 1
          /\ UNCHANGED <<procCtrl, entries, line, life, regChart, sender, taskVars,
                         executed>>
      BY <1>8 DEF IsrScan
    <2>2. index \in 1 .. Len(regChart) /\ Len(regChart) \in Nat
      BY <2>1
    <2>3. payload[regChart[index]] \in Payloads
      BY <2>2, ElementOfSeq
    <2> QED BY <2>1, <2>2, <2>3
  <1>9. CASE IsrAck
    BY <1>9 DEF IsrAck
  <1>10. CASE IsrReturn
    BY <1>10 DEF IsrReturn
  <1>11. ASSUME NEW e \in Events, Register(e) PROVE StateInv'
    <2>1. regChart' \in Seq(Events)
      BY <1>11, InsertedIsChart DEF Register
    <2>2. isr = "idle" /\ index = 1 /\ 1 \in 1 .. Len(regChart') + 1
      BY <1>11, <2>1 DEF Register, TaskRuns
    <2> QED BY <1>11, <2>1, <2>2 DEF Register, TaskGoes
  <1>12. ASSUME NEW e \in Events, Unregister(e) PROVE StateInv'
    BY <1>12 DEF Unregister, TaskRuns, TaskGoes
  <1>13. CASE RegisterClear
    BY <1>13 DEF RegisterClear, TaskRuns, TaskGoes
  <1>14. CASE RegisterSet
    BY <1>14 DEF RegisterSet, TaskRuns, TaskReturns, TaskGoes
  <1>15. CASE UnregisterClear
    BY <1>15 DEF UnregisterClear, TaskRuns, TaskGoes
  <1>16. CASE UnregisterRemove
    <2>1. regChart' \in Seq(Events)
      BY <1>16, RemovedIsChart DEF UnregisterRemove, TaskRuns
    <2>2. isr = "idle" /\ index = 1 /\ 1 \in 1 .. Len(regChart') + 1
      BY <1>16, <2>1 DEF UnregisterRemove, TaskRuns
    <2> QED BY <1>16, <2>1, <2>2 DEF UnregisterRemove, TaskReturns, TaskGoes
  <1>17. ASSUME NEW e \in Disablable, DisableEvent(e) PROVE StateInv'
    BY <1>17 DEF DisableEvent, TaskRuns, TaskGoes
  <1>18. ASSUME NEW e \in Disablable, EnableEvent(e) PROVE StateInv'
    BY <1>18 DEF EnableEvent, TaskRuns
  <1>19. CASE DisableLine
    BY <1>19 DEF DisableLine, TaskRuns, TaskGoes
  <1>20. CASE DisableAck
    BY <1>20 DEF DisableAck, TaskRuns, TaskReturns, TaskGoes
  <1>21. CASE DisableExec
    BY <1>21 DEF DisableExec, TaskRuns, TaskReturns, TaskGoes
  <1>22. CASE SetNotifyHandle
    BY <1>22 DEF SetNotifyHandle, TaskRuns
  <1>23. CASE Finalize
    <2>1. isr = "idle" /\ driver' = "off" /\ restarts' \in 0 .. MaxRestarts
      BY <1>23 DEF Finalize, TaskRuns
    <2> QED BY <1>23, <2>1 DEF Finalize
  <1>24. CASE InstanceInit
    BY <1>24 DEF InstanceInit
  <1>25. CASE UNCHANGED vars
    BY <1>25 DEF Calls
  <1> QED
    BY <1>1, <1>2, <1>3, <1>4, <1>5, <1>6, <1>7, <1>8, <1>9, <1>10, <1>11,
       <1>12, <1>13, <1>14, <1>15, <1>16, <1>17, <1>18, <1>19, <1>20, <1>21,
       <1>22, <1>23, <1>24, <1>25 DEF Next, SendStep, IsrStep, TaskStep

(* Types and control are as they must be in every behaviour.               *)
LEMMA StateInvariant == Spec => []StateInv
  <1>1. Init => StateInv
    <2> SUFFICES ASSUME Init PROVE StateInv
      OBVIOUS
    <2>1. regChart \in Seq(Events) /\ Len(regChart) = 0
      BY DEF Init
    <2>2. flag \in [Events -> BOOLEAN] /\ payload \in [Events -> Payloads]
      BY DEF Init
    <2>3. executed \in [Events -> Payloads \cup {Nothing}]
      BY DEF Init
    <2>4. /\ pc \in [Senders -> {"idle", "enabled", "registered", "write", "intSend"}]
          /\ DOMAIN call = Senders
          /\ \A s \in Senders : pc[s] = "idle" /\ call[s] = NoCall
      BY DEF Init
    <2>5. index \in 1 .. Len(regChart) + 1 /\ saved = NoCall /\ restarts \in 0 .. MaxRestarts
      BY <2>1 DEF Init
    <2>6. TypeOK
      BY <2>1, <2>2, <2>3, <2>4, <2>5 DEF Init, TypeOK
    <2>7. IsrInv /\ TaskInv
      BY DEF Init, IsrInv, TaskInv
    <2> QED BY <2>6, <2>7 DEF StateInv
  <1> QED BY <1>1, StateStep, PTL DEF Spec

(* Every variable keeps its type.                                          *)
THEOREM TypeCorrect == Spec => []TypeOK
  BY StateInvariant, PTL DEF StateInv

-----------------------------------------------------------------------------
(***************************************************************************)
(* The isr finds the registered events in ascending order, each once.      *)
(***************************************************************************)
LEMMA ChartChanges ==
    ASSUME StateInv, [Next]_vars
    PROVE  \/ regChart' = regChart \/ regChart' = <<>>
           \/ \E e \in Events : e \notin ToSet(regChart)
                                /\ regChart' = Inserted(regChart, e)
           \/ arg \in Events /\ regChart' = Removed(regChart, arg)
  BY DEF StateInv, TaskInv, Next, SendCall, SendStep, SendTestEnabled,
         SendTestRegistered, SendWrite, SendInterrupt, SendTimeOut, IsrStep,
         IsrClear, IsrScan, IsrAck, IsrReturn, Register, Unregister, TaskStep,
         RegisterClear, RegisterSet, UnregisterClear, UnregisterRemove,
         DisableEvent, EnableEvent, DisableLine, DisableAck, DisableExec,
         SetNotifyHandle, Finalize, InstanceInit, TaskRuns

(* The chart that the isr scans is sorted by event and names none twice:   *)
(* registerEvent inserts, unregisterEvent closes the gap.                  *)
THEOREM ChartAscending == Spec => []ChartAscends
  <1>1. Init => ChartAscends
    BY DEF Init, ChartAscends
  <1>2. StateInv /\ ChartAscends /\ [Next]_vars => ChartAscends'
    <2> SUFFICES ASSUME StateInv, ChartAscends, [Next]_vars PROVE ChartAscends'
      OBVIOUS
    <2>1. regChart \in Seq(Events) /\ Ascends(regChart)
      BY DEF StateInv, TypeOK, ChartAscends, Ascends
    <2>2. Ascends(regChart')
      <3>1. Ascends(<<>>)
        BY DEF Ascends
      <3> QED BY <2>1, <3>1, ChartChanges, InsertedAscends, RemovedAscends
    <2> QED BY <2>2 DEF ChartAscends, Ascends
  <1> QED BY <1>1, <1>2, StateInvariant, PTL DEF Spec

-----------------------------------------------------------------------------
(***************************************************************************)
(* No interrupt is lost, however many threads send.                        *)
(***************************************************************************)
LEMMA ScanStep == StateInv /\ ScanInv /\ [Next]_vars => ScanInv'
  <1> SUFFICES ASSUME StateInv, ScanInv, [Next]_vars,
                      NEW e \in Events, Served(e)', flag'[e]
               PROVE  Covered(e)'
    BY DEF ScanInv
  <1>t. /\ regChart \in Seq(Events) /\ Len(regChart) \in Nat
        /\ index \in 1 .. Len(regChart) + 1
        /\ flag \in [Events -> BOOLEAN] /\ e \notin Disablable
        /\ pc \in [Senders -> {"idle", "enabled", "registered", "write", "intSend"}]
        /\ e \in eventEnableMask
        /\ task # "idle" => arg \in Events
    BY DEF StateInv, TypeOK, TaskInv, Served
  <1>c. ASSUME UNCHANGED <<flag, intPending, isr, index, regChart>>,
               Served(e), HwiFree' => HwiFree
        PROVE  Covered(e)'
    BY <1>c DEF ScanInv, Covered
  <1>u. ASSUME UNCHANGED <<regChart, task, arg>> PROVE Served(e)
    BY <1>u DEF Served
  <1>1. ASSUME NEW s \in Senders, NEW c \in Calls, SendCall(s, c) PROVE Covered(e)'
    BY <1>1, <1>t, <1>c, <1>u DEF SendCall, HwiFree
  <1>2. ASSUME NEW s \in Senders, SendTestEnabled(s) PROVE Covered(e)'
    BY <1>2, <1>t, <1>c, <1>u DEF SendTestEnabled, Return, HwiFree
  <1>3. ASSUME NEW s \in Senders, SendTestRegistered(s) PROVE Covered(e)'
    BY <1>3, <1>t, <1>c, <1>u DEF SendTestRegistered, Return, HwiFree
  <1>4. ASSUME NEW s \in Senders, SendWrite(s) PROVE Covered(e)'
    BY <1>4, <1>t DEF SendWrite, Covered, HwiFree
  <1>5. ASSUME NEW s \in Senders, SendInterrupt(s) PROVE Covered(e)'
    BY <1>5 DEF SendInterrupt, Covered
  <1>6. ASSUME NEW s \in Senders, SendTimeOut(s) PROVE Covered(e)'
    BY <1>6, <1>t, <1>c, <1>u DEF SendTimeOut, Return, HwiFree
  <1>7. ASSUME IsrClear PROVE Covered(e)'
    <2>1. \E i \in 1 .. Len(regChart) : regChart[i] = e
      BY <1>7, <1>t, ElementsOf DEF IsrClear, Served
    <2> QED BY <1>7, <2>1 DEF IsrClear, Covered
  <1>8. ASSUME IsrScan PROVE Covered(e)'
    <2>1. isr = "scan" /\ Served(e) /\ flag[e] /\ UNCHANGED <<flag, intPending, pc, regChart>>
      BY <1>8, <1>u DEF IsrScan
    <2>2. CASE isr' = "ack"
      BY <2>2 DEF Covered
    <2>3. CASE isr' = "scan" /\ index' = index + 1 /\ regChart[index] # e
      <3>1. \A i \in index .. Len(regChart) : regChart[i] = e => i \in index + 1 .. Len(regChart)
        BY <1>t, <2>3
      <3> QED BY <2>1, <2>3, <3>1 DEF ScanInv, Covered, HwiFree
    <2> QED BY <1>8, <1>t, <2>1, <2>2, <2>3 DEF IsrScan
  <1>9. ASSUME IsrAck PROVE Covered(e)'
    <2>1. \E i \in 1 .. Len(regChart) : regChart[i] = e
      BY <1>9, <1>t, ElementsOf DEF IsrAck, Served
    <2> QED BY <1>9, <2>1 DEF IsrAck, Covered
  <1>10. ASSUME IsrReturn PROVE Covered(e)'
    <2>1. isr = "scan" /\ index > Len(regChart) /\ Served(e) /\ flag[e]
      BY <1>10, <1>u DEF IsrReturn
    <2>2. ~ \E i \in index .. Len(regChart) : regChart[i] = e
      BY <1>t, <2>1
    <2> QED BY <1>10, <2>1, <2>2 DEF ScanInv, Covered, IsrReturn, HwiFree
  <1>11. ASSUME isr = "idle", UNCHANGED <<intPending, isr, pc>>, flag'[e] => flag[e], Served(e)
         PROVE  Covered(e)'
    BY <1>11 DEF ScanInv, Covered, HwiFree
  <1>12. ASSUME NEW d \in Events, Register(d) PROVE Covered(e)'
    <2>1. e \in ToSet(regChart) \cup {d} /\ e # d
      BY <1>12, <1>t, InsertedIsChart DEF Register, TaskGoes, Served
    <2> QED BY <1>12, <1>11, <1>t, <2>1 DEF Register, TaskRuns, Served
  <1>13. ASSUME NEW d \in Events, Unregister(d) PROVE Covered(e)'
    BY <1>13, <1>11, <1>t DEF Unregister, TaskRuns, Served
  <1>14. ASSUME RegisterClear PROVE Covered(e)'
    BY <1>14, <1>11, <1>t DEF RegisterClear, TaskRuns, Served
  <1>15. ASSUME RegisterSet PROVE Covered(e)'
    BY <1>15, <1>11, <1>t DEF RegisterSet, TaskRuns, Served
  <1>16. ASSUME UnregisterClear PROVE Covered(e)'
    BY <1>16, <1>11, <1>t DEF UnregisterClear, TaskRuns, Served
  <1>17. ASSUME UnregisterRemove PROVE Covered(e)'
    <2>1. e \in ToSet(regChart)
      BY <1>17, <1>t, RemovedIsChart DEF UnregisterRemove, TaskRuns, Served
    <2> QED BY <1>17, <1>11, <1>t, <2>1 DEF UnregisterRemove, TaskRuns, Served
  <1>18. ASSUME NEW d \in Disablable, DisableEvent(d) PROVE Covered(e)'
    BY <1>18, <1>11, <1>t DEF DisableEvent, TaskRuns, Served
  <1>19. ASSUME NEW d \in Disablable, EnableEvent(d) PROVE Covered(e)'
    BY <1>19, <1>11, <1>t DEF EnableEvent, TaskRuns, Served
  <1>20. ASSUME DisableLine PROVE Covered(e)'
    BY <1>20, <1>11, <1>t DEF DisableLine, TaskRuns, Served
  <1>21. ASSUME DisableAck PROVE Covered(e)'
    BY <1>21, <1>11, <1>t DEF DisableAck, TaskRuns, Served
  <1>22. ASSUME DisableExec PROVE Covered(e)'
    BY <1>22, <1>11, <1>t DEF DisableExec, TaskRuns, Served
  <1>23. ASSUME SetNotifyHandle PROVE Covered(e)'
    BY <1>23, <1>11, <1>u DEF SetNotifyHandle, TaskRuns
  <1>24. ASSUME Finalize PROVE Covered(e)'
    BY <1>24, <1>11, <1>u DEF Finalize, TaskRuns
  <1>25. ASSUME InstanceInit PROVE FALSE
    BY <1>25 DEF InstanceInit, Served, ToSet
  <1>26. ASSUME UNCHANGED vars PROVE Covered(e)'
    BY <1>26, <1>c, <1>u DEF HwiFree
  <1> QED
    BY <1>1, <1>2, <1>3, <1>4, <1>5, <1>6, <1>7, <1>8, <1>9, <1>10, <1>12,
       <1>13, <1>14, <1>15, <1>16, <1>17, <1>18, <1>19, <1>20, <1>21, <1>22,
       <1>23, <1>24, <1>25, <1>26 DEF Next, SendStep, IsrStep, TaskStep

(* While the isr is idle, an event that is UP, registered and never        *)
(* disabled has its interrupt pending or its sender about to raise it: for *)
(* any number of senders, waiting or timing out, and across deletion and   *)
(* re-creation.                                                            *)
THEOREM InterruptNeverLost == Spec => []NoLostInterrupt
  <1>1. Init => ScanInv
    BY DEF Init, ScanInv
  <1>2. ScanInv => NoLostInterrupt
    BY DEF ScanInv, Covered, NoLostInterrupt
  <1> QED BY <1>1, <1>2, ScanStep, StateInvariant, PTL DEF Spec

-----------------------------------------------------------------------------
(***************************************************************************)
(* The entries implement the mailboxes: every step of the driver is a      *)
(* step of the mailbox of one event, or none.                              *)
(***************************************************************************)
LEMMA MailStep ==
    ASSUME StateInv, [Next]_vars
    PROVE  [Mailbox!MailNext]_(Mailbox!mailVars)
  <1> USE DEF WaitingPayload, LastDelivered, MailEvents, Mailbox!mailVars
  <1>t. /\ regChart \in Seq(Events) /\ index \in 1 .. Len(regChart) + 1
        /\ flag \in [Events -> BOOLEAN] /\ payload \in [Events -> Payloads]
        /\ executed \in [Events -> Payloads \cup {Nothing}]
        /\ isr = "ack" => index <= Len(regChart) /\ saved \in Payloads
    BY DEF StateInv, TypeOK, IsrInv
  <1>q. ASSUME UNCHANGED <<flag, payload, executed, isr, index, saved, regChart>>
        PROVE  UNCHANGED Mailbox!mailVars
    BY <1>q DEF Taken
  <1>i. ASSUME isr = "idle", isr' = "idle", UNCHANGED <<flag, payload, executed>>
        PROVE  UNCHANGED Mailbox!mailVars
    BY <1>i DEF Taken
  <1>1. ASSUME NEW s \in Senders, NEW c \in Calls, SendCall(s, c)
        PROVE  UNCHANGED Mailbox!mailVars
    BY <1>1, <1>q DEF SendCall
  <1>2. ASSUME NEW s \in Senders, SendTestEnabled(s) PROVE UNCHANGED Mailbox!mailVars
    BY <1>2, <1>q DEF SendTestEnabled
  <1>3. ASSUME NEW s \in Senders, SendTestRegistered(s) PROVE UNCHANGED Mailbox!mailVars
    BY <1>3, <1>q DEF SendTestRegistered
  <1>4. ASSUME NEW s \in Senders, SendWrite(s)
        PROVE  Mailbox!MailNext \/ UNCHANGED Mailbox!mailVars
    <2> DEFINE e == call[s].event
               p == call[s].payload
    <2>1. e \in Events /\ p \in Payloads /\ (call[s].wait \/ FALSE \in WaitClear)
      BY <1>4 DEF SendWrite, StateInv, TypeOK, Calls
    <2>2. /\ flag' = [flag EXCEPT ![e] = TRUE] /\ payload' = [payload EXCEPT ![e] = p]
          /\ UNCHANGED <<executed, isr, index, saved, regChart>>
          /\ ~(call[s].wait /\ flag[e])
      BY <1>4 DEF SendWrite, MustWait
    <2>3. \A d \in Events : Taken(d)' = Taken(d)
      BY <2>2 DEF Taken
    <2>4. UNCHANGED LastDelivered
      BY <2>2, <2>3
    <2>5. CASE e \in Disablable \/ Taken(e)
      <3>1. UNCHANGED WaitingPayload
        BY <1>t, <2>2, <2>3, <2>5
      <3> QED BY <2>4, <3>1
    <2>6. CASE e \in MailEvents /\ ~Taken(e)
      <3>1. WaitingPayload' = [WaitingPayload EXCEPT ![e] = p]
        BY <1>t, <2>1, <2>2, <2>3, <2>6
      <3>2. WaitingPayload[e] = "empty" \/ FALSE \in WaitClear
        BY <2>1, <2>2, <2>6 DEF Nothing
      <3> QED
        BY <2>1, <2>4, <2>6, <3>1, <3>2
           DEF Mailbox!MailNext, Mailbox!Send, Mailbox!Empty
    <2> QED BY <2>1, <2>5, <2>6
  <1>5. ASSUME NEW s \in Senders, SendInterrupt(s) PROVE UNCHANGED Mailbox!mailVars
    BY <1>5, <1>q DEF SendInterrupt
  <1>6. ASSUME NEW s \in Senders, SendTimeOut(s) PROVE UNCHANGED Mailbox!mailVars
    BY <1>6, <1>q DEF SendTimeOut
  <1>7. ASSUME IsrClear PROVE UNCHANGED Mailbox!mailVars
    BY <1>7 DEF IsrClear, Taken
  <1>8. ASSUME IsrScan PROVE Mailbox!MailNext \/ UNCHANGED Mailbox!mailVars
    <2> DEFINE e == regChart[index]
    <2>1. /\ isr = "scan" /\ e \in Events
          /\ \/ flag[e] /\ isr' = "ack" /\ saved' = payload[e] /\ index' = index
             \/ isr' = "scan"
          /\ UNCHANGED <<flag, payload, executed, regChart>>
      BY <1>8, <1>t, ElementOfSeq DEF IsrScan
    <2>2. CASE isr' = "scan"
      BY <2>1, <2>2 DEF Taken
    <2>3. CASE isr' = "ack"
      <3>1. \A d \in Events : ~Taken(d) /\ (Taken(d)' <=> d = e)
        BY <2>1, <2>3 DEF Taken
      <3>2. flag[e] /\ saved' = payload[e] /\ payload[e] \in Payloads
        BY <1>t, <2>1, <2>3
      <3>3. CASE e \in Disablable
        BY <2>1, <3>1, <3>3
      <3>4. CASE e \in MailEvents
        <4>1. WaitingPayload[e] = payload[e] /\ payload[e] # "empty"
          BY <3>1, <3>2, <3>4
        <4>2. WaitingPayload' = [WaitingPayload EXCEPT ![e] = "empty"]
          BY <2>1, <3>1, <3>4 DEF Nothing
        <4>3. LastDelivered' = [LastDelivered EXCEPT ![e] = payload[e]]
          BY <2>1, <3>1, <3>2, <3>4
        <4> QED
          BY <3>4, <4>1, <4>2, <4>3
             DEF Mailbox!MailNext, Mailbox!Deliver, Mailbox!Empty
      <3> QED BY <2>1, <3>3, <3>4
    <2> QED BY <2>1, <2>2, <2>3
  <1>9. ASSUME IsrAck PROVE UNCHANGED Mailbox!mailVars
    <2> DEFINE e == regChart[index]
    <2>1. /\ isr = "ack" /\ isr' = "scan" /\ e \in Events
          /\ flag' = [flag EXCEPT ![e] = FALSE] /\ executed' = [executed EXCEPT ![e] = saved]
          /\ UNCHANGED <<payload, regChart>>
      BY <1>9, <1>t, ElementOfSeq DEF IsrAck
    <2>2. \A d \in Events : ~Taken(d)' /\ (Taken(d) <=> d = e)
      BY <2>1 DEF Taken
    <2>3. UNCHANGED WaitingPayload
      BY <1>t, <2>1, <2>2
    <2>4. UNCHANGED LastDelivered
      BY <1>t, <2>1, <2>2
    <2> QED BY <2>3, <2>4
  <1>10. ASSUME IsrReturn PROVE UNCHANGED Mailbox!mailVars
    BY <1>10 DEF IsrReturn, Taken
  <1>11. ASSUME isr = "idle", isr' = "idle", arg \in Events,
                flag' = [flag EXCEPT ![arg] = FALSE], UNCHANGED <<payload, executed>>
         PROVE  Mailbox!MailNext \/ UNCHANGED Mailbox!mailVars
    <2>1. UNCHANGED LastDelivered
      BY <1>11 DEF Taken
    <2>2. CASE arg \in Disablable
      BY <1>t, <1>11, <2>1, <2>2 DEF Taken
    <2>3. CASE arg \in MailEvents
      <3>1. WaitingPayload' = [WaitingPayload EXCEPT ![arg] = "empty"]
        BY <1>t, <1>11, <2>3 DEF Taken, Nothing
      <3> QED
        BY <2>1, <2>3, <3>1 DEF Mailbox!MailNext, Mailbox!Discard, Mailbox!Empty
    <2> QED BY <1>11, <2>2, <2>3
  <1>12. ASSUME NEW e \in Events, Register(e) PROVE UNCHANGED Mailbox!mailVars
    BY <1>12, <1>i DEF Register, TaskRuns
  <1>13. ASSUME NEW e \in Events, Unregister(e) PROVE UNCHANGED Mailbox!mailVars
    BY <1>13, <1>i DEF Unregister, TaskRuns
  <1>14. ASSUME RegisterClear PROVE Mailbox!MailNext \/ UNCHANGED Mailbox!mailVars
    BY <1>14, <1>11 DEF RegisterClear, TaskRuns, StateInv, TaskInv
  <1>15. ASSUME RegisterSet PROVE UNCHANGED Mailbox!mailVars
    BY <1>15, <1>i DEF RegisterSet, TaskRuns
  <1>16. ASSUME UnregisterClear PROVE Mailbox!MailNext \/ UNCHANGED Mailbox!mailVars
    BY <1>16, <1>11 DEF UnregisterClear, TaskRuns, StateInv, TaskInv
  <1>17. ASSUME UnregisterRemove PROVE UNCHANGED Mailbox!mailVars
    BY <1>17, <1>i DEF UnregisterRemove, TaskRuns
  <1>18. ASSUME NEW e \in Disablable, DisableEvent(e) PROVE UNCHANGED Mailbox!mailVars
    BY <1>18, <1>i DEF DisableEvent, TaskRuns
  <1>19. ASSUME NEW e \in Disablable, EnableEvent(e) PROVE UNCHANGED Mailbox!mailVars
    BY <1>19, <1>i DEF EnableEvent, TaskRuns
  <1>20. ASSUME DisableLine PROVE UNCHANGED Mailbox!mailVars
    BY <1>20, <1>i DEF DisableLine, TaskRuns
  <1>21. ASSUME DisableAck PROVE UNCHANGED Mailbox!mailVars
    BY <1>21, <1>i, <1>t DEF DisableAck, TaskRuns, Taken, StateInv, TaskInv
  <1>22. ASSUME DisableExec PROVE UNCHANGED Mailbox!mailVars
    BY <1>22, <1>t DEF DisableExec, TaskRuns, Taken, StateInv, TaskInv
  <1>23. ASSUME SetNotifyHandle PROVE UNCHANGED Mailbox!mailVars
    BY <1>23, <1>i DEF SetNotifyHandle, TaskRuns
  <1>24. ASSUME Finalize PROVE UNCHANGED Mailbox!mailVars
    BY <1>24, <1>i DEF Finalize, TaskRuns
  <1>25. ASSUME InstanceInit PROVE UNCHANGED Mailbox!mailVars
    <2>1. isr = "idle"
      BY <1>25 DEF InstanceInit, StateInv, IsrInv, TypeOK
    <2> QED BY <1>25, <1>i, <2>1 DEF InstanceInit
  <1>26. ASSUME UNCHANGED vars PROVE UNCHANGED Mailbox!mailVars
    BY <1>26, <1>q
  <1> QED
    BY <1>1, <1>2, <1>3, <1>4, <1>5, <1>6, <1>7, <1>8, <1>9, <1>10, <1>12,
       <1>13, <1>14, <1>15, <1>16, <1>17, <1>18, <1>19, <1>20, <1>21, <1>22,
       <1>23, <1>24, <1>25, <1>26 DEF Next, SendStep, IsrStep, TaskStep

(* The entries of the events that are never disabled implement mailboxes:  *)
(* a payload is delivered at most once, and one that is waited for is not  *)
(* overwritten.                                                            *)
THEOREM ShmImplementsMailbox == Spec => ImplementsMailbox
  <1>1. Init => Mailbox!MailInit
    BY DEF Init, Mailbox!MailInit, WaitingPayload, LastDelivered, MailEvents, Taken,
           Nothing, Mailbox!Empty
  <1> QED
    BY <1>1, MailStep, StateInvariant, PTL
       DEF Spec, ImplementsMailbox, Mailbox!MailSpec
=============================================================================
