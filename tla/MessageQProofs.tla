--------------------------- MODULE MessageQProofs ---------------------------
(***************************************************************************)
(* MessageQ never sleeps on a delivered message, nor through an unblock,   *)
(* nor passes a high message over, for any writers and any messages.       *)
(* Queues are found in the table of MessageQTable, for any threads, names  *)
(* and queues.  On Linux the daemon of Lad keeps the queues of its clients *)
(* and answers the one that asked, for any clients, slots and queues.  The *)
(* three share no state.                                                   *)
(***************************************************************************)
EXTENDS MessageQ, MessageQTable, Lad, SequenceTheorems, WellFoundedInduction, TLAPS

USE DEF vars, instance, history

(* What List_get leaves behind was on the list before.                     *)
LEMMA TailElements ==
    ASSUME NEW S, NEW s \in Seq(S), s # <<>>
    PROVE  /\ Head(s) \in S
           /\ Tail(s) \in Seq(S)
           /\ ToSet(Tail(s)) \subseteq ToSet(s)
  <1>1. Head(s) \in S /\ Tail(s) \in Seq(S)
    OBVIOUS
  <1>2. \A i \in 1 .. Len(Tail(s)) : Tail(s)[i] = s[i+1] /\ i+1 \in 1 .. Len(s)
    OBVIOUS
  <1> QED BY <1>1, <1>2 DEF ToSet

(* List_put adds its message and nothing else.                             *)
LEMMA AppendElements ==
    ASSUME NEW S, NEW s \in Seq(S), NEW e \in S
    PROVE  /\ Append(s, e) \in Seq(S)
           /\ ToSet(Append(s, e)) = ToSet(s) \cup {e}
  <1>1. /\ Append(s, e) \in Seq(S)
        /\ Len(Append(s, e)) = Len(s) + 1
        /\ \A i \in 1 .. Len(s) : Append(s, e)[i] = s[i]
        /\ Append(s, e)[Len(s) + 1] = e
    OBVIOUS
  <1>2. DOMAIN Append(s, e) = (1 .. Len(s)) \cup {Len(s) + 1}
    BY <1>1
  <1> QED BY <1>1, <1>2 DEF ToSet

(* List_putHead adds its message and nothing else.                         *)
LEMMA PrependElements ==
    ASSUME NEW S, NEW s \in Seq(S), NEW e \in S
    PROVE  /\ <<e>> \o s \in Seq(S)
           /\ ToSet(<<e>> \o s) = ToSet(s) \cup {e}
  <1> DEFINE t == <<e>> \o s
  <1>1. /\ t \in Seq(S)
        /\ Len(t) = Len(s) + 1
        /\ t[1] = e
        /\ \A i \in 2 .. Len(t) : t[i] = s[i-1] /\ i-1 \in 1 .. Len(s)
        /\ \A i \in 1 .. Len(s) : t[i+1] = s[i] /\ i+1 \in 1 .. Len(t)
    OBVIOUS
  <1>2. DOMAIN t = {1} \cup (2 .. Len(t)) /\ DOMAIN s = 1 .. Len(s)
    BY <1>1
  <1>3. ToSet(t) \subseteq ToSet(s) \cup {e}
    BY <1>1, <1>2 DEF ToSet
  <1>4. ToSet(s) \cup {e} \subseteq ToSet(t)
    <2>1. ASSUME NEW i \in 1 .. Len(s) PROVE s[i] \in ToSet(t)
      <3>1. i+1 \in DOMAIN t /\ t[i+1] = s[i]
        BY <1>1
      <3> QED BY <3>1 DEF ToSet
    <2>2. e \in ToSet(t)
      BY <1>1, <1>2 DEF ToSet
    <2> QED BY <2>1, <2>2, <1>2 DEF ToSet
  <1> QED BY <1>1, <1>3, <1>4

-----------------------------------------------------------------------------
(* Every variable keeps its type.                                          *)
THEOREM TypeCorrect == Spec => []TypeOK
  <1> USE MessageQAssumption DEF TypeOK, Threads, Priorities, Statuses, Timeouts
  <1>1. Init => TypeOK
    <2> SUFFICES ASSUME Init PROVE TypeOK
      OBVIOUS
    <2>1. /\ highList \in Seq(Messages) /\ normalList \in Seq(Messages)
          /\ heap \in SUBSET Messages /\ late \in SUBSET Messages
      BY DEF Init
    <2>2. /\ held \in [Threads -> SUBSET Messages]
          /\ flags \in [Messages -> Priorities]
          /\ cur \in [Threads -> Messages \cup {NoMsg}]
      BY DEF Init
    <2>3. \A t \in Threads : pc[t] = "idle"
      BY DEF Init
    <2> QED BY <2>1, <2>2, <2>3 DEF Init
  <1>2. TypeOK /\ [Next]_vars => TypeOK'
    <2> SUFFICES ASSUME TypeOK, [Next]_vars PROVE TypeOK'
      OBVIOUS
    <2>1. ASSUME NEW w \in Writers, NEW m \in Messages, Alloc(w, m)
          PROVE  TypeOK'
      BY <2>1 DEF Alloc
    <2>2. ASSUME NEW t \in Threads, NEW m \in Messages, Free(t, m)
          PROVE  TypeOK'
      BY <2>2 DEF Free
    <2>3. ASSUME NEW w \in Writers, NEW m \in Messages, NEW p \in Priorities,
                 PutCall(w, m, p)
          PROVE  TypeOK'
      BY <2>3 DEF PutCall
    <2>4. ASSUME NEW w \in Writers, PutLink(w) PROVE TypeOK'
      <3>1. cur[w] \in Messages
        BY <2>4 DEF PutLink
      <3>2. /\ Append(highList, cur[w]) \in Seq(Messages)
            /\ Append(normalList, cur[w]) \in Seq(Messages)
            /\ <<cur[w]>> \o highList \in Seq(Messages)
        BY <3>1, AppendElements, PrependElements
      <3>3. /\ highList' \in Seq(Messages) /\ normalList' \in Seq(Messages)
            /\ late' \in SUBSET Messages
        BY <2>4, <3>1, <3>2 DEF PutLink, LinkedHigh
      <3> QED BY <2>4, <3>3 DEF PutLink
    <2>5. ASSUME NEW w \in Writers, PutSignal(w) PROVE TypeOK'
      BY <2>5 DEF PutSignal
    <2>6. ASSUME NEW w \in Writers, PutReturn(w) PROVE TypeOK'
      BY <2>6 DEF PutReturn
    <2>7. ASSUME NEW w \in Writers, UnblockSignal(w) PROVE TypeOK'
      BY <2>7 DEF UnblockSignal
    <2>8. ASSUME NEW w \in Writers, UnblockRaise(w) PROVE TypeOK'
      BY <2>8 DEF UnblockRaise
    <2>9. ASSUME NEW to \in Timeouts, GetCall(to) PROVE TypeOK'
      <3>1. calledAfterUnblock' \in BOOLEAN
        BY <2>9 DEF GetCall
      <3> QED BY <2>9, <3>1 DEF GetCall
    <2>10. CASE GetPollHigh
      <3>1. CASE highList # <<>>
        <4>1. Head(highList) \in Messages /\ Tail(highList) \in Seq(Messages)
          BY <3>1, TailElements
        <4>2. GetReturnMsg(Head(highList)) /\ highList' = Tail(highList)
          BY <2>10, <3>1 DEF GetPollHigh
        <4>3. held' \in [Threads -> SUBSET Messages]
          BY <4>1, <4>2 DEF GetReturnMsg
        <4>4. cur' \in [Threads -> Messages \cup {NoMsg}]
          BY <4>1, <4>2 DEF GetReturnMsg
        <4>5. \A v \in Writers : cur'[v] = cur[v] /\ pc'[v] = pc[v]
          BY <4>2 DEF GetReturnMsg, GetReturn
        <4> QED
          BY <2>10, <4>1, <4>2, <4>3, <4>4, <4>5 DEF GetPollHigh, GetReturnMsg, GetReturn
      <3>2. CASE highList = <<>>
        BY <2>10, <3>2 DEF GetPollHigh
      <3> QED BY <3>1, <3>2
    <2>11. CASE GetPollNormal
      <3>1. CASE normalList # <<>>
        <4>1. Head(normalList) \in Messages /\ Tail(normalList) \in Seq(Messages)
          BY <3>1, TailElements
        <4>2. GetReturnMsg(Head(normalList)) /\ normalList' = Tail(normalList)
          BY <2>11, <3>1 DEF GetPollNormal
        <4>3. held' \in [Threads -> SUBSET Messages]
          BY <4>1, <4>2 DEF GetReturnMsg
        <4>4. cur' \in [Threads -> Messages \cup {NoMsg}]
          BY <4>1, <4>2 DEF GetReturnMsg
        <4>5. \A v \in Writers : cur'[v] = cur[v] /\ pc'[v] = pc[v]
          BY <4>2 DEF GetReturnMsg, GetReturn
        <4> QED
          BY <2>11, <4>1, <4>2, <4>3, <4>4, <4>5 DEF GetPollNormal, GetReturnMsg, GetReturn
      <3>2. CASE normalList = <<>>
        BY <2>11, <3>2 DEF GetPollNormal
      <3> QED BY <3>1, <3>2
    <2>12. CASE GetWake
      BY <2>12 DEF GetWake
    <2>13. CASE GetTestUnblocked
      BY <2>13 DEF GetTestUnblocked, GetReturn
    <2>14. CASE GetTimeout
      BY <2>14 DEF GetTimeout, GetReturn
    <2>15. CASE GetWaitFails
      BY <2>15 DEF GetWaitFails, GetReturn
    <2>16. CASE UNCHANGED vars
      BY <2>16
    <2> QED
      BY SMTT(30), <2>1, <2>2, <2>3, <2>4, <2>5, <2>6, <2>7, <2>8, <2>9, <2>10, <2>11,
         <2>12, <2>13, <2>14, <2>15, <2>16 DEF Next, PutStep, GetStep
  <1> QED BY <1>1, <1>2, PTL DEF Spec

-----------------------------------------------------------------------------
(***************************************************************************)
(* The inductive form of NoLostWakeup.  It must speak of the reader one    *)
(* step earlier, between its two polls: only the high list has been seen   *)
(* empty then, and only what has been linked there since is spoken for.    *)
(***************************************************************************)
Unspoken(list) == \A m \in ToSet(list) : SignalPending(m)

WakeInv ==
    /\ pc[Reader] = "wait" /\ ~sem => Unspoken(highList) /\ Unspoken(normalList)
    /\ pc[Reader] = "normal" /\ ~sem => Unspoken(highList)

(* The invariant says more than NoLostWakeup.                              *)
LEMMA WakeInvImplies == WakeInv => NoLostWakeup
  BY DEF WakeInv, NoLostWakeup, Unspoken, Queued

(* A thread that is not between its link and its signal, moving elsewhere, *)
(* leaves every pending signal pending.                                    *)
LEMMA PendingKept ==
    ASSUME TypeOK, NEW t \in Threads, NEW p,
           pc' = [pc EXCEPT ![t] = p],
           t \in Writers => pc[t] # "signal",
           \A w \in Writers : pc[w] = "signal" => cur'[w] = cur[w],
           NEW m, SignalPending(m)
    PROVE  SignalPending(m)'
  BY MessageQAssumption DEF SignalPending, TypeOK, Threads

(* Every step keeps the signal of a linked message given or to come.       *)
LEMMA WakeStep == TypeOK /\ TypeOK' /\ WakeInv /\ [Next]_vars => WakeInv'
  <1> SUFFICES ASSUME TypeOK, TypeOK', WakeInv, [Next]_vars PROVE WakeInv'
    OBVIOUS
  <1> USE MessageQAssumption DEF Threads
  <1>q. ASSUME highList' = highList, normalList' = normalList, sem' = sem,
               pc'[Reader] = pc[Reader],
               \A m \in Messages : SignalPending(m) => SignalPending(m)'
        PROVE  WakeInv'
    <2>1. ToSet(highList) \subseteq Messages /\ ToSet(normalList) \subseteq Messages
      BY DEF TypeOK, ToSet
    <2> QED BY <1>q, <2>1 DEF WakeInv, Unspoken
  <1>1. ASSUME NEW w \in Writers, NEW m \in Messages, Alloc(w, m)
        PROVE  WakeInv'
    BY <1>1, <1>q DEF Alloc, SignalPending
  <1>2. ASSUME NEW t \in Threads, NEW m \in Messages, Free(t, m)
        PROVE  WakeInv'
    BY <1>2, <1>q DEF Free, SignalPending
  <1>3. ASSUME NEW w \in Writers, NEW m \in Messages, NEW p \in Priorities,
               PutCall(w, m, p)
        PROVE  WakeInv'
    <2>1. \A n \in Messages : SignalPending(n) => SignalPending(n)'
      BY <1>3, PendingKept DEF PutCall, TypeOK
    <2> QED BY <1>3, <2>1, <1>q DEF PutCall, TypeOK
  <1>4. ASSUME NEW w \in Writers, PutLink(w) PROVE WakeInv'
    <2>1. \A n \in Messages : SignalPending(n) => SignalPending(n)'
      BY <1>4, PendingKept DEF PutLink, TypeOK
    <2>2. SignalPending(cur[w])' /\ cur[w] \in Messages
      BY <1>4 DEF PutLink, SignalPending, TypeOK
    <2>3. /\ ToSet(highList') \subseteq ToSet(highList) \cup {cur[w]}
          /\ ToSet(normalList') \subseteq ToSet(normalList) \cup {cur[w]}
      <3>1. /\ ToSet(Append(highList, cur[w])) = ToSet(highList) \cup {cur[w]}
            /\ ToSet(Append(normalList, cur[w])) = ToSet(normalList) \cup {cur[w]}
            /\ ToSet(<<cur[w]>> \o highList) = ToSet(highList) \cup {cur[w]}
        BY <2>2, AppendElements, PrependElements DEF TypeOK
      <3> QED BY <1>4, <3>1 DEF PutLink
    <2>4. pc'[Reader] = pc[Reader] /\ sem' = sem
      BY <1>4 DEF PutLink, TypeOK
    <2>5. ToSet(highList) \subseteq Messages /\ ToSet(normalList) \subseteq Messages
      BY DEF TypeOK, ToSet
    <2>6. ASSUME NEW s, NEW u, ToSet(s) \subseteq Messages,
                 ToSet(u) \subseteq ToSet(s) \cup {cur[w]}, Unspoken(s)
          PROVE  \A n \in ToSet(u) : SignalPending(n)'
      <3> SUFFICES ASSUME NEW n \in ToSet(u) PROVE SignalPending(n)'
        OBVIOUS
      <3>1. CASE n = cur[w]
        <4>1. pc'[w] = "signal" /\ cur'[w] = n
          BY <1>4, <3>1 DEF PutLink, TypeOK
        <4> QED BY <4>1 DEF SignalPending
      <3>2. CASE n \in ToSet(s)
        BY <2>1, <2>6, <3>2 DEF Unspoken
      <3> QED BY <2>6, <3>1, <3>2
    <2>7. Unspoken(highList) => Unspoken(highList)'
      BY <2>3, <2>5, <2>6 DEF Unspoken
    <2>8. Unspoken(normalList) => Unspoken(normalList)'
      BY <2>3, <2>5, <2>6 DEF Unspoken
    <2> QED BY <2>4, <2>7, <2>8 DEF WakeInv
  <1>5. ASSUME NEW w \in Writers, PutSignal(w) PROVE WakeInv'
    BY <1>5 DEF PutSignal, WakeInv
  <1>6. ASSUME NEW w \in Writers, PutReturn(w) PROVE WakeInv'
    <2>1. \A n \in Messages : SignalPending(n) => SignalPending(n)'
      BY <1>6, PendingKept DEF PutReturn, TypeOK
    <2> QED BY <1>6, <2>1, <1>q DEF PutReturn, TypeOK
  <1>7. ASSUME NEW w \in Writers, UnblockSignal(w) PROVE WakeInv'
    BY <1>7 DEF UnblockSignal, WakeInv
  <1>8. ASSUME NEW w \in Writers, UnblockRaise(w) PROVE WakeInv'
    <2>1. \A n \in Messages : SignalPending(n) => SignalPending(n)'
      BY <1>8, PendingKept DEF UnblockRaise, TypeOK
    <2> QED BY <1>8, <2>1, <1>q DEF UnblockRaise, TypeOK
  <1>9. ASSUME NEW to \in Timeouts, GetCall(to) PROVE WakeInv'
    BY <1>9 DEF GetCall, WakeInv, TypeOK
  <1>10. CASE GetPollHigh
    <2>1. CASE highList # <<>>
      BY <1>10, <2>1 DEF GetPollHigh, GetReturnMsg, GetReturn, WakeInv, TypeOK
    <2>2. CASE highList = <<>>
      <3>1. pc'[Reader] = "normal" /\ ToSet(highList') = {}
        BY <1>10, <2>2 DEF GetPollHigh, ToSet, TypeOK
      <3> QED BY <3>1 DEF WakeInv, Unspoken
    <2> QED BY <2>1, <2>2
  <1>11. CASE GetPollNormal
    <2>1. CASE normalList # <<>>
      BY <1>11, <2>1 DEF GetPollNormal, GetReturnMsg, GetReturn, WakeInv, TypeOK
    <2>2. CASE normalList = <<>>
      <3>1. /\ pc' = [pc EXCEPT ![Reader] = "wait"] /\ pc[Reader] = "normal"
            /\ ToSet(normalList') = {}
            /\ highList' = highList /\ sem' = sem /\ cur' = cur
        BY <1>11, <2>2 DEF GetPollNormal, ToSet
      <3>2. ToSet(highList) \subseteq Messages
        BY DEF TypeOK, ToSet
      <3>3. \A n \in Messages : SignalPending(n) => SignalPending(n)'
        BY <3>1, PendingKept
      <3> QED BY <3>1, <3>2, <3>3 DEF WakeInv, Unspoken, TypeOK
    <2> QED BY <2>1, <2>2
  <1>12. CASE GetWake
    BY <1>12 DEF GetWake, WakeInv, TypeOK
  <1>13. CASE GetTestUnblocked
    BY <1>13 DEF GetTestUnblocked, GetReturn, WakeInv, TypeOK
  <1>14. CASE GetTimeout
    BY <1>14 DEF GetTimeout, GetReturn, WakeInv, TypeOK
  <1>15. CASE GetWaitFails
    BY <1>15 DEF GetWaitFails, GetReturn, WakeInv, TypeOK
  <1>16. CASE UNCHANGED vars
    BY <1>16, <1>q DEF SignalPending
  <1> QED
    BY <1>1, <1>2, <1>3, <1>4, <1>5, <1>6, <1>7, <1>8, <1>9, <1>10, <1>11,
       <1>12, <1>13, <1>14, <1>15, <1>16 DEF Next, PutStep, GetStep

(* MessageQ_get never sleeps on a message whose put has returned, nor on   *)
(* one that will not be signaled: for every set of writers and messages.   *)
THEOREM WakeupNeverLost == Spec => []NoLostWakeup
  <1>1. Init => WakeInv
    BY MessageQAssumption DEF Init, WakeInv, Threads
  <1> QED BY <1>1, TypeCorrect, WakeStep, WakeInvImplies, PTL DEF Spec

-----------------------------------------------------------------------------
(***************************************************************************)
(* The inductive form of NoLostUnblock: a get that has tested the flag and *)
(* found it down, and is anywhere before its next wait, will find either   *)
(* the signal of an unblock or a thread about to give it.                  *)
(***************************************************************************)
UnblockInv ==
    pc[Reader] \in {"high", "normal", "wait"} /\ unblocked /\ ~calledAfterUnblock
        => sem \/ Unblocking

(* Every step keeps an unblock from being forgotten.                       *)
LEMMA UnblockStep == TypeOK /\ UnblockInv /\ [Next]_vars => UnblockInv'
  <1> SUFFICES ASSUME TypeOK, UnblockInv, [Next]_vars PROVE UnblockInv'
    OBVIOUS
  <1> USE MessageQAssumption DEF Threads, TypeOK, UnblockInv, Unblocking
  <1>1. ASSUME NEW w \in Writers, NEW m \in Messages, Alloc(w, m)
        PROVE  UnblockInv'
    BY <1>1 DEF Alloc
  <1>2. ASSUME NEW t \in Threads, NEW m \in Messages, Free(t, m)
        PROVE  UnblockInv'
    BY <1>2 DEF Free
  <1>3. ASSUME NEW w \in Writers, NEW m \in Messages, NEW p \in Priorities,
               PutCall(w, m, p)
        PROVE  UnblockInv'
    BY <1>3 DEF PutCall
  <1>4. ASSUME NEW w \in Writers, PutLink(w) PROVE UnblockInv'
    BY <1>4 DEF PutLink
  <1>5. ASSUME NEW w \in Writers, PutSignal(w) PROVE UnblockInv'
    BY <1>5 DEF PutSignal
  <1>6. ASSUME NEW w \in Writers, PutReturn(w) PROVE UnblockInv'
    BY <1>6 DEF PutReturn
  <1>7. ASSUME NEW w \in Writers, UnblockSignal(w) PROVE UnblockInv'
    BY <1>7 DEF UnblockSignal
  <1>8. ASSUME NEW w \in Writers, UnblockRaise(w) PROVE UnblockInv'
    BY <1>8 DEF UnblockRaise
  <1>9. ASSUME NEW to \in Timeouts, GetCall(to) PROVE UnblockInv'
    <2>1. unblocked' /\ ~calledAfterUnblock' => Unblocking
      BY <1>9 DEF GetCall
    <2>2. \A w \in Writers : pc'[w] = pc[w]
      BY <1>9 DEF GetCall
    <2> QED BY <2>1, <2>2
  <1>10. CASE GetPollHigh
    BY <1>10 DEF GetPollHigh, GetReturnMsg, GetReturn
  <1>11. CASE GetPollNormal
    BY <1>11 DEF GetPollNormal, GetReturnMsg, GetReturn
  <1>12. CASE GetWake
    BY <1>12 DEF GetWake
  <1>13. CASE GetTestUnblocked
    BY <1>13 DEF GetTestUnblocked, GetReturn
  <1>14. CASE GetTimeout
    BY <1>14 DEF GetTimeout, GetReturn
  <1>15. CASE GetWaitFails
    BY <1>15 DEF GetWaitFails, GetReturn
  <1>16. CASE UNCHANGED vars
    BY <1>16
  <1> QED
    BY <1>1, <1>2, <1>3, <1>4, <1>5, <1>6, <1>7, <1>8, <1>9, <1>10, <1>11,
       <1>12, <1>13, <1>14, <1>15, <1>16 DEF Next, PutStep, GetStep

(* A get called before MessageQ_unblock returned never sleeps through it.  *)
THEOREM UnblockNeverLost == Spec => []NoLostUnblock
  <1>1. Init => UnblockInv
    BY DEF Init, UnblockInv
  <1>2. UnblockInv => NoLostUnblock
    BY DEF UnblockInv, NoLostUnblock
  <1> QED BY <1>1, <1>2, TypeCorrect, UnblockStep, PTL DEF Spec

-----------------------------------------------------------------------------
(* Every step keeps what a get has seen of the high list.                  *)
LEMMA HighFirstStep == TypeOK /\ HighFirst /\ [Next]_vars => HighFirst'
  <1> SUFFICES ASSUME TypeOK, HighFirst, [Next]_vars PROVE HighFirst'
    OBVIOUS
  <1> USE MessageQAssumption DEF Threads, HighFirst
  <1>q. ASSUME highList' = highList, late' = late, pc'[Reader] = pc[Reader]
        PROVE  HighFirst'
    BY <1>q
  <1>1. ASSUME NEW w \in Writers, NEW m \in Messages, Alloc(w, m)
        PROVE  HighFirst'
    BY <1>1, <1>q DEF Alloc
  <1>2. ASSUME NEW t \in Threads, NEW m \in Messages, Free(t, m)
        PROVE  HighFirst'
    BY <1>2, <1>q DEF Free
  <1>3. ASSUME NEW w \in Writers, NEW m \in Messages, NEW p \in Priorities,
               PutCall(w, m, p)
        PROVE  HighFirst'
    BY <1>3, <1>q DEF PutCall, TypeOK
  <1>4. ASSUME NEW w \in Writers, PutLink(w) PROVE HighFirst'
    <2>1. cur[w] \in Messages /\ pc'[Reader] = pc[Reader]
      BY <1>4 DEF PutLink, TypeOK
    <2>2. /\ ToSet(Append(highList, cur[w])) = ToSet(highList) \cup {cur[w]}
          /\ ToSet(<<cur[w]>> \o highList) = ToSet(highList) \cup {cur[w]}
      BY <2>1, AppendElements, PrependElements DEF TypeOK
    <2>3. CASE highList' = highList /\ late' = late
      BY <2>1, <2>3, <1>q
    <2>4. CASE ToSet(highList)' = ToSet(highList) \cup {cur[w]} /\ LinkedHigh(cur[w])
      BY <2>1, <2>4 DEF LinkedHigh
    <2> QED BY <1>4, <2>2, <2>3, <2>4 DEF PutLink
  <1>5. ASSUME NEW w \in Writers, PutSignal(w) PROVE HighFirst'
    BY <1>5, <1>q DEF PutSignal, TypeOK
  <1>6. ASSUME NEW w \in Writers, PutReturn(w) PROVE HighFirst'
    BY <1>6, <1>q DEF PutReturn, TypeOK
  <1>7. ASSUME NEW w \in Writers, UnblockSignal(w) PROVE HighFirst'
    BY <1>7, <1>q DEF UnblockSignal, TypeOK
  <1>8. ASSUME NEW w \in Writers, UnblockRaise(w) PROVE HighFirst'
    BY <1>8, <1>q DEF UnblockRaise, TypeOK
  <1>9. ASSUME NEW to \in Timeouts, GetCall(to) PROVE HighFirst'
    BY <1>9 DEF GetCall, TypeOK
  <1>10. CASE GetPollHigh
    <2>1. CASE highList # <<>>
      BY <1>10, <2>1 DEF GetPollHigh, GetReturnMsg, GetReturn, TypeOK
    <2>2. CASE highList = <<>>
      <3>1. ToSet(highList)' = {}
        BY <1>10, <2>2 DEF GetPollHigh, ToSet
      <3> QED BY <3>1
    <2> QED BY <2>1, <2>2
  <1>11. CASE GetPollNormal
    <2>1. CASE normalList # <<>>
      BY <1>11, <2>1 DEF GetPollNormal, GetReturnMsg, GetReturn, TypeOK
    <2>2. CASE normalList = <<>>
      BY <1>11, <2>2 DEF GetPollNormal, TypeOK
    <2> QED BY <2>1, <2>2
  <1>12. CASE GetWake
    BY <1>12 DEF GetWake, TypeOK
  <1>13. CASE GetTestUnblocked
    BY <1>13 DEF GetTestUnblocked, GetReturn, TypeOK
  <1>14. CASE GetTimeout
    BY <1>14 DEF GetTimeout, GetReturn, TypeOK
  <1>15. CASE GetWaitFails
    BY <1>15 DEF GetWaitFails, GetReturn, TypeOK
  <1>16. CASE UNCHANGED vars
    BY <1>16, <1>q
  <1> QED
    BY <1>1, <1>2, <1>3, <1>4, <1>5, <1>6, <1>7, <1>8, <1>9, <1>10, <1>11,
       <1>12, <1>13, <1>14, <1>15, <1>16 DEF Next, PutStep, GetStep

(* A get that goes for a normal message passes over no high message but    *)
(* those linked since it found the high list empty.                        *)
THEOREM PriorityKept == Spec => []HighFirst
  <1>1. Init => HighFirst
    BY MessageQAssumption DEF Init, HighFirst, Threads
  <1> QED BY <1>1, TypeCorrect, HighFirstStep, PTL DEF Spec
-----------------------------------------------------------------------------
(* MessageQTable.  A thread between the steps of a create or a delete owns  *)
(* its object and, until the entry is cleared, its entry; an object that is *)
(* ready has its entry and its name; a thread that puts has its queue in    *)
(* the table that it loaded.                                                *)

OrNil(S) == S \cup {Nil}
ObjStates == [state : {"free", "bare", "ready", "torn"}, index : OrNil(Nat), name : OrNil(Names), named : BOOLEAN]
ThrStates == [pc : {"idle", "slot", "fill", "null", "unname", "table", "entry"}, obj : OrNil(Objects),
              index : OrNil(Nat), version : Nat]
TableTypeOK ==
  /\ growth \in BOOLEAN /\ queues \in Seq(OrNil(Objects)) /\ Len(queues) >= NumQueues
  /\ version \in Nat /\ names \in [Names -> OrNil(Nat)]
  /\ objs \in [Objects -> ObjStates] /\ thr \in [Users -> ThrStates] /\ tableFault \in BOOLEAN

Owning(t)   == thr[t].pc \in {"slot", "fill", "null", "unname"}
HasEntry(t) == thr[t].pc \in {"fill", "null"}
Putting(t)  == thr[t].pc \in {"table", "entry"}

OwnersApart == \A t, u \in Users : Owning(t) /\ Owning(u) /\ thr[t].obj = thr[u].obj => t = u
OwnerHolds(t) ==
  /\ thr[t].obj \in Objects
  /\ objs[thr[t].obj].name \in Names
  /\ objs[thr[t].obj].state = IF thr[t].pc \in {"slot", "fill"} THEN "bare" ELSE "torn"
  /\ thr[t].pc \in {"null", "unname"} => thr[t].index = objs[thr[t].obj].index
  /\ thr[t].pc \in {"slot", "fill"} => ~objs[thr[t].obj].named
  /\ thr[t].pc = "slot" => thr[t].index \in Nat
  /\ thr[t].pc # "slot" => thr[t].index \in Indices
  /\ HasEntry(t) => Entry(thr[t].index) = thr[t].obj
OwnersHold == \A t \in Users : Owning(t) => OwnerHolds(t)
ReadyFound ==
  \A o \in Objects : objs[o].state = "ready" =>
     objs[o].index \in Indices /\ Entry(objs[o].index) = o /\ objs[o].named
EntryLives(i) ==
  \/ objs[Entry(i)].state = "ready" /\ objs[Entry(i)].index = i
  \/ \E t \in Users : HasEntry(t) /\ thr[t].obj = Entry(i) /\ thr[t].index = i
EntriesLive == \A i \in Indices : Entry(i) # Nil => EntryLives(i)
NameFinds(o) ==
  /\ objs[o].name \in Names /\ names[objs[o].name] = objs[o].index /\ objs[o].index \in Nat
  /\ objs[o].state = "ready" \/ (objs[o].state = "torn" /\ \E t \in Users : Owning(t) /\ thr[t].obj = o)
NamedFound == \A o \in Objects : objs[o].named => NameFinds(o)
NamedApart ==
  \A o, q \in Objects : objs[o].named /\ objs[q].named /\ objs[o].name = objs[q].name => o = q
NamesHeld ==
  \A n \in Names : names[n] # Nil => \E o \in Objects : objs[o].named /\ objs[o].name = n
\* The static table that was replaced still has the queue of a thread that loaded it.
PutHolds(t) ==
  /\ thr[t].obj \in Objects /\ objs[thr[t].obj].state = "ready" /\ objs[thr[t].obj].index = thr[t].index
  /\ thr[t].pc = "entry" /\ thr[t].version = 0 /\ version # 0 => old[thr[t].index + 1] = thr[t].obj
PutsHeld == \A t \in Users : Putting(t) => PutHolds(t)

TableIInv ==
  /\ TableTypeOK
  /\ OwnersApart /\ OwnersHold
  /\ ReadyFound /\ EntriesLive
  /\ NamedFound /\ NamedApart /\ NamesHeld
  /\ PutsHeld

\* A set of numbers has a least one.
LEMMA LeastExists ==
  ASSUME NEW S \in SUBSET Nat, S # {} PROVE \E n \in S : \A m \in S : n <= m
<1>1. PICK n \in S : \A m \in S : ~(<<m, n>> \in OpToRel(<, Nat))
  BY NatLessThanWellFounded, WFMin
<1>2. OpToRel(<, Nat) = {ss \in Nat \X Nat : ss[1] < ss[2]}
  BY Zenon DEF OpToRel
<1>3. \A m \in S : ~(m < n)
  BY <1>1, <1>2
<1> QED
  BY <1>3

\* Nil is no object and no index.
LEMMA NilApart == Nil \notin Objects /\ Nil \notin Nat
  BY TableAssumption DEF Nil

\* An entry of the table is set: the others stay.
LEMMA EntrySet ==
  ASSUME TableTypeOK, NEW i \in Indices, NEW x \in OrNil(Objects), queues' = [queues EXCEPT ![i + 1] = x]
  PROVE  /\ queues' \in Seq(OrNil(Objects)) /\ Len(queues') = Len(queues) /\ Indices' = Indices
         /\ queues'[i + 1] = x /\ \A j \in Indices : j # i => queues'[j + 1] = queues[j + 1]
<1>1. queues \in Seq(OrNil(Objects)) /\ Len(queues) \in Nat /\ i \in Nat /\ i + 1 \in 1 .. Len(queues)
  BY DEF TableTypeOK, Indices
<1>2. queues' \in Seq(OrNil(Objects)) /\ Len(queues') = Len(queues) /\ queues'[i + 1] = x
      /\ \A k \in 1 .. Len(queues) : k # i + 1 => queues'[k] = queues[k]
  BY <1>1
<1>3. \A j \in Indices : j + 1 \in 1 .. Len(queues) /\ (j # i => j + 1 # i + 1)
  BY <1>1 DEF Indices
<1> QED
  BY <1>2, <1>3 DEF Indices

\* A larger table: the entries that were there stay.
LEMMA EntryAdded ==
  ASSUME TableTypeOK, NEW x \in OrNil(Objects), queues' = Append(queues, x)
  PROVE  /\ queues' \in Seq(OrNil(Objects)) /\ Len(queues') = Len(queues) + 1 /\ Len(queues) \in Nat
         /\ Indices' = Indices \cup {Len(queues)} /\ Len(queues) \notin Indices
         /\ queues'[Len(queues) + 1] = x /\ \A j \in Indices : queues'[j + 1] = queues[j + 1]
<1>1. queues \in Seq(OrNil(Objects)) /\ Len(queues) \in Nat
  BY DEF TableTypeOK
<1>2. /\ queues' \in Seq(OrNil(Objects)) /\ Len(queues') = Len(queues) + 1 /\ queues'[Len(queues) + 1] = x
      /\ \A k \in 1 .. Len(queues) : queues'[k] = queues[k]
  BY <1>1
<1>3. \A j \in Indices : j + 1 \in 1 .. Len(queues)
  BY <1>1 DEF Indices
<1>4. 0 .. Len(queues) + 1 - 1 = (0 .. Len(queues) - 1) \cup {Len(queues)} /\ Len(queues) \notin 0 .. Len(queues) - 1
  BY <1>1
<1> QED
  BY <1>1, <1>2, <1>3, <1>4 DEF Indices

\* A step that leaves a thread, its object and its entry alone keeps what it holds,
LEMMA OwnerKept ==
  ASSUME NEW u \in Users, OwnerHolds(u), thr'[u] = thr[u], objs'[thr[u].obj] = objs[thr[u].obj],
         Indices \subseteq Indices', HasEntry(u) => queues'[thr[u].index + 1] = queues[thr[u].index + 1]
  PROVE  OwnerHolds(u)'
BY DEF OwnerHolds, HasEntry, Entry

\* one that leaves an entry, its object and its owner alone keeps the entry,
LEMMA EntryKept ==
  ASSUME NEW i \in Indices, EntryLives(i), objs'[Entry(i)] = objs[Entry(i)], queues'[i + 1] = queues[i + 1],
         \A u \in Users : HasEntry(u) /\ thr[u].obj = Entry(i) => thr'[u] = thr[u]
  PROVE  EntryLives(i)'
BY DEF EntryLives, HasEntry, Entry

\* one that leaves an object, its name and its owner alone keeps the name,
LEMMA NameKept ==
  ASSUME NEW q \in Objects, NameFinds(q), objs'[q] = objs[q], names'[objs[q].name] = names[objs[q].name],
         \A u \in Users : Owning(u) /\ thr[u].obj = q => thr'[u] = thr[u]
  PROVE  NameFinds(q)'
BY DEF NameFinds, Owning

\* and one that leaves a putter, its object and the tables alone keeps the put.
LEMMA PutKept ==
  ASSUME NEW u \in Users, PutHolds(u), thr'[u] = thr[u], objs'[thr[u].obj] = objs[thr[u].obj],
         old' = old, version' = version
  PROVE  PutHolds(u)'
BY DEF PutHolds

\* A step changes one thread,
LEMMA OneThread ==
  ASSUME TableTypeOK, NEW t \in Users, NEW x \in ThrStates, thr' = [thr EXCEPT ![t] = x]
  PROVE  thr' \in [Users -> ThrStates] /\ thr'[t] = x /\ \A u \in Users : u # t => thr'[u] = thr[u]
BY DEF TableTypeOK

\* or one object.
LEMMA OneObject ==
  ASSUME TableTypeOK, NEW o \in Objects, NEW x \in ObjStates, objs' = [objs EXCEPT ![o] = x]
  PROVE  objs' \in [Objects -> ObjStates] /\ objs'[o] = x /\ \A q \in Objects : q # o => objs'[q] = objs[q]
BY DEF TableTypeOK

\* An entry has an object or Nil.
LEMMA EntryTyped ==
  ASSUME TableTypeOK, NEW i \in Indices
  PROVE  Entry(i) \in OrNil(Objects) /\ i \in Nat
BY DEF TableTypeOK, Indices, Entry

\* TableInit satisfies the invariant.
LEMMA TableInitInv == TableInit => TableIInv
<1> SUFFICES ASSUME TableInit PROVE TableIInv
  OBVIOUS
<1>1. TableTypeOK
  <2>1. queues \in Seq(OrNil(Objects)) /\ Len(queues) = NumQueues /\ NumQueues \in Nat
    BY TableAssumption DEF TableInit, OrNil
  <2>2. objs \in [Objects -> ObjStates] /\ thr \in [Users -> ThrStates] /\ names \in [Names -> OrNil(Nat)]
    BY DEF TableInit, FreeObject, Idle, ObjStates, ThrStates, OrNil
  <2>3. growth \in BOOLEAN /\ version \in Nat /\ tableFault \in BOOLEAN
    BY Zenon, <2>1 DEF TableInit
  <2>4. Len(queues) >= NumQueues
    BY <2>1
  <2> QED
    BY <2>1, <2>2, <2>3, <2>4 DEF TableTypeOK
<1>2. /\ \A o \in Objects : objs[o].state = "free" /\ ~objs[o].named
      /\ \A t \in Users : thr[t].pc = "idle"
      /\ \A n \in Names : names[n] = Nil
  BY DEF TableInit, FreeObject, Idle
<1>3. \A i \in Indices : Entry(i) = Nil
  BY TableAssumption DEF TableInit, Indices, Entry
<1>4. \A t \in Users : ~Owning(t) /\ ~Putting(t)
  BY <1>2 DEF Owning, Putting
<1>5. OwnersApart /\ OwnersHold /\ PutsHeld
  BY <1>4 DEF OwnersApart, OwnersHold, PutsHeld
<1>6. ReadyFound /\ EntriesLive
  BY <1>2, <1>3 DEF ReadyFound, EntriesLive
<1>7. NamedFound /\ NamedApart /\ NamesHeld
  BY <1>2 DEF NamedFound, NamedApart, NamesHeld
<1> QED
  BY <1>1, <1>5, <1>6, <1>7 DEF TableIInv

\* MessageQ_create takes an object that no thread and no entry has.
LEMMA CreateCallInv ==
  ASSUME TableIInv, NEW t \in Users, NEW o \in Objects, NEW n \in Names, NEW index \in {0, AnyIndex},
         CreateCall(t, o, n, index)
  PROVE  TableIInv'
<1> USE DEF TableIInv
<1>1. thr[t].pc = "idle" /\ objs[o].state = "free" /\ UNCHANGED <<growth, queues, old, version, names, tableFault>>
  BY DEF CreateCall, At
<1>2. PICK x \in ObjStates : objs' = [objs EXCEPT ![o] = x] /\ x.state = "bare" /\ x.name = n /\ ~x.named
  <2>1. [FreeObject EXCEPT !.state = "bare", !.name = n] \in ObjStates
    BY DEF FreeObject, ObjStates, OrNil
  <2> QED
    BY <2>1 DEF CreateCall, FreeObject
<1>3. PICK y \in ThrStates : thr' = [thr EXCEPT ![t] = y] /\ y.pc = "slot" /\ y.obj = o /\ y.index \in Nat
  <2>1. index \in Nat
    BY TableAssumption
  <2>2. [Idle EXCEPT !.pc = "slot", !.obj = o, !.index = index] \in ThrStates
    BY <2>1 DEF Idle, ThrStates, OrNil
  <2> QED
    BY <2>1, <2>2 DEF CreateCall, Idle
<1>4. objs' \in [Objects -> ObjStates] /\ objs'[o] = x /\ \A q \in Objects : q # o => objs'[q] = objs[q]
  BY <1>2, OneObject
<1>5. thr' \in [Users -> ThrStates] /\ thr'[t] = y /\ \A u \in Users : u # t => thr'[u] = thr[u]
  BY <1>3, OneThread
<1>6. \A u \in Users : (Owning(u) => OwnerHolds(u) /\ thr[u].obj # o /\ u # t)
                       /\ (Putting(u) => PutHolds(u) /\ thr[u].obj # o /\ u # t)
  BY <1>1 DEF OwnersHold, PutsHeld, OwnerHolds, PutHolds, Owning, Putting
<1>7. Indices' = Indices /\ ~objs[o].named
  BY <1>1 DEF Indices, NamedFound, NameFinds
<1>8. TableTypeOK'
  BY <1>1, <1>4, <1>5 DEF TableTypeOK
<1>9. OwnersApart'
  BY <1>3, <1>5, <1>6 DEF OwnersApart, Owning
<1>10. OwnersHold'
  <2> SUFFICES ASSUME NEW u \in Users, Owning(u)' PROVE OwnerHolds(u)'
    BY DEF OwnersHold
  <2>1. CASE u = t
    BY <1>2, <1>3, <1>4, <1>5, <2>1 DEF OwnerHolds, HasEntry
  <2>2. CASE u # t
    <3>1. Owning(u) /\ thr'[u] = thr[u]
      BY <1>5, <2>2 DEF Owning
    <3>2. OwnerHolds(u) /\ objs'[thr[u].obj] = objs[thr[u].obj]
      BY <1>4, <1>6, <3>1 DEF OwnerHolds
    <3> QED
      BY <1>1, <1>7, <3>1, <3>2, OwnerKept
  <2> QED
    BY <2>1, <2>2
<1>11. ReadyFound' /\ NamedApart'
  BY <1>1, <1>2, <1>4, <1>7 DEF ReadyFound, NamedApart, Entry
<1>12. EntriesLive'
  <2> SUFFICES ASSUME NEW i \in Indices, Entry(i) # Nil PROVE EntryLives(i)'
    BY <1>1, <1>7 DEF EntriesLive, Entry
  <2>1. EntryLives(i) /\ Entry(i) \in Objects
    BY EntryTyped DEF EntriesLive, OrNil
  <2>2. \A u \in Users : HasEntry(u) => u # t /\ thr[u].obj # o
    BY <1>6 DEF HasEntry, Owning
  <2>3. Entry(i) # o
    BY <1>1, <2>1, <2>2 DEF EntryLives
  <2> QED
    BY <1>1, <1>4, <1>5, <2>1, <2>2, <2>3, EntryKept
<1>13. NamedFound'
  <2> SUFFICES ASSUME NEW q \in Objects, objs'[q].named PROVE NameFinds(q)'
    BY DEF NamedFound
  <2>1. q # o /\ objs'[q] = objs[q]
    BY <1>2, <1>4
  <2> QED
    BY <1>1, <1>5, <1>6, <2>1, NameKept DEF NamedFound
<1>14. NamesHeld'
  BY <1>1, <1>4, <1>7 DEF NamesHeld
<1>15. PutsHeld'
  <2> SUFFICES ASSUME NEW u \in Users, Putting(u)' PROVE PutHolds(u)'
    BY DEF PutsHeld
  <2>1. Putting(u) /\ thr'[u] = thr[u]
    BY <1>3, <1>5 DEF Putting
  <2>2. PutHolds(u) /\ objs'[thr[u].obj] = objs[thr[u].obj]
    BY <1>4, <1>6, <2>1 DEF PutHolds
  <2> QED
    BY <1>1, <2>1, <2>2, PutKept
<1> QED
  BY <1>8, <1>9, <1>10, <1>11, <1>12, <1>13, <1>14, <1>15

\* A reserved entry that is taken: the object, which no entry has, is freed.
LEMMA RefusedInv ==
  ASSUME TableIInv, NEW t \in Users, At(t, "slot"), objs' = [objs EXCEPT ![thr[t].obj] = FreeObject],
         thr' = [thr EXCEPT ![t] = Idle], UNCHANGED <<growth, queues, old, version, names, tableFault>>
  PROVE  TableIInv'
<1> USE DEF TableIInv
<1> DEFINE o == thr[t].obj
<1>1. Owning(t) /\ OwnerHolds(t) /\ o \in Objects /\ objs[o].state = "bare" /\ ~objs[o].named /\ thr[t].pc = "slot"
  BY DEF At, Owning, OwnersHold, OwnerHolds
<1>2. objs' \in [Objects -> ObjStates] /\ objs'[o] = FreeObject /\ \A q \in Objects : q # o => objs'[q] = objs[q]
  <2>1. FreeObject \in ObjStates
    BY DEF FreeObject, ObjStates, OrNil
  <2> QED
    BY <1>1, <2>1, OneObject
<1>3. thr' \in [Users -> ThrStates] /\ thr'[t] = Idle /\ \A u \in Users : u # t => thr'[u] = thr[u]
  <2>1. Idle \in ThrStates
    BY DEF Idle, ThrStates, OrNil
  <2> QED
    BY <2>1, OneThread
<1>4. \A u \in Users : (Owning(u) => OwnerHolds(u) /\ (u # t => thr[u].obj # o))
                       /\ (Putting(u) => PutHolds(u) /\ thr[u].obj # o /\ u # t)
  BY <1>1 DEF OwnersHold, OwnersApart, PutsHeld, PutHolds, Putting
<1>5. Indices' = Indices
  BY DEF Indices
<1> HIDE DEF o
<1>6. TableTypeOK'
  BY <1>2, <1>3 DEF TableTypeOK
<1>7. \A u \in Users : (Owning(u)' => Owning(u) /\ u # t) /\ (Putting(u)' => Putting(u) /\ u # t)
  BY <1>3 DEF Owning, Putting, Idle
<1>8. OwnersApart'
  BY <1>3, <1>7 DEF OwnersApart
<1>9. OwnersHold'
  <2> SUFFICES ASSUME NEW u \in Users, Owning(u)' PROVE OwnerHolds(u)'
    BY DEF OwnersHold
  <2>1. OwnerHolds(u) /\ thr'[u] = thr[u] /\ objs'[thr[u].obj] = objs[thr[u].obj]
    BY <1>2, <1>3, <1>4, <1>7 DEF OwnerHolds
  <2> QED
    BY <1>5, <2>1, OwnerKept
<1>10. ReadyFound' /\ NamedApart'
  BY <1>2, <1>5 DEF ReadyFound, NamedApart, Entry, FreeObject
<1>11. EntriesLive'
  <2> SUFFICES ASSUME NEW i \in Indices, Entry(i) # Nil PROVE EntryLives(i)'
    BY <1>5 DEF EntriesLive, Entry
  <2>1. EntryLives(i) /\ Entry(i) \in Objects
    BY EntryTyped DEF EntriesLive, OrNil
  <2>2. \A u \in Users : HasEntry(u) => u # t /\ thr[u].obj # o
    BY <1>1, <1>4 DEF HasEntry, Owning
  <2>3. Entry(i) # o
    BY <1>1, <2>1, <2>2 DEF EntryLives
  <2> QED
    BY <1>2, <1>3, <2>1, <2>2, <2>3, EntryKept
<1>12. NamedFound'
  <2> SUFFICES ASSUME NEW q \in Objects, objs'[q].named PROVE NameFinds(q)'
    BY DEF NamedFound
  <2>1. q # o /\ objs'[q] = objs[q]
    BY <1>2 DEF FreeObject
  <2>2. \A u \in Users : Owning(u) /\ thr[u].obj = q => thr'[u] = thr[u]
    BY <1>3, <2>1 DEF o
  <2> QED
    BY <2>1, <2>2, NameKept DEF NamedFound
<1>13. NamesHeld'
  BY <1>1, <1>2 DEF NamesHeld
<1>14. PutsHeld'
  <2> SUFFICES ASSUME NEW u \in Users, Putting(u)' PROVE PutHolds(u)'
    BY DEF PutsHeld
  <2>1. PutHolds(u) /\ thr'[u] = thr[u] /\ objs'[thr[u].obj] = objs[thr[u].obj]
    BY <1>2, <1>3, <1>4, <1>7 DEF PutHolds
  <2> QED
    BY <2>1, PutKept
<1> QED
  BY <1>6, <1>8, <1>9, <1>10, <1>11, <1>12, <1>13, <1>14

\* An entry that was Nil, or was not there, gets the object of its thread.
LEMMA EntryTakenInv ==
  ASSUME TableIInv, NEW t \in Users, At(t, "slot"), NEW i \in Nat, i \in Indices', i \in Indices => Entry(i) = Nil,
         Indices' = Indices \cup {i},
         queues' \in Seq(OrNil(Objects)), Len(queues') >= Len(queues), queues'[i + 1] = thr[t].obj,
         \A j \in Indices : j # i => queues'[j + 1] = queues[j + 1],
         thr' = [thr EXCEPT ![t].pc = "fill", ![t].index = i],
         UNCHANGED <<growth, names, objs, tableFault>>, version' \in Nat,
         \A u \in Users : Putting(u) /\ thr[u].pc = "entry" /\ thr[u].version = 0 /\ version' # 0
                            => old'[thr[u].index + 1] = thr[u].obj
  PROVE  TableIInv'
<1> USE DEF TableIInv
<1> DEFINE o == thr[t].obj
           y == [thr[t] EXCEPT !.pc = "fill", !.index = i]
<1>1. Owning(t) /\ OwnerHolds(t) /\ o \in Objects /\ objs[o].state = "bare" /\ ~objs[o].named /\ thr[t].pc = "slot"
  BY DEF At, Owning, OwnersHold, OwnerHolds
<1>2. thr' \in [Users -> ThrStates] /\ thr'[t] = y /\ \A u \in Users : u # t => thr'[u] = thr[u]
  <2>1. thr[t] \in ThrStates
    BY DEF TableTypeOK
  <2>2. y \in ThrStates
    BY <2>1 DEF ThrStates, OrNil
  <2>3. thr' = [thr EXCEPT ![t] = y]
    BY DEF TableTypeOK
  <2> QED
    BY <2>2, <2>3, OneThread
<1>3. y.pc = "fill" /\ y.index = i /\ y.obj = o
  <2>1. thr[t] \in ThrStates
    BY DEF TableTypeOK
  <2> QED
    BY <2>1 DEF ThrStates
<1>4. \A u \in Users : (Owning(u) => OwnerHolds(u) /\ (u # t => thr[u].obj # o)) /\ (Putting(u) => PutHolds(u) /\ u # t)
  BY <1>1 DEF OwnersHold, OwnersApart, PutsHeld, Putting
<1>5. \A j \in Indices : Entry(j) # Nil => j # i /\ Entry(j)' = Entry(j)
  BY DEF Entry
<1>6. o # Nil
  BY <1>1, NilApart
<1> HIDE DEF o, y
<1>7. TableTypeOK'
  <2>1. Len(queues') >= NumQueues
    <3>1. Len(queues) \in Nat /\ Len(queues') \in Nat /\ NumQueues \in Nat /\ Len(queues) >= NumQueues
      BY TableAssumption DEF TableTypeOK
    <3> QED
      BY <3>1
  <2> QED
    BY <1>2, <2>1 DEF TableTypeOK
<1>8. \A u \in Users : (Owning(u)' <=> Owning(u)) /\ thr'[u].obj = thr[u].obj /\ (Putting(u)' => Putting(u) /\ u # t)
  <2> TAKE u \in Users
  <2>1. CASE u = t
    BY <1>1, <1>2, <1>3, <2>1 DEF Owning, Putting, o
  <2>2. CASE u # t
    BY <1>2, <2>2 DEF Owning, Putting
  <2> QED
    BY <2>1, <2>2
<1>9. OwnersApart'
  BY <1>8 DEF OwnersApart
<1>10. OwnersHold'
  <2> SUFFICES ASSUME NEW u \in Users, Owning(u)' PROVE OwnerHolds(u)'
    BY DEF OwnersHold
  <2>1. CASE u = t
    <3>1. OwnerHolds(t)'
      BY <1>1, <1>2, <1>3 DEF OwnerHolds, HasEntry, Entry, o
    <3> QED
      BY <2>1, <3>1
  <2>2. CASE u # t
    <3>1. OwnerHolds(u) /\ thr'[u] = thr[u]
      BY <1>2, <1>4, <1>8, <2>2
    <3>2. ASSUME HasEntry(u) PROVE queues'[thr[u].index + 1] = queues[thr[u].index + 1]
      <4>1. thr[u].index \in Indices /\ Entry(thr[u].index) \in Objects
        BY <3>1, <3>2 DEF OwnerHolds, HasEntry
      <4> QED
        BY <1>5, <4>1, NilApart DEF Entry
    <3> QED
      BY <3>1, <3>2, OwnerKept
  <2> QED
    BY <2>1, <2>2
<1>11. ReadyFound'
  <2> SUFFICES ASSUME NEW q \in Objects, objs[q].state = "ready"
               PROVE  objs[q].index \in Indices' /\ queues'[objs[q].index + 1] = q /\ objs[q].named
    BY DEF ReadyFound, Entry
  <2>1. objs[q].index \in Indices /\ Entry(objs[q].index) = q /\ objs[q].named
    BY DEF ReadyFound
  <2> QED
    BY <1>5, <2>1, NilApart DEF Entry
<1>12. EntriesLive'
  <2> SUFFICES ASSUME NEW j \in Indices', queues'[j + 1] # Nil PROVE EntryLives(j)'
    BY DEF EntriesLive, Entry
  <2>1. CASE j = i
    <3>1. HasEntry(t)' /\ thr'[t].obj = queues'[j + 1] /\ thr'[t].index = j
      BY <1>2, <1>3, <2>1 DEF HasEntry, o
    <3> QED
      BY <3>1 DEF EntryLives, Entry
  <2>2. CASE j # i
    <3>1. j \in Indices /\ Entry(j) # Nil /\ queues'[j + 1] = queues[j + 1]
      BY <2>2 DEF Entry
    <3>2. EntryLives(j)
      BY <3>1 DEF EntriesLive
    <3>3. \A u \in Users : HasEntry(u) => thr'[u] = thr[u]
      BY <1>1, <1>2 DEF HasEntry
    <3> QED
      BY <3>1, <3>2, <3>3, EntryKept
  <2> QED
    BY <2>1, <2>2
<1>13. NamedFound'
  <2> SUFFICES ASSUME NEW q \in Objects, objs[q].named PROVE NameFinds(q)'
    BY DEF NamedFound
  <2>1. NameFinds(q) /\ q # o
    BY <1>1 DEF NamedFound
  <2>2. \A u \in Users : Owning(u) /\ thr[u].obj = q => thr'[u] = thr[u]
    BY <1>2, <2>1 DEF o
  <2> QED
    BY <2>1, <2>2, NameKept
<1>14. NamedApart' /\ NamesHeld'
  BY DEF NamedApart, NamesHeld
<1>15. PutsHeld'
  <2> SUFFICES ASSUME NEW u \in Users, Putting(u)' PROVE PutHolds(u)'
    BY DEF PutsHeld
  <2>1. Putting(u) /\ PutHolds(u) /\ thr'[u] = thr[u]
    BY <1>2, <1>4, <1>8
  <2> QED
    BY <2>1 DEF PutHolds
<1> QED
  BY <1>7, <1>9, <1>10, <1>11, <1>12, <1>13, <1>14, <1>15

\* An entry of the table is taken:
LEMMA TakesInv ==
  ASSUME TableIInv, NEW t \in Users, At(t, "slot"), NEW i \in Indices, Entry(i) = Nil, Takes(t, i),
         UNCHANGED <<growth, old, version, names>>
  PROVE  TableIInv'
<1> USE DEF TableIInv
<1>1. queues' = [queues EXCEPT ![i + 1] = thr[t].obj] /\ thr[t].obj \in OrNil(Objects) /\ i \in Nat
  <2>1. thr[t].obj \in OrNil(Objects)
    BY DEF TableTypeOK, ThrStates
  <2> QED
    BY <2>1, EntryTyped DEF Takes
<1>2. /\ queues' \in Seq(OrNil(Objects)) /\ Len(queues') = Len(queues) /\ Indices' = Indices
      /\ queues'[i + 1] = thr[t].obj /\ \A j \in Indices : j # i => queues'[j + 1] = queues[j + 1]
  BY <1>1, EntrySet
<1>3. Len(queues) \in Nat /\ Len(queues') >= Len(queues)
  BY <1>2 DEF TableTypeOK
<1>4. thr' = [thr EXCEPT ![t].pc = "fill", ![t].index = i] /\ UNCHANGED <<growth, names, objs, tableFault>>
  BY DEF Takes
<1>5. Indices' = Indices \cup {i} /\ i \in Indices' /\ version' \in Nat
  BY <1>2 DEF TableTypeOK
<1>6. \A u \in Users : Putting(u) /\ thr[u].pc = "entry" /\ thr[u].version = 0 /\ version' # 0
                         => old'[thr[u].index + 1] = thr[u].obj
  BY DEF PutsHeld, PutHolds
<1> QED
  BY <1>1, <1>2, <1>3, <1>4, <1>5, <1>6, EntryTakenInv

\* a reserved one,
LEMMA TakesReservedInv ==
  ASSUME TableIInv, NEW t \in Users, TakesReserved(t) PROVE TableIInv'
<1> DEFINE i == thr[t].index
<1>1. At(t, "slot") /\ UNCHANGED <<growth, old, version, names>>
  BY DEF TakesReserved
<1>2. CASE i < NumReserved /\ Entry(i) = Nil
  <2>1. Takes(t, i)
    BY <1>2 DEF TakesReserved
  <2>2. i \in Nat
    BY <1>1 DEF At, TableIInv, OwnersHold, OwnerHolds, Owning
  <2>3. i \in Indices
    BY <1>2, <2>2, TableAssumption DEF TableIInv, TableTypeOK, Indices
  <2> QED
    BY <1>1, <1>2, <2>1, <2>3, TakesInv
<1>3. CASE ~(i < NumReserved /\ Entry(i) = Nil)
  <2>1. /\ objs' = [objs EXCEPT ![thr[t].obj] = FreeObject] /\ thr' = [thr EXCEPT ![t] = Idle]
        /\ UNCHANGED <<queues, tableFault>>
    BY <1>3 DEF TakesReserved
  <2> QED
    BY <1>1, <2>1, RefusedInv
<1> QED
  BY <1>2, <1>3

\* the first of the others that is Nil,
LEMMA TakesHoleInv ==
  ASSUME TableIInv, NEW t \in Users, TakesHole(t) PROVE TableIInv'
<1> DEFINE least == CHOOSE i \in Dynamic : \A j \in Dynamic : i <= j
<1>1. At(t, "slot") /\ Takes(t, least) /\ UNCHANGED <<growth, old, version, names>> /\ Dynamic # {}
  BY DEF TakesHole
<1>2. Dynamic \in SUBSET Nat
  BY DEF Dynamic, TableIInv, TableTypeOK, Indices
<1>3. least \in Dynamic
  BY <1>1, <1>2, LeastExists
<1> HIDE DEF least
<1>4. least \in Indices /\ Entry(least) = Nil
  BY <1>3 DEF Dynamic
<1> QED
  BY <1>1, <1>4, TakesInv

\* or one of a larger table; who put with the first one still finds his queue.
LEMMA GrowInv ==
  ASSUME TableIInv, NEW t \in Users, Grow(t) PROVE TableIInv'
<1> USE DEF TableIInv
<1> DEFINE i == Len(queues)
<1>1. /\ At(t, "slot") /\ queues' = Append(queues, thr[t].obj) /\ version' = version + 1
      /\ old' = (IF version = 0 THEN queues ELSE old)
      /\ thr' = [thr EXCEPT ![t].pc = "fill", ![t].index = i]
      /\ UNCHANGED <<growth, names, objs, tableFault>>
  BY DEF Grow, Copied
<1>2. thr[t].obj \in OrNil(Objects)
  BY DEF TableTypeOK, ThrStates
<1>3. /\ queues' \in Seq(OrNil(Objects)) /\ Len(queues') = Len(queues) + 1 /\ Len(queues) \in Nat
      /\ Indices' = Indices \cup {Len(queues)} /\ Len(queues) \notin Indices
      /\ queues'[Len(queues) + 1] = thr[t].obj /\ \A j \in Indices : queues'[j + 1] = queues[j + 1]
  BY <1>1, <1>2, EntryAdded
<1>4. version \in Nat /\ version' \in Nat
  BY <1>1 DEF TableTypeOK
<1>5. ASSUME NEW u \in Users, Putting(u), thr[u].pc = "entry", thr[u].version = 0
      PROVE  old'[thr[u].index + 1] = thr[u].obj
  <2>1. PutHolds(u)
    BY <1>5 DEF PutsHeld
  <2>2. Entry(thr[u].index) = thr[u].obj
    BY <2>1 DEF PutHolds, ReadyFound
  <2> QED
    BY <1>1, <1>5, <2>1, <2>2 DEF PutHolds, Entry
<1>6. Len(queues') >= Len(queues)
  BY <1>3
<1>7. i \in Nat /\ i \in Indices' /\ i \notin Indices /\ queues'[i + 1] = thr[t].obj
  BY <1>3
<1> QED
  BY <1>1, <1>3, <1>4, <1>5, <1>6, <1>7, EntryTakenInv

\* The name is added, or was taken: the queue is ready, or torn down.
LEMMA FillInv ==
  ASSUME TableIInv, NEW t \in Users, Fill(t) PROVE TableIInv'
<1> USE DEF TableIInv
<1> DEFINE o == thr[t].obj
           n == objs[o].name
           i == thr[t].index
           named == names[n] = Nil
           x == [objs[o] EXCEPT !.state = IF named THEN "ready" ELSE "torn", !.index = i, !.named = named]
           y == IF named THEN Idle ELSE [thr[t] EXCEPT !.pc = "null"]
<1>1. /\ thr[t].pc = "fill" /\ UNCHANGED <<growth, queues, old, version, tableFault>>
      /\ names' = IF named THEN [names EXCEPT ![n] = i] ELSE names
      /\ objs' = [objs EXCEPT ![o].state = IF named THEN "ready" ELSE "torn", ![o].index = i, ![o].named = named]
      /\ thr' = [thr EXCEPT ![t] = IF named THEN Idle ELSE [@ EXCEPT !.pc = "null"]]
  BY DEF Fill, At
<1>2. /\ Owning(t) /\ OwnerHolds(t) /\ HasEntry(t) /\ o \in Objects /\ objs[o].state = "bare" /\ ~objs[o].named
      /\ n \in Names /\ i \in Indices /\ i \in Nat /\ Entry(i) = o
  <2>1. Owning(t) /\ HasEntry(t)
    BY Zenon, <1>1 DEF Owning, HasEntry
  <2>2. OwnerHolds(t) /\ i \in Indices
    BY <1>1, <2>1 DEF OwnersHold, OwnerHolds
  <2>3. i \in Nat
    BY <2>2, EntryTyped
  <2> QED
    BY <1>1, <2>1, <2>2, <2>3 DEF OwnerHolds
<1>3. /\ objs' \in [Objects -> ObjStates] /\ objs'[o] = x /\ \A q \in Objects : q # o => objs'[q] = objs[q]
      /\ x.state = (IF named THEN "ready" ELSE "torn") /\ x.index = i /\ x.named = named /\ x.name = n
  <2>1. objs[o] \in ObjStates
    BY <1>2 DEF TableTypeOK
  <2>2. /\ x \in ObjStates /\ x.state = (IF named THEN "ready" ELSE "torn") /\ x.index = i /\ x.named = named
        /\ x.name = n
    BY <1>2, <2>1 DEF ObjStates, OrNil
  <2>3. objs' = [objs EXCEPT ![o] = x]
    BY <1>1, <1>2 DEF TableTypeOK
  <2> HIDE DEF x, n, named
  <2> QED
    BY <1>2, <2>2, <2>3, OneObject
<1>4. /\ thr' \in [Users -> ThrStates] /\ thr'[t] = y /\ \A u \in Users : u # t => thr'[u] = thr[u]
      /\ (named => y.pc = "idle") /\ (~named => y.pc = "null" /\ y.obj = o /\ y.index = i)
  <2>1. thr[t] \in ThrStates
    BY DEF TableTypeOK
  <2>2. y \in ThrStates /\ (named => y.pc = "idle") /\ (~named => y.pc = "null" /\ y.obj = o /\ y.index = i)
    BY <2>1 DEF ThrStates, OrNil, Idle
  <2>3. thr' = [thr EXCEPT ![t] = y]
    BY <1>1 DEF TableTypeOK
  <2> HIDE DEF y, named
  <2> QED
    BY <2>2, <2>3, OneThread
<1>5. /\ names' \in [Names -> OrNil(Nat)] /\ (named => names'[n] = i)
      /\ \A m \in Names : m # n \/ ~named => names'[m] = names[m]
  BY Zenon, <1>1, <1>2 DEF TableTypeOK, OrNil
<1>6. \A u \in Users : (Owning(u) => OwnerHolds(u) /\ (u # t => thr[u].obj # o))
                       /\ (Putting(u) => PutHolds(u) /\ thr[u].obj # o /\ u # t)
  BY <1>1, <1>2 DEF OwnersHold, OwnersApart, PutsHeld, PutHolds, Putting
<1>7. Indices' = Indices
  BY <1>1 DEF Indices
<1>8. \A q \in Objects : objs[q].named => NameFinds(q) /\ q # o /\ (named => objs[q].name # n)
  <2> SUFFICES ASSUME NEW q \in Objects, objs[q].named PROVE NameFinds(q) /\ q # o /\ (named => objs[q].name # n)
    OBVIOUS
  <2>1. NameFinds(q)
    BY DEF NamedFound
  <2>2. names[objs[q].name] # Nil
    BY <2>1, NilApart DEF NameFinds
  <2> QED
    BY <1>2, <2>1, <2>2
<1>9. \A u \in Users : (Owning(u)' => Owning(u) /\ (u = t => ~named) /\ thr'[u].obj = thr[u].obj) /\ (Putting(u)' => Putting(u) /\ u # t)
  <2> TAKE u \in Users
  <2>1. CASE u = t
    BY <1>2, <1>4, <2>1 DEF Owning, Putting
  <2>2. CASE u # t
    BY <1>4, <2>2 DEF Owning, Putting
  <2> QED
    BY <2>1, <2>2
<1> HIDE DEF o, n, i, named, x, y
<1>10. TableTypeOK'
  BY <1>1, <1>3, <1>4, <1>5 DEF TableTypeOK
<1>11. OwnersApart'
  BY <1>9 DEF OwnersApart
<1>12. OwnersHold'
  <2> SUFFICES ASSUME NEW u \in Users, Owning(u)' PROVE OwnerHolds(u)'
    BY DEF OwnersHold
  <2>1. CASE u = t
    <3>1. ~named /\ thr'[t].pc = "null" /\ thr'[t].obj = o /\ thr'[t].index = i
      BY <1>4, <1>9, <2>1
    <3>2. objs'[o].state = "torn" /\ objs'[o].name = n /\ objs'[o].index = i
      BY <1>3, <3>1
    <3>3. queues'[i + 1] = o
      BY <1>1, <1>2 DEF Entry
    <3>4. OwnerHolds(t)'
      BY <1>2, <1>7, <3>1, <3>2, <3>3 DEF OwnerHolds, Entry
    <3> QED
      BY <2>1, <3>4
  <2>2. CASE u # t
    <3>1. OwnerHolds(u) /\ thr'[u] = thr[u] /\ objs'[thr[u].obj] = objs[thr[u].obj]
      BY <1>3, <1>4, <1>6, <1>9, <2>2 DEF OwnerHolds
    <3> QED
      BY <1>1, <1>7, <3>1, OwnerKept
  <2> QED
    BY <2>1, <2>2
<1>13. ReadyFound'
  <2> SUFFICES ASSUME NEW q \in Objects, objs'[q].state = "ready"
               PROVE  objs'[q].index \in Indices /\ queues[objs'[q].index + 1] = q /\ objs'[q].named
    BY <1>1, <1>7 DEF ReadyFound, Entry
  <2>1. CASE q = o
    BY <1>2, <1>3, <2>1 DEF Entry
  <2>2. CASE q # o
    BY <1>3, <2>2 DEF ReadyFound, Entry
  <2> QED
    BY <2>1, <2>2
<1>14. EntriesLive'
  <2> SUFFICES ASSUME NEW j \in Indices, Entry(j) # Nil PROVE EntryLives(j)'
    BY <1>1, <1>7 DEF EntriesLive, Entry
  <2>1. EntryLives(j) /\ Entry(j) \in Objects
    BY EntryTyped DEF EntriesLive, OrNil
  <2>2. CASE Entry(j) = o
    <3>1. j = i
      <4>1. PICK u \in Users : HasEntry(u) /\ thr[u].obj = o /\ thr[u].index = j
        BY <1>2, <2>1, <2>2 DEF EntryLives
      <4>2. u = t
        BY <1>6, <4>1 DEF HasEntry, Owning
      <4> QED
        BY <4>1, <4>2 DEF i
    <3>2. CASE named
      <4>1. objs'[o].state = "ready" /\ objs'[o].index = j /\ queues'[j + 1] = o
        BY <1>1, <1>3, <2>2, <3>1, <3>2 DEF Entry
      <4> QED
        BY <4>1 DEF EntryLives, Entry
    <3>3. CASE ~named
      <4>1. thr'[t].pc = "null" /\ thr'[t].obj = o /\ thr'[t].index = j /\ queues'[j + 1] = o
        BY <1>1, <1>4, <2>2, <3>1, <3>3 DEF Entry
      <4> QED
        BY <4>1 DEF EntryLives, Entry, HasEntry
    <3> QED
      BY <3>2, <3>3
  <2>3. CASE Entry(j) # o
    <3>1. \A u \in Users : HasEntry(u) /\ thr[u].obj = Entry(j) => thr'[u] = thr[u]
      BY <1>4, <2>3 DEF o
    <3> QED
      BY <1>1, <1>3, <2>1, <2>3, <3>1, EntryKept
  <2> QED
    BY <2>2, <2>3
<1>15. NamedFound'
  <2> SUFFICES ASSUME NEW q \in Objects, objs'[q].named PROVE NameFinds(q)'
    BY DEF NamedFound
  <2>1. CASE q = o
    <3>1. named /\ objs'[o].state = "ready" /\ objs'[o].index = i /\ objs'[o].name = n /\ names'[n] = i
      BY <1>3, <1>5, <2>1
    <3> QED
      BY <1>2, <2>1, <3>1 DEF NameFinds
  <2>2. CASE q # o
    <3>1. objs'[q] = objs[q] /\ NameFinds(q)
      BY <1>3, <1>8, <2>2
    <3>2. names'[objs[q].name] = names[objs[q].name]
      BY <1>3, <1>5, <1>8, <2>2, <3>1 DEF NameFinds
    <3>3. \A u \in Users : Owning(u) /\ thr[u].obj = q => thr'[u] = thr[u]
      BY <1>4, <2>2 DEF o
    <3> QED
      BY <3>1, <3>2, <3>3, NameKept
  <2> QED
    BY <2>1, <2>2
<1>16. NamedApart'
  <2>1. \A q \in Objects : objs'[q].named /\ objs'[q].name = n /\ named => q = o
    BY <1>3, <1>8
  <2>2. objs'[o].named => named /\ objs'[o].name = n
    BY <1>3
  <2>3. \A q, p \in Objects : objs'[q].named /\ objs'[p].named /\ objs'[q].name = objs'[p].name /\ q # o /\ p # o => q = p
    BY <1>3 DEF NamedApart
  <2> QED
    BY <2>1, <2>2, <2>3 DEF NamedApart
<1>17. NamesHeld'
  <2> SUFFICES ASSUME NEW m \in Names, names'[m] # Nil PROVE \E q \in Objects : objs'[q].named /\ objs'[q].name = m
    BY DEF NamesHeld
  <2>1. CASE m = n /\ named
    BY <1>2, <1>3, <2>1
  <2>2. CASE m # n \/ ~named
    <3>1. PICK q \in Objects : objs[q].named /\ objs[q].name = m
      BY <1>5, <2>2 DEF NamesHeld
    <3> QED
      BY <1>3, <1>8, <3>1
  <2> QED
    BY <2>1, <2>2
<1>18. PutsHeld'
  <2> SUFFICES ASSUME NEW u \in Users, Putting(u)' PROVE PutHolds(u)'
    BY DEF PutsHeld
  <2>1. PutHolds(u) /\ thr'[u] = thr[u] /\ objs'[thr[u].obj] = objs[thr[u].obj]
    BY <1>3, <1>4, <1>6, <1>9 DEF PutHolds
  <2> QED
    BY <1>1, <2>1, PutKept
<1> QED
  BY <1>10, <1>11, <1>12, <1>13, <1>14, <1>15, <1>16, <1>17, <1>18

\* MessageQ_delete of a queue to which nobody puts.
LEMMA DeleteCallInv ==
  ASSUME TableIInv, NEW t \in Users, NEW o \in Objects, DeleteCall(t, o) PROVE TableIInv'
<1> USE DEF TableIInv
<1> DEFINE x == [objs[o] EXCEPT !.state = "torn"]
           y == [Idle EXCEPT !.pc = "null", !.obj = o, !.index = objs[o].index]
<1>1. /\ thr[t].pc = "idle" /\ objs[o].state = "ready" /\ UNCHANGED <<growth, queues, old, version, names, tableFault>>
      /\ \A u \in Users : ~(Putting(u) /\ thr[u].index = objs[o].index)
      /\ objs' = [objs EXCEPT ![o].state = "torn"] /\ thr' = [thr EXCEPT ![t] = y]
  BY DEF DeleteCall, At, Putting
<1>2. objs[o] \in ObjStates /\ objs[o].index \in Indices /\ objs[o].index \in Nat /\ Entry(objs[o].index) = o /\ objs[o].named
  BY <1>1, EntryTyped DEF TableTypeOK, ReadyFound
<1>3. /\ objs' \in [Objects -> ObjStates] /\ objs'[o] = x /\ \A q \in Objects : q # o => objs'[q] = objs[q]
      /\ x.state = "torn" /\ x.index = objs[o].index /\ x.named = objs[o].named /\ x.name = objs[o].name
  <2>1. x \in ObjStates /\ x.state = "torn" /\ x.index = objs[o].index /\ x.named = objs[o].named /\ x.name = objs[o].name
    BY <1>2 DEF ObjStates
  <2>2. objs' = [objs EXCEPT ![o] = x]
    BY <1>1 DEF TableTypeOK
  <2> HIDE DEF x
  <2> QED
    BY <2>1, <2>2, OneObject
<1>4. /\ thr' \in [Users -> ThrStates] /\ thr'[t] = y /\ \A u \in Users : u # t => thr'[u] = thr[u]
      /\ y.pc = "null" /\ y.obj = o /\ y.index = objs[o].index
  <2>1. y \in ThrStates /\ y.pc = "null" /\ y.obj = o /\ y.index = objs[o].index
    BY <1>2 DEF ThrStates, OrNil, Idle
  <2> HIDE DEF y
  <2> QED
    BY <1>1, <2>1, OneThread
<1>5. \A u \in Users : (Owning(u) => OwnerHolds(u) /\ thr[u].obj # o /\ u # t)
                       /\ (Putting(u) => PutHolds(u) /\ thr[u].obj # o /\ u # t)
  <2> TAKE u \in Users
  <2>1. ASSUME Owning(u) PROVE OwnerHolds(u) /\ thr[u].obj # o /\ u # t
    <3>1. OwnerHolds(u) /\ objs[thr[u].obj].state \in {"bare", "torn"}
      BY <2>1 DEF OwnersHold, OwnerHolds
    <3> QED
      BY <1>1, <2>1, <3>1 DEF Owning
  <2>2. ASSUME Putting(u) PROVE PutHolds(u) /\ thr[u].obj # o /\ u # t
    BY <1>1, <2>2 DEF PutsHeld, PutHolds, Putting
  <2> QED
    BY <2>1, <2>2
<1>6. Indices' = Indices
  BY <1>1 DEF Indices
<1>7. NameFinds(o)
  BY <1>2 DEF NamedFound
<1> HIDE DEF x, y
<1>8. TableTypeOK'
  BY <1>1, <1>3, <1>4 DEF TableTypeOK
<1>9. OwnersApart'
  BY <1>4, <1>5 DEF OwnersApart, Owning
<1>10. OwnersHold'
  <2> SUFFICES ASSUME NEW u \in Users, Owning(u)' PROVE OwnerHolds(u)'
    BY DEF OwnersHold
  <2>1. CASE u = t
    <3>1. thr'[t].pc = "null" /\ thr'[t].obj = o /\ thr'[t].index = objs[o].index
      BY <1>4
    <3>2. objs'[o].state = "torn" /\ objs'[o].name \in Names /\ objs'[o].index = objs[o].index
      BY <1>3, <1>7 DEF NameFinds
    <3>3. queues'[objs[o].index + 1] = o /\ objs[o].index \in Indices'
      BY <1>1, <1>2, <1>6 DEF Entry
    <3>4. OwnerHolds(t)'
      BY <3>1, <3>2, <3>3 DEF OwnerHolds, Entry
    <3> QED
      BY <2>1, <3>4
  <2>2. CASE u # t
    <3>1. Owning(u) /\ thr'[u] = thr[u]
      BY <1>4, <2>2 DEF Owning
    <3>2. OwnerHolds(u) /\ objs'[thr[u].obj] = objs[thr[u].obj]
      BY <1>3, <1>5, <3>1 DEF OwnerHolds
    <3> QED
      BY <1>1, <1>6, <3>1, <3>2, OwnerKept
  <2> QED
    BY <2>1, <2>2
<1>11. ReadyFound'
  BY <1>1, <1>3, <1>6 DEF ReadyFound, Entry
<1>12. NamedApart'
  <2>1. \A q \in Objects : objs'[q].named = objs[q].named /\ objs'[q].name = objs[q].name
    BY <1>3
  <2> QED
    BY <2>1 DEF NamedApart
<1>13. EntriesLive'
  <2> SUFFICES ASSUME NEW j \in Indices, Entry(j) # Nil PROVE EntryLives(j)'
    BY <1>1, <1>6 DEF EntriesLive, Entry
  <2>1. EntryLives(j) /\ Entry(j) \in Objects
    BY EntryTyped DEF EntriesLive, OrNil
  <2>2. \A u \in Users : HasEntry(u) => u # t /\ thr[u].obj # o
    BY <1>5 DEF HasEntry, Owning
  <2>3. CASE Entry(j) = o
    <3>1. objs[o].index = j
      BY <2>1, <2>2, <2>3 DEF EntryLives
    <3>2. thr'[t].pc = "null" /\ thr'[t].obj = o /\ thr'[t].index = j /\ queues'[j + 1] = o
      BY <1>1, <1>4, <2>3, <3>1 DEF Entry
    <3> QED
      BY <3>2 DEF EntryLives, Entry, HasEntry
  <2>4. CASE Entry(j) # o
    BY <1>1, <1>3, <1>4, <2>1, <2>2, <2>4, EntryKept
  <2> QED
    BY <2>3, <2>4
<1>14. NamedFound'
  <2> SUFFICES ASSUME NEW q \in Objects, objs'[q].named PROVE NameFinds(q)'
    BY DEF NamedFound
  <2>1. CASE q = o
    <3>1. Owning(t)' /\ thr'[t].obj = o
      BY <1>4 DEF Owning
    <3>2. objs'[o].state = "torn" /\ objs'[o].name = objs[o].name /\ objs'[o].index = objs[o].index
      BY <1>3
    <3>3. NameFinds(o)'
      BY <1>1, <1>7, <3>1, <3>2 DEF NameFinds
    <3> QED
      BY <2>1, <3>3
  <2>2. CASE q # o
    <3>1. objs'[q] = objs[q] /\ NameFinds(q)
      BY <1>3, <2>2 DEF NamedFound
    <3> QED
      BY <1>1, <1>4, <1>5, <3>1, NameKept
  <2> QED
    BY <2>1, <2>2
<1>15. NamesHeld'
  <2>1. \A q \in Objects : objs'[q].named = objs[q].named /\ objs'[q].name = objs[q].name
    BY <1>3
  <2> QED
    BY <1>1, <2>1 DEF NamesHeld
<1>16. PutsHeld'
  <2> SUFFICES ASSUME NEW u \in Users, Putting(u)' PROVE PutHolds(u)'
    BY DEF PutsHeld
  <2>1. Putting(u) /\ thr'[u] = thr[u]
    BY <1>4 DEF Putting
  <2>2. PutHolds(u) /\ objs'[thr[u].obj] = objs[thr[u].obj]
    BY <1>3, <1>5, <2>1 DEF PutHolds
  <2> QED
    BY <1>1, <2>1, <2>2, PutKept
<1> QED
  BY <1>8, <1>9, <1>10, <1>11, <1>12, <1>13, <1>14, <1>15, <1>16

\* The entry is cleared: it was that of no other queue.
LEMMA DeleteNullsInv ==
  ASSUME TableIInv, NEW t \in Users, DeleteNulls(t) PROVE TableIInv'
<1> USE DEF TableIInv
<1> DEFINE o == thr[t].obj
           i == thr[t].index
           y == [thr[t] EXCEPT !.pc = "unname"]
<1>1. /\ thr[t].pc = "null" /\ UNCHANGED <<growth, old, version, names, objs, tableFault>>
      /\ queues' = [queues EXCEPT ![i + 1] = Nil] /\ thr' = [thr EXCEPT ![t].pc = "unname"]
  BY DEF DeleteNulls, At, UserGoto
<1>2. Owning(t) /\ OwnerHolds(t) /\ o \in Objects /\ objs[o].state = "torn" /\ i \in Indices /\ Entry(i) = o /\ HasEntry(t)
  BY <1>1 DEF OwnersHold, OwnerHolds, Owning, HasEntry
<1>3. /\ queues' \in Seq(OrNil(Objects)) /\ Len(queues') = Len(queues) /\ Indices' = Indices
      /\ queues'[i + 1] = Nil /\ \A j \in Indices : j # i => queues'[j + 1] = queues[j + 1]
  <2>1. Nil \in OrNil(Objects)
    BY DEF OrNil
  <2> HIDE DEF i
  <2> QED
    BY <1>1, <1>2, <2>1, EntrySet
<1>4. /\ thr' \in [Users -> ThrStates] /\ thr'[t] = y /\ \A u \in Users : u # t => thr'[u] = thr[u]
      /\ y.pc = "unname" /\ y.obj = o /\ y.index = i
  <2>1. thr[t] \in ThrStates
    BY DEF TableTypeOK
  <2>2. y \in ThrStates /\ y.pc = "unname" /\ y.obj = o /\ y.index = i
    BY <2>1 DEF ThrStates
  <2>3. thr' = [thr EXCEPT ![t] = y]
    BY <1>1 DEF TableTypeOK
  <2> HIDE DEF y
  <2> QED
    BY <2>2, <2>3, OneThread
<1>5. \A u \in Users : (Owning(u) => OwnerHolds(u) /\ (u # t => thr[u].obj # o)) /\ (Putting(u) => PutHolds(u) /\ u # t)
  BY <1>1, <1>2 DEF OwnersHold, OwnersApart, PutsHeld, Putting
<1>6. \A j \in Indices : Entry(j) # o => j # i /\ queues'[j + 1] = queues[j + 1]
  BY <1>2, <1>3
<1> HIDE DEF o, i, y
<1>7. TableTypeOK'
  BY <1>1, <1>3, <1>4 DEF TableTypeOK
<1>8. \A u \in Users : (Owning(u)' => Owning(u)) /\ thr'[u].obj = thr[u].obj /\ (Putting(u)' => Putting(u) /\ u # t)
  <2> TAKE u \in Users
  <2>1. CASE u = t
    BY <1>2, <1>4, <2>1 DEF Owning, Putting, o
  <2>2. CASE u # t
    BY <1>4, <2>2 DEF Owning, Putting
  <2> QED
    BY <2>1, <2>2
<1>9. OwnersApart'
  BY <1>8 DEF OwnersApart
<1>10. OwnersHold'
  <2> SUFFICES ASSUME NEW u \in Users, Owning(u)' PROVE OwnerHolds(u)'
    BY DEF OwnersHold
  <2>1. CASE u = t
    <3>1. i = objs[o].index /\ objs[o].name \in Names
      BY <1>1, <1>2 DEF OwnerHolds, o, i
    <3>2. OwnerHolds(t)'
      BY <1>1, <1>2, <1>3, <1>4, <3>1 DEF OwnerHolds, HasEntry
    <3> QED
      BY <2>1, <3>2
  <2>2. CASE u # t
    <3>1. OwnerHolds(u) /\ thr'[u] = thr[u] /\ thr[u].obj # o
      BY <1>4, <1>5, <1>8, <2>2
    <3>2. ASSUME HasEntry(u) PROVE queues'[thr[u].index + 1] = queues[thr[u].index + 1]
      <4>1. thr[u].index \in Indices /\ Entry(thr[u].index) # o
        BY <3>1, <3>2 DEF OwnerHolds, HasEntry
      <4> QED
        BY <1>6, <4>1
    <3> QED
      BY <1>1, <1>3, <3>1, <3>2, OwnerKept
  <2> QED
    BY <2>1, <2>2
<1>11. ReadyFound'
  <2> SUFFICES ASSUME NEW q \in Objects, objs[q].state = "ready"
               PROVE  objs[q].index \in Indices /\ queues'[objs[q].index + 1] = q /\ objs[q].named
    BY <1>1, <1>3 DEF ReadyFound, Entry
  <2>1. objs[q].index \in Indices /\ Entry(objs[q].index) = q /\ objs[q].named /\ q # o
    BY <1>2 DEF ReadyFound
  <2> QED
    BY <1>6, <2>1 DEF Entry
<1>12. EntriesLive'
  <2> SUFFICES ASSUME NEW j \in Indices, queues'[j + 1] # Nil PROVE EntryLives(j)'
    BY <1>3 DEF EntriesLive, Entry
  <2>1. j # i /\ queues'[j + 1] = queues[j + 1] /\ Entry(j) # Nil
    BY <1>3 DEF Entry
  <2>2. EntryLives(j)
    BY <2>1 DEF EntriesLive
  <2>3. Entry(j) # o
    <3> SUFFICES ASSUME Entry(j) = o PROVE FALSE
      OBVIOUS
    <3>1. PICK u \in Users : HasEntry(u) /\ thr[u].obj = o /\ thr[u].index = j
      BY <1>2, <2>2 DEF EntryLives
    <3>2. u = t
      BY <1>5, <3>1 DEF HasEntry, Owning
    <3> QED
      BY <2>1, <3>1, <3>2 DEF i
  <2>4. \A u \in Users : HasEntry(u) /\ thr[u].obj = Entry(j) => thr'[u] = thr[u]
    BY <1>4, <2>3 DEF o
  <2> QED
    BY <1>1, <2>1, <2>2, <2>4, EntryKept
<1>13. NamedFound'
  <2> SUFFICES ASSUME NEW q \in Objects, objs[q].named PROVE NameFinds(q)'
    BY <1>1 DEF NamedFound
  <2>1. NameFinds(q)
    BY DEF NamedFound
  <2>2. \A u \in Users : Owning(u) => Owning(u)'
    <3> TAKE u \in Users
    <3>1. CASE u = t
      BY <1>4, <3>1 DEF Owning
    <3>2. CASE u # t
      BY <1>4, <3>2 DEF Owning
    <3> QED
      BY <3>1, <3>2
  <2> QED
    BY <1>1, <1>8, <2>1, <2>2 DEF NameFinds
<1>14. NamedApart' /\ NamesHeld'
  BY <1>1 DEF NamedApart, NamesHeld
<1>15. PutsHeld'
  <2> SUFFICES ASSUME NEW u \in Users, Putting(u)' PROVE PutHolds(u)'
    BY DEF PutsHeld
  <2>1. PutHolds(u) /\ thr'[u] = thr[u]
    BY <1>4, <1>5, <1>8
  <2> QED
    BY <1>1, <2>1, PutKept
<1> QED
  BY <1>7, <1>9, <1>10, <1>11, <1>12, <1>13, <1>14, <1>15

\* The name is removed and the object freed: no entry has it.
LEMMA DeleteUnnamesInv ==
  ASSUME TableIInv, NEW t \in Users, DeleteUnnames(t) PROVE TableIInv'
<1> USE DEF TableIInv
<1> DEFINE o == thr[t].obj
<1>1. /\ thr[t].pc = "unname" /\ UNCHANGED <<growth, queues, old, version, tableFault>>
      /\ names' = IF objs[o].named THEN [names EXCEPT ![objs[o].name] = Nil] ELSE names
      /\ objs' = [objs EXCEPT ![o] = FreeObject] /\ thr' = [thr EXCEPT ![t] = Idle]
  BY DEF DeleteUnnames, At
<1>2. Owning(t) /\ OwnerHolds(t) /\ o \in Objects /\ objs[o].state = "torn" /\ objs[o].name \in Names
  BY <1>1 DEF OwnersHold, OwnerHolds, Owning
<1>3. objs' \in [Objects -> ObjStates] /\ objs'[o] = FreeObject /\ \A q \in Objects : q # o => objs'[q] = objs[q]
  <2>1. FreeObject \in ObjStates
    BY DEF FreeObject, ObjStates, OrNil
  <2> QED
    BY <1>1, <1>2, <2>1, OneObject
<1>4. thr' \in [Users -> ThrStates] /\ thr'[t] = Idle /\ \A u \in Users : u # t => thr'[u] = thr[u]
  <2>1. Idle \in ThrStates
    BY DEF Idle, ThrStates, OrNil
  <2> QED
    BY <1>1, <2>1, OneThread
<1>5. /\ names' \in [Names -> OrNil(Nat)] /\ (objs[o].named => names'[objs[o].name] = Nil)
      /\ \A m \in Names : m # objs[o].name \/ ~objs[o].named => names'[m] = names[m]
  BY <1>1, <1>2 DEF TableTypeOK, OrNil
<1>6. \A u \in Users : (Owning(u) => OwnerHolds(u) /\ (u # t => thr[u].obj # o))
                       /\ (Putting(u) => PutHolds(u) /\ thr[u].obj # o /\ u # t)
  BY <1>1, <1>2 DEF OwnersHold, OwnersApart, PutsHeld, PutHolds, Putting
<1>7. Indices' = Indices
  BY <1>1 DEF Indices
<1>8. \A q \in Objects : objs'[q].named =>
         /\ q # o /\ objs'[q] = objs[q] /\ NameFinds(q) /\ names'[objs[q].name] = names[objs[q].name]
  <2> SUFFICES ASSUME NEW q \in Objects, objs'[q].named
               PROVE  q # o /\ objs'[q] = objs[q] /\ NameFinds(q) /\ names'[objs[q].name] = names[objs[q].name]
    OBVIOUS
  <2>1. q # o /\ objs'[q] = objs[q]
    BY <1>3 DEF FreeObject
  <2>2. NameFinds(q) /\ objs[q].name \in Names
    BY <2>1 DEF NamedFound, NameFinds
  <2>3. objs[o].named => objs[q].name # objs[o].name
    BY <1>2, <2>1 DEF NamedApart
  <2> QED
    BY <1>5, <2>1, <2>2, <2>3
<1> HIDE DEF o
<1>9. TableTypeOK'
  BY <1>1, <1>3, <1>4, <1>5 DEF TableTypeOK
<1>10. \A u \in Users : (Owning(u)' => Owning(u) /\ u # t) /\ (Putting(u)' => Putting(u) /\ u # t)
  BY <1>4 DEF Owning, Putting, Idle
<1>11. OwnersApart'
  BY <1>4, <1>10 DEF OwnersApart
<1>12. OwnersHold'
  <2> SUFFICES ASSUME NEW u \in Users, Owning(u)' PROVE OwnerHolds(u)'
    BY DEF OwnersHold
  <2>1. OwnerHolds(u) /\ thr'[u] = thr[u] /\ objs'[thr[u].obj] = objs[thr[u].obj]
    BY <1>3, <1>4, <1>6, <1>10 DEF OwnerHolds
  <2> QED
    BY <1>1, <1>7, <2>1, OwnerKept
<1>13. ReadyFound' /\ NamedApart'
  BY <1>1, <1>3, <1>7 DEF ReadyFound, NamedApart, Entry, FreeObject
<1>14. EntriesLive'
  <2> SUFFICES ASSUME NEW j \in Indices, Entry(j) # Nil PROVE EntryLives(j)'
    BY <1>1, <1>7 DEF EntriesLive, Entry
  <2>1. EntryLives(j) /\ Entry(j) \in Objects
    BY EntryTyped DEF EntriesLive, OrNil
  <2>2. \A u \in Users : HasEntry(u) => u # t /\ thr[u].obj # o
    BY <1>1, <1>6 DEF HasEntry, Owning
  <2>3. Entry(j) # o
    BY <1>2, <2>1, <2>2 DEF EntryLives
  <2> QED
    BY <1>1, <1>3, <1>4, <2>1, <2>2, <2>3, EntryKept
<1>15. NamedFound'
  <2> SUFFICES ASSUME NEW q \in Objects, objs'[q].named PROVE NameFinds(q)'
    BY DEF NamedFound
  <2>1. \A u \in Users : Owning(u) /\ thr[u].obj = q => thr'[u] = thr[u]
    BY <1>4, <1>8 DEF o
  <2> QED
    BY <1>8, <2>1, NameKept
<1>16. NamesHeld'
  <2> SUFFICES ASSUME NEW m \in Names, names'[m] # Nil PROVE \E q \in Objects : objs'[q].named /\ objs'[q].name = m
    BY DEF NamesHeld
  <2>1. names[m] # Nil /\ ~(objs[o].named /\ m = objs[o].name)
    BY <1>5
  <2>2. PICK q \in Objects : objs[q].named /\ objs[q].name = m
    BY <2>1 DEF NamesHeld
  <2> QED
    BY <1>3, <2>1, <2>2
<1>17. PutsHeld'
  <2> SUFFICES ASSUME NEW u \in Users, Putting(u)' PROVE PutHolds(u)'
    BY DEF PutsHeld
  <2>1. PutHolds(u) /\ thr'[u] = thr[u] /\ objs'[thr[u].obj] = objs[thr[u].obj]
    BY <1>3, <1>4, <1>6, <1>10 DEF PutHolds
  <2> QED
    BY <1>1, <2>1, PutKept
<1> QED
  BY <1>9, <1>11, <1>12, <1>13, <1>14, <1>15, <1>16, <1>17

\* A thread that owns no object goes from place to place in a put.
LEMMA PutterInv ==
  ASSUME TableIInv, NEW t \in Users, ~Owning(t), NEW y \in ThrStates, thr' = [thr EXCEPT ![t] = y],
         y.pc \in {"idle", "table", "entry"}, Putting(t)' => PutHolds(t)',
         UNCHANGED <<growth, queues, old, version, names, objs>>, tableFault' \in BOOLEAN
  PROVE  TableIInv'
<1> USE DEF TableIInv
<1>1. thr' \in [Users -> ThrStates] /\ thr'[t] = y /\ \A u \in Users : u # t => thr'[u] = thr[u]
  BY OneThread
<1>2. \A u \in Users : (Owning(u)' <=> Owning(u)) /\ (Owning(u) => u # t /\ thr'[u] = thr[u])
  BY <1>1 DEF Owning
<1>3. Indices' = Indices
  BY DEF Indices
<1>4. TableTypeOK'
  BY <1>1 DEF TableTypeOK
<1>5. OwnersApart'
  BY <1>2 DEF OwnersApart
<1>6. OwnersHold'
  <2> SUFFICES ASSUME NEW u \in Users, Owning(u)' PROVE OwnerHolds(u)'
    BY DEF OwnersHold
  <2> QED
    BY <1>2, <1>3, OwnerKept DEF OwnersHold
<1>7. ReadyFound' /\ NamedApart' /\ NamesHeld'
  BY <1>3 DEF ReadyFound, NamedApart, NamesHeld, Entry
<1>8. EntriesLive'
  <2> SUFFICES ASSUME NEW j \in Indices, Entry(j) # Nil PROVE EntryLives(j)'
    BY <1>3 DEF EntriesLive, Entry
  <2>1. EntryLives(j)
    BY DEF EntriesLive
  <2>2. \A u \in Users : HasEntry(u) => thr'[u] = thr[u]
    BY <1>2 DEF HasEntry, Owning
  <2> QED
    BY <2>1, <2>2, EntryKept
<1>9. NamedFound'
  <2> SUFFICES ASSUME NEW q \in Objects, objs[q].named PROVE NameFinds(q)'
    BY DEF NamedFound
  <2> QED
    BY <1>2, NameKept DEF NamedFound
<1>10. PutsHeld'
  <2> SUFFICES ASSUME NEW u \in Users, Putting(u)' PROVE PutHolds(u)'
    BY DEF PutsHeld
  <2>1. CASE u = t
    BY <2>1
  <2>2. CASE u # t
    <3>1. Putting(u) /\ thr'[u] = thr[u]
      BY <1>1, <2>2 DEF Putting
    <3> QED
      BY <3>1, PutKept DEF PutsHeld
  <2> QED
    BY <2>1, <2>2
<1> QED
  BY <1>4, <1>5, <1>6, <1>7, <1>8, <1>9, <1>10

\* MessageQ_open found a queue that is ready,
LEMMA PutFindsInv ==
  ASSUME TableIInv, NEW t \in Users, NEW n \in Names, PutFinds(t, n) PROVE TableIInv'
<1> DEFINE i == names[n]
           q == Entry(i)
           y == [pc |-> "table", obj |-> q, index |-> i, version |-> 0]
<1>1. /\ thr[t].pc = "idle" /\ i # Nil /\ q # Nil /\ objs[q].state = "ready" /\ thr' = [thr EXCEPT ![t] = y]
      /\ UNCHANGED <<growth, queues, old, version, names, objs, tableFault>>
  BY DEF PutFinds, At
<1>2. i \in Indices
  <2>1. PICK o \in Objects : objs[o].named /\ objs[o].name = n
    BY <1>1 DEF TableIInv, NamesHeld
  <2>2. NameFinds(o) /\ i = objs[o].index
    BY <2>1 DEF TableIInv, NamedFound, NameFinds
  <2>3. CASE objs[o].state = "ready"
    BY <2>2, <2>3 DEF TableIInv, ReadyFound
  <2>4. CASE objs[o].state # "ready"
    <3>1. PICK u \in Users : Owning(u) /\ thr[u].obj = o /\ objs[o].state = "torn"
      BY <2>2, <2>4 DEF NameFinds
    <3>2. thr[u].pc \in {"null", "unname"} /\ thr[u].index = objs[o].index /\ thr[u].index \in Indices
      BY <3>1 DEF TableIInv, OwnersHold, OwnerHolds, Owning
    <3> QED
      BY <2>2, <3>2
  <2> QED
    BY <2>3, <2>4
<1>3. q \in Objects /\ i \in Nat
  BY <1>1, <1>2, EntryTyped DEF TableIInv, OrNil
<1>4. objs[q].index = i
  <2>1. EntryLives(i)
    BY <1>1, <1>2 DEF TableIInv, EntriesLive
  <2>2. \A u \in Users : HasEntry(u) => objs[thr[u].obj].state # "ready"
    BY DEF TableIInv, OwnersHold, OwnerHolds, Owning, HasEntry
  <2> QED
    BY <1>1, <2>1, <2>2 DEF EntryLives
<1>5. y \in ThrStates
  BY <1>3 DEF ThrStates, OrNil
<1>6. ~Owning(t) /\ tableFault' \in BOOLEAN
  BY <1>1 DEF Owning, TableIInv, TableTypeOK
<1>7. PutHolds(t)'
  <2>1. thr'[t] = y
    BY <1>1 DEF TableIInv, TableTypeOK
  <2> QED
    BY <1>1, <1>3, <1>4, <2>1 DEF PutHolds
<1>8. y.pc = "table"
  OBVIOUS
<1> HIDE DEF y
<1> QED
  BY <1>1, <1>5, <1>6, <1>7, <1>8, PutterInv

\* and MessageQ_put loads the table, then the entry.
LEMMA PutLoadsInv ==
  ASSUME TableIInv, NEW t \in Users, PutLoadsTable(t) \/ PutLoadsEntry(t) PROVE TableIInv'
<1>1. thr[t] \in ThrStates /\ version \in Nat /\ thr \in [Users -> ThrStates] /\ tableFault \in BOOLEAN
  BY DEF TableIInv, TableTypeOK
<1>2. CASE PutLoadsTable(t)
  <2> DEFINE y == [thr[t] EXCEPT !.pc = "entry", !.version = version]
  <2>1. thr[t].pc = "table" /\ thr' = [thr EXCEPT ![t] = y] /\ UNCHANGED <<growth, queues, old, version, names, objs, tableFault>>
    BY <1>1, <1>2 DEF PutLoadsTable, At
  <2>2. y \in ThrStates /\ y.pc = "entry" /\ y.obj = thr[t].obj /\ y.index = thr[t].index /\ y.version = version
    BY <1>1 DEF ThrStates
  <2>3. ~Owning(t) /\ Putting(t) /\ thr'[t] = y
    BY <1>1, <2>1 DEF Owning, Putting
  <2> HIDE DEF y
  <2>4. PutHolds(t)
    BY <2>3 DEF TableIInv, PutsHeld
  <2>5. PutHolds(t)'
    BY <2>1, <2>2, <2>3, <2>4 DEF PutHolds
  <2> QED
    BY <1>1, <2>1, <2>2, <2>3, <2>5, PutterInv
<1>3. CASE PutLoadsEntry(t)
  <2>1. /\ thr[t].pc = "entry" /\ UNCHANGED <<growth, queues, old, version, names, objs>> /\ tableFault' \in BOOLEAN
        /\ thr' = IF tableFault' THEN thr ELSE [thr EXCEPT ![t] = Idle]
    <3>1. tableFault' \in BOOLEAN
      BY <1>3 DEF PutLoadsEntry, FreedTable
    <3>2. /\ thr[t].pc = "entry" /\ UNCHANGED <<growth, queues, old, version, names, objs>>
          /\ thr' = IF tableFault' THEN thr ELSE [thr EXCEPT ![t] = Idle]
      BY <1>3, Zenon DEF PutLoadsEntry, At
    <3> QED
      BY <3>1, <3>2
  <2>2. ~Owning(t) /\ Idle \in ThrStates /\ Idle.pc = "idle"
    BY <2>1 DEF Owning, Idle, ThrStates, OrNil
  <2>3. CASE tableFault'
    <3>1. thr' = [thr EXCEPT ![t] = thr[t]] /\ (Putting(t)' => PutHolds(t)')
      BY <1>1, <2>1, <2>3 DEF TableIInv, PutsHeld, Putting, PutHolds
    <3> QED
      BY <1>1, <2>1, <2>2, <3>1, PutterInv
  <2>4. CASE ~tableFault'
    <3>1. thr' = [thr EXCEPT ![t] = Idle] /\ ~Putting(t)'
      BY <1>1, <2>1, <2>2, <2>4 DEF Putting
    <3> QED
      BY <2>1, <2>2, <3>1, PutterInv
  <2> QED
    BY <2>3, <2>4
<1> QED
  BY <1>2, <1>3

\* A step that changes no more than tableFault.
LEMMA TableQuietInv ==
  ASSUME TableIInv, UNCHANGED <<growth, queues, old, version, names, objs, thr>>, tableFault' \in BOOLEAN PROVE TableIInv'
<1>1. TableTypeOK'
  BY DEF TableIInv, TableTypeOK
<1>2. OwnersApart' /\ OwnersHold' /\ ReadyFound'
  BY DEF TableIInv, OwnersApart, OwnersHold, ReadyFound, Owning, OwnerHolds, HasEntry, Entry, Indices
<1>3. EntriesLive'
  BY DEF TableIInv, EntriesLive, EntryLives, HasEntry, Entry, Indices
<1>4. NamedFound' /\ NamedApart' /\ NamesHeld' /\ PutsHeld'
  BY DEF TableIInv, NamedFound, NameFinds, NamedApart, NamesHeld, PutsHeld, PutHolds, Putting, Owning
<1> QED
  BY <1>1, <1>2, <1>3, <1>4 DEF TableIInv

\* Every step keeps the invariant.
LEMMA TableStepInv == TableIInv /\ [TableNext]_queueTableVars => TableIInv'
<1> SUFFICES ASSUME TableIInv, [TableNext]_queueTableVars PROVE TableIInv'
  OBVIOUS
<1>1. ASSUME NEW t \in Users, NEW o \in Objects, NEW n \in Names, NEW index \in {0, AnyIndex}, CreateCall(t, o, n, index)
      PROVE  TableIInv'
  BY <1>1, CreateCallInv
<1>2. ASSUME NEW t \in Users, TakesReserved(t) \/ TakesHole(t) \/ Grow(t) PROVE TableIInv'
  BY <1>2, TakesReservedInv, TakesHoleInv, GrowInv
<1>3. ASSUME NEW t \in Users, MaxReached(t) PROVE TableIInv'
  BY <1>3, TableQuietInv DEF MaxReached
<1>4. ASSUME NEW t \in Users, Fill(t) \/ DeleteNulls(t) \/ DeleteUnnames(t) PROVE TableIInv'
  BY <1>4, FillInv, DeleteNullsInv, DeleteUnnamesInv
<1>5. ASSUME NEW t \in Users, NEW o \in Objects, DeleteCall(t, o) PROVE TableIInv'
  BY <1>5, DeleteCallInv
<1>6. ASSUME NEW t \in Users, NEW n \in Names, PutFinds(t, n) PROVE TableIInv'
  BY <1>6, PutFindsInv
<1>7. ASSUME NEW t \in Users, PutLoadsTable(t) \/ PutLoadsEntry(t) PROVE TableIInv'
  BY <1>7, PutLoadsInv
<1>8. CASE UNCHANGED queueTableVars
  BY <1>8, TableQuietInv DEF queueTableVars, TableIInv, TableTypeOK
<1> QED
  BY <1>1, <1>2, <1>3, <1>4, <1>5, <1>6, <1>7, <1>8 DEF TableNext

\* A table that was loaded is the present one or an earlier one, and only a put whose
\* table was freed, or a table that may not grow, uses memory that is not the table's.
FaultInv ==
  /\ \A t \in Users : thr[t].pc = "entry" => thr[t].version <= version
  /\ FaultsAreKnown
LEMMA FaultStep == TableIInv /\ FaultInv /\ [TableNext]_queueTableVars => FaultInv'
<1> SUFFICES ASSUME TableIInv, FaultInv, [TableNext]_queueTableVars PROVE FaultInv'
  OBVIOUS
<1>1. version \in Nat /\ \A t \in Users : thr[t] \in ThrStates /\ thr[t].version \in Nat
  BY DEF TableIInv, TableTypeOK, ThrStates
<1>2. thr \in [Users -> ThrStates]
  BY DEF TableIInv, TableTypeOK
\* A step that loads no table, and does not lower the version,
<1>3. ASSUME NEW t \in Users, NEW x, thr' = [thr EXCEPT ![t] = x], x.pc # "entry", version' \in {version, version + 1},
             UNCHANGED <<growth, tableFault>>
      PROVE  FaultInv'
  <2>1. \A u \in Users : thr'[u] = IF u = t THEN x ELSE thr[u]
    BY <1>2, <1>3
  <2>2. version' >= version /\ version' \in Nat
    BY <1>1, <1>3
  <2>3. ASSUME NEW u \in Users, thr'[u].pc = "entry" PROVE thr'[u].version <= version'
    <3>1. thr'[u] = thr[u] /\ thr[u].pc = "entry"
      BY <1>3, <2>1, <2>3
    <3>2. thr[u].version <= version
      BY <3>1 DEF FaultInv
    <3> QED
      BY <1>1, <2>2, <3>1, <3>2
  <2>4. FaultsAreKnown'
    <3>1. tableFault => ~growth \/ version > 1
      BY DEF FaultInv, FaultsAreKnown
    <3>2. version > 1 => version' > 1
      BY <1>1, <2>2
    <3> QED
      BY Zenon, <1>3, <3>1, <3>2 DEF FaultsAreKnown
  <2> QED
    BY <2>3, <2>4 DEF FaultInv
\* is each but four:
<1>4. ASSUME NEW t \in Users, NEW o \in Objects, NEW n \in Names, NEW index \in {0, AnyIndex}, CreateCall(t, o, n, index)
      PROVE  FaultInv'
  <2>1. [Idle EXCEPT !.pc = "slot", !.obj = o, !.index = index].pc # "entry"
    BY DEF Idle
  <2>2. thr' = [thr EXCEPT ![t] = [Idle EXCEPT !.pc = "slot", !.obj = o, !.index = index]] /\ version' = version
        /\ UNCHANGED <<growth, tableFault>>
    BY Zenon, <1>4 DEF CreateCall
  <2> QED
    BY <1>3, <2>1, <2>2
<1>5. ASSUME NEW t \in Users, TakesReserved(t) \/ TakesHole(t) \/ Grow(t) \/ Fill(t) \/ DeleteNulls(t) \/ DeleteUnnames(t)
      PROVE  FaultInv'
  <2>1. thr[t] \in ThrStates
    BY <1>1
  <2>2. PICK x : x.pc # "entry" /\ thr' = [thr EXCEPT ![t] = x]
    <3>1. CASE thr' = [thr EXCEPT ![t] = Idle]
      BY <3>1 DEF Idle
    <3>2. ASSUME NEW i, thr' = [thr EXCEPT ![t].pc = "fill", ![t].index = i] PROVE \E x : x.pc # "entry" /\ thr' = [thr EXCEPT ![t] = x]
      <4>1. thr' = [thr EXCEPT ![t] = [thr[t] EXCEPT !.pc = "fill", !.index = i]] /\ [thr[t] EXCEPT !.pc = "fill", !.index = i].pc = "fill"
        BY <1>2, <2>1, <3>2 DEF ThrStates
      <4> QED
        BY <4>1
    <3>3. ASSUME NEW p \in {"null", "unname"}, thr' = [thr EXCEPT ![t].pc = p] PROVE \E x : x.pc # "entry" /\ thr' = [thr EXCEPT ![t] = x]
      <4>1. thr' = [thr EXCEPT ![t] = [thr[t] EXCEPT !.pc = p]] /\ [thr[t] EXCEPT !.pc = p].pc = p
        BY <1>2, <2>1, <3>3 DEF ThrStates
      <4> QED
        BY <4>1
    <3>4. CASE TakesReserved(t) \/ TakesHole(t) \/ Grow(t)
      <4>1. thr' = [thr EXCEPT ![t] = Idle] \/ \E i : thr' = [thr EXCEPT ![t].pc = "fill", ![t].index = i]
        BY Zenon, <3>4 DEF TakesReserved, TakesHole, Grow, Takes
      <4> QED
        BY <3>1, <3>2, <4>1
    <3>5. CASE Fill(t)
      <4>1. thr' = [thr EXCEPT ![t] = Idle] \/ thr' = [thr EXCEPT ![t].pc = "null"]
        BY <3>5 DEF Fill
      <4> QED
        BY <3>1, <3>3, <4>1
    <3>6. CASE DeleteNulls(t) \/ DeleteUnnames(t)
      BY <3>1, <3>3, <3>6 DEF DeleteNulls, DeleteUnnames, UserGoto
    <3> QED
      BY <1>5, <3>4, <3>5, <3>6
  <2>3. version' \in {version, version + 1} /\ UNCHANGED <<growth, tableFault>>
    <3>1. version' = version \/ version' = version + 1
      BY Zenon, <1>5 DEF TakesReserved, TakesHole, Takes, Grow, Fill, DeleteNulls, DeleteUnnames
    <3>2. UNCHANGED <<growth, tableFault>>
      BY Zenon, <1>5 DEF TakesReserved, TakesHole, Takes, Grow, Fill, DeleteNulls, DeleteUnnames
    <3> QED
      BY <3>1, <3>2
  <2> QED
    BY <1>3, <2>2, <2>3
<1>6. ASSUME NEW t \in Users, NEW o \in Objects, DeleteCall(t, o) PROVE FaultInv'
  <2>1. [Idle EXCEPT !.pc = "null", !.obj = o, !.index = objs[o].index].pc # "entry"
    BY DEF Idle
  <2>2. thr' = [thr EXCEPT ![t] = [Idle EXCEPT !.pc = "null", !.obj = o, !.index = objs[o].index]] /\ version' = version
        /\ UNCHANGED <<growth, tableFault>>
    BY Zenon, <1>6 DEF DeleteCall
  <2> QED
    BY <1>3, <2>1, <2>2
<1>7. ASSUME NEW t \in Users, NEW n \in Names, PutFinds(t, n) PROVE FaultInv'
  <2> DEFINE x == [pc |-> "table", obj |-> Entry(names[n]), index |-> names[n], version |-> 0]
  <2>1. x.pc # "entry"
    OBVIOUS
  <2>2. thr' = [thr EXCEPT ![t] = x] /\ version' = version /\ UNCHANGED <<growth, tableFault>>
    BY Zenon, <1>7 DEF PutFinds
  <2> QED
    BY <1>3, <2>1, <2>2
\* a table that is full,
<1>8. ASSUME NEW t \in Users, MaxReached(t) PROVE FaultInv'
  BY <1>8 DEF MaxReached, FaultInv, FaultsAreKnown
\* a put that loads the table, which is the present one,
<1>9. ASSUME NEW t \in Users, PutLoadsTable(t) PROVE FaultInv'
  <2>1. \A u \in Users : u # t => thr'[u] = thr[u]
    BY <1>2, <1>9 DEF PutLoadsTable
  <2>2. thr'[t].version = version /\ version' = version
    <3>1. thr[t] \in ThrStates
      BY <1>1
    <3> QED
      BY <1>2, <1>9, <3>1 DEF PutLoadsTable, ThrStates
  <2>3. UNCHANGED <<growth, version, tableFault>>
    BY <1>9 DEF PutLoadsTable
  <2> QED
    BY <1>1, <2>1, <2>2, <2>3 DEF FaultInv, FaultsAreKnown
\* a put that loads the entry, of a table that may have been freed,
<1>10. ASSUME NEW t \in Users, PutLoadsEntry(t) PROVE FaultInv'
  <2>1. CASE FreedTable(thr[t].version)
    <3>1. UNCHANGED <<thr, version>>
      BY <1>10, <2>1 DEF PutLoadsEntry
    <3>2. version > 1
      BY <1>1, <2>1 DEF FreedTable
    <3> QED
      BY <3>1, <3>2 DEF FaultInv, FaultsAreKnown
  <2>2. CASE ~FreedTable(thr[t].version)
    <3>1. ~tableFault' /\ ~tableFault /\ thr' = [thr EXCEPT ![t] = Idle] /\ UNCHANGED <<growth, version>>
      BY <1>10, <2>2 DEF PutLoadsEntry, At
    <3> QED
      BY <1>2, <3>1 DEF FaultInv, FaultsAreKnown, Idle
  <2> QED
    BY <2>1, <2>2
\* and no step.
<1>11. CASE UNCHANGED queueTableVars
  BY <1>11 DEF queueTableVars, FaultInv, FaultsAreKnown
<1> QED
  BY <1>4, <1>5, <1>6, <1>7, <1>8, <1>9, <1>10, <1>11 DEF TableNext

\* The invariants have the property.
LEMMA TableInvFinds == TableIInv /\ FaultInv => QueuesAreFound
<1> SUFFICES ASSUME TableIInv, FaultInv PROVE QueuesAreFound
  OBVIOUS
<1> USE DEF TableIInv
<1>1. \A t \in Users : Owning(t) => objs[thr[t].obj].state \in {"bare", "torn"}
  BY DEF OwnersHold, OwnerHolds
<1>2. TableIsLive
  <2>1. ASSUME NEW i \in Indices, Entry(i) # Nil PROVE objs[Entry(i)].state # "free"
    BY <1>1, <2>1 DEF EntriesLive, EntryLives, HasEntry, Owning
  <2> QED
    BY <2>1 DEF TableIsLive, ReadyFound
<1>3. PutFindsItsQueue
  <2> SUFFICES ASSUME NEW t \in Users, thr[t].pc = "entry", ~FreedTable(thr[t].version)
               PROVE  Found(t) = thr[t].obj
    BY DEF PutFindsItsQueue
  <2>1. PutHolds(t)
    BY DEF PutsHeld, Putting
  <2>2. Entry(thr[t].index) = thr[t].obj
    BY <2>1 DEF PutHolds, ReadyFound
  <2>3. thr[t].version \in Nat /\ version \in Nat /\ thr[t].version <= version
    BY DEF TableTypeOK, ThrStates, FaultInv
  <2>4. thr[t].version = 0 \/ thr[t].version = version
    BY <2>3 DEF FreedTable
  <2> QED
    BY <2>1, <2>2, <2>4 DEF PutHolds, Found
<1>4. NamesAgree
  <2> SUFFICES ASSUME NEW n \in Names, names[n] # Nil, \A t \in Users : thr[t].pc # "unname"
               PROVE  Entry(names[n]) # Nil /\ objs[Entry(names[n])].name = n
    BY DEF NamesAgree
  <2>1. PICK o \in Objects : objs[o].named /\ objs[o].name = n
    BY DEF NamesHeld
  <2>2. NameFinds(o) /\ names[n] = objs[o].index
    BY <2>1 DEF NamedFound, NameFinds
  <2>3. Entry(objs[o].index) = o
    <3>1. CASE objs[o].state = "ready"
      BY <3>1 DEF ReadyFound
    <3>2. CASE objs[o].state # "ready"
      <4>1. PICK u \in Users : Owning(u) /\ thr[u].obj = o /\ objs[o].state = "torn"
        BY <2>2, <3>2 DEF NameFinds
      <4>2. thr[u].pc = "null"
        BY <4>1 DEF OwnersHold, OwnerHolds, Owning
      <4> QED
        BY <4>1, <4>2 DEF OwnersHold, OwnerHolds, HasEntry
    <3> QED
      BY <3>1, <3>2
  <2> QED
    BY <2>1, <2>2, <2>3, NilApart
<1> QED
  BY <1>2, <1>3, <1>4 DEF QueuesAreFound, FaultInv

\* A queue is found by its index and its name, whatever is created, fails, grows and is
\* deleted beside it, and by a put that loads the table and the entry without the gate,
\* but for one that loaded a table which grow has freed: that takes two growths, and
\* without the second no put reads freed memory
\* (MessageQ_create, MessageQ_delete, MessageQ_grow, MessageQ_put).
THEOREM QueuesStayFound == TableSpec => []QueuesAreFound
<1>1. TableInit => FaultInv
  BY DEF TableInit, FaultInv, FaultsAreKnown, Idle
<1> QED
  BY <1>1, TableInitInv, TableStepInv, FaultStep, TableInvFinds, PTL DEF TableSpec
-----------------------------------------------------------------------------
(***************************************************************************)
(* Lad: for any clients, slots and queues, whatever clients die.           *)
(*                                                                         *)
(* The inductive invariant is LadInvariant: until a command strays, LAD    *)
(* and its clients agree.  SlotsHeld is what LAD's arrays keep: a slot     *)
(* that is taken is of a client whose FIFO has its name, and no client has *)
(* two.  ClientsHeld says by where a client is what its FIFO can hold and  *)
(* whether it has a slot.  PipeHeld says that a command on its way is what *)
(* its client waits for, one for each, and that a client that disconnects  *)
(* has no queue; QueuesHeld that a queue is of a client with a slot, which *)
(* knows it, is about to read of it or has asked to delete it.  These two  *)
(* end with LAD.  OwnQueues is the converse: such a client has its queue.  *)
(***************************************************************************)
\* The commands, and the places of LAD and of a client.
Ops == {"connect", "disconnect"} \cup Requests
\* LAD has made the FIFO and opens it.
Openings == {"open", "fopen", "welcome"}
LadPlaces == {"out", "opening", "reading", "ready", "closing", "failed", "dead"} \cup Requests
Commands ==
  [op : {"connect"}, pid : Clients] \cup [op : {"disconnect"}, slot : Slots, pid : Clients]
    \cup [op : {"create"}, slot : Slots, pid : Clients, q : {NoSlot}]
    \cup [op : {"announce", "delete"}, slot : Slots, pid : Clients, q : Queues]

\* Types first.
LadTypes ==
  /\ alive \in [Clients -> BOOLEAN] /\ clientAt \in [Clients -> LadPlaces]
  /\ clientId \in [Clients -> Slots \cup {NoSlot}] /\ mine \in [Clients -> Queues \cup {NoSlot}]
  /\ fifos \in SUBSET Clients /\ reader \in SUBSET Clients
  /\ DOMAIN answers = Clients
  /\ connected \in [Slots -> BOOLEAN] /\ file \in [Slots -> {"none", "open", "closed"}]
  /\ clientPID \in [Slots -> Clients \cup {NoClient}]
  /\ ladQueues \in [Queues -> [owner : Clients \cup {NoClient}, announced : BOOLEAN]]
  /\ ladNumQueues \in 0 .. MaxLadQueues
  /\ lad = [pc |-> lad.pc, cmd |-> lad.cmd] /\ lad.pc \in {"read", "down"} \cup Openings \cup Ops
  /\ pipe \in Seq(Commands)

\* The command LAD has in hand.
Handling == lad.pc \notin {"read", "down"}
InHand ==
  /\ Handling => lad.cmd \in Commands
  /\ lad.pc \in Openings => lad.cmd.op = "connect"
  /\ lad.pc \in Ops => lad.cmd.op = lad.pc

\* A slot that is taken is some client's whose FIFO has its name, and no client has
\* two; a FIFO that has its name is of a client with a slot, or LAD is about to open it,
\* or LAD has stopped then.
HasSlot(p) == \E s \in Slots : connected[s] /\ clientPID[s] = p
\* LAD is about to open the FIFO of p.
Connecting(p) == lad.pc \in Openings /\ lad.cmd.pid = p
SlotsHeld ==
  /\ \A s \in Slots : /\ file[s] = "open" <=> connected[s]
                      /\ connected[s] => clientPID[s] \in fifos
  /\ \A r, s \in Slots : connected[r] /\ connected[s] /\ clientPID[r] = clientPID[s] => r = s
  /\ \A p \in Clients : Connecting(p) => p \in fifos /\ ~HasSlot(p)
  /\ \A p \in fifos : HasSlot(p) \/ Connecting(p) \/ Down

\* What a client may find in its FIFO, and whether it has it open.
Answered(asked, id) == <<[op |-> asked, id |-> id]>>
ClientHeld(p) ==
  /\ alive[p] <=> clientAt[p] # "dead"
  /\ clientAt[p] \in {"out", "opening", "closing"} => answers[p] = <<>> /\ p \notin reader
  /\ clientAt[p] = "opening" => ~HasSlot(p)
  /\ clientAt[p] = "reading" /\ p \in reader =>
       \/ answers[p] = <<>> /\ (Connecting(p) \/ Down)
       \/ \E s \in Slots : answers[p] = Answered("connect", s) /\ connected[s] /\ clientPID[s] = p
  /\ clientAt[p] = "reading" /\ p \notin reader => answers[p] \in {<<>>, Answered("connect", NoSlot)}
  /\ clientAt[p] \in {"ready"} \cup Requests => p \in reader /\ HasSlot(p) /\ clientId[p] \in Slots
  /\ clientAt[p] = "ready" => answers[p] = <<>>
  /\ clientAt[p] \in Requests => answers[p] = <<>> \/ \E id \in Queues \cup {NoSlot} : answers[p] = Answered(clientAt[p], id)
  /\ clientAt[p] = "create" => mine[p] = NoSlot /\ answers[p] # Answered("create", NoSlot)
  /\ clientAt[p] \in {"announce", "delete"} => mine[p] \in Queues
  /\ clientAt[p] = "failed" => answers[p] = <<>> /\ (p \notin reader \/ Down)
  /\ clientAt[p] = "dead" => p \notin reader /\ (answers[p] = <<>> \/ Len(answers[p]) = 1)
ClientsHeld == \A p \in Clients : ClientHeld(p)

\* A command under way, but for connect, is what its client waits for, who has a slot;
\* a client that disconnects has no queue.
Waited(c) ==
  /\ alive[c.pid] => HasSlot(c.pid)
  /\ alive[c.pid] =>
       \/ c.op \in Requests /\ clientAt[c.pid] = c.op /\ answers[c.pid] = <<>> /\ c.q = mine[c.pid]
       \/ c.op = "disconnect" /\ clientAt[c.pid] \in {"closing", "failed"}
  /\ c.op = "disconnect" => \A q \in Queues : ladQueues[q].owner # c.pid
PipeHeld ==
  /\ \A i \in DOMAIN pipe : pipe[i].op # "connect" => Waited(pipe[i])
  /\ Handling /\ lad.cmd.op # "connect" => Waited(lad.cmd)
  /\ \A i, j \in DOMAIN pipe :
       pipe[i].op # "connect" /\ pipe[j].op # "connect" /\ pipe[i].pid = pipe[j].pid => i = j
  /\ Handling /\ lad.cmd.op # "connect" =>
       \A i \in DOMAIN pipe : pipe[i].op # "connect" => pipe[i].pid # lad.cmd.pid

\* A queue is the one its client has, or will have read of, or has asked to delete.
QueueHeld(q) ==
  LET p == ladQueues[q].owner
  IN  ladQueues[q] # NoQueue =>
        /\ HasSlot(p)
        /\ alive[p] =>
             \/ mine[p] = q /\ clientAt[p] \in {"ready", "announce"}
             \/ mine[p] = q /\ clientAt[p] = "delete" /\ answers[p] = <<>>
             \/ clientAt[p] = "create" /\ answers[p] = Answered("create", q)
QueuesHeld == \A q \in Queues : QueueHeld(q)

\* A client that lives has the queue that it knows or is about to read of, and LAD's
\* table is empty from its end on.
OwnQueue(p) ==
  alive[p] =>
    /\ clientAt[p] \in {"out", "opening", "reading", "closing"} => mine[p] = NoSlot
    /\ clientAt[p] \in {"ready", "announce"} /\ mine[p] \in Queues => ladQueues[mine[p]].owner = p
    /\ \A q \in Queues : clientAt[p] = "create" /\ answers[p] = Answered("create", q) => ladQueues[q].owner = p
OwnQueues ==
  /\ \A p \in Clients : OwnQueue(p)
  /\ \A q \in Queues : q >= ladNumQueues => ladQueues[q] = NoQueue

\* The inductive invariant, as long as no command has strayed.
LadIsWell ==
  LadTypes /\ InHand /\ SlotsHeld /\ ClientsHeld /\ (~Down => PipeHeld /\ QueuesHeld)
LadInvariant == strayed \in BOOLEAN /\ (~strayed => LadIsWell /\ OwnQueues)

\* The constants: slots and queues have numbers, NoSlot is none.
LEMMA LadConstants ==
  /\ Slots \subseteq Nat /\ NoSlot \notin Slots /\ NoSlot \notin Queues /\ Queues \subseteq Nat
  /\ NoClient \notin Clients /\ MaxLadQueues \in Nat /\ \A n \in 0 .. MaxLadQueues : n # MaxLadQueues => n \in Queues
BY LadAssumption DEF NoSlot, Queues

\* What a command has, by its kind.
LEMMA CommandIs ==
  ASSUME NEW c \in Commands
  PROVE  /\ c.op \in Ops /\ c.pid \in Clients
         /\ c.op # "connect" => c.slot \in Slots
         /\ c.op \in {"announce", "delete"} => c.q \in Queues
         /\ c.op = "create" => c.q = NoSlot
BY DEF Commands, Ops, Requests

\* The commands under way, in a step that reads none and writes none.
LEMMA PipeType ==
  ASSUME LadTypes
  PROVE  \A i \in DOMAIN pipe : pipe[i] \in Commands
BY DEF LadTypes

\* A client has a slot because its FIFO has its name.
LEMMA SlotOwner ==
  ASSUME LadTypes, SlotsHeld, NEW p, HasSlot(p)
  PROVE  p \in fifos /\ p \in Clients
BY DEF LadTypes, SlotsHeld, HasSlot

\* A step that leaves a client, and its slot, as they are.
SameClient(u) ==
  /\ alive'[u] = alive[u] /\ clientAt'[u] = clientAt[u] /\ clientId'[u] = clientId[u]
  /\ mine'[u] = mine[u] /\ answers'[u] = answers[u] /\ (u \in reader' <=> u \in reader)
KeepsSlot(u) ==
  \A s \in Slots : (connected'[s] /\ clientPID'[s] = u) <=> (connected[s] /\ clientPID[s] = u)

\* Then the client still has a slot, or none.
LEMMA SlotKept ==
  ASSUME NEW u, KeepsSlot(u)
  PROVE  HasSlot(u)' <=> HasSlot(u)
BY DEF KeepsSlot, HasSlot

\* What holds of such a client holds on,
LEMMA ClientFrame ==
  ASSUME NEW u \in Clients, ClientHeld(u), SameClient(u), KeepsSlot(u),
         Connecting(u) => Connecting(u)' \/ Down', Down => Down'
  PROVE  ClientHeld(u)'
<1>1. HasSlot(u)' <=> HasSlot(u)
  BY SlotKept
<1>2. clientAt[u] = "reading" /\ u \in reader' =>
       \/ answers'[u] = <<>> /\ (Connecting(u)' \/ Down')
       \/ \E s \in Slots : answers'[u] = Answered("connect", s) /\ connected'[s] /\ clientPID'[s] = u
  BY DEF ClientHeld, SameClient, KeepsSlot
<1> QED
  BY <1>1, <1>2 DEF ClientHeld, SameClient, Answered

\* so do what it waits for,
LEMMA WaitedFrame ==
  ASSUME NEW c, Waited(c), SameClient(c.pid), HasSlot(c.pid) => HasSlot(c.pid)',
         \A q \in Queues : ladQueues'[q].owner = c.pid => ladQueues[q].owner = c.pid
  PROVE  Waited(c)'
BY DEF Waited, SameClient

\* and its queues.
LEMMA QueueFrame ==
  ASSUME NEW q \in Queues, QueueHeld(q), ladQueues'[q] = ladQueues[q],
         ladQueues[q] # NoQueue =>
           SameClient(ladQueues[q].owner) /\ (HasSlot(ladQueues[q].owner) => HasSlot(ladQueues[q].owner)')
  PROVE  QueueHeld(q)'
<1>1. CASE ladQueues[q] = NoQueue
  BY <1>1 DEF QueueHeld, NoQueue
<1>2. CASE ladQueues[q] # NoQueue
  <2> DEFINE p == ladQueues[q].owner
  <2>1. HasSlot(p)' /\ SameClient(p) /\ ladQueues'[q].owner = p
    BY <1>2 DEF QueueHeld
  <2>2. alive[p] =>
             \/ mine[p] = q /\ clientAt[p] \in {"ready", "announce"}
             \/ mine[p] = q /\ clientAt[p] = "delete" /\ answers[p] = <<>>
             \/ clientAt[p] = "create" /\ answers[p] = Answered("create", q)
    BY <1>2 DEF QueueHeld
  <2>3. alive'[p] =>
             \/ mine'[p] = q /\ clientAt'[p] \in {"ready", "announce"}
             \/ mine'[p] = q /\ clientAt'[p] = "delete" /\ answers'[p] = <<>>
             \/ clientAt'[p] = "create" /\ answers'[p] = Answered("create", q)
    BY <2>1, <2>2 DEF SameClient
  <2> HIDE DEF p
  <2> QED
    BY <2>1, <2>3 DEF QueueHeld, Answered
<1> QED
  BY <1>1, <1>2

\* The types of a client's step,
LEMMA ClientTypes ==
  ASSUME LadTypes, InHand, NEW p \in Clients, ClientHeld(p), ClientStep(p) \/ ClientCall(p)
  PROVE  LadTypes' /\ InHand'
<1> USE DEF endVars, slotVars, queueVars, bounds, ladClientVars
<1>0. lad' = lad => InHand'
  BY DEF InHand, Handling
<1>1. CASE ConnectWrites(p)
  <2>1. [op |-> "connect", pid |-> p] \in Commands
    BY DEF Commands
  <2>2. pipe' \in Seq(Commands)
    BY <1>1, <2>1 DEF ConnectWrites, Write, LadTypes
  <2>3. clientAt' \in [Clients -> LadPlaces]
    BY <1>1 DEF ConnectWrites, ClientGoto, LadTypes, LadPlaces
  <2> QED
    BY <1>0, <1>1, <2>2, <2>3 DEF ConnectWrites, LadTypes
<1>2. CASE ConnectOpens(p)
  <2>1. clientAt' \in [Clients -> LadPlaces]
    BY <1>2 DEF ConnectOpens, ClientGoto, LadTypes, LadPlaces
  <2> QED
    BY <1>0, <1>2, <2>1 DEF ConnectOpens, LadTypes
<1>3. CASE ConnectTimesOut(p) \/ GetsNothing(p) \/ DisconnectTimesOut(p)
  <2>1. clientAt' \in [Clients -> LadPlaces]
    BY ZenonT(60), <1>3 DEF ConnectTimesOut, GetsNothing, DisconnectTimesOut, ClientGoto, LadTypes, LadPlaces
  <2> QED
    BY <1>0, <1>3, <2>1 DEF ConnectTimesOut, GetsNothing, DisconnectTimesOut, LadTypes
<1>4. CASE ConnectReads(p)
  <2>1. clientAt' \in [Clients -> LadPlaces]
    <3>1. ClientGoto(p, "ready") \/ ClientGoto(p, "out")
      BY <1>4 DEF ConnectReads
    <3> QED
      BY <3>1 DEF ClientGoto, LadTypes, LadPlaces
  <2>2. Head(answers[p]).id \in Slots \cup {NoSlot}
    <3>1. answers[p] # <<>> /\ clientAt[p] = "reading"
      BY <1>4 DEF ConnectReads
    <3>2. PICK s \in Slots \cup {NoSlot} : answers[p] = Answered("connect", s)
      BY <3>1 DEF ClientHeld
    <3> QED
      BY <3>2 DEF Answered
  <2>3. clientId' \in [Clients -> Slots \cup {NoSlot}] /\ reader' \in SUBSET Clients
    BY <1>4, <2>2 DEF ConnectReads, LadTypes
  <2>4. DOMAIN answers' = Clients
    BY <1>4 DEF ConnectReads, LadTypes
  <2> QED
    BY <1>0, <1>4, <2>1, <2>3, <2>4 DEF ConnectReads, LadTypes
<1>5. CASE \E asked \in Requests : Ask(p, asked)
  <2> PICK asked \in Requests : Ask(p, asked)
    BY <1>5
  <2>1. clientAt' \in [Clients -> LadPlaces]
    BY DEF Ask, ClientGoto, LadTypes, LadPlaces
  <2>2. Command(p, asked) \in Commands
    BY LadConstants DEF Ask, Command, Commands, ClientHeld, LadTypes, Requests
  <2>3. pipe' \in Seq(Commands)
    BY <2>2 DEF Ask, Write, LadTypes
  <2> QED
    BY <1>0, <2>1, <2>3 DEF Ask, LadTypes
<1>6. CASE GetResponse(p)
  <2>1. clientAt' \in [Clients -> LadPlaces]
    BY <1>6 DEF GetResponse, ClientGoto, LadTypes, LadPlaces
  <2>2. clientAt[p] = "create" => Head(answers[p]).id \in Queues \cup {NoSlot}
    <3>1. answers[p] # <<>> /\ clientAt[p] \in Requests
      BY <1>6 DEF GetResponse
    <3>2. PICK id \in Queues \cup {NoSlot} : answers[p] = Answered(clientAt[p], id)
      BY <3>1 DEF ClientHeld
    <3> QED
      BY <3>2 DEF Answered
  <2>3. mine' \in [Clients -> Queues \cup {NoSlot}]
    BY <1>6, <2>2 DEF GetResponse, LadTypes
  <2>4. DOMAIN answers' = Clients
    BY <1>6 DEF GetResponse, LadTypes
  <2> QED
    BY <1>0, <1>6, <2>1, <2>3, <2>4 DEF GetResponse, LadTypes
<1>7. CASE DisconnectWrites(p)
  <2>1. clientAt' \in [Clients -> LadPlaces] /\ reader' \in SUBSET Clients
    BY <1>7 DEF DisconnectWrites, ClientGoto, LadTypes, LadPlaces
  <2>2. [op |-> "disconnect", slot |-> clientId[p], pid |-> p] \in Commands
    BY <1>7 DEF DisconnectWrites, Commands, ClientHeld
  <2>3. pipe' \in Seq(Commands)
    BY <1>7, <2>2 DEF DisconnectWrites, Write, LadTypes
  <2> QED
    BY <1>0, <1>7, <2>1, <2>3 DEF DisconnectWrites, LadTypes
<1>8. CASE DisconnectReturns(p)
  <2>1. clientAt' \in [Clients -> LadPlaces] /\ clientId' \in [Clients -> Slots \cup {NoSlot}]
    BY <1>8 DEF DisconnectReturns, ClientGoto, LadTypes, LadPlaces
  <2> QED
    BY <1>0, <1>8, <2>1 DEF DisconnectReturns, LadTypes
<1>9. CASE ClientDies(p)
  <2>1. clientAt' \in [Clients -> LadPlaces] /\ reader' \in SUBSET Clients /\ alive' \in [Clients -> BOOLEAN]
    BY <1>9 DEF ClientDies, ClientGoto, LadTypes, LadPlaces
  <2> QED
    BY <1>0, <1>9, <2>1 DEF ClientDies, LadTypes
<1> QED
  BY <1>1, <1>2, <1>3, <1>4, <1>5, <1>6, <1>7, <1>8, <1>9 DEF ClientStep, ClientCall

\* A client's step leaves the slots as they are, and the other clients.
LadRests == UNCHANGED <<fifos, slotVars, queueVars, lad>>
\* so that most of the invariant holds on.
LEMMA ClientStepFrame ==
  ASSUME LadTypes, SlotsHeld, NEW p \in Clients, LadRests,
         \A u \in Clients : u # p => SameClient(u)
  PROVE  /\ SlotsHeld' /\ (HasSlot(p)' <=> HasSlot(p)) /\ (Connecting(p)' <=> Connecting(p))
         /\ \A u \in Clients : u # p /\ ClientHeld(u) => ClientHeld(u)'
         /\ \A c \in Commands : c.pid # p /\ Waited(c) => Waited(c)'
         /\ \A q \in Queues : ladQueues[q].owner # p /\ QueueHeld(q) => QueueHeld(q)'
<1> USE DEF LadRests, slotVars, queueVars
<1>1. \A u : KeepsSlot(u) /\ (HasSlot(u)' <=> HasSlot(u)) /\ (Connecting(u)' <=> Connecting(u))
  BY DEF KeepsSlot, HasSlot, Connecting
<1>2. SlotsHeld'
  <2>1. \A s \in Slots : (file'[s] = "open" <=> connected'[s]) /\ (connected'[s] => clientPID'[s] \in fifos')
    BY DEF SlotsHeld
  <2>2. \A r, s \in Slots : connected'[r] /\ connected'[s] /\ clientPID'[r] = clientPID'[s] => r = s
    BY DEF SlotsHeld
  <2>3. \A u \in Clients : Connecting(u)' => u \in fifos' /\ ~HasSlot(u)'
    BY <1>1 DEF SlotsHeld
  <2>4. \A u \in fifos' : HasSlot(u)' \/ Connecting(u)' \/ Down'
    BY <1>1 DEF SlotsHeld, Down
  <2> QED
    BY <2>1, <2>2, <2>3, <2>4 DEF SlotsHeld
<1>3. ASSUME NEW u \in Clients, u # p, ClientHeld(u) PROVE ClientHeld(u)'
  <2>1. Down => Down'
    BY DEF Down
  <2> QED
    BY <1>1, <1>3, <2>1, ClientFrame
<1>4. ASSUME NEW c \in Commands, c.pid # p, Waited(c) PROVE Waited(c)'
  <2>1. c.pid \in Clients
    BY CommandIs
  <2> QED
    BY <1>1, <1>4, <2>1, WaitedFrame
<1>5. ASSUME NEW q \in Queues, ladQueues[q].owner # p, QueueHeld(q) PROVE QueueHeld(q)'
  <2>1. ladQueues[q] # NoQueue => ladQueues[q].owner \in Clients
    BY <1>5, SlotOwner DEF QueueHeld
  <2> QED
    BY <1>1, <1>5, <2>1, QueueFrame
<1> QED
  BY <1>1, <1>2, <1>3, <1>4, <1>5

\* The commands under way, in a step that writes none
LEMMA PipeSame ==
  ASSUME LadTypes, InHand, PipeHeld, pipe' = pipe, lad' = lad, \A c \in Commands : Waited(c) => Waited(c)'
  PROVE  PipeHeld'
<1>1. ASSUME NEW i \in DOMAIN pipe', pipe'[i].op # "connect" PROVE Waited(pipe[i])'
  <2>1. PICK c \in Commands : c = pipe[i] /\ c = pipe'[i] /\ Waited(c)
    BY <1>1, PipeType DEF PipeHeld
  <2>2. Waited(c)'
    BY <2>1
  <2> QED
    BY <2>1, <2>2 DEF Waited
<1>2. ASSUME Handling', lad'.cmd.op # "connect" PROVE Waited(lad.cmd)'
  <2>1. PICK c \in Commands : c = lad.cmd /\ c = lad'.cmd /\ Waited(c)
    BY <1>2 DEF PipeHeld, InHand, Handling
  <2>2. Waited(c)'
    BY <2>1
  <2> QED
    BY <2>1, <2>2 DEF Waited
<1> HIDE DEF Waited
<1> QED
  BY <1>1, <1>2 DEF PipeHeld, Handling

\* and in one that writes the only one of its client.
LEMMA PipeWritten ==
  ASSUME LadTypes, InHand, PipeHeld, NEW c \in Commands, pipe' = Append(pipe, c), lad' = lad,
         \A d \in Commands : Waited(d) => Waited(d)',
         c.op # "connect" => Waited(c)' /\ \A d \in Commands : d.pid = c.pid => ~Waited(d)
  PROVE  PipeHeld'
<1>1. pipe \in Seq(Commands) /\ Len(pipe) \in Nat
  BY LenProperties DEF LadTypes
<1>2. \A i \in DOMAIN pipe' : (i \in DOMAIN pipe /\ pipe'[i] = pipe[i]) \/ (i = Len(pipe) + 1 /\ pipe'[i] = c)
  BY <1>1, AppendProperties, LenProperties
<1>3. \A i \in DOMAIN pipe : pipe[i].op # "connect" => Waited(pipe[i])
  BY DEF PipeHeld
<1>4. Handling /\ lad.cmd.op # "connect" => Waited(lad.cmd)
  BY DEF PipeHeld
<1>5. ASSUME NEW i \in DOMAIN pipe', pipe'[i].op # "connect" PROVE Waited(pipe[i])'
  <2>1. PICK d \in Commands : d = pipe'[i] /\ Waited(d)'
    <3>1. CASE i \in DOMAIN pipe /\ pipe'[i] = pipe[i]
      BY <1>3, <1>5, <3>1, PipeType
    <3>2. CASE pipe'[i] = c
      BY <1>5, <3>2
    <3> QED
      BY <1>2, <3>1, <3>2
  <2> QED
    BY <2>1 DEF Waited
<1>6. ASSUME Handling', lad'.cmd.op # "connect" PROVE Waited(lad.cmd)'
  <2>1. PICK d \in Commands : d = lad.cmd /\ d = lad'.cmd /\ Waited(d)
    BY <1>4, <1>6 DEF InHand, Handling
  <2>2. Waited(d)'
    BY <2>1
  <2> QED
    BY <2>1, <2>2 DEF Waited
<1>7. \A i \in DOMAIN pipe : pipe[i].op # "connect" /\ c.op # "connect" => pipe[i].pid # c.pid
  BY <1>3, PipeType
<1>8. Handling /\ lad.cmd.op # "connect" /\ c.op # "connect" => lad.cmd.pid # c.pid
  BY <1>4 DEF InHand
<1>9. \A i, j \in DOMAIN pipe' :
       pipe'[i].op # "connect" /\ pipe'[j].op # "connect" /\ pipe'[i].pid = pipe'[j].pid => i = j
  BY <1>2, <1>7 DEF PipeHeld
<1>10. Handling' /\ lad'.cmd.op # "connect" =>
       \A i \in DOMAIN pipe' : pipe'[i].op # "connect" => pipe'[i].pid # lad'.cmd.pid
  BY <1>2, <1>8 DEF PipeHeld, Handling
<1> QED
  BY <1>5, <1>6, <1>9, <1>10 DEF PipeHeld

\* A client's step keeps the invariant, when its own part of it does.
LEMMA ClientWell ==
  ASSUME LadIsWell, NEW p \in Clients, ClientStep(p) \/ ClientCall(p), LadRests,
         \A u \in Clients : u # p => SameClient(u), ClientHeld(p)',
         ~Down => \A c \in Commands : c.pid = p /\ Waited(c) => Waited(c)',
         \/ pipe' = pipe
         \/ \E c \in Commands :
              /\ pipe' = Append(pipe, c)
              /\ c.op # "connect" /\ ~Down =>
                   c.pid = p /\ Waited(c)' /\ \A d \in Commands : d.pid = p => ~Waited(d),
         ~Down => \A q \in Queues : ladQueues[q].owner = p /\ QueueHeld(q) => QueueHeld(q)'
  PROVE  LadIsWell'
<1>1. LadTypes' /\ InHand'
  BY ClientTypes DEF LadIsWell, ClientsHeld
<1>2. SlotsHeld'
  BY ClientStepFrame DEF LadIsWell
<1>3. ClientsHeld'
  <2>1. ASSUME NEW u \in Clients PROVE ClientHeld(u)'
    <3>1. CASE u = p
      BY <3>1
    <3>2. CASE u # p
      BY <3>2, ClientStepFrame DEF LadIsWell, ClientsHeld
    <3> QED
      BY <3>1, <3>2
  <2> QED
    BY <2>1 DEF ClientsHeld
<1>4. lad' = lad /\ Down' = Down
  BY DEF LadRests, Down
<1>5. ASSUME ~Down PROVE PipeHeld'
  <2>1. \A c \in Commands : Waited(c) => Waited(c)'
    BY <1>5, ClientStepFrame DEF LadIsWell
  <2>2. CASE pipe' = pipe
    BY <1>4, <1>5, <2>1, <2>2, PipeSame DEF LadIsWell
  <2>3. ASSUME NEW c \in Commands, pipe' = Append(pipe, c),
               c.op # "connect" /\ ~Down =>
                   c.pid = p /\ Waited(c)' /\ \A d \in Commands : d.pid = p => ~Waited(d)
        PROVE  PipeHeld'
    <3>1. c.op # "connect" => Waited(c)' /\ \A d \in Commands : d.pid = c.pid => ~Waited(d)
      BY <1>5, <2>3
    <3>2. LadTypes /\ InHand /\ PipeHeld
      BY <1>5 DEF LadIsWell
    <3> QED
      BY <1>4, <2>1, <2>3, <3>1, <3>2, PipeWritten
  <2> QED
    BY <2>2, <2>3
<1>6. ASSUME ~Down PROVE QueuesHeld'
  <2>1. ASSUME NEW q \in Queues PROVE QueueHeld(q)'
    <3>1. QueueHeld(q) /\ LadTypes /\ SlotsHeld
      BY <1>6 DEF LadIsWell, QueuesHeld
    <3>2. CASE ladQueues[q].owner = p
      BY <1>6, <3>1, <3>2
    <3>3. CASE ladQueues[q].owner # p
      BY <3>1, <3>3, ClientStepFrame
    <3> QED
      BY <3>2, <3>3
  <2> QED
    BY <2>1 DEF QueuesHeld
<1> QED
  BY <1>1, <1>2, <1>3, <1>4, <1>5, <1>6 DEF LadIsWell

\* A client that waits for nothing has no command under way,
LEMMA NothingWaited ==
  ASSUME NEW p, alive[p], clientAt[p] \in {"out", "opening", "reading", "ready"},
         NEW c \in Commands, c.pid = p
  PROVE  ~Waited(c)
BY DEF Waited, Requests

\* and one that is not connected no queue.
LEMMA NoneOwned ==
  ASSUME NEW p \in Clients, alive[p], clientAt[p] \notin {"ready"} \cup Requests,
         NEW q \in Queues, ladQueues[q].owner = p
  PROVE  ~QueueHeld(q)
BY LadConstants DEF QueueHeld, Requests, NoQueue

\* A client that is not reading an answer for its connect waits for LAD's.
LEMMA OpensStep ==
  ASSUME LadIsWell, NEW p \in Clients, ConnectWrites(p) \/ ConnectOpens(p) \/ ConnectTimesOut(p)
  PROVE  LadIsWell'
<1>1. ClientHeld(p) /\ LadTypes /\ SlotsHeld /\ alive[p] /\ clientAt[p] \in {"out", "opening"}
  BY DEF LadIsWell, ClientsHeld, ConnectWrites, ConnectOpens, ConnectTimesOut
<1>2. LadRests /\ \A u \in Clients : u # p => SameClient(u)
  BY <1>1 DEF ConnectWrites, ConnectOpens, ConnectTimesOut, LadRests, SameClient, LadTypes, ClientGoto,
         endVars, bounds, slotVars, queueVars
<1>3. (HasSlot(p)' <=> HasSlot(p)) /\ (Connecting(p)' <=> Connecting(p))
  BY <1>1, <1>2, ClientStepFrame
<1>4. ClientHeld(p)'
  <2>1. CASE ConnectWrites(p)
    <3>1. p \notin fifos /\ clientAt'[p] = "opening" /\ alive' = alive /\ answers' = answers /\ reader' = reader
      BY <1>1, <2>1 DEF ConnectWrites, ClientGoto, LadTypes, endVars
    <3>2. ~HasSlot(p)'
      BY <1>1, <1>3, <3>1, SlotOwner
    <3> QED
      BY <1>1, <2>1, <3>1, <3>2 DEF ClientHeld, ConnectWrites, Requests
  <2>2. CASE ConnectOpens(p)
    <3>1. p \in fifos /\ clientAt[p] = "opening" /\ clientAt'[p] = "reading" /\ alive' = alive
            /\ answers' = answers /\ p \in reader'
      BY <1>1, <2>2 DEF ConnectOpens, ClientGoto, LadTypes
    <3>2. Connecting(p)' \/ Down'
      BY <1>1, <1>2, <1>3, <3>1 DEF ClientHeld, SlotsHeld, LadRests, Down
    <3> QED
      BY <1>1, <3>1, <3>2 DEF ClientHeld, Requests
  <2>3. CASE ConnectTimesOut(p)
    BY <1>1, <2>3 DEF ClientHeld, ConnectTimesOut, ClientGoto, LadTypes, Requests, endVars
  <2> QED
    BY <2>1, <2>2, <2>3
<1>5. pipe' = pipe \/ \E c \in Commands : pipe' = Append(pipe, c) /\ c.op = "connect"
  <2>1. [op |-> "connect", pid |-> p] \in Commands /\ [op |-> "connect", pid |-> p].op = "connect"
    BY DEF Commands
  <2> QED
    BY <2>1 DEF ConnectWrites, ConnectOpens, ConnectTimesOut, Write, bounds
<1>6. \A c \in Commands : c.pid = p => ~Waited(c)
  BY <1>1, NothingWaited
<1>7. \A q \in Queues : ladQueues[q].owner = p => ~QueueHeld(q)
  BY <1>1, NoneOwned DEF Requests
<1>8. ClientStep(p) \/ ClientCall(p)
  BY DEF ClientStep, ClientCall
<1> QED
  BY <1>2, <1>4, <1>5, <1>6, <1>7, <1>8, ClientWell

\* One that reads the answer to its connect has a slot then, or none.
LEMMA ConnectReadsStep ==
  ASSUME LadIsWell, NEW p \in Clients, ConnectReads(p)
  PROVE  LadIsWell'
<1>1. ClientHeld(p) /\ LadTypes /\ SlotsHeld /\ alive[p] /\ clientAt[p] = "reading" /\ answers[p] # <<>>
  BY DEF LadIsWell, ClientsHeld, ConnectReads
<1>2. LadRests /\ \A u \in Clients : u # p => SameClient(u)
  BY <1>1 DEF ConnectReads, LadRests, SameClient, LadTypes, ClientGoto, endVars, bounds, slotVars, queueVars
<1>3. (HasSlot(p)' <=> HasSlot(p)) /\ (Connecting(p)' <=> Connecting(p))
  BY <1>1, <1>2, ClientStepFrame
<1>4. PICK s \in Slots \cup {NoSlot} : /\ answers[p] = Answered("connect", s)
                                       /\ s # NoSlot => p \in reader /\ HasSlot(p)
                                       /\ s = NoSlot => p \notin reader
  BY <1>1, LadConstants DEF ClientHeld, HasSlot
<1>5. Head(answers[p]).id = s /\ answers'[p] = <<>>
  BY <1>1, <1>4 DEF ConnectReads, Answered, LadTypes
<1>6. ClientHeld(p)'
  <2>1. CASE s = NoSlot
    <3>1. clientAt'[p] = "out" /\ p \notin reader' /\ alive' = alive
      BY <1>1, <1>4, <1>5, <2>1 DEF ConnectReads, ClientGoto, LadTypes
    <3> QED
      BY <1>1, <1>5, <3>1 DEF ClientHeld, Requests
  <2>2. CASE s # NoSlot
    <3>1. clientAt'[p] = "ready" /\ p \in reader' /\ alive' = alive /\ clientId'[p] \in Slots
      BY <1>1, <1>4, <1>5, <2>2 DEF ConnectReads, ClientGoto, LadTypes, endVars
    <3> QED
      BY <1>1, <1>3, <1>4, <1>5, <2>2, <3>1 DEF ClientHeld, Requests
  <2> QED
    BY <2>1, <2>2
<1>7. \A c \in Commands : c.pid = p => ~Waited(c)
  BY <1>1, NothingWaited
<1>8. \A q \in Queues : ladQueues[q].owner = p => ~QueueHeld(q)
  BY <1>1, NoneOwned DEF Requests
<1>9. (ClientStep(p) \/ ClientCall(p)) /\ pipe' = pipe
  BY DEF ClientStep, ConnectReads
<1> QED
  BY <1>2, <1>6, <1>7, <1>8, <1>9, ClientWell

\* A client that asks waits for the answer to that.
LEMMA AskStep ==
  ASSUME LadIsWell, NEW p \in Clients, NEW asked \in Requests, Ask(p, asked)
  PROVE  LadIsWell'
<1>1. ClientHeld(p) /\ LadTypes /\ SlotsHeld /\ alive[p] /\ clientAt[p] = "ready"
  BY DEF LadIsWell, ClientsHeld, Ask
<1>2. LadRests /\ \A u \in Clients : u # p => SameClient(u)
  BY <1>1 DEF Ask, LadRests, SameClient, LadTypes, ClientGoto, endVars, slotVars, queueVars
<1>3. (HasSlot(p)' <=> HasSlot(p)) /\ (Connecting(p)' <=> Connecting(p))
  BY <1>1, <1>2, ClientStepFrame
<1>4. clientAt'[p] = asked /\ alive' = alive /\ mine' = mine /\ answers' = answers /\ answers[p] = <<>>
        /\ reader' = reader /\ clientId' = clientId
  BY <1>1 DEF Ask, ClientGoto, LadTypes, endVars, ClientHeld
<1>5. p \in reader /\ HasSlot(p) /\ clientId[p] \in Slots
  BY <1>1 DEF ClientHeld
<1>6. (asked = "create" <=> mine[p] = NoSlot) /\ (asked # "create" => mine[p] \in Queues)
  BY <1>1 DEF Ask, LadTypes
<1>7. ClientHeld(p)'
  BY <1>1, <1>3, <1>4, <1>5, <1>6 DEF ClientHeld, Requests, Answered
<1>8. \A c \in Commands : c.pid = p => ~Waited(c)
  BY <1>1, NothingWaited
<1>9. \E c \in Commands : pipe' = Append(pipe, c) /\ c.pid = p /\ Waited(c)'
  <2>1. Command(p, asked) \in Commands
    BY <1>5, <1>6 DEF Command, Commands, Requests
  <2>2. Waited(Command(p, asked))'
    BY <1>3, <1>4, <1>5 DEF Waited, Command, Requests
  <2>3. pipe' = Append(pipe, Command(p, asked))
    BY DEF Ask, Write
  <2>4. PICK c \in Commands : c = Command(p, asked)
    BY <2>1
  <2>5. c.pid = p
    BY <2>4 DEF Command
  <2>6. Waited(c)'
    BY <1>4, <2>2, <2>4 DEF Waited, Command
  <2> QED
    BY <2>3, <2>4, <2>5, <2>6
<1>10. ASSUME NEW q \in Queues, ladQueues[q].owner = p, QueueHeld(q) PROVE QueueHeld(q)'
  <2>1. ladQueues[q] # NoQueue
    BY <1>10, LadConstants DEF NoQueue
  <2>2. mine[p] = q
    BY <1>1, <1>10, <2>1 DEF QueueHeld, Requests
  <2>3. asked \in {"announce", "delete"}
    BY <1>6, <2>2, LadConstants DEF Requests
  <2>4. ladQueues'[q] = ladQueues[q]
    BY <1>2 DEF LadRests, queueVars
  <2> QED
    BY <1>3, <1>4, <1>5, <1>10, <2>2, <2>3, <2>4 DEF QueueHeld
<1>11. ClientStep(p) \/ ClientCall(p)
  BY DEF ClientCall
<1> QED
  BY <1>2, <1>7, <1>8, <1>9, <1>10, <1>11, ClientWell

\* The answer it reads is that, and the queue it creates is its own.
LEMMA GetResponseStep ==
  ASSUME LadIsWell, NEW p \in Clients, GetResponse(p)
  PROVE  LadIsWell'
<1>1. ClientHeld(p) /\ LadTypes /\ SlotsHeld /\ alive[p] /\ clientAt[p] \in Requests /\ answers[p] # <<>>
  BY DEF LadIsWell, ClientsHeld, GetResponse
<1>2. LadRests /\ \A u \in Clients : u # p => SameClient(u)
  BY <1>1 DEF GetResponse, LadRests, SameClient, LadTypes, ClientGoto, endVars, bounds, slotVars, queueVars
<1>3. (HasSlot(p)' <=> HasSlot(p)) /\ (Connecting(p)' <=> Connecting(p))
  BY <1>1, <1>2, ClientStepFrame
<1>4. PICK id \in Queues \cup {NoSlot} : answers[p] = Answered(clientAt[p], id)
  BY <1>1 DEF ClientHeld
<1>5. Head(answers[p]).id = id /\ answers'[p] = <<>>
  BY <1>1, <1>4 DEF GetResponse, Answered, LadTypes
<1>6. clientAt'[p] = "ready" /\ alive' = alive /\ reader' = reader /\ clientId' = clientId
  BY <1>1 DEF GetResponse, ClientGoto, LadTypes, endVars
<1>7. p \in reader /\ HasSlot(p) /\ clientId[p] \in Slots
  BY <1>1 DEF ClientHeld
<1>8. ClientHeld(p)'
  BY <1>1, <1>3, <1>5, <1>6, <1>7 DEF ClientHeld, Requests
<1>9. \A c \in Commands : c.pid = p => ~Waited(c)
  BY <1>1 DEF Waited, Requests
<1>10. ASSUME NEW q \in Queues, ladQueues[q].owner = p, QueueHeld(q) PROVE QueueHeld(q)'
  <2>1. ladQueues[q] # NoQueue
    BY <1>10, LadConstants DEF NoQueue
  <2>2. \/ mine[p] = q /\ clientAt[p] = "announce"
        \/ clientAt[p] = "create" /\ answers[p] = Answered("create", q)
    BY <1>1, <1>10, <2>1 DEF QueueHeld, Requests
  <2>3. mine'[p] = q
    <3>1. CASE mine[p] = q /\ clientAt[p] = "announce"
      BY <1>1, <3>1 DEF GetResponse, LadTypes
    <3>2. CASE clientAt[p] = "create" /\ answers[p] = Answered("create", q)
      <4>1. id = q
        BY <1>4, <3>2 DEF Answered
      <4> QED
        BY <1>1, <1>5, <3>2, <4>1 DEF GetResponse, LadTypes
    <3> QED
      BY <2>2, <3>1, <3>2
  <2>4. ladQueues'[q] = ladQueues[q]
    BY <1>2 DEF LadRests, queueVars
  <2> QED
    BY <1>3, <1>6, <1>7, <1>10, <2>3, <2>4 DEF QueueHeld
<1>11. (ClientStep(p) \/ ClientCall(p)) /\ pipe' = pipe
  BY DEF ClientStep, GetResponse
<1> QED
  BY <1>2, <1>8, <1>9, <1>10, <1>11, ClientWell

\* One that finds the writing end closed knows that LAD is gone.
LEMMA GetsNothingStep ==
  ASSUME LadIsWell, NEW p \in Clients, GetsNothing(p)
  PROVE  LadIsWell'
<1>1. ClientHeld(p) /\ LadTypes /\ SlotsHeld /\ alive[p] /\ clientAt[p] \in Requests /\ answers[p] = <<>> /\ Down
  BY DEF LadIsWell, ClientsHeld, GetsNothing
<1>2. LadRests /\ \A u \in Clients : u # p => SameClient(u)
  BY <1>1 DEF GetsNothing, LadRests, SameClient, LadTypes, ClientGoto, endVars, bounds, slotVars, queueVars
<1>3. ClientHeld(p)'
  <2>1. clientAt'[p] = "failed" /\ alive' = alive /\ answers' = answers /\ Down'
    BY <1>1 DEF GetsNothing, ClientGoto, LadTypes, Down
  <2> QED
    BY <1>1, <2>1 DEF ClientHeld, Requests
<1>4. (ClientStep(p) \/ ClientCall(p)) /\ pipe' = pipe
  BY DEF ClientStep, GetsNothing, bounds
<1> QED
  BY <1>1, <1>2, <1>3, <1>4, ClientWell

\* A client that disconnects has no queue,
LEMMA DisconnectWritesStep ==
  ASSUME LadIsWell, NEW p \in Clients, DisconnectWrites(p)
  PROVE  LadIsWell'
<1>1. ClientHeld(p) /\ LadTypes /\ SlotsHeld /\ alive[p] /\ clientAt[p] = "ready" /\ mine[p] = NoSlot
  BY DEF LadIsWell, ClientsHeld, DisconnectWrites
<1>2. LadRests /\ \A u \in Clients : u # p => SameClient(u)
  BY <1>1 DEF DisconnectWrites, LadRests, SameClient, LadTypes, ClientGoto, slotVars, queueVars
<1>3. (HasSlot(p)' <=> HasSlot(p)) /\ (Connecting(p)' <=> Connecting(p))
  BY <1>1, <1>2, ClientStepFrame
<1>4. clientAt'[p] = "closing" /\ alive' = alive /\ answers' = answers /\ answers[p] = <<>> /\ p \notin reader'
  BY <1>1 DEF DisconnectWrites, ClientGoto, LadTypes, ClientHeld
<1>5. HasSlot(p) /\ clientId[p] \in Slots
  BY <1>1 DEF ClientHeld
<1>6. ClientHeld(p)'
  BY <1>1, <1>4 DEF ClientHeld, Requests
<1>7. \A c \in Commands : c.pid = p => ~Waited(c)
  BY <1>1, NothingWaited
<1>8. \A q \in Queues : ladQueues[q].owner = p => ~QueueHeld(q)
  BY <1>1, LadConstants DEF QueueHeld, NoQueue
<1>9. \E c \in Commands : pipe' = Append(pipe, c) /\ c.pid = p /\ (~Down => Waited(c)')
  <2>1. PICK c : c = [op |-> "disconnect", slot |-> clientId[p], pid |-> p]
    OBVIOUS
  <2>2. c \in Commands /\ c.pid = p /\ c.op = "disconnect"
    BY <1>5, <2>1 DEF Commands
  <2>3. pipe' = Append(pipe, c)
    BY <2>1 DEF DisconnectWrites, Write
  <2>4. ASSUME ~Down PROVE Waited(c)'
    <3>1. \A q \in Queues : ladQueues'[q].owner # p
      BY <1>2, <1>8, <2>4 DEF LadIsWell, QueuesHeld, LadRests, queueVars
    <3> QED
      BY <1>3, <1>4, <1>5, <2>2, <3>1 DEF Waited
  <2> QED
    BY <2>2, <2>3, <2>4
<1>10. ClientStep(p) \/ ClientCall(p)
  BY DEF ClientCall
<1> QED
  BY <1>2, <1>6, <1>7, <1>8, <1>9, <1>10, ClientWell

\* and once its FIFO is removed LAD has its command no more.
LEMMA DisconnectEndsStep ==
  ASSUME LadIsWell, NEW p \in Clients, DisconnectReturns(p) \/ DisconnectTimesOut(p)
  PROVE  LadIsWell'
<1>1. ClientHeld(p) /\ LadTypes /\ SlotsHeld /\ alive[p] /\ clientAt[p] = "closing"
  BY DEF LadIsWell, ClientsHeld, DisconnectReturns, DisconnectTimesOut
<1>2. LadRests /\ \A u \in Clients : u # p => SameClient(u)
  BY <1>1 DEF DisconnectReturns, DisconnectTimesOut, LadRests, SameClient, LadTypes, ClientGoto,
         endVars, bounds, slotVars, queueVars
<1>3. (HasSlot(p)' <=> HasSlot(p)) /\ (Connecting(p)' <=> Connecting(p))
  BY <1>1, <1>2, ClientStepFrame
<1>4. /\ clientAt'[p] \in {"out", "failed"} /\ alive' = alive /\ answers' = answers /\ reader' = reader
      /\ answers[p] = <<>> /\ p \notin reader /\ ladQueues' = ladQueues
      /\ clientAt'[p] = "out" => p \notin fifos
  BY <1>1 DEF DisconnectReturns, DisconnectTimesOut, ClientGoto, LadTypes, ClientHeld, endVars, queueVars
<1>5. ClientHeld(p)'
  BY <1>1, <1>4 DEF ClientHeld, Requests
<1>6. ASSUME NEW c \in Commands, c.pid = p, Waited(c) PROVE Waited(c)'
  <2>1. HasSlot(p) /\ c.op = "disconnect"
    BY <1>1, <1>6 DEF Waited, Requests
  <2>2. clientAt'[p] = "failed"
    BY <1>1, <1>4, <2>1, SlotOwner
  <2> QED
    BY <1>3, <1>4, <1>6, <2>1, <2>2 DEF Waited
<1>7. \A q \in Queues : ladQueues[q].owner = p => ~QueueHeld(q)
  BY <1>1, NoneOwned DEF Requests
<1>8. (ClientStep(p) \/ ClientCall(p)) /\ pipe' = pipe
  BY DEF ClientStep, ClientCall, DisconnectReturns, DisconnectTimesOut, bounds
<1> QED
  BY <1>2, <1>5, <1>6, <1>7, <1>8, ClientWell

\* What a client leaves when it dies is there until LAD looks.
LEMMA DiesStep ==
  ASSUME LadIsWell, NEW p \in Clients, ClientDies(p)
  PROVE  LadIsWell'
<1>1. ClientHeld(p) /\ LadTypes /\ SlotsHeld /\ alive[p]
  BY DEF LadIsWell, ClientsHeld, ClientDies
<1>2. LadRests /\ \A u \in Clients : u # p => SameClient(u)
  BY <1>1 DEF ClientDies, LadRests, SameClient, LadTypes, ClientGoto, slotVars, queueVars
<1>3. (HasSlot(p)' <=> HasSlot(p)) /\ (Connecting(p)' <=> Connecting(p))
  BY <1>1, <1>2, ClientStepFrame
<1>4. /\ clientAt'[p] = "dead" /\ alive'[p] = FALSE /\ answers' = answers /\ p \notin reader'
      /\ ladQueues' = ladQueues
  BY <1>1 DEF ClientDies, ClientGoto, LadTypes, queueVars
<1>5. answers[p] = <<>> \/ Len(answers[p]) = 1
  <2>1. \A kind, id : Len(Answered(kind, id)) = 1
    BY DEF Answered
  <2>2. clientAt[p] \in LadPlaces
    BY <1>1 DEF LadTypes
  <2> HIDE DEF Answered
  <2>3. CASE clientAt[p] = "reading"
    BY <1>1, <2>1, <2>3 DEF ClientHeld
  <2>4. CASE clientAt[p] \in Requests
    BY <1>1, <2>1, <2>4 DEF ClientHeld
  <2>5. CASE clientAt[p] \notin {"reading"} \cup Requests
    BY <1>1, <2>2, <2>5 DEF ClientHeld, LadPlaces
  <2> QED
    BY <2>3, <2>4, <2>5
<1>6. ClientHeld(p)'
  BY <1>4, <1>5 DEF ClientHeld, Requests
<1>7. \A c \in Commands : c.pid = p /\ Waited(c) => Waited(c)'
  BY <1>4 DEF Waited
<1>8. \A q \in Queues : ladQueues[q].owner = p /\ QueueHeld(q) => QueueHeld(q)'
  BY <1>3, <1>4 DEF QueueHeld
<1>9. (ClientStep(p) \/ ClientCall(p)) /\ pipe' = pipe
  BY DEF ClientCall, ClientDies
<1> QED
  BY <1>2, <1>6, <1>7, <1>8, <1>9, ClientWell

\* The slot a client is given was free, the place of a queue a hole.
LEMMA SlotGiven ==
  ASSUME assignClientId # NoSlot
  PROVE  assignClientId \in Slots /\ ~connected[assignClientId]
<1>1. FreeSlots # {} /\ FreeSlots \in SUBSET Nat
  BY LadConstants DEF assignClientId, FreeSlots
<1>2. (CHOOSE s \in FreeSlots : \A r \in FreeSlots : s <= r) \in FreeSlots
  BY <1>1, LeastExists
<1> QED
  BY <1>1, <1>2 DEF assignClientId, FreeSlots

PlaceGiven == IF Holes # {} THEN CHOOSE h \in Holes : \A g \in Holes : h <= g ELSE ladNumQueues
\* It is in the table, and a hole or the end.
LEMMA PlaceGivenIs ==
  ASSUME LadTypes, Holes # {} \/ ladNumQueues < MaxLadQueues
  PROVE  /\ PlaceGiven \in Queues
         /\ ladQueues[PlaceGiven] = NoQueue \/ PlaceGiven = ladNumQueues
<1>1. Holes \in SUBSET Nat /\ \A h \in Holes : h \in Queues /\ ladQueues[h] = NoQueue
  BY LadConstants DEF Holes, Queues, LadTypes
<1>2. CASE Holes # {}
  <2>1. (CHOOSE h \in Holes : \A g \in Holes : h <= g) \in Holes
    BY <1>1, <1>2, LeastExists
  <2> QED
    BY <1>1, <1>2, <2>1 DEF PlaceGiven
<1>3. CASE Holes = {}
  BY <1>3, LadConstants DEF PlaceGiven, LadTypes
<1> QED
  BY <1>2, <1>3

\* A FILE that is open is of the client that has the slot.
LEMMA ReceiverIs ==
  ASSUME LadTypes, SlotsHeld, Slot \in Slots, file[Slot] = "open"
  PROVE  Receiver \in Clients /\ connected[Slot] /\ HasSlot(Receiver) /\ Receiver \in fifos
BY DEF LadTypes, SlotsHeld, Receiver, HasSlot

\* After its answer LAD reads on, or it is down.
LEMMA RespondTypes ==
  ASSUME LadTypes, InHand, SlotsHeld, lad.pc \in Requests, NEW id, Respond(id)
  PROVE  /\ DOMAIN answers' = Clients /\ InHand'
         /\ lad' = [pc |-> lad'.pc, cmd |-> lad'.cmd] /\ lad'.pc \in {"read", "down"}
  <1>1. DOMAIN answers' = Clients
    BY DEF Respond, LadTypes
  <1>2. lad' = [pc |-> "read", cmd |-> "none"] \/ lad' = [pc |-> "down", cmd |-> lad.cmd]
    BY DEF Respond, LadTypes, Reading
  <1> QED
    BY <1>1, <1>2 DEF InHand, Handling, Openings, Ops, Requests

\* Each of LAD's steps keeps the types.
LEMMA LadTypesStep ==
  ASSUME LadTypes, InHand, SlotsHeld, LadStep
  PROVE  LadTypes' /\ InHand'
<1> USE DEF endVars, slotVars, queueVars, bounds, ladClientVars
<1>1. CASE LadReads
  <2>1. PICK c \in Commands : c = Head(pipe) /\ lad' = [pc |-> c.op, cmd |-> c]
    BY SMTT(30), <1>1 DEF LadReads, LadTypes
  <2>2. pipe' \in Seq(Commands)
    BY <1>1 DEF LadReads, LadTypes
  <2>3. c.op \in Ops
    BY CommandIs
  <2>4. InHand' /\ lad' = [pc |-> lad'.pc, cmd |-> lad'.cmd] /\ lad'.pc \in Ops
    BY <2>1, <2>3 DEF InHand, Openings, Ops, Requests
  <2>5. connected' \in [Slots -> BOOLEAN] /\ file' \in [Slots -> {"none", "open", "closed"}]
    BY <1>1 DEF LadReads, LadTypes
  <2>6. ladQueues' \in [Queues -> [owner : Clients \cup {NoClient}, announced : BOOLEAN]]
    BY <1>1 DEF LadReads, LadTypes, NoQueue
  <2>7. DOMAIN answers' = Clients /\ fifos' \in SUBSET Clients
    BY <1>1 DEF LadReads, LadTypes
  <2>8. UNCHANGED <<alive, clientAt, clientId, mine, reader, clientPID, ladNumQueues>>
    BY <1>1 DEF LadReads
  <2> QED
    BY <2>2, <2>4, <2>5, <2>6, <2>7, <2>8 DEF LadTypes
<1>2. CASE LadMakesFifo
  <2>1. lad.cmd \in Commands /\ lad.cmd.pid \in Clients /\ lad.cmd.op = "connect"
    BY <1>2, CommandIs DEF LadMakesFifo, InHand, Handling, Ops
  <2>2. lad' = [pc |-> "read", cmd |-> "none"] \/ lad' = [pc |-> "open", cmd |-> lad.cmd]
    BY <1>2 DEF LadMakesFifo, LadTypes, Reading
  <2>3. InHand' /\ lad' = [pc |-> lad'.pc, cmd |-> lad'.cmd] /\ lad'.pc \in {"read"} \cup Openings
    BY <2>1, <2>2 DEF InHand, Handling, Openings, Ops, Requests
  <2> QED
    BY <1>2, <2>1, <2>3 DEF LadMakesFifo, LadTypes
<1>3. CASE LadWelcomes
  <2>1. lad.cmd \in Commands /\ lad.cmd.pid \in Clients
    BY <1>3, CommandIs DEF LadWelcomes, InHand, Handling
  <2>2. lad' = [pc |-> "read", cmd |-> "none"]
    BY <1>3 DEF LadWelcomes, Reading
  <2>3. InHand' /\ lad' = [pc |-> lad'.pc, cmd |-> lad'.cmd] /\ lad'.pc \in {"read"}
    BY <2>2 DEF InHand, Handling, Openings, Ops, Requests
  <2>4. DOMAIN answers' = Clients
    BY <1>3 DEF LadWelcomes, LadTypes
  <2>5. UNCHANGED <<alive, clientAt, clientId, mine, ladQueues, ladNumQueues, pipe>>
    BY <1>3 DEF LadWelcomes
  <2>6. CASE assignClientId # NoSlot
    BY <1>3, <2>1, <2>3, <2>4, <2>5, <2>6 DEF LadWelcomes, LadTypes
  <2>7. CASE assignClientId = NoSlot
    BY <1>3, <2>1, <2>3, <2>4, <2>5, <2>7 DEF LadWelcomes, LadTypes, Unlink
  <2> QED
    BY <2>6, <2>7
<1>9. CASE LadOpens \/ LadReopens \/ LadBreaksPipe
  <2>1. lad.cmd \in Commands /\ lad.cmd.op = "connect"
    BY <1>9 DEF LadOpens, LadReopens, LadBreaksPipe, InHand, Handling, Openings
  <2>2. \/ lad' = [pc |-> "fopen", cmd |-> lad.cmd]
        \/ lad' = [pc |-> "welcome", cmd |-> lad.cmd]
        \/ lad' = [pc |-> "down", cmd |-> lad.cmd]
    BY <1>9 DEF LadOpens, LadReopens, LadBreaksPipe, LadTypes
  <2>3. InHand' /\ lad' = [pc |-> lad'.pc, cmd |-> lad'.cmd] /\ lad'.pc \in {"down"} \cup Openings
    BY <2>1, <2>2 DEF InHand, Handling, Openings, Ops, Requests
  <2>4. /\ UNCHANGED <<alive, clientAt, clientId, mine, ladQueues, ladNumQueues, pipe>>
        /\ UNCHANGED <<fifos, reader, answers, connected, clientPID, file>>
    BY <1>9 DEF LadOpens, LadReopens, LadBreaksPipe
  <2> QED
    BY <2>3, <2>4 DEF LadTypes
<1>4. CASE LadGivesUp
  <2>1. lad' = [pc |-> "read", cmd |-> "none"]
    BY <1>4 DEF LadGivesUp, Reading
  <2>2. InHand' /\ lad' = [pc |-> lad'.pc, cmd |-> lad'.cmd] /\ lad'.pc \in {"read"}
    BY <2>1 DEF InHand, Handling, Openings, Ops, Requests
  <2> QED
    BY <1>4, <2>2 DEF LadGivesUp, Unlink, LadTypes
<1>5. CASE LadDisconnects
  <2>1. lad' = [pc |-> "read", cmd |-> "none"] \/ lad' = [pc |-> "down", cmd |-> lad.cmd]
    BY <1>5 DEF LadDisconnects, Reading, LadTypes
  <2>2. InHand' /\ lad' = [pc |-> lad'.pc, cmd |-> lad'.cmd] /\ lad'.pc \in {"read", "down"}
    BY <2>1 DEF InHand, Handling, Openings, Ops, Requests
  <2>3. DOMAIN answers' = Clients
    BY <1>5 DEF LadDisconnects, LadTypes
  <2>4. connected' \in [Slots -> BOOLEAN] /\ file' \in [Slots -> {"none", "open", "closed"}]
          /\ fifos' \in SUBSET Clients /\ reader' \in SUBSET Clients
    BY <1>5 DEF LadDisconnects, LadTypes, Unlink
  <2> QED
    BY <1>5, <2>2, <2>3, <2>4 DEF LadDisconnects, LadTypes
<1>6. CASE LadCreatesQueue
  <2>1. lad.pc = "create" /\ Respond(PlaceGiven) /\ (Holes # {} \/ ladNumQueues < MaxLadQueues)
          /\ ladQueues' = [ladQueues EXCEPT ![PlaceGiven] = [owner |-> Receiver, announced |-> FALSE]]
          /\ ladNumQueues' = IF PlaceGiven = ladNumQueues THEN ladNumQueues + 1 ELSE ladNumQueues
    BY <1>6 DEF LadCreatesQueue, PlaceGiven
  <2>2. PlaceGiven \in Queues
    BY <2>1, PlaceGivenIs
  <2>3. lad.cmd.slot \in Slots
    BY <2>1, CommandIs DEF InHand, Handling, Openings, Ops, Requests
  <2>4. ladNumQueues' \in 0 .. MaxLadQueues
    BY <2>1, <2>2, LadConstants DEF LadTypes, Queues
  <2>5. ladQueues' \in [Queues -> [owner : Clients \cup {NoClient}, announced : BOOLEAN]]
    BY <2>1, <2>3 DEF LadTypes, Receiver, Slot
  <2>6. DOMAIN answers' = Clients /\ InHand'
          /\ lad' = [pc |-> lad'.pc, cmd |-> lad'.cmd] /\ lad'.pc \in {"read", "down"}
    BY <2>1, RespondTypes DEF Requests
  <2> QED
    BY <1>6, <2>4, <2>5, <2>6 DEF LadCreatesQueue, LadTypes
<1>7. CASE LadAnnouncesQueue \/ LadDeletesQueue
  <2>1. lad.pc \in Requests /\ Respond(NoSlot)
    BY <1>7 DEF LadAnnouncesQueue, LadDeletesQueue, Requests
  <2>2. ladQueues' \in [Queues -> [owner : Clients \cup {NoClient}, announced : BOOLEAN]]
    <3>1. CASE LadDeletesQueue
      <4>1. NoQueue \in [owner : Clients \cup {NoClient}, announced : BOOLEAN]
        BY DEF NoQueue
      <4> QED
        BY <3>1, <4>1 DEF LadDeletesQueue, LadTypes
    <3>2. CASE LadAnnouncesQueue
      <4>1. lad.cmd.q \in Queues
        BY <2>1, <3>2, CommandIs DEF LadAnnouncesQueue, InHand, Handling, Openings, Ops, Requests
      <4> DEFINE e == [ladQueues[lad.cmd.q] EXCEPT !.announced = TRUE]
      <4>2. ladQueues' = [ladQueues EXCEPT ![lad.cmd.q] = e]
        BY <3>2 DEF LadAnnouncesQueue
      <4>3. e \in [owner : Clients \cup {NoClient}, announced : BOOLEAN]
        <5>1. ASSUME NEW r \in [owner : Clients \cup {NoClient}, announced : BOOLEAN]
              PROVE  [r EXCEPT !.announced = TRUE] \in [owner : Clients \cup {NoClient}, announced : BOOLEAN]
          OBVIOUS
        <5>2. ladQueues[lad.cmd.q] \in [owner : Clients \cup {NoClient}, announced : BOOLEAN]
          BY <4>1 DEF LadTypes
        <5> QED
          BY <5>1, <5>2
      <4> HIDE DEF e
      <4> QED
        BY <4>2, <4>3 DEF LadTypes
    <3> QED
      BY <1>7, <3>1, <3>2
  <2>3. DOMAIN answers' = Clients /\ InHand'
          /\ lad' = [pc |-> lad'.pc, cmd |-> lad'.cmd] /\ lad'.pc \in {"read", "down"}
    BY <2>1, RespondTypes
  <2> QED
    BY <1>7, <2>2, <2>3 DEF LadAnnouncesQueue, LadDeletesQueue, LadTypes
<1>8. CASE LadUsesFreedQueue
  <2>1. lad' = [pc |-> "down", cmd |-> lad.cmd]
    BY <1>8 DEF LadUsesFreedQueue, LadTypes
  <2>2. InHand' /\ lad' = [pc |-> lad'.pc, cmd |-> lad'.cmd] /\ lad'.pc \in {"read", "down"}
    BY <2>1 DEF InHand, Handling, Openings, Ops, Requests
  <2> QED
    BY <1>8, <2>2 DEF LadUsesFreedQueue, LadTypes
<1> QED
  BY <1>1, <1>2, <1>3, <1>4, <1>5, <1>6, <1>7, <1>8, <1>9 DEF LadStep

\* LAD leaves the clients' variables as they are, and the pipe but when it reads.
LEMMA PipeKept ==
  ASSUME LadTypes, PipeHeld, pipe' = pipe, lad'.pc = "read" \/ lad'.cmd.op = "connect",
         \A c \in Commands :
           /\ Waited(c)
           /\ Handling /\ lad.cmd.op # "connect" => c.pid # lad.cmd.pid
           => Waited(c)'
  PROVE  PipeHeld'
<1>1. ASSUME NEW i \in DOMAIN pipe', pipe'[i].op # "connect" PROVE Waited(pipe[i])'
  <2>1. PICK c \in Commands : c = pipe[i] /\ c = pipe'[i] /\ Waited(c)
    BY <1>1, PipeType DEF PipeHeld
  <2>2. Handling /\ lad.cmd.op # "connect" => c.pid # lad.cmd.pid
    BY <1>1, <2>1 DEF PipeHeld
  <2>3. Waited(c)'
    BY <2>1, <2>2
  <2> QED
    BY <2>1, <2>3 DEF Waited
<1>2. ~(Handling' /\ lad'.cmd.op # "connect")
  BY DEF Handling
<1>3. \A i, j \in DOMAIN pipe' :
       pipe'[i].op # "connect" /\ pipe'[j].op # "connect" /\ pipe'[i].pid = pipe'[j].pid => i = j
  BY DEF PipeHeld
<1> HIDE DEF Waited
<1> QED
  BY <1>1, <1>2, <1>3 DEF PipeHeld

\* LAD reads a command: the clients that are cleaned up are dead, and their slots free.
LEMMA ReadsStep ==
  ASSUME LadIsWell, LadReads
  PROVE  LadIsWell'
<1> DEFINE gone == {clientPID[s] : s \in Departed}
<1>1. /\ LadTypes /\ InHand /\ SlotsHeld /\ ClientsHeld /\ PipeHeld /\ QueuesHeld
      /\ ~Down /\ lad.pc = "read" /\ pipe # <<>>
  BY DEF LadIsWell, LadReads, Down
<1>2. LadTypes' /\ InHand'
  BY <1>1, LadTypesStep DEF LadStep
<1>3. /\ connected' = [s \in Slots |-> connected[s] /\ s \notin Departed]
      /\ file' = [s \in Slots |-> IF s \in Departed THEN "closed" ELSE file[s]]
      /\ fifos' = fifos \ gone
      /\ answers' = [p \in Clients |-> IF p \in gone THEN <<>> ELSE answers[p]]
      /\ ladQueues' = [q \in Queues |-> IF q \in OwnedBy(gone) THEN NoQueue ELSE ladQueues[q]]
      /\ lad' = [pc |-> Head(pipe).op, cmd |-> Head(pipe)] /\ pipe' = Tail(pipe)
      /\ alive' = alive /\ clientAt' = clientAt /\ clientId' = clientId /\ mine' = mine
      /\ reader' = reader /\ clientPID' = clientPID
  BY DEF LadReads, ladClientVars, endVars
<1>4. \A u \in gone : ~alive[u]
  BY DEF Departed
<1>5. \A s \in Slots : connected[s] /\ s \notin Departed => clientPID[s] \notin gone
  BY <1>4 DEF Departed
<1>6. Head(pipe) \in Commands /\ Head(pipe).op \in Ops
  BY <1>1, CommandIs DEF LadTypes
<1>7. \A u : ~Connecting(u) /\ ~Connecting(u)'
  BY <1>1, <1>3, <1>6 DEF Connecting, Openings, Ops, Requests
<1> HIDE DEF gone
<1>8. ASSUME NEW u \in Clients, u \notin gone PROVE SameClient(u) /\ KeepsSlot(u) /\ (HasSlot(u)' <=> HasSlot(u))
  <2>1. KeepsSlot(u)
    BY <1>3, <1>5, <1>8 DEF KeepsSlot, Departed, gone
  <2>2. SameClient(u)
    BY <1>3, <1>8 DEF SameClient
  <2> QED
    BY <2>1, <2>2, SlotKept
<1>9. SlotsHeld'
  <2>1. \A s \in Slots : (file'[s] = "open" <=> connected'[s]) /\ (connected'[s] => clientPID'[s] \in fifos')
    BY <1>1, <1>3, <1>5 DEF SlotsHeld
  <2>2. \A r, s \in Slots : connected'[r] /\ connected'[s] /\ clientPID'[r] = clientPID'[s] => r = s
    BY <1>1, <1>3 DEF SlotsHeld
  <2>3. \A u \in fifos' : HasSlot(u)'
    BY <1>1, <1>3, <1>7, <1>8 DEF SlotsHeld, LadTypes
  <2> QED
    BY <1>7, <2>1, <2>2, <2>3 DEF SlotsHeld
<1>10. ASSUME NEW u \in Clients PROVE ClientHeld(u)'
  <2>1. ClientHeld(u)
    BY <1>1 DEF ClientsHeld
  <2>2. CASE u \in gone
    <3>1. clientAt[u] = "dead" /\ alive[u] = alive'[u]
      BY <1>3, <1>4, <2>1, <2>2 DEF ClientHeld
    <3>2. answers'[u] = <<>>
      BY <1>3, <2>2
    <3> QED
      BY <1>3, <2>1, <3>1, <3>2 DEF ClientHeld, Requests
  <2>3. CASE u \notin gone
    BY <1>1, <1>7, <1>8, <2>1, <2>3, ClientFrame
  <2> QED
    BY <2>2, <2>3
<1>11. ASSUME NEW c \in Commands, Waited(c) PROVE Waited(c)'
  <2>1. c.pid \in Clients
    BY CommandIs
  <2>2. \A q \in Queues : ladQueues'[q].owner = c.pid => ladQueues[q].owner = c.pid
    BY <1>3, <2>1, LadConstants DEF NoQueue
  <2>3. CASE c.pid \in gone
    BY <1>3, <1>4, <1>11, <2>2, <2>3 DEF Waited
  <2>4. CASE c.pid \notin gone
    BY <1>8, <1>11, <2>1, <2>2, <2>4, WaitedFrame
  <2> QED
    BY <2>3, <2>4
<1>12. PipeHeld'
  <2>1. pipe \in Seq(Commands) /\ Len(pipe) \in Nat /\ Len(pipe) > 0
    BY <1>1, LenProperties, EmptySeq DEF LadTypes
  <2>2. \A i \in DOMAIN pipe' : i + 1 \in DOMAIN pipe /\ pipe'[i] = pipe[i + 1] /\ i \in Nat /\ i > 0
    BY <1>1, <1>3, <2>1, HeadTailProperties, LenProperties
  <2>3. 1 \in DOMAIN pipe /\ Head(pipe) = pipe[1]
    BY <2>1, LenProperties
  <2>4. ASSUME NEW i \in DOMAIN pipe', pipe'[i].op # "connect" PROVE Waited(pipe[i])'
    <3>1. PICK c \in Commands : c = pipe'[i] /\ Waited(c)
      BY <1>1, <2>2, <2>4, PipeType DEF PipeHeld
    <3>2. Waited(c)'
      BY <1>11, <3>1
    <3> QED
      BY <3>1, <3>2 DEF Waited
  <2>5. ASSUME lad'.cmd.op # "connect" PROVE Waited(lad.cmd)'
    <3>1. PICK c \in Commands : c = lad'.cmd /\ Waited(c)
      BY <1>1, <1>3, <1>6, <2>3, <2>5 DEF PipeHeld
    <3>2. Waited(c)'
      BY <1>11, <3>1
    <3> QED
      BY <3>1, <3>2 DEF Waited
  <2>6. \A i, j \in DOMAIN pipe' :
       pipe'[i].op # "connect" /\ pipe'[j].op # "connect" /\ pipe'[i].pid = pipe'[j].pid => i = j
    <3>1. ASSUME NEW i \in DOMAIN pipe', NEW j \in DOMAIN pipe',
                 pipe'[i].op # "connect", pipe'[j].op # "connect", pipe'[i].pid = pipe'[j].pid
          PROVE  i = j
      <4>1. i + 1 = j + 1
        BY <1>1, <2>2, <3>1 DEF PipeHeld
      <4> QED
        BY <2>2, <4>1
    <3> QED
      BY <3>1
  <2>7. lad'.cmd.op # "connect" => \A i \in DOMAIN pipe' : pipe'[i].op # "connect" => pipe'[i].pid # lad'.cmd.pid
    <3>1. ASSUME lad'.cmd.op # "connect", NEW i \in DOMAIN pipe', pipe'[i].op # "connect", pipe'[i].pid = lad'.cmd.pid
          PROVE  FALSE
      <4>1. lad'.cmd = pipe[1]
        BY <1>3, <2>3
      <4>2. 1 = i + 1
        BY <1>1, <2>2, <2>3, <3>1, <4>1 DEF PipeHeld
      <4> QED
        BY <2>2, <4>2
    <3> QED
      BY <3>1
  <2> HIDE DEF Waited
  <2> QED
    BY <2>4, <2>5, <2>6, <2>7 DEF PipeHeld
<1>13. ASSUME NEW q \in Queues PROVE QueueHeld(q)'
  <2>1. QueueHeld(q)
    BY <1>1 DEF QueuesHeld
  <2>2. CASE q \in OwnedBy(gone)
    <3>1. ladQueues'[q] = NoQueue
      BY <1>3, <2>2
    <3> QED
      BY <3>1 DEF QueueHeld, NoQueue
  <2>3. CASE q \notin OwnedBy(gone)
    <3>1. ladQueues'[q] = ladQueues[q] /\ ladQueues[q].owner \notin gone
      BY <1>3, <2>3 DEF OwnedBy
    <3>2. ladQueues[q] # NoQueue => ladQueues[q].owner \in Clients
      BY <1>1, <2>1, SlotOwner DEF QueueHeld
    <3> QED
      BY <1>8, <2>1, <3>1, <3>2, QueueFrame
  <2> QED
    BY <2>2, <2>3
<1> QED
  BY <1>2, <1>9, <1>10, <1>12, <1>13 DEF LadIsWell, ClientsHeld, QueuesHeld

\* LAD makes the FIFO of a client that has none.
LEMMA MakesFifoStep ==
  ASSUME LadIsWell, LadMakesFifo
  PROVE  LadIsWell'
<1> DEFINE p == lad.cmd.pid
<1>1. /\ LadTypes /\ InHand /\ SlotsHeld /\ ClientsHeld /\ PipeHeld /\ QueuesHeld
      /\ ~Down /\ lad.pc = "connect" /\ lad.cmd.op = "connect" /\ p \in Clients
  BY CommandIs DEF LadIsWell, LadMakesFifo, Down, InHand, Handling, Ops
<1>2. LadTypes' /\ InHand'
  BY <1>1, LadTypesStep DEF LadStep
<1>3. /\ fifos' = fifos \cup {p}
      /\ lad' = IF p \in fifos THEN Reading ELSE [lad EXCEPT !.pc = "open"]
      /\ UNCHANGED <<alive, clientAt, clientId, mine, reader, pipe, answers, connected, clientPID, file, ladQueues>>
  BY DEF LadMakesFifo, ladClientVars, endVars, slotVars, queueVars
<1>4. \A u : SameClient(u) /\ KeepsSlot(u) /\ (HasSlot(u)' <=> HasSlot(u)) /\ ~Connecting(u)
  BY <1>1, <1>3 DEF SameClient, KeepsSlot, HasSlot, Connecting, Openings
<1>5. \/ lad'.pc = "read" /\ p \in fifos
      \/ lad'.pc = "open" /\ p \notin fifos /\ lad'.cmd = lad.cmd
  <2>1. CASE p \in fifos
    BY <1>3, <2>1 DEF Reading
  <2>2. CASE p \notin fifos
    <3>1. lad' = [lad EXCEPT !.pc = "open"]
      BY <1>3, <2>2
    <3> QED
      BY <1>1, <2>2, <3>1 DEF LadTypes
  <2> QED
    BY <2>1, <2>2
<1>6. \A u : Connecting(u)' <=> u = p /\ p \notin fifos
  BY <1>5 DEF Connecting, Openings
<1> HIDE DEF p
<1>7. SlotsHeld'
  <2>1. \A s \in Slots : (file'[s] = "open" <=> connected'[s]) /\ (connected'[s] => clientPID'[s] \in fifos')
    BY <1>1, <1>3 DEF SlotsHeld
  <2>2. \A r, s \in Slots : connected'[r] /\ connected'[s] /\ clientPID'[r] = clientPID'[s] => r = s
    BY <1>1, <1>3 DEF SlotsHeld
  <2>3. \A u \in Clients : Connecting(u)' => u \in fifos' /\ ~HasSlot(u)'
    BY <1>1, <1>3, <1>4, <1>6, SlotOwner
  <2>4. \A u \in fifos' : HasSlot(u)' \/ Connecting(u)' \/ Down'
    BY <1>1, <1>3, <1>4, <1>6 DEF SlotsHeld
  <2> QED
    BY <2>1, <2>2, <2>3, <2>4 DEF SlotsHeld
<1>8. \A u \in Clients : ClientHeld(u)'
  BY <1>1, <1>4, ClientFrame DEF ClientsHeld
<1>9. PipeHeld'
  <2>1. \A c : Waited(c) => Waited(c)'
    BY <1>3, <1>4, WaitedFrame
  <2>2. lad'.pc = "read" \/ lad'.cmd.op = "connect"
    BY <1>1, <1>5
  <2> QED
    BY <1>1, <1>3, <2>1, <2>2, PipeKept
<1>10. \A q \in Queues : QueueHeld(q)'
  BY <1>1, <1>3, <1>4, QueueFrame DEF QueuesHeld
<1> QED
  BY <1>2, <1>7, <1>8, <1>9, <1>10 DEF LadIsWell, ClientsHeld, QueuesHeld

\* A client whose FIFO LAD is about to open has no slot, no queue and waits for nothing.
LEMMA OpeningIs ==
  ASSUME LadIsWell, lad.pc \in Openings
  PROVE  LET p == lad.cmd.pid
         IN  /\ p \in Clients /\ ~HasSlot(p) /\ lad.cmd.op = "connect"
             /\ \A u : Connecting(u) <=> u = p
             /\ \A c \in Commands : c.pid = p /\ Waited(c) => ~alive[p]
             /\ \A q \in Queues : QueueHeld(q) => ladQueues[q].owner # p
             /\ clientAt[p] \in LadPlaces \ ({"ready"} \cup Requests)
             /\ clientAt[p] = "reading" => answers[p] \in {<<>>, Answered("connect", NoSlot)}
<1> DEFINE p == lad.cmd.pid
<1>1. p \in Clients /\ lad.cmd.op = "connect"
  BY CommandIs DEF LadIsWell, InHand, Handling, Openings
<1>2. \A u : Connecting(u) <=> u = p
  BY DEF Connecting
<1>3. ~HasSlot(p)
  BY <1>1, <1>2 DEF LadIsWell, SlotsHeld
<1> HIDE DEF p
<1>4. ClientHeld(p) /\ clientAt[p] \in LadPlaces
  BY <1>1 DEF LadIsWell, ClientsHeld, LadTypes
<1>5. \A c \in Commands : c.pid = p /\ Waited(c) => ~alive[p]
  BY <1>3 DEF Waited
<1>6. \A q \in Queues : QueueHeld(q) => ladQueues[q].owner # p
  BY <1>1, <1>3, LadConstants DEF QueueHeld, NoQueue
<1>7. clientAt[p] = "reading" => answers[p] \in {<<>>, Answered("connect", NoSlot)}
  BY <1>3, <1>4 DEF ClientHeld, HasSlot
<1>8. clientAt[p] \notin {"ready"} \cup Requests
  BY <1>3, <1>4 DEF ClientHeld
<1> QED
  BY <1>1, <1>2, <1>3, <1>4, <1>5, <1>6, <1>7, <1>8 DEF p

\* The name of its FIFO is removed.
LEMMA UnlinkStep ==
  ASSUME LadIsWell, lad.pc \in Openings, Unlink(lad.cmd.pid), lad' = Reading,
         UNCHANGED <<alive, clientAt, clientId, mine, pipe, slotVars, queueVars>>,
         LadTypes', InHand',
         \/ answers' = answers
         \/ /\ lad.cmd.pid \in reader
            /\ answers' = [answers EXCEPT ![lad.cmd.pid] = Append(@, [op |-> "connect", id |-> NoSlot])]
  PROVE  LadIsWell'
<1>1. LadTypes /\ InHand /\ SlotsHeld /\ ClientsHeld /\ PipeHeld /\ QueuesHeld /\ ~Down
  BY DEF LadIsWell, Down, Openings
<1>2. PICK p \in Clients :
         /\ p = lad.cmd.pid /\ ~HasSlot(p) /\ lad.cmd.op = "connect"
         /\ \A u : Connecting(u) <=> u = p
         /\ \A c \in Commands : c.pid = p /\ Waited(c) => ~alive[p]
         /\ \A q \in Queues : QueueHeld(q) => ladQueues[q].owner # p
         /\ clientAt[p] \in LadPlaces \ ({"ready"} \cup Requests)
  BY OpeningIs
<1>3. /\ fifos' = fifos \ {p} /\ reader' = reader \ {p} /\ lad'.pc = "read"
      /\ UNCHANGED <<alive, clientAt, clientId, mine, pipe, connected, clientPID, file, ladQueues>>
  BY <1>2 DEF Unlink, Reading, slotVars, queueVars
<1>4. ClientHeld(p) /\ \A u \in Clients : u # p => answers'[u] = answers[u]
  BY <1>1, <1>2 DEF ClientsHeld, LadTypes
<1>5. \/ answers'[p] = answers[p]
      \/ p \in reader /\ answers'[p] = Append(answers[p], [op |-> "connect", id |-> NoSlot])
  BY <1>1, <1>2 DEF LadTypes
<1>6. \A u : KeepsSlot(u) /\ (HasSlot(u)' <=> HasSlot(u)) /\ ~Connecting(u)'
  BY <1>3 DEF KeepsSlot, HasSlot, Connecting, Openings
<1>7. \A u \in Clients : u # p => SameClient(u) /\ ~Connecting(u)
  BY <1>2, <1>3, <1>4 DEF SameClient
<1>8. SlotsHeld'
  <2>1. \A s \in Slots : (file'[s] = "open" <=> connected'[s]) /\ (connected'[s] => clientPID'[s] \in fifos')
    BY <1>1, <1>2, <1>3 DEF SlotsHeld, HasSlot
  <2>2. \A r, s \in Slots : connected'[r] /\ connected'[s] /\ clientPID'[r] = clientPID'[s] => r = s
    BY <1>1, <1>3 DEF SlotsHeld
  <2>3. \A u \in fifos' : HasSlot(u)' \/ Connecting(u)' \/ Down'
    BY <1>1, <1>2, <1>3, <1>6 DEF SlotsHeld
  <2> QED
    BY <1>6, <2>1, <2>2, <2>3 DEF SlotsHeld
<1>9. ClientHeld(p)'
  <2>1. p \notin reader' /\ alive' = alive /\ clientAt' = clientAt /\ ~HasSlot(p)'
    BY <1>2, <1>3, <1>6
  <2>2. CASE clientAt[p] = "reading"
    <3>1. answers'[p] \in {<<>>, Answered("connect", NoSlot)}
      <4>1. p \in reader => answers[p] = <<>>
        BY <1>2, <1>4, <2>2 DEF ClientHeld, HasSlot
      <4>2. p \notin reader => answers[p] \in {<<>>, Answered("connect", NoSlot)}
        BY <1>4, <2>2 DEF ClientHeld
      <4>3. Append(<<>>, [op |-> "connect", id |-> NoSlot]) = Answered("connect", NoSlot)
        BY DEF Answered
      <4> QED
        BY <1>5, <4>1, <4>2, <4>3
    <3> QED
      BY <1>4, <2>1, <2>2, <3>1 DEF ClientHeld, Requests, Answered
  <2>3. CASE clientAt[p] # "reading"
    <3>1. p \notin reader
      BY <1>1, <1>2, <1>4, <2>3 DEF ClientHeld, LadPlaces
    <3> QED
      BY ZenonT(60), <1>2, <1>4, <1>5, <2>1, <2>3, <3>1 DEF ClientHeld, LadPlaces, Requests
  <2> QED
    BY <2>2, <2>3
<1>10. ASSUME NEW u \in Clients PROVE ClientHeld(u)'
  <2>1. CASE u = p
    BY <1>9, <2>1
  <2>2. CASE u # p
    BY <1>1, <1>6, <1>7, <2>2, ClientFrame DEF ClientsHeld
  <2> QED
    BY <2>1, <2>2
<1>11. ASSUME NEW c \in Commands, Waited(c) PROVE Waited(c)'
  <2>1. c.pid \in Clients
    BY CommandIs
  <2>2. CASE c.pid = p
    BY <1>2, <1>3, <1>11, <2>2 DEF Waited
  <2>3. CASE c.pid # p
    BY <1>3, <1>6, <1>7, <1>11, <2>1, <2>3, WaitedFrame
  <2> QED
    BY <2>2, <2>3
<1>12. PipeHeld'
  BY <1>1, <1>3, <1>11, PipeKept
<1>13. ASSUME NEW q \in Queues PROVE QueueHeld(q)'
  <2>1. QueueHeld(q) /\ ladQueues[q].owner # p
    BY <1>1, <1>2 DEF QueuesHeld
  <2>2. ladQueues[q] # NoQueue => ladQueues[q].owner \in Clients
    BY <1>1, <2>1, SlotOwner DEF QueueHeld
  <2> QED
    BY <1>3, <1>6, <1>7, <2>1, <2>2, QueueFrame
<1> QED
  BY <1>8, <1>10, <1>12, <1>13 DEF LadIsWell, ClientsHeld, QueuesHeld

\* LAD answers a client that reads its FIFO, which then has the slot.
LEMMA ConnectsStep ==
  ASSUME LadIsWell, LadWelcomes, assignClientId # NoSlot
  PROVE  LadIsWell'
<1>1. LadTypes /\ InHand /\ SlotsHeld /\ ClientsHeld /\ PipeHeld /\ QueuesHeld /\ ~Down
  BY DEF LadIsWell, LadWelcomes, Down
<1>2. PICK p \in Clients :
         /\ p = lad.cmd.pid /\ ~HasSlot(p) /\ lad.cmd.op = "connect"
         /\ \A u : Connecting(u) <=> u = p
         /\ \A c \in Commands : c.pid = p /\ Waited(c) => ~alive[p]
         /\ \A q \in Queues : QueueHeld(q) => ladQueues[q].owner # p
         /\ clientAt[p] \in LadPlaces \ ({"ready"} \cup Requests)
         /\ clientAt[p] = "reading" => answers[p] \in {<<>>, Answered("connect", NoSlot)}
  BY OpeningIs DEF LadWelcomes, Openings
<1>3. LadTypes' /\ InHand'
  BY <1>1, LadTypesStep DEF LadStep
<1>4. PICK s \in Slots : s = assignClientId /\ ~connected[s]
  BY SlotGiven
<1>5. /\ p \in reader
      /\ answers' = [answers EXCEPT ![p] = Append(@, [op |-> "connect", id |-> s])]
      /\ connected' = [connected EXCEPT ![s] = TRUE]
      /\ clientPID' = [clientPID EXCEPT ![s] = p]
      /\ file' = [file EXCEPT ![s] = "open"] /\ lad'.pc = "read"
      /\ UNCHANGED <<alive, clientAt, clientId, mine, pipe, reader, fifos, ladQueues>>
  BY <1>2, <1>4 DEF LadWelcomes, Reading, ladClientVars, endVars, queueVars
<1>6. ClientHeld(p)
  BY <1>1, <1>2 DEF ClientsHeld
<1>7. clientAt[p] = "reading" /\ answers[p] = <<>> /\ alive[p]
  <2>1. clientAt[p] = "reading"
    BY <1>1, <1>2, <1>5, <1>6 DEF ClientHeld, LadPlaces
  <2> QED
    BY <1>2, <1>5, <1>6, <2>1 DEF ClientHeld, HasSlot
<1>8. answers'[p] = Answered("connect", s) /\ connected'[s] /\ clientPID'[s] = p
  BY <1>1, <1>2, <1>4, <1>5, <1>7 DEF LadTypes, Answered
<1>9. ASSUME NEW u \in Clients, u # p
      PROVE  SameClient(u) /\ KeepsSlot(u) /\ (HasSlot(u)' <=> HasSlot(u)) /\ ~Connecting(u)
  <2>1. KeepsSlot(u)
    BY <1>1, <1>4, <1>5, <1>9 DEF KeepsSlot, LadTypes
  <2>2. SameClient(u)
    BY <1>1, <1>5, <1>9 DEF SameClient, LadTypes
  <2> QED
    BY <1>2, <1>9, <2>1, <2>2, SlotKept
<1>10. HasSlot(p)' /\ \A u : ~Connecting(u)'
  BY <1>4, <1>5, <1>8 DEF HasSlot, Connecting, Openings
<1>11. SlotsHeld'
  <2>1. p \in fifos
    BY <1>1, <1>2 DEF SlotsHeld
  <2>2. \A r \in Slots : (file'[r] = "open" <=> connected'[r]) /\ (connected'[r] => clientPID'[r] \in fifos')
    BY <1>1, <1>4, <1>5, <2>1 DEF SlotsHeld, LadTypes
  <2>3. \A r \in Slots : r # s /\ connected'[r] => connected[r] /\ clientPID'[r] = clientPID[r] /\ clientPID[r] # p
    BY <1>1, <1>2, <1>4, <1>5 DEF LadTypes, HasSlot
  <2>4. \A r, t \in Slots : connected'[r] /\ connected'[t] /\ clientPID'[r] = clientPID'[t] => r = t
    BY <1>1, <1>8, <2>3 DEF SlotsHeld
  <2>5. \A u \in fifos' : HasSlot(u)' \/ Connecting(u)' \/ Down'
    BY <1>1, <1>2, <1>5, <1>9, <1>10 DEF SlotsHeld, LadTypes
  <2> QED
    BY <1>10, <2>2, <2>4, <2>5 DEF SlotsHeld
<1>12. ASSUME NEW u \in Clients PROVE ClientHeld(u)'
  <2>1. CASE u = p
    BY <1>4, <1>5, <1>6, <1>7, <1>8, <2>1 DEF ClientHeld, Requests
  <2>2. CASE u # p
    BY <1>1, <1>9, <2>2, ClientFrame DEF ClientsHeld
  <2> QED
    BY <2>1, <2>2
<1>13. ASSUME NEW c \in Commands, Waited(c) PROVE Waited(c)'
  <2>1. c.pid \in Clients /\ c.pid # p
    BY <1>2, <1>7, <1>13, CommandIs
  <2> QED
    BY <1>5, <1>9, <1>13, <2>1, WaitedFrame
<1>14. PipeHeld'
  BY <1>1, <1>5, <1>13, PipeKept
<1>15. ASSUME NEW q \in Queues PROVE QueueHeld(q)'
  <2>1. QueueHeld(q) /\ ladQueues[q].owner # p
    BY <1>1, <1>2 DEF QueuesHeld
  <2>2. ladQueues[q] # NoQueue => ladQueues[q].owner \in Clients
    BY <1>1, <2>1, SlotOwner DEF QueueHeld
  <2> QED
    BY <1>5, <1>9, <2>1, <2>2, QueueFrame
<1> QED
  BY <1>3, <1>11, <1>12, <1>14, <1>15 DEF LadIsWell, ClientsHeld, QueuesHeld

\* LAD gives a client up, or has no slot for it: the FIFO is removed.
LEMMA GivesUpStep ==
  ASSUME LadIsWell, \/ LadGivesUp
                    \/ LadWelcomes /\ assignClientId = NoSlot
  PROVE  LadIsWell'
<1>1. LadTypes' /\ InHand'
  BY LadTypesStep DEF LadIsWell, LadStep
<1> QED
  BY <1>1, UnlinkStep DEF LadGivesUp, LadWelcomes, Openings, ladClientVars, slotVars, queueVars

\* LAD may stop at any time: nobody's part changes.
LEMMA DownStep ==
  ASSUME LadIsWell, LadTypes', InHand', lad'.pc = "down",
         UNCHANGED <<ladClientVars, fifos, reader, answers, slotVars>>
  PROVE  LadIsWell'
<1> USE DEF ladClientVars, slotVars
<1>0. Down'
  BY DEF Down
<1>1. \A u : SameClient(u) /\ KeepsSlot(u) /\ (HasSlot(u)' <=> HasSlot(u)) /\ ~Connecting(u)'
  BY DEF SameClient, KeepsSlot, HasSlot, Connecting, Openings
<1>2. SlotsHeld'
  <2>1. \A s \in Slots : (file'[s] = "open" <=> connected'[s]) /\ (connected'[s] => clientPID'[s] \in fifos')
    BY DEF LadIsWell, SlotsHeld
  <2>2. \A r, s \in Slots : connected'[r] /\ connected'[s] /\ clientPID'[r] = clientPID'[s] => r = s
    BY DEF LadIsWell, SlotsHeld
  <2> QED
    BY <1>0, <1>1, <2>1, <2>2 DEF SlotsHeld
<1>3. \A u \in Clients : ClientHeld(u)'
  BY <1>0, <1>1, ClientFrame DEF LadIsWell, ClientsHeld
<1> QED
  BY <1>0, <1>2, <1>3 DEF LadIsWell, ClientsHeld

\* LAD opens a FIFO twice before it answers; without a reader that is its end.
LEMMA LadOpensStep ==
  ASSUME LadIsWell, LadOpens \/ LadReopens \/ LadBreaksPipe
  PROVE  LadIsWell'
<1> USE DEF ladClientVars, endVars, slotVars, queueVars
<1>1. LadTypes /\ InHand /\ SlotsHeld /\ ClientsHeld /\ PipeHeld /\ QueuesHeld /\ ~Down
  BY DEF LadIsWell, Down, LadOpens, LadReopens, LadBreaksPipe
<1>2. LadTypes' /\ InHand'
  BY <1>1, LadTypesStep DEF LadStep
<1>3. CASE LadBreaksPipe
  <2>1. lad'.pc = "down"
    BY <1>1, <1>3 DEF LadBreaksPipe, LadTypes
  <2> QED
    BY <1>2, <1>3, <2>1, DownStep DEF LadBreaksPipe
<1>4. CASE LadOpens \/ LadReopens
  <2>1. lad.pc \in Openings /\ lad'.pc \in Openings /\ lad'.cmd = lad.cmd /\ lad.cmd.op = "connect"
    BY <1>1, <1>4 DEF LadOpens, LadReopens, LadTypes, InHand, Openings
  <2>2. UNCHANGED <<alive, clientAt, clientId, mine, reader, pipe, answers, connected, clientPID, file, fifos, ladQueues>>
    BY <1>4 DEF LadOpens, LadReopens
  <2>3. \A u : SameClient(u) /\ KeepsSlot(u) /\ (HasSlot(u)' <=> HasSlot(u)) /\ (Connecting(u)' <=> Connecting(u))
    BY <2>1, <2>2 DEF SameClient, KeepsSlot, HasSlot, Connecting
  <2>4. SlotsHeld'
    <3>1. \A s \in Slots : (file'[s] = "open" <=> connected'[s]) /\ (connected'[s] => clientPID'[s] \in fifos')
      BY <1>1, <2>2 DEF SlotsHeld
    <3>2. \A r, s \in Slots : connected'[r] /\ connected'[s] /\ clientPID'[r] = clientPID'[s] => r = s
      BY <1>1, <2>2 DEF SlotsHeld
    <3>3. \A u \in fifos' : HasSlot(u)' \/ Connecting(u)' \/ Down'
      BY <1>1, <2>2, <2>3 DEF SlotsHeld
    <3>4. \A u \in Clients : Connecting(u)' => u \in fifos' /\ ~HasSlot(u)'
      BY <1>1, <2>2, <2>3 DEF SlotsHeld
    <3> QED
      BY <3>1, <3>2, <3>3, <3>4 DEF SlotsHeld
  <2>5. \A u \in Clients : ClientHeld(u)'
    BY <1>1, <2>3, ClientFrame DEF ClientsHeld
  <2>6. PipeHeld'
    <3>1. \A c : Waited(c) => Waited(c)'
      BY <2>2, <2>3, WaitedFrame
    <3> QED
      BY <1>1, <2>1, <2>2, <3>1, PipeKept
  <2>7. \A q \in Queues : QueueHeld(q)'
    BY <1>1, <2>2, <2>3, QueueFrame DEF QueuesHeld
  <2> QED
    BY <1>2, <2>4, <2>5, <2>6, <2>7 DEF LadIsWell, ClientsHeld, QueuesHeld
<1> QED
  BY <1>3, <1>4

\* The client that disconnects is the one whose slot it names: its FIFO and slot go.
LEMMA DisconnectsStep ==
  ASSUME LadIsWell, LadDisconnects, ~Strays
  PROVE  LadIsWell'
<1>1. LadTypes /\ InHand /\ SlotsHeld /\ ClientsHeld /\ PipeHeld /\ QueuesHeld /\ ~Down
  BY DEF LadIsWell, LadDisconnects, Down
<1>2. LadTypes' /\ InHand'
  BY <1>1, LadTypesStep DEF LadStep
<1>3. lad.pc = "disconnect" /\ Handling /\ lad.cmd.op = "disconnect" /\ lad.cmd \in Commands
  BY <1>1 DEF LadDisconnects, InHand, Handling, Ops
<1>4. CASE file[Slot] # "open"
  <2>1. lad'.pc = "down"
    BY <1>1, <1>4 DEF LadDisconnects, LadTypes
  <2> QED
    BY <1>2, <1>3, <1>4, <2>1, DownStep DEF LadDisconnects, slotVars, endVars
<1>5. CASE file[Slot] = "open"
  <2>1. PICK p \in Clients, s \in Slots :
          p = lad.cmd.pid /\ s = Slot /\ p = Receiver /\ clientPID[s] = p /\ connected[s]
    BY <1>1, <1>3, <1>5, CommandIs, ReceiverIs DEF Strays, Slot, Receiver
  <2>2. /\ connected' = [connected EXCEPT ![s] = FALSE]
        /\ file' = [file EXCEPT ![s] = "closed"]
        /\ fifos' = fifos \ {p} /\ reader' = reader \ {p} /\ lad'.pc = "read"
        /\ answers' = [answers EXCEPT ![p] = <<>>]
        /\ UNCHANGED <<alive, clientAt, clientId, mine, pipe, clientPID, ladQueues>>
    BY <1>5, <2>1 DEF LadDisconnects, Unlink, Reading, ladClientVars, queueVars
  <2>3. ClientHeld(p) /\ Waited(lad.cmd)
    BY <1>1, <1>3, <2>1 DEF ClientsHeld, PipeHeld
  <2>4. (alive[p] => clientAt[p] \in {"closing", "failed"}) /\ \A q \in Queues : ladQueues[q].owner # p
    BY <1>3, <2>1, <2>3 DEF Waited, Requests
  <2>5. ASSUME NEW u \in Clients, u # p
        PROVE  SameClient(u) /\ KeepsSlot(u) /\ (HasSlot(u)' <=> HasSlot(u))
    <3>1. KeepsSlot(u)
      BY <1>1, <2>1, <2>2, <2>5 DEF KeepsSlot, LadTypes
    <3>2. SameClient(u)
      BY <1>1, <2>2, <2>5 DEF SameClient, LadTypes
    <3> QED
      BY <3>1, <3>2, SlotKept
  <2>6. \A u : ~Connecting(u) /\ ~Connecting(u)'
    BY <1>3, <2>2 DEF Connecting, Openings
  <2>7. \A r \in Slots : connected'[r] => connected[r] /\ r # s /\ clientPID'[r] = clientPID[r] /\ clientPID[r] # p
    BY <1>1, <2>1, <2>2 DEF SlotsHeld, LadTypes
  <2>8. SlotsHeld'
    <3>1. \A r \in Slots : (file'[r] = "open" <=> connected'[r]) /\ (connected'[r] => clientPID'[r] \in fifos')
      BY <1>1, <2>1, <2>2, <2>7 DEF SlotsHeld, LadTypes
    <3>2. \A r, t \in Slots : connected'[r] /\ connected'[t] /\ clientPID'[r] = clientPID'[t] => r = t
      BY <1>1, <2>7 DEF SlotsHeld
    <3>3. \A u \in fifos' : HasSlot(u)' \/ Connecting(u)' \/ Down'
      BY <1>1, <2>2, <2>5, <2>6 DEF SlotsHeld, LadTypes
    <3> QED
      BY <2>6, <3>1, <3>2, <3>3 DEF SlotsHeld
  <2>9. ASSUME NEW u \in Clients PROVE ClientHeld(u)'
    <3>1. CASE u = p
      <4>1. answers'[p] = <<>> /\ p \notin reader' /\ clientAt[p] \in {"closing", "failed", "dead"}
        BY <1>1, <2>1, <2>2, <2>3, <2>4 DEF LadTypes, ClientHeld
      <4> QED
        BY <2>2, <2>3, <3>1, <4>1 DEF ClientHeld, Requests
    <3>2. CASE u # p
      BY <1>1, <2>5, <2>6, <3>2, ClientFrame DEF ClientsHeld
    <3> QED
      BY <3>1, <3>2
  <2>10. ASSUME NEW c \in Commands, Waited(c), c.pid # p PROVE Waited(c)'
    <3>1. c.pid \in Clients
      BY CommandIs
    <3> QED
      BY <2>2, <2>5, <2>10, <3>1, WaitedFrame
  <2>11. PipeHeld'
    BY <1>1, <1>3, <2>1, <2>2, <2>10, PipeKept
  <2>12. ASSUME NEW q \in Queues PROVE QueueHeld(q)'
    <3>1. QueueHeld(q) /\ ladQueues[q].owner # p
      BY <1>1, <2>4 DEF QueuesHeld
    <3>2. ladQueues[q] # NoQueue => ladQueues[q].owner \in Clients
      BY <1>1, <3>1, SlotOwner DEF QueueHeld
    <3> QED
      BY <2>2, <2>5, <3>1, <3>2, QueueFrame
  <2> QED
    BY <1>2, <2>8, <2>9, <2>11, <2>12 DEF LadIsWell, ClientsHeld, QueuesHeld
<1> QED
  BY <1>4, <1>5

\* The client LAD answers is the one that waits.
LEMMA AnsweredIs ==
  ASSUME LadIsWell, lad.pc \in Requests, ~Strays, file[Slot] = "open", Receiver \in reader
  PROVE  \E p \in Clients :
           /\ p = lad.cmd.pid /\ p = Receiver /\ alive[p] /\ clientAt[p] = lad.pc /\ answers[p] = <<>>
           /\ lad.cmd.q = mine[p] /\ HasSlot(p) /\ p \in reader /\ ClientHeld(p)
<1>1. LadTypes /\ InHand /\ SlotsHeld /\ ClientsHeld /\ PipeHeld
  BY DEF LadIsWell, Down, Requests
<1>2. Handling /\ lad.cmd.op = lad.pc /\ lad.cmd \in Commands
  BY <1>1 DEF InHand, Handling, Openings, Ops, Requests
<1>3. Slot \in Slots
  BY <1>2, CommandIs DEF Slot, Requests
<1>4. PICK p \in Clients : p = lad.cmd.pid /\ p = Receiver /\ HasSlot(p) /\ ClientHeld(p)
  BY <1>1, <1>3, ReceiverIs DEF Strays, ClientsHeld
<1>5. alive[p]
  BY <1>4 DEF ClientHeld
<1>6. Waited(lad.cmd)
  BY <1>1, <1>2 DEF PipeHeld, Requests
<1> QED
  BY <1>2, <1>4, <1>5, <1>6 DEF Waited, Requests

\* It gets the answer; the queues of the others stay.
LEMMA AnswersStep ==
  ASSUME LadIsWell, lad.pc \in Requests, ~Strays, file[Slot] = "open", Receiver \in reader,
         NEW id \in Queues \cup {NoSlot}, lad.pc = "create" => id \in Queues,
         Respond(id), UNCHANGED <<ladClientVars, endVars, pipe, fifos, slotVars>>,
         LadTypes', InHand',
         \A q \in Queues :
           /\ ladQueues'[q].owner \in {ladQueues[q].owner, NoClient, lad.cmd.pid}
           /\ \/ QueueHeld(q)'
              \/ /\ ladQueues'[q] = ladQueues[q]
                 /\ ladQueues[q].owner # lad.cmd.pid
  PROVE  LadIsWell'
<1> USE DEF ladClientVars, endVars, slotVars
<1>1. LadTypes /\ InHand /\ SlotsHeld /\ ClientsHeld /\ PipeHeld /\ QueuesHeld /\ ~Down
  BY DEF LadIsWell, Down, Requests
<1>2. PICK p \in Clients :
           /\ p = lad.cmd.pid /\ p = Receiver /\ alive[p] /\ clientAt[p] = lad.pc /\ answers[p] = <<>>
           /\ HasSlot(p) /\ p \in reader /\ ClientHeld(p)
  BY AnsweredIs
<1>3. Handling /\ lad.cmd.op = lad.pc /\ lad.cmd.op # "connect"
  BY <1>1 DEF InHand, Handling, Openings, Ops, Requests
<1>4. answers' = [answers EXCEPT ![p] = Append(@, [op |-> lad.pc, id |-> id])] /\ lad'.pc = "read"
  BY <1>2 DEF Respond, Reading
<1>5. answers'[p] = Answered(clientAt[p], id)
  BY <1>1, <1>2, <1>4 DEF LadTypes, Answered
<1>6. \A u : KeepsSlot(u) /\ (HasSlot(u)' <=> HasSlot(u)) /\ ~Connecting(u) /\ ~Connecting(u)'
  BY <1>4 DEF KeepsSlot, HasSlot, Connecting, Openings, Requests
<1>7. \A u \in Clients : u # p => SameClient(u)
  BY <1>1, <1>4 DEF SameClient, LadTypes
<1>8. SlotsHeld'
  <2>1. \A s \in Slots : (file'[s] = "open" <=> connected'[s]) /\ (connected'[s] => clientPID'[s] \in fifos')
    BY <1>1 DEF SlotsHeld
  <2>2. \A r, s \in Slots : connected'[r] /\ connected'[s] /\ clientPID'[r] = clientPID'[s] => r = s
    BY <1>1 DEF SlotsHeld
  <2>3. \A u \in fifos' : HasSlot(u)' \/ Connecting(u)' \/ Down'
    BY <1>1, <1>6 DEF SlotsHeld
  <2> QED
    BY <1>6, <2>1, <2>2, <2>3 DEF SlotsHeld
<1>9. ASSUME NEW u \in Clients PROVE ClientHeld(u)'
  <2>1. CASE u = p
    <3>1. clientAt[p] \in Requests /\ (clientAt[p] = "create" => id # NoSlot)
      BY <1>2, LadConstants
    <3>2. Answered("create", id) = Answered("create", NoSlot) => id = NoSlot
      BY DEF Answered
    <3>3. clientAt[p] = "create" => mine'[p] = NoSlot /\ answers'[p] # Answered("create", NoSlot)
      BY <1>2, <1>5, <3>1, <3>2 DEF ClientHeld
    <3>4. alive' = alive /\ clientAt' = clientAt /\ mine' = mine /\ clientId' = clientId /\ reader' = reader
      OBVIOUS
    <3>5. \E i \in Queues \cup {NoSlot} : answers'[p] = Answered(clientAt'[p], i)
      BY <1>5, <3>4
    <3>6. clientAt[p] \in {"announce", "delete"} => mine[p] \in Queues
      BY <1>2 DEF ClientHeld
    <3>7. clientId[p] \in Slots
      BY <1>2, <3>1 DEF ClientHeld
    <3> HIDE DEF Answered
    <3> QED
      BY <1>2, <1>6, <2>1, <3>1, <3>3, <3>4, <3>5, <3>6, <3>7 DEF ClientHeld, Requests
  <2>2. CASE u # p
    BY <1>1, <1>6, <1>7, <2>2, ClientFrame DEF ClientsHeld
  <2> QED
    BY <2>1, <2>2
<1>10. ASSUME NEW c \in Commands, Waited(c), c.pid # p PROVE Waited(c)'
  <2>1. c.pid \in Clients
    BY CommandIs
  <2>2. \A q \in Queues : ladQueues'[q].owner = c.pid => ladQueues[q].owner = c.pid
    BY <1>2, <1>10, <2>1, LadConstants
  <2> QED
    BY <1>6, <1>7, <1>10, <2>1, <2>2, WaitedFrame
<1>11. PipeHeld'
  BY <1>1, <1>2, <1>3, <1>4, <1>10, PipeKept
<1>12. ASSUME NEW q \in Queues PROVE QueueHeld(q)'
  <2>1. CASE QueueHeld(q)'
    BY <2>1
  <2>2. CASE ladQueues'[q] = ladQueues[q] /\ ladQueues[q].owner # p
    <3>1. QueueHeld(q)
      BY <1>1 DEF QueuesHeld
    <3>2. ladQueues[q] # NoQueue => ladQueues[q].owner \in Clients
      BY <1>1, <3>1, SlotOwner DEF QueueHeld
    <3> QED
      BY <1>6, <1>7, <2>2, <3>1, <3>2, QueueFrame
  <2> QED
    BY <1>2, <2>1, <2>2
<1> QED
  BY <1>8, <1>9, <1>11, <1>12 DEF LadIsWell, ClientsHeld, QueuesHeld

\* The commands on queues.
LEMMA UnansweredStep ==
  ASSUME LadIsWell, lad.pc \in Requests, NEW id, Respond(id), ~(file[Slot] = "open" /\ Receiver \in reader),
         UNCHANGED <<ladClientVars, endVars, pipe, fifos, slotVars>>, LadTypes', InHand'
  PROVE  LadIsWell'
<1>1. lad'.pc = "down" /\ answers' = answers
  BY DEF Respond, LadIsWell, LadTypes
<1> QED
  BY <1>1, DownStep DEF endVars, Requests

\* The first queue of its client is in a place nobody has.
LEMMA CreatesStep ==
  ASSUME LadIsWell, LadCreatesQueue, ~Strays
  PROVE  LadIsWell'
<1>1. LadTypes /\ LadTypes' /\ InHand' /\ QueuesHeld
  BY LadTypesStep DEF LadIsWell, LadStep, LadCreatesQueue, Down
<1>2. PICK q \in Queues : q = PlaceGiven
  BY <1>1, PlaceGivenIs DEF LadCreatesQueue
<1>3. /\ lad.pc = "create" /\ lad.pc \in Requests /\ Respond(q)
      /\ ladQueues' = [ladQueues EXCEPT ![q] = [owner |-> Receiver, announced |-> FALSE]]
      /\ UNCHANGED <<ladClientVars, endVars, pipe, fifos, slotVars>>
  BY <1>2 DEF LadCreatesQueue, PlaceGiven, Requests
<1>4. CASE file[Slot] = "open" /\ Receiver \in reader
  <2>1. PICK p \in Clients :
           /\ p = lad.cmd.pid /\ p = Receiver /\ alive[p] /\ clientAt[p] = lad.pc /\ answers[p] = <<>>
           /\ HasSlot(p) /\ ClientHeld(p)
    BY <1>3, <1>4, AnsweredIs
  <2>2. ladQueues'[q] = [owner |-> p, announced |-> FALSE] /\ \A r \in Queues : r # q => ladQueues'[r] = ladQueues[r]
    BY <1>1, <1>3, <2>1 DEF LadTypes
  <2>3. answers'[p] = Answered("create", q)
    BY <1>1, <1>3, <1>4, <2>1 DEF Respond, LadTypes, Answered
  <2>4. HasSlot(p)' /\ alive'[p] /\ clientAt'[p] = "create"
    BY <1>3, <2>1 DEF HasSlot, slotVars, ladClientVars
  <2>5. QueueHeld(q)'
    BY <2>2, <2>3, <2>4 DEF QueueHeld, Answered
  <2>6. ASSUME NEW r \in Queues PROVE ladQueues[r].owner # p
    <3>1. QueueHeld(r)
      BY <1>1 DEF QueuesHeld
    <3>2. mine[p] = NoSlot
      BY <1>3, <2>1 DEF ClientHeld
    <3>3. answers[p] # Answered("create", r)
      BY <2>1 DEF Answered
    <3> QED
      BY <2>1, <3>1, <3>2, <3>3, LadConstants DEF QueueHeld, NoQueue
  <2>7. \A r \in Queues :
           /\ ladQueues'[r].owner \in {ladQueues[r].owner, NoClient, lad.cmd.pid}
           /\ \/ QueueHeld(r)'
              \/ /\ ladQueues'[r] = ladQueues[r]
                 /\ ladQueues[r].owner # lad.cmd.pid
    BY <2>1, <2>2, <2>5, <2>6
  <2> QED
    BY <1>1, <1>3, <1>4, <2>7, AnswersStep
<1>5. CASE ~(file[Slot] = "open" /\ Receiver \in reader)
  BY <1>1, <1>3, <1>5, UnansweredStep
<1> QED
  BY <1>4, <1>5

\* The queue that is announced or deleted is the client's own.
LEMMA ChangesStep ==
  ASSUME LadIsWell, LadAnnouncesQueue \/ LadDeletesQueue, ~Strays
  PROVE  LadIsWell'
<1>1. LadTypes /\ InHand /\ LadTypes' /\ InHand' /\ QueuesHeld
  BY LadTypesStep DEF LadIsWell, LadStep, LadAnnouncesQueue, LadDeletesQueue, Down
<1>2. /\ lad.pc \in {"announce", "delete"} /\ lad.pc \in Requests /\ Respond(NoSlot)
      /\ UNCHANGED <<ladClientVars, endVars, pipe, fifos, slotVars>>
  BY DEF LadAnnouncesQueue, LadDeletesQueue, Requests
<1>3. CASE file[Slot] = "open" /\ Receiver \in reader
  <2>1. PICK p \in Clients :
           /\ p = lad.cmd.pid /\ p = Receiver /\ alive[p] /\ clientAt[p] = lad.pc /\ answers[p] = <<>>
           /\ lad.cmd.q = mine[p] /\ HasSlot(p) /\ ClientHeld(p)
    BY <1>2, <1>3, AnsweredIs
  <2>2. PICK q \in Queues : q = lad.cmd.q /\ q = mine[p]
    BY <1>2, <2>1 DEF ClientHeld
  <2>3. ladQueues[q].owner = p
    BY <1>2, <2>1, <2>2 DEF Strays
  <2>4. ASSUME NEW r \in Queues, r # q PROVE ladQueues[r].owner # p /\ ladQueues'[r] = ladQueues[r]
    <3>1. QueueHeld(r)
      BY <1>1 DEF QueuesHeld
    <3>2. ladQueues[r].owner # p
      BY <1>2, <2>1, <2>2, <2>4, <3>1, LadConstants DEF QueueHeld, NoQueue
    <3>3. ladQueues'[r] = ladQueues[r]
      BY <1>1, <2>2, <2>4 DEF LadAnnouncesQueue, LadDeletesQueue, LadTypes
    <3> QED
      BY <3>2, <3>3
  <2>5. HasSlot(p)' /\ alive'[p] /\ clientAt'[p] = lad.pc /\ mine'[p] = q
    BY <1>2, <2>1, <2>2 DEF HasSlot, slotVars, ladClientVars
  <2>6. QueueHeld(q)' /\ ladQueues'[q].owner \in {p, NoClient}
    <3>1. CASE LadAnnouncesQueue
      <4>1. lad.pc = "announce" /\ ladQueues'[q].owner = p
        BY <1>1, <2>2, <2>3, <3>1 DEF LadAnnouncesQueue, LadTypes
      <4> QED
        BY <2>5, <4>1 DEF QueueHeld
    <3>2. CASE LadDeletesQueue
      <4>1. ladQueues'[q] = NoQueue
        BY <1>1, <2>2, <3>2 DEF LadDeletesQueue, LadTypes
      <4> QED
        BY <4>1 DEF QueueHeld, NoQueue
    <3> QED
      BY <3>1, <3>2
  <2>7. \A r \in Queues :
           /\ ladQueues'[r].owner \in {ladQueues[r].owner, NoClient, lad.cmd.pid}
           /\ \/ QueueHeld(r)'
              \/ /\ ladQueues'[r] = ladQueues[r]
                 /\ ladQueues[r].owner # lad.cmd.pid
    BY <2>1, <2>4, <2>6
  <2>8. lad.pc # "create"
    BY <1>2
  <2> QED
    BY <1>1, <1>2, <1>3, <2>7, <2>8, AnswersStep
<1>4. CASE ~(file[Slot] = "open" /\ Receiver \in reader)
  BY <1>1, <1>2, <1>4, UnansweredStep
<1> QED
  BY <1>3, <1>4

\* A command on a queue that is gone is the end of LAD.
LEMMA UsesFreedStep ==
  ASSUME LadIsWell, LadUsesFreedQueue
  PROVE  LadIsWell'
<1>1. LadTypes' /\ InHand' /\ lad'.pc = "down"
  BY LadTypesStep DEF LadIsWell, LadStep, LadUsesFreedQueue, LadTypes
<1> QED
  BY <1>1, DownStep DEF LadUsesFreedQueue, endVars, slotVars, bounds

\* The queues of the clients that live: a client whose part is as before keeps its own.
LEMMA OwnFrame ==
  ASSUME NEW u \in Clients, OwnQueue(u), SameClient(u),
         \A q \in Queues : ladQueues[q].owner = u => ladQueues'[q].owner = u
  PROVE  OwnQueue(u)'
BY DEF OwnQueue, SameClient, Answered

\* One that has asked LAD for nothing, or leaves, has none.
LEMMA OwnClient ==
  ASSUME LadTypes, ClientsHeld, OwnQueues, NEW p \in Clients, ClientStep(p) \/ ClientCall(p)
  PROVE  OwnQueues'
<1> USE DEF endVars, slotVars, queueVars, bounds, ladClientVars
<1>1. ladQueues' = ladQueues /\ ladNumQueues' = ladNumQueues /\ \A u \in Clients : u # p => SameClient(u)
  BY DEF ClientStep, ClientCall, ConnectOpens, ConnectReads, GetResponse, GetsNothing, DisconnectReturns,
         ConnectWrites, ConnectTimesOut, DisconnectWrites, DisconnectTimesOut, Ask, ClientDies,
         ClientGoto, SameClient, LadTypes
<1>2. OwnQueue(p) /\ ClientHeld(p) /\ clientAt[p] \in LadPlaces /\ alive[p]
  BY DEF ClientStep, ClientCall, ConnectOpens, ConnectReads, GetResponse, GetsNothing, DisconnectReturns,
         ConnectWrites, ConnectTimesOut, DisconnectWrites, DisconnectTimesOut, Ask, ClientDies,
         OwnQueues, ClientsHeld, LadTypes
<1>3. OwnQueue(p)'
  <2>1. CASE ConnectWrites(p) \/ ConnectOpens(p) \/ ConnectTimesOut(p) \/ DisconnectWrites(p)
    <3>1. clientAt'[p] \in {"opening", "reading", "out", "closing"} /\ mine'[p] = NoSlot
      BY <1>2, <2>1 DEF ConnectWrites, ConnectOpens, ConnectTimesOut, DisconnectWrites, ClientGoto, LadTypes, OwnQueue
    <3> QED
      BY <3>1 DEF OwnQueue
  <2>2. CASE DisconnectReturns(p) \/ GetsNothing(p) \/ DisconnectTimesOut(p)
    <3>1. /\ clientAt'[p] \in {"out", "failed"} /\ mine'[p] = mine[p]
          /\ clientAt'[p] = "out" => mine[p] = NoSlot
      BY <1>2, <2>2 DEF DisconnectReturns, GetsNothing, DisconnectTimesOut, ClientGoto, LadTypes, OwnQueue
    <3> QED
      BY <3>1 DEF OwnQueue
  <2>3. CASE ConnectReads(p)
    <3>1. clientAt'[p] \in {"ready", "out"} /\ mine'[p] = NoSlot
      <4>1. ClientGoto(p, "ready") \/ ClientGoto(p, "out")
        BY <2>3 DEF ConnectReads
      <4> QED
        BY <1>2, <2>3, <4>1 DEF ConnectReads, ClientGoto, LadTypes, OwnQueue
    <3> QED
      BY <3>1, LadConstants DEF OwnQueue
  <2>4. ASSUME NEW asked \in Requests, Ask(p, asked) PROVE OwnQueue(p)'
    <3>1. clientAt[p] = "ready" /\ clientAt'[p] = asked /\ mine' = mine /\ answers'[p] = <<>>
      BY <1>2, <2>4 DEF Ask, ClientGoto, LadTypes, ClientHeld
    <3>2. \A q : answers'[p] # Answered("create", q)
      BY <3>1 DEF Answered
    <3> QED
      BY <1>1, <1>2, <3>1, <3>2 DEF OwnQueue, Requests
  <2>5. CASE GetResponse(p)
    <3>1. clientAt[p] \in Requests /\ answers[p] # <<>> /\ clientAt'[p] = "ready"
      BY <1>2, <2>5 DEF GetResponse, ClientGoto, LadTypes
    <3>2. PICK id \in Queues \cup {NoSlot} : answers[p] = Answered(clientAt[p], id)
      BY <1>2, <3>1 DEF ClientHeld
    <3>3. Head(answers[p]).id = id
      BY <3>2 DEF Answered
    <3>4. mine'[p] = CASE clientAt[p] = "create" -> id
                       [] clientAt[p] = "delete" -> NoSlot
                       [] OTHER -> mine[p]
      BY <2>5, <3>3 DEF GetResponse, LadTypes
    <3>5. mine'[p] \in Queues => ladQueues[mine'[p]].owner = p
      <4>1. CASE clientAt[p] = "create"
        BY <1>2, <3>2, <3>4, <4>1 DEF OwnQueue
      <4>2. CASE clientAt[p] = "delete"
        BY <3>4, <4>2, LadConstants
      <4>3. CASE clientAt[p] = "announce"
        BY <1>2, <3>4, <4>3 DEF OwnQueue
      <4> QED
        BY <3>1, <4>1, <4>2, <4>3 DEF Requests
    <3> QED
      BY <1>1, <3>1, <3>5 DEF OwnQueue
  <2>6. CASE ClientDies(p)
    BY <2>6 DEF ClientDies, OwnQueue, LadTypes
  <2> QED
    BY <2>1, <2>2, <2>3, <2>4, <2>5, <2>6 DEF ClientStep, ClientCall
<1>4. ASSUME NEW u \in Clients PROVE OwnQueue(u)'
  <2>1. CASE u = p
    BY <1>3, <2>1
  <2>2. CASE u # p
    BY <1>1, <2>2, OwnFrame DEF OwnQueues
  <2> QED
    BY <2>1, <2>2
<1> QED
  BY <1>1, <1>4 DEF OwnQueues

\* LAD takes a queue from a client that is dead, or that has asked for it.
LEMMA OwnLad ==
  ASSUME LadIsWell, OwnQueues, LadStep, ~strayed'
  PROVE  OwnQueues'
<1>1. LadTypes /\ InHand /\ SlotsHeld /\ ClientsHeld /\ \A u \in Clients : OwnQueue(u)
  BY DEF LadIsWell, OwnQueues
<1>2. CASE LadReads
  <2> DEFINE gone == {clientPID[s] : s \in Departed}
  <2>1. /\ answers' = [p \in Clients |-> IF p \in gone THEN <<>> ELSE answers[p]]
        /\ ladQueues' = [q \in Queues |-> IF q \in OwnedBy(gone) THEN NoQueue ELSE ladQueues[q]]
        /\ UNCHANGED <<alive, clientAt, clientId, mine, reader, ladNumQueues>>
    BY <1>2 DEF LadReads, ladClientVars, endVars
  <2>2. \A u \in gone : ~alive[u]
    BY DEF Departed
  <2> HIDE DEF gone
  <2>3. ASSUME NEW u \in Clients PROVE OwnQueue(u)'
    <3>1. CASE ~alive[u]
      BY <2>1, <3>1 DEF OwnQueue
    <3>2. CASE alive[u]
      <4>1. SameClient(u)
        BY <2>1, <2>2, <3>2 DEF SameClient
      <4>2. \A q \in Queues : ladQueues[q].owner = u => ladQueues'[q].owner = u
        BY <2>1, <2>2, <3>2 DEF OwnedBy
      <4> QED
        BY <1>1, <4>1, <4>2, OwnFrame
    <3> QED
      BY <3>1, <3>2
  <2> QED
    BY <2>1, <2>3 DEF OwnQueues
<1>3. CASE LadMakesFifo \/ LadUsesFreedQueue \/ LadOpens \/ LadReopens \/ LadBreaksPipe
  <2>1. UNCHANGED <<alive, clientAt, clientId, mine, reader, answers, ladQueues, ladNumQueues>>
    BY <1>3 DEF LadMakesFifo, LadUsesFreedQueue, LadOpens, LadReopens, LadBreaksPipe,
         ladClientVars, endVars, queueVars
  <2> QED
    BY <1>1, <2>1, OwnFrame DEF OwnQueues, SameClient
<1>4. CASE LadWelcomes \/ LadGivesUp
  <2>1. PICK p \in Clients : p = lad.cmd.pid /\ clientAt[p] \in LadPlaces \ ({"ready"} \cup Requests)
    BY <1>4, OpeningIs DEF LadWelcomes, LadGivesUp, Openings
  <2>2. /\ UNCHANGED <<alive, clientAt, mine, ladQueues, ladNumQueues>>
        /\ \A u \in Clients : u # p => answers'[u] = answers[u]
    BY <1>1, <1>4, <2>1 DEF LadWelcomes, LadGivesUp, ladClientVars, queueVars, LadTypes
  <2>3. ASSUME NEW u \in Clients PROVE OwnQueue(u)'
    <3>1. CASE u = p
      BY <1>1, <2>1, <2>2, <3>1 DEF OwnQueue, Requests
    <3>2. CASE u # p
      BY <1>1, <2>2, <3>2 DEF OwnQueue, Answered
    <3> QED
      BY <3>1, <3>2
  <2> QED
    BY <2>2, <2>3 DEF OwnQueues
<1>5. CASE LadDisconnects
  <2>1. /\ UNCHANGED <<alive, clientAt, mine, ladQueues, ladNumQueues>>
        /\ \A u \in Clients : answers'[u] \in {answers[u], <<>>}
    BY <1>1, <1>5 DEF LadDisconnects, ladClientVars, queueVars, LadTypes
  <2>2. \A q : Answered("create", q) # <<>>
    BY DEF Answered
  <2>3. ASSUME NEW u \in Clients PROVE OwnQueue(u)'
    <3>1. \A q \in Queues : answers'[u] = Answered("create", q) => answers[u] = Answered("create", q)
      BY <2>1, <2>2
    <3> HIDE DEF Answered
    <3> QED
      BY <1>1, <2>1, <3>1 DEF OwnQueue, Answered
  <2> QED
    BY <2>1, <2>3 DEF OwnQueues
<1>6. CASE LadCreatesQueue \/ LadAnnouncesQueue \/ LadDeletesQueue
  <2>1. lad.pc \in Requests /\ ~Strays /\ UNCHANGED <<alive, clientAt, mine>>
    BY <1>6 DEF LadCreatesQueue, LadAnnouncesQueue, LadDeletesQueue, Respond, Stray, Requests, ladClientVars
  <2>2. PICK id \in Queues \cup {NoSlot} : Respond(id) /\ (lad.pc = "create" => id = PlaceGiven /\ id \in Queues)
    BY <1>1, <1>6, PlaceGivenIs DEF LadCreatesQueue, LadAnnouncesQueue, LadDeletesQueue, PlaceGiven
  <2>3. Handling /\ lad.cmd.op = lad.pc /\ lad.cmd \in Commands /\ PipeHeld
    BY <2>1 DEF LadIsWell, InHand, Handling, Openings, Ops, Requests, Down
  <2>4. PICK w \in Clients : w = lad.cmd.pid
    BY <2>3, CommandIs
  <2>5. alive[w] => clientAt[w] = lad.pc
    BY <2>1, <2>3, <2>4 DEF PipeHeld, Waited, Requests
  <2>6. \A u \in Clients : \/ answers'[u] = answers[u]
                           \/ u = w /\ answers'[u] = Answered(lad.pc, id) /\ Receiver = w
    <3>1. CASE file[Slot] = "open" /\ Receiver \in reader
      <4>1. w = Receiver /\ answers[w] = <<>>
        BY <2>1, <2>4, <3>1, AnsweredIs
      <4> QED
        BY <1>1, <2>2, <3>1, <4>1 DEF Respond, LadTypes, Answered
    <3>2. CASE ~(file[Slot] = "open" /\ Receiver \in reader)
      BY <2>2, <3>2 DEF Respond
    <3> QED
      BY <3>1, <3>2
  <2>7. CASE LadCreatesQueue
    <3>1. lad.pc = "create" /\ (Holes # {} \/ ladNumQueues < MaxLadQueues)
      BY <2>7 DEF LadCreatesQueue
    <3>2. id \in Queues /\ id = PlaceGiven
      BY <2>2, <3>1
    <3>3. ladQueues[id] = NoQueue /\ (id < ladNumQueues \/ id = ladNumQueues)
      <4>1. CASE id = ladNumQueues
        BY <3>2, <4>1, LadConstants DEF OwnQueues
      <4>2. CASE id # ladNumQueues
        <5>1. ladQueues[id] = NoQueue
          BY <1>1, <3>1, <3>2, <4>2, PlaceGivenIs
        <5>2. id \in Holes
          BY <3>2, <4>2, <1>1, LadConstants, LeastExists DEF PlaceGiven, Holes, LadTypes
        <5> QED
          BY <1>1, <5>1, <5>2, LadConstants DEF Holes, LadTypes
      <4> QED
        BY <4>1, <4>2
    <3>4. /\ ladQueues' = [ladQueues EXCEPT ![id] = [owner |-> Receiver, announced |-> FALSE]]
          /\ ladNumQueues' = IF id = ladNumQueues THEN ladNumQueues + 1 ELSE ladNumQueues
      BY <2>7, <3>2 DEF LadCreatesQueue, PlaceGiven
    <3>5. \A q \in Queues : q # id => ladQueues'[q] = ladQueues[q]
      BY <1>1, <3>4 DEF LadTypes
    <3>6. ladQueues'[id].owner = Receiver
      BY <1>1, <3>2, <3>4 DEF LadTypes
    <3>7. \A u \in Clients, q \in Queues : ladQueues[q].owner = u => ladQueues'[q].owner = u
      <4>1. \A u \in Clients : ladQueues[id].owner # u
        BY <3>3, LadConstants DEF NoQueue
      <4>2. ASSUME NEW u \in Clients, NEW q \in Queues, ladQueues[q].owner = u PROVE ladQueues'[q].owner = u
        <5>1. q # id
          BY <4>1, <4>2
        <5> QED
          BY <3>5, <4>2, <5>1
      <4> QED
        BY <4>2
    <3>8. ASSUME NEW u \in Clients PROVE OwnQueue(u)'
      <4>1. CASE answers'[u] = answers[u]
        BY <1>1, <2>1, <3>7, <4>1 DEF OwnQueue, Answered
      <4>2. CASE u = w /\ answers'[u] = Answered(lad.pc, id) /\ Receiver = w
        <5>1. \A q \in Queues : answers'[u] = Answered("create", q) => q = id
          BY <4>2 DEF Answered
        <5>2. alive[u] => clientAt[u] = "create"
          BY <2>5, <3>1, <4>2
        <5> HIDE DEF Answered
        <5> QED
          BY <2>1, <3>6, <4>2, <5>1, <5>2 DEF OwnQueue, Answered
      <4> QED
        BY <2>6, <4>1, <4>2
    <3>9. \A q \in Queues : q >= ladNumQueues' => ladQueues'[q] = NoQueue
      <4>1. ladNumQueues \in Nat /\ ladNumQueues' \in Nat /\ id \in Nat /\ ladNumQueues' >= ladNumQueues /\ id < ladNumQueues'
        BY <1>1, <3>2, <3>3, <3>4, LadConstants DEF LadTypes
      <4>2. ASSUME NEW q \in Queues, q >= ladNumQueues' PROVE ladQueues'[q] = NoQueue
        <5>1. q \in Nat /\ q # id /\ q >= ladNumQueues
          BY <4>1, <4>2, LadConstants
        <5> QED
          BY <3>5, <5>1 DEF OwnQueues
      <4> QED
        BY <4>2
    <3> QED
      BY <3>8, <3>9 DEF OwnQueues
  <2>8. CASE LadAnnouncesQueue \/ LadDeletesQueue
    <3>1. lad.pc \in {"announce", "delete"} /\ lad.pc # "create" /\ ladNumQueues' = ladNumQueues
      BY <2>8 DEF LadAnnouncesQueue, LadDeletesQueue
    <3>2. PICK q \in Queues : q = lad.cmd.q /\ ladQueues[q].owner = w /\ ladQueues[q] # NoQueue
      BY <2>1, <2>3, <2>4, <2>8, <3>1, CommandIs DEF Strays, LadAnnouncesQueue, LadDeletesQueue
    <3>3. \A r \in Queues : r # q => ladQueues'[r] = ladQueues[r]
      BY <1>1, <2>8, <3>2 DEF LadAnnouncesQueue, LadDeletesQueue, LadTypes
    <3>4. ladQueues'[q].owner = w \/ (lad.pc = "delete" /\ ladQueues'[q] = NoQueue)
      <4>1. CASE LadAnnouncesQueue
        BY <1>1, <3>2, <4>1 DEF LadAnnouncesQueue, LadTypes
      <4>2. CASE LadDeletesQueue
        BY <1>1, <3>2, <4>2 DEF LadDeletesQueue, LadTypes
      <4> QED
        BY <2>8, <4>1, <4>2
    <3>5. ASSUME NEW u \in Clients PROVE OwnQueue(u)'
      <4>1. CASE u # w
        <5>1. answers'[u] = answers[u] /\ \A r \in Queues : ladQueues[r].owner = u => ladQueues'[r].owner = u
          BY <2>6, <3>2, <3>3, <4>1
        <5> QED
          BY <1>1, <2>1, <5>1 DEF OwnQueue, Answered
      <4>2. CASE u = w /\ alive[w] /\ lad.pc = "announce"
        <5>1. clientAt[w] = "announce" /\ \A r \in Queues : ladQueues[r].owner = w => ladQueues'[r].owner = w
          BY <2>5, <3>3, <3>4, <4>2
        <5> QED
          BY <1>1, <2>1, <4>2, <5>1 DEF OwnQueue
      <4>3. CASE u = w /\ alive[w] /\ lad.pc = "delete"
        BY <2>1, <2>5, <4>3 DEF OwnQueue
      <4>4. CASE u = w /\ ~alive[w]
        BY <2>1, <4>4 DEF OwnQueue
      <4> QED
        BY <3>1, <4>1, <4>2, <4>3, <4>4
    <3>6. \A r \in Queues : r >= ladNumQueues' => ladQueues'[r] = NoQueue
      BY <3>1, <3>2, <3>3 DEF OwnQueues
    <3> QED
      BY <3>5, <3>6 DEF OwnQueues
  <2> QED
    BY <1>6, <2>7, <2>8
<1> QED
  BY <1>2, <1>3, <1>4, <1>5, <1>6 DEF LadStep

\* The inductive invariant: at first,
LEMMA LadStarts == LadInit => LadInvariant
<1> SUFFICES ASSUME LadInit PROVE LadInvariant
  OBVIOUS
<1> USE DEF LadInit
<1>1. LadTypes
  <2>1. pipe \in Seq(Commands)
    BY EmptySeq
  <2>2. ladQueues \in [Queues -> [owner : Clients \cup {NoClient}, announced : BOOLEAN]]
    BY DEF NoQueue
  <2>3. ladNumQueues \in 0 .. MaxLadQueues
    BY LadAssumption
  <2> QED
    BY <2>1, <2>2, <2>3 DEF LadTypes, LadPlaces
<1>2. InHand /\ SlotsHeld
  BY DEF InHand, Handling, SlotsHeld, HasSlot, Connecting, Openings, Ops, Requests
<1>3. ClientsHeld
  BY DEF ClientsHeld, ClientHeld, Requests
<1>4. PipeHeld
  BY EmptySeq DEF PipeHeld, Handling
<1>5. QueuesHeld
  BY DEF QueuesHeld, QueueHeld
<1>6. OwnQueues
  BY LadConstants DEF OwnQueues, OwnQueue
<1> QED
  BY <1>1, <1>2, <1>3, <1>4, <1>5, <1>6 DEF LadInvariant, LadIsWell

\* and in every step.
LEMMA LadKeeps == LadInvariant /\ [LadNext]_ladVars => LadInvariant'
<1> SUFFICES ASSUME LadInvariant, [LadNext]_ladVars PROVE LadInvariant'
  OBVIOUS
<1>1. CASE UNCHANGED ladVars
  <2> USE DEF ladVars, ladClientVars, endVars, slotVars, queueVars, bounds
  <2>1. LadIsWell => LadIsWell'
    <3>0. \A u : SameClient(u) /\ KeepsSlot(u) /\ (HasSlot(u)' <=> HasSlot(u)) /\ (Connecting(u)' <=> Connecting(u))
      BY <1>1 DEF SameClient, KeepsSlot, HasSlot, Connecting
    <3> SUFFICES ASSUME LadIsWell PROVE LadIsWell'
      OBVIOUS
    <3>1. LadTypes' /\ InHand'
      BY <1>1 DEF LadIsWell, LadTypes, InHand, Handling
    <3>2. SlotsHeld'
      <4>1. \A s \in Slots : (file'[s] = "open" <=> connected'[s]) /\ (connected'[s] => clientPID'[s] \in fifos')
        BY <1>1 DEF LadIsWell, SlotsHeld
      <4>2. \A r, s \in Slots : connected'[r] /\ connected'[s] /\ clientPID'[r] = clientPID'[s] => r = s
        BY <1>1 DEF LadIsWell, SlotsHeld
      <4>3. \A u \in fifos' : HasSlot(u)' \/ Connecting(u)' \/ Down'
        BY <1>1, <3>0 DEF LadIsWell, SlotsHeld, Down
      <4>4. \A u \in Clients : Connecting(u)' => u \in fifos' /\ ~HasSlot(u)'
        BY <1>1, <3>0 DEF LadIsWell, SlotsHeld
      <4> QED
        BY <4>1, <4>2, <4>3, <4>4 DEF SlotsHeld
    <3>3. \A u \in Clients : ClientHeld(u)'
      BY <1>1, <3>0, ClientFrame DEF LadIsWell, ClientsHeld, Down
    <3>4. ~Down => PipeHeld'
      BY <1>1, <3>0, PipeSame, WaitedFrame DEF LadIsWell
    <3>5. ~Down => \A q \in Queues : QueueHeld(q)'
      BY <1>1, <3>0, QueueFrame DEF LadIsWell, QueuesHeld
    <3>6. Down' <=> Down
      BY <1>1 DEF Down
    <3> QED
      BY <3>1, <3>2, <3>3, <3>4, <3>5, <3>6 DEF LadIsWell, ClientsHeld, QueuesHeld
  <2>2. OwnQueues => OwnQueues'
    BY <1>1 DEF OwnQueues, OwnQueue, Answered
  <2> QED
    BY <1>1, <2>1, <2>2 DEF LadInvariant
<1>2. ASSUME NEW p \in Clients, ClientStep(p) \/ ClientCall(p) PROVE LadInvariant'
  <2>1. strayed' = strayed
    BY <1>2 DEF ClientStep, ClientCall, ConnectOpens, ConnectReads, GetResponse, GetsNothing, DisconnectReturns,
         ConnectWrites, ConnectTimesOut, DisconnectWrites, DisconnectTimesOut, Ask, ClientDies, bounds
  <2>2. LadIsWell => LadIsWell'
    BY <1>2, OpensStep, ConnectReadsStep, AskStep, GetResponseStep, GetsNothingStep, DisconnectWritesStep,
       DisconnectEndsStep, DiesStep DEF ClientStep, ClientCall
  <2>3. LadIsWell /\ OwnQueues => OwnQueues'
    BY <1>2, OwnClient DEF LadIsWell
  <2> QED
    BY <2>1, <2>2, <2>3 DEF LadInvariant
<1>3. CASE LadStep
  <2>1. CASE \/ LadReads \/ LadMakesFifo \/ LadOpens \/ LadReopens \/ LadWelcomes
             \/ LadBreaksPipe \/ LadGivesUp \/ LadUsesFreedQueue
    <3>1. strayed' = strayed
      BY <2>1 DEF LadReads, LadMakesFifo, LadOpens, LadReopens, LadWelcomes, LadBreaksPipe, LadGivesUp,
             LadUsesFreedQueue, bounds
    <3>2. LadIsWell => LadIsWell'
      BY <2>1, ReadsStep, MakesFifoStep, LadOpensStep, ConnectsStep, GivesUpStep, UsesFreedStep
    <3>3. LadIsWell /\ OwnQueues /\ ~strayed' => OwnQueues'
      BY <1>3, OwnLad
    <3> QED
      BY <3>1, <3>2, <3>3 DEF LadInvariant
  <2>2. CASE LadDisconnects \/ LadCreatesQueue \/ LadAnnouncesQueue \/ LadDeletesQueue
    <3>1. strayed' = (strayed \/ Strays)
      BY <2>2 DEF LadDisconnects, LadCreatesQueue, LadAnnouncesQueue, LadDeletesQueue, Respond, Stray
    <3>2. Strays \in BOOLEAN
      BY DEF Strays
    <3>3. LadIsWell /\ ~Strays => LadIsWell'
      BY <2>2, DisconnectsStep, CreatesStep, ChangesStep
    <3>4. LadIsWell /\ OwnQueues /\ ~strayed' => OwnQueues'
      BY <1>3, OwnLad
    <3> QED
      BY <3>1, <3>2, <3>3, <3>4 DEF LadInvariant
  <2> QED
    BY <1>3, <2>1, <2>2 DEF LadStep
<1> QED
  BY <1>1, <1>2, <1>3 DEF LadNext

\* What a client reads is the answer to what it has asked, and a queue is of a client
\* LAD watches, as long as no command was executed on what belongs to another client:
\* doDisconnect and the command loop of lad.c, MessageQ_daemon.c, and LAD_client.c.
THEOREM LadSound == LadSpec => []LadIsSound
<1>1. LadInvariant => LadIsSound
  <2> SUFFICES ASSUME LadInvariant PROVE LadIsSound
    OBVIOUS
  <2>1. AnswersMatch
    <3> SUFFICES ASSUME ~strayed, NEW p \in Clients, answers[p] # <<>>
                 PROVE  Len(answers[p]) = 1 /\ (clientAt[p] \in Requests => answers[p][1].op = clientAt[p])
      BY DEF AnswersMatch
    <3>1. ClientHeld(p) /\ clientAt[p] \in LadPlaces
      BY DEF LadInvariant, LadIsWell, ClientsHeld, LadTypes
    <3>2. \A kind, id : Len(Answered(kind, id)) = 1 /\ Answered(kind, id)[1].op = kind
      BY DEF Answered
    <3>3. CASE clientAt[p] \in Requests
      <4>1. PICK id \in Queues \cup {NoSlot} : answers[p] = Answered(clientAt[p], id)
        BY <3>1, <3>3 DEF ClientHeld
      <4> QED
        BY <3>2, <4>1
    <3>4. CASE clientAt[p] = "reading"
      <4>1. \E id : answers[p] = Answered("connect", id)
        BY <3>1, <3>4 DEF ClientHeld
      <4> QED
        BY <3>2, <3>4, <4>1 DEF Requests
    <3>5. CASE clientAt[p] \notin {"reading"} \cup Requests
      BY <3>1, <3>5 DEF ClientHeld, LadPlaces
    <3> QED
      BY <3>3, <3>4, <3>5
  <2>2. QueuesAreWatched
    BY DEF LadInvariant, LadIsWell, QueuesHeld, QueueHeld, HasSlot, QueuesAreWatched
  <2>3. CreatedQueueStays
    <3> SUFFICES ASSUME ~strayed, NEW p \in Clients, alive[p], mine[p] # NoSlot,
                        clientAt[p] \in {"ready", "create", "announce"}
                 PROVE  ladQueues[mine[p]].owner = p
      BY DEF CreatedQueueStays
    <3>1. OwnQueue(p) /\ ClientHeld(p) /\ mine[p] \in Queues
      BY DEF LadInvariant, LadIsWell, LadTypes, ClientsHeld, OwnQueues
    <3>2. clientAt[p] # "create"
      BY <3>1 DEF ClientHeld
    <3> QED
      BY <3>1, <3>2 DEF OwnQueue
  <2> QED
    BY <2>1, <2>2, <2>3 DEF LadIsSound
<1> QED
  BY LadStarts, LadKeeps, <1>1, PTL DEF LadSpec
=============================================================================
