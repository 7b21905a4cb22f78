----------------------- MODULE NotifyDriverCircProofs -----------------------
(***************************************************************************)
(* The circular-buffer driver, for any size of the buffer: no interrupt is *)
(* lost, however many threads send; with one sending thread the buffer     *)
(* implements the event channel.                                           *)
(***************************************************************************)
EXTENDS NotifyDriverCirc, SequenceTheorems, TLAPS

SingleSender == \A s, t \in Senders : s = t

USE CircAssumption DEF vars, shared, locals, receiver

(* Distances round the ring.                                               *)
LEMMA RingArithmetic ==
    /\ NumMsgs \in Nat /\ NumMsgs >= 4 /\ MaxIndex = NumMsgs - 1
    /\ 0 \in Slots
    /\ \A i \in Slots : Succ(i) \in Slots
    /\ \A i, j \in Slots : Ahead(i, j) \in Slots
    /\ \A i \in Slots : Ahead(i, i) = 0
    /\ \A i, j \in Slots : Ahead(i, j) = 0 => i = j
  BY DEF MaxIndex, Slots, Succ, Ahead

(* Two slots have different successors.                                    *)
LEMMA SuccInjective ==
    ASSUME NEW i \in Slots, NEW j \in Slots, Succ(i) = Succ(j)
    PROVE  i = j
  BY RingArithmetic DEF MaxIndex, Slots, Succ

(* Moving the index that is ahead, or the one that is behind, by one.      *)
LEMMA AheadSucc ==
    ASSUME NEW i \in Slots, NEW j \in Slots
    PROVE  /\ Succ(j) # i => Ahead(i, Succ(j)) = Ahead(i, j) + 1
           /\ i # j => Ahead(Succ(i), j) = Ahead(i, j) - 1
  BY RingArithmetic DEF MaxIndex, Slots, Succ, Ahead

-----------------------------------------------------------------------------
(* Every variable keeps its type.                                          *)
THEOREM TypeCorrect == Spec => []TypeOK
  <1> USE RingArithmetic DEF TypeOK
  <1>1. Init => TypeOK
    BY ZenonT(60) DEF Init
  <1>2. TypeOK /\ [Next]_vars => TypeOK'
    <2> SUFFICES ASSUME TypeOK, [Next]_vars PROVE TypeOK'
      OBVIOUS
    <2>1. ASSUME NEW s \in Senders, NEW e \in Entries, NEW wait \in BOOLEAN,
                 SendCall(s, e, wait)
          PROVE  TypeOK'
      <3>1. cachedRead' \in Slots
        BY <2>1 DEF SendCall
      <3>2. waitClear' \in [Senders -> BOOLEAN]
        BY <2>1 DEF SendCall
      <3> QED BY <2>1, <3>1, <3>2 DEF SendCall
    <2>2. ASSUME NEW s \in Senders, SendWrite(s) PROVE TypeOK'
      <3>1. memWrite' \in Slots
        BY <2>2 DEF SendWrite
      <3>2. waitClear' \in [Senders -> BOOLEAN] /\ loop' \in [Senders -> BOOLEAN]
        BY <2>2 DEF SendWrite, ForgetLocals
      <3> QED BY <2>2, <3>1, <3>2 DEF SendWrite, ForgetLocals
    <2>3. ASSUME NEW s \in Senders, SendFail(s) PROVE TypeOK'
      <3>1. waitClear' \in [Senders -> BOOLEAN] /\ loop' \in [Senders -> BOOLEAN]
        BY <2>3 DEF SendFail, ForgetLocals
      <3> QED BY <2>3, <3>1 DEF SendFail, ForgetLocals
    <2>4. ASSUME NEW s \in Senders, SendFull(s) PROVE TypeOK'
      BY <2>4 DEF SendFull
    <2>5. ASSUME NEW s \in Senders, SendReread(s) PROVE TypeOK'
      BY <2>5 DEF SendReread
    <2>6. ASSUME NEW s \in Senders, SendPublish(s) PROVE TypeOK'
      BY <2>6 DEF SendPublish
    <2>7. ASSUME NEW s \in Senders, SendInterrupt(s) PROVE TypeOK'
      BY <2>7 DEF SendInterrupt
    <2>8. CASE IsrClear
      BY <2>8 DEF IsrClear
    <2>9. CASE IsrFetch
      BY <2>9 DEF IsrFetch
    <2>10. CASE IsrExec
      BY <2>10 DEF IsrExec
    <2>11. CASE IsrAdvance
      BY <2>11 DEF IsrAdvance
    <2>12. CASE IsrReturn
      BY <2>12 DEF IsrReturn
    <2>13. ASSUME NEW e \in Events, RegisterEvent(e) PROVE TypeOK'
      BY <2>13 DEF RegisterEvent
    <2>14. ASSUME NEW e \in Events, UnregisterEvent(e) PROVE TypeOK'
      BY <2>14 DEF UnregisterEvent
    <2>15. ASSUME NEW on \in BOOLEAN, SetInterrupt(on) PROVE TypeOK'
      BY <2>15 DEF SetInterrupt
    <2>16. CASE UNCHANGED vars
      BY <2>16
    <2> QED
      BY <2>1, <2>2, <2>3, <2>4, <2>5, <2>6, <2>7, <2>8, <2>9, <2>10, <2>11,
         <2>12, <2>13, <2>14, <2>15, <2>16 DEF Next, SendStep, IsrStep
  <1> QED BY <1>1, <1>2, PTL DEF Spec

-----------------------------------------------------------------------------
(***************************************************************************)
(* The inductive form of NoLostInterrupt: once the isr has fetched the     *)
(* write index, anything published beyond it has an interrupt coming.      *)
(***************************************************************************)
IntInv ==
    /\ isr \in {"idle", "loop", "advance"} /\ memWrite # isrWrite
         => intPending \/ \E s \in Senders : pc[s] \in {"publish", "intSend"}
    /\ isr = "idle" => isrWrite = readIdx

(* Every step keeps the line raised, or the isr on its way, while a slot   *)
(* is unread.                                                              *)
LEMMA IntStep == TypeOK /\ IntInv /\ [Next]_vars => IntInv'
  <1> SUFFICES ASSUME TypeOK, IntInv, [Next]_vars PROVE IntInv'
    OBVIOUS
  <1> USE DEF TypeOK, IntInv
  <1>1. ASSUME NEW s \in Senders, NEW e \in Entries, NEW wait \in BOOLEAN,
               SendCall(s, e, wait)
        PROVE  IntInv'
    BY <1>1 DEF SendCall
  <1>2. ASSUME NEW s \in Senders, SendWrite(s) PROVE IntInv'
    <2>1. pc'[s] = "publish"
      BY <1>2 DEF SendWrite
    <2> QED BY <1>2, <2>1 DEF SendWrite
  <1>3. ASSUME NEW s \in Senders, SendFail(s) PROVE IntInv'
    BY <1>3 DEF SendFail
  <1>4. ASSUME NEW s \in Senders, SendFull(s) PROVE IntInv'
    BY <1>4 DEF SendFull
  <1>5. ASSUME NEW s \in Senders, SendReread(s) PROVE IntInv'
    BY <1>5 DEF SendReread
  <1>6. ASSUME NEW s \in Senders, SendPublish(s) PROVE IntInv'
    <2>1. pc'[s] = "intSend"
      BY <1>6 DEF SendPublish
    <2> QED BY <1>6, <2>1 DEF SendPublish
  <1>7. ASSUME NEW s \in Senders, SendInterrupt(s) PROVE IntInv'
    BY <1>7 DEF SendInterrupt
  <1>8. CASE IsrClear
    BY <1>8 DEF IsrClear
  <1>9. CASE IsrFetch
    BY <1>9 DEF IsrFetch
  <1>10. CASE IsrExec
    BY <1>10 DEF IsrExec
  <1>11. CASE IsrAdvance
    BY <1>11 DEF IsrAdvance
  <1>12. CASE IsrReturn
    BY <1>12 DEF IsrReturn
  <1>13. ASSUME NEW e \in Events, RegisterEvent(e) PROVE IntInv'
    BY <1>13 DEF RegisterEvent
  <1>14. ASSUME NEW e \in Events, UnregisterEvent(e) PROVE IntInv'
    BY <1>14 DEF UnregisterEvent
  <1>15. ASSUME NEW on \in BOOLEAN, SetInterrupt(on) PROVE IntInv'
    BY <1>15 DEF SetInterrupt
  <1>16. CASE UNCHANGED vars
    BY <1>16
  <1> QED
    BY <1>1, <1>2, <1>3, <1>4, <1>5, <1>6, <1>7, <1>8, <1>9, <1>10, <1>11,
       <1>12, <1>13, <1>14, <1>15, <1>16 DEF Next, SendStep, IsrStep

(* Events published while the isr is not running have an interrupt coming, *)
(* for any number of sending threads and any size of the buffer.           *)
THEOREM InterruptNeverLost == Spec => []NoLostInterrupt
  <1>1. Init => IntInv
    BY DEF Init, IntInv
  <1>2. IntInv => NoLostInterrupt
    BY DEF IntInv, NoLostInterrupt
  <1> QED BY <1>1, <1>2, TypeCorrect, IntStep, PTL DEF Spec

-----------------------------------------------------------------------------
(***************************************************************************)
(* The inductive form of RingOrder, for one sending thread: its local read *)
(* index is the one it last saw, and the isr stands between the two        *)
(* indices it walks.                                                       *)
(***************************************************************************)
RingInv ==
    /\ RingOrder
    /\ \A s \in Senders : pc[s] = "test" => read[s] = cachedRead
    /\ isr \in {"idle", "fetch"} => isrWrite = readIdx
    /\ isr = "advance" => isrWrite # readIdx

(* The moves of the six indices that keep them in order.                   *)
LEMMA OrderMoves ==
    ASSUME NEW c \in Slots, NEW m \in Slots, NEW r \in Slots,
           NEW i \in Slots, NEW n \in Slots, NEW w \in Slots,
           InOrder(c, m, r, i, n, w)
    PROVE  /\ InOrder(m, m, r, i, n, w)
           /\ Succ(w) # c => /\ InOrder(c, m, r, i, n, Succ(w))
                             /\ InOrder(c, m, r, i, Succ(w), Succ(w))
           /\ InOrder(c, m, r, i, w, w)
           /\ i = r => InOrder(c, m, r, n, n, w)
           /\ i # r => /\ InOrder(c, m, Succ(r), i, n, w)
                       /\ InOrder(c, Succ(r), Succ(r), i, n, w)
  <1> USE RingArithmetic DEF InOrder, Ahead, Succ, Slots, MaxIndex
  <1>1. InOrder(m, m, r, i, n, w)
    OBVIOUS
  <1>2. Succ(w) # c => InOrder(c, m, r, i, n, Succ(w))
    OBVIOUS
  <1>3. Succ(w) # c => InOrder(c, m, r, i, Succ(w), Succ(w))
    OBVIOUS
  <1>4. InOrder(c, m, r, i, w, w)
    OBVIOUS
  <1>5. i = r => InOrder(c, m, r, n, n, w)
    OBVIOUS
  <1>6. i # r => InOrder(c, m, Succ(r), i, n, w)
    OBVIOUS
  <1>7. i # r => InOrder(c, Succ(r), Succ(r), i, n, w)
    OBVIOUS
  <1> QED BY <1>1, <1>2, <1>3, <1>4, <1>5, <1>6, <1>7

(* Every step keeps the copies of the indices in their order round the     *)
(* ring.                                                                   *)
LEMMA RingStep ==
    ASSUME SingleSender, TypeOK, RingInv, [Next]_vars
    PROVE  RingInv'
  <1> USE DEF RingInv, RingOrder
  <1>t. /\ writeIdx \in Slots /\ memWrite \in Slots /\ readIdx \in Slots
        /\ memRead \in Slots /\ cachedRead \in Slots /\ isrWrite \in Slots
    BY DEF TypeOK
  <1>1. ASSUME NEW s \in Senders, NEW e \in Entries, NEW wait \in BOOLEAN,
               SendCall(s, e, wait)
        PROVE  RingInv'
    <2>1. RingOrder'
      BY <1>1, <1>t, OrderMoves DEF SendCall
    <2>2. \A t \in Senders : pc'[t] = "test" => read'[t] = cachedRead'
      BY <1>1 DEF SendCall, SingleSender, TypeOK
    <2> QED BY <1>1, <2>1, <2>2 DEF SendCall
  <1>2. ASSUME NEW s \in Senders, SendWrite(s) PROVE RingInv'
    <2>1. Succ(writeIdx) # cachedRead
      BY <1>2 DEF SendWrite, HasSlot
    <2>2. RingOrder'
      BY <1>2, <1>t, <2>1, OrderMoves DEF SendWrite
    <2>3. \A t \in Senders : pc'[t] = "publish"
      BY <1>2 DEF SendWrite, SingleSender, TypeOK
    <2> QED BY <1>2, <2>2, <2>3 DEF SendWrite
  <1>3. ASSUME NEW s \in Senders, SendFail(s) PROVE RingInv'
    <2>1. \A t \in Senders : pc'[t] = "idle"
      BY <1>3 DEF SendFail, SingleSender, TypeOK
    <2> QED BY <1>3, <2>1 DEF SendFail
  <1>4. ASSUME NEW s \in Senders, SendFull(s) PROVE RingInv'
    <2>1. \A t \in Senders : pc'[t] = "reread"
      BY <1>4 DEF SendFull, SingleSender, TypeOK
    <2> QED BY <1>4, <2>1 DEF SendFull
  <1>5. ASSUME NEW s \in Senders, SendReread(s) PROVE RingInv'
    <2>1. \A t \in Senders : read'[t] = cachedRead'
      BY <1>5 DEF SendReread, SingleSender, TypeOK
    <2>2. RingOrder'
      BY <1>5, <1>t, OrderMoves DEF SendReread
    <2> QED BY <1>5, <2>1, <2>2 DEF SendReread
  <1>6. ASSUME NEW s \in Senders, SendPublish(s) PROVE RingInv'
    <2>1. \A t \in Senders : pc'[t] = "intSend"
      BY <1>6 DEF SendPublish, SingleSender, TypeOK
    <2>2. RingOrder'
      BY <1>6, <1>t, OrderMoves DEF SendPublish
    <2> QED BY <1>6, <2>1, <2>2 DEF SendPublish
  <1>7. ASSUME NEW s \in Senders, SendInterrupt(s) PROVE RingInv'
    <2>1. \A t \in Senders : pc'[t] = "idle"
      BY <1>7 DEF SendInterrupt, SingleSender, TypeOK
    <2> QED BY <1>7, <2>1 DEF SendInterrupt
  <1>8. CASE IsrClear
    BY <1>8 DEF IsrClear
  <1>9. CASE IsrFetch
    <2>1. RingOrder'
      BY <1>9, <1>t, OrderMoves DEF IsrFetch
    <2> QED BY <1>9, <2>1 DEF IsrFetch
  <1>10. CASE IsrExec
    BY <1>10 DEF IsrExec
  <1>11. CASE IsrAdvance
    <2>1. RingOrder'
      BY <1>11, <1>t, OrderMoves DEF IsrAdvance
    <2> QED BY <1>11, <2>1 DEF IsrAdvance
  <1>12. CASE IsrReturn
    BY <1>12 DEF IsrReturn
  <1>13. ASSUME NEW e \in Events, RegisterEvent(e) PROVE RingInv'
    BY <1>13 DEF RegisterEvent
  <1>14. ASSUME NEW e \in Events, UnregisterEvent(e) PROVE RingInv'
    BY <1>14 DEF UnregisterEvent
  <1>15. ASSUME NEW on \in BOOLEAN, SetInterrupt(on) PROVE RingInv'
    BY <1>15 DEF SetInterrupt
  <1>16. CASE UNCHANGED vars
    BY <1>16
  <1> QED
    BY <1>1, <1>2, <1>3, <1>4, <1>5, <1>6, <1>7, <1>8, <1>9, <1>10, <1>11,
       <1>12, <1>13, <1>14, <1>15, <1>16 DEF Next, SendStep, IsrStep

(* With one sending thread, every copy of the two indices keeps its place  *)
(* on the ring, whatever the size of the buffer and the write-back period. *)
THEOREM RingOrdered ==
    ASSUME SingleSender
    PROVE  Spec => []RingOrder
  <1>1. Init => RingInv
    BY RingArithmetic DEF Init, RingInv, RingOrder, InOrder
  <1>2. TypeOK /\ RingInv /\ [Next]_vars => RingInv'
    BY RingStep
  <1>3. RingInv => RingOrder
    BY DEF RingInv
  <1> QED BY <1>1, <1>2, <1>3, TypeCorrect, PTL DEF Spec

-----------------------------------------------------------------------------
(***************************************************************************)
(* The buffer as a sequence: writing a slot appends, reading past one      *)
(* takes the head off.                                                     *)
(***************************************************************************)
(* What a slot can hold.                                                   *)
Cells == Entries \cup {NoEntry}

(* The slots between two indices are a sequence of entries.                *)
LEMMA WindowSeq ==
    ASSUME NEW b \in [Slots -> Cells], NEW f \in Slots, NEW w \in Slots
    PROVE  /\ Window(b, f, w) \in Seq(Cells)
           /\ Len(Window(b, f, w)) = Ahead(f, w)
           /\ DOMAIN Window(b, f, w) = 1 .. Ahead(f, w)
           /\ \A k \in 1 .. Ahead(f, w) : Nth(f, k) \in Slots
           /\ \A k \in 1 .. Ahead(f, w) : Window(b, f, w)[k] = b[Nth(f, k)]
  <1>1. Ahead(f, w) \in Nat
    BY SMTT(30), RingArithmetic DEF Slots, MaxIndex
  <1>2. \A k \in 1 .. Ahead(f, w) : Nth(f, k) \in Slots
    BY RingArithmetic DEF Slots, MaxIndex, Ahead, Nth
  <1>3. Window(b, f, w) \in [1 .. Ahead(f, w) -> Cells]
    BY <1>2 DEF Window
  <1>4. Window(b, f, w) \in Seq(Cells)
    BY <1>1, <1>3
  <1>5. \A k \in 1 .. Ahead(f, w) : Window(b, f, w)[k] = b[Nth(f, k)]
    BY DEF Window
  <1>6. Len(Window(b, f, w)) = Ahead(f, w)
    BY <1>1, <1>3, <1>4
  <1> QED BY <1>2, <1>3, <1>4, <1>5, <1>6

(* Publishing a slot appends it.                                           *)
LEMMA WindowAppend ==
    ASSUME NEW b \in [Slots -> Cells], NEW f \in Slots, NEW w \in Slots,
           NEW e \in Cells, Succ(w) # f
    PROVE  Window([b EXCEPT ![w] = e], f, Succ(w)) = Append(Window(b, f, w), e)
  <1> DEFINE n == Ahead(f, w)
             c == [b EXCEPT ![w] = e]
             old == Window(b, f, w)
             new == Window(c, f, Succ(w))
  <1>1. n \in Nat /\ Succ(w) \in Slots /\ Ahead(f, Succ(w)) = n + 1
    BY RingArithmetic, AheadSucc DEF Slots, MaxIndex
  <1>2. c \in [Slots -> Cells]
    OBVIOUS
  <1>3. /\ old \in Seq(Cells) /\ Len(old) = n
        /\ \A k \in 1 .. n : old[k] = b[Nth(f, k)]
    BY WindowSeq
  <1>4. /\ new \in Seq(Cells) /\ Len(new) = n + 1
        /\ \A k \in 1 .. n + 1 : new[k] = c[Nth(f, k)]
    BY <1>1, <1>2, WindowSeq
  <1>5. \A k \in 1 .. n : Nth(f, k) \in Slots /\ Nth(f, k) # w
    BY RingArithmetic DEF Slots, MaxIndex, Ahead, Nth
  <1>6. Nth(f, n + 1) = w
    BY RingArithmetic DEF Slots, MaxIndex, Ahead, Nth
  <1>a. c[w] = e /\ \A i \in Slots : i # w => c[i] = b[i]
    OBVIOUS
  <1> HIDE DEF n, c, old, new
  <1>7. ASSUME NEW k \in 1 .. n PROVE new[k] = old[k]
    <2>1. k \in 1 .. n + 1
      BY <1>1
    <2>2. new[k] = c[Nth(f, k)] /\ old[k] = b[Nth(f, k)]
      BY <1>3, <1>4, <2>1
    <2> QED BY <1>5, <1>a, <2>2
  <1>8. new[n + 1] = e
    <2>1. n + 1 \in 1 .. n + 1
      BY <1>1
    <2> QED BY <1>4, <1>6, <1>a, <2>1
  <1>9. /\ Append(old, e) \in Seq(Cells) /\ Len(Append(old, e)) = n + 1
        /\ \A k \in 1 .. n : Append(old, e)[k] = old[k]
        /\ Append(old, e)[n + 1] = e
    BY <1>1, <1>3
  <1>10. \A k \in 1 .. n + 1 : new[k] = Append(old, e)[k]
    BY <1>1, <1>7, <1>8, <1>9
  <1>11. new = Append(old, e)
    BY <1>4, <1>9, <1>10, SeqEqual
  <1> QED BY <1>11 DEF new, old, c

(* Reading a slot takes the first.                                         *)
LEMMA WindowTail ==
    ASSUME NEW b \in [Slots -> Cells], NEW f \in Slots, NEW w \in Slots,
           f # w
    PROVE  /\ Window(b, f, w) # <<>>
           /\ Head(Window(b, f, w)) = b[f]
           /\ Tail(Window(b, f, w)) = Window(b, Succ(f), w)
  <1> DEFINE n == Ahead(f, w)
             old == Window(b, f, w)
             new == Window(b, Succ(f), w)
  <1>1. n \in Nat /\ n # 0 /\ Succ(f) \in Slots /\ Ahead(Succ(f), w) = n - 1
    <2>1. n \in Slots /\ n # 0 /\ Succ(f) \in Slots
      BY RingArithmetic
    <2>2. Ahead(Succ(f), w) = n - 1
      BY AheadSucc
    <2> QED BY <2>1, <2>2, RingArithmetic DEF Slots
  <1>2. /\ old \in Seq(Cells) /\ Len(old) = n
        /\ \A k \in 1 .. n : old[k] = b[Nth(f, k)]
    BY WindowSeq
  <1>3. /\ new \in Seq(Cells) /\ Len(new) = n - 1
        /\ \A k \in 1 .. n - 1 : new[k] = b[Nth(Succ(f), k)]
    BY SMTT(30), <1>1, WindowSeq
  <1>4. \A k \in 1 .. n - 1 : Nth(Succ(f), k) = Nth(f, k + 1)
    BY RingArithmetic DEF Slots, MaxIndex, Ahead, Nth, Succ
  <1>5. Nth(f, 1) = f
    BY RingArithmetic DEF Slots, MaxIndex, Nth
  <1>6. old # <<>> /\ Head(old) = b[f]
    BY <1>1, <1>2, <1>5
  <1>7. \A k \in 1 .. n - 1 : new[k] = old[k + 1]
    BY <1>1, <1>2, <1>3, <1>4
  <1> HIDE DEF n, old, new
  <1>8. /\ Tail(old) \in Seq(Cells) /\ Len(Tail(old)) = n - 1
        /\ \A k \in 1 .. n - 1 : Tail(old)[k] = old[k + 1]
    BY <1>1, <1>2, <1>6
  <1>9. new = Tail(old)
    BY <1>3, <1>7, <1>8, SeqEqual
  <1> QED BY <1>6, <1>9 DEF old, new

(* A test that finds a slot finds room: the sender believes no slot free   *)
(* that the receiver has not read past.                                    *)
LEMMA Room ==
    ASSUME NEW c \in Slots, NEW m \in Slots, NEW r \in Slots,
           NEW i \in Slots, NEW n \in Slots, NEW w \in Slots,
           InOrder(c, m, r, i, n, w)
    PROVE  /\ Succ(w) # c => Succ(w) # r /\ Ahead(r, w) < MaxIndex
           /\ i # r => r # w
  BY RingArithmetic DEF InOrder, Ahead, Succ, Slots, MaxIndex

(* Every step of the driver is one of the channel, or none.                *)
LEMMA StepSimulation ==
    ASSUME SingleSender, TypeOK, RingInv, [Next]_vars
    PROVE  [Channel!ChanNext]_(Channel!chanVars)
  <1> USE DEF RingInv, RingOrder, Channel!chanVars
  <1>t. /\ writeIdx \in Slots /\ memWrite \in Slots /\ readIdx \in Slots
        /\ memRead \in Slots /\ cachedRead \in Slots /\ isrWrite \in Slots
        /\ buf \in [Slots -> Cells]
    BY DEF TypeOK, Cells
  <1>f. /\ FirstPending \in Slots
        /\ isr # "advance" => FirstPending = readIdx
        /\ isr = "advance" => FirstPending = Succ(readIdx) /\ readIdx # writeIdx
    BY SMTT(30), <1>t, RingArithmetic, Room DEF FirstPending
  <1>q. ASSUME buf' = buf, writeIdx' = writeIdx, readIdx' = readIdx, isr' = isr,
               evtRegMask' = evtRegMask, executed' = executed
        PROVE  UNCHANGED Channel!chanVars
    BY <1>q DEF PendingEvents, FirstPending
  <1>1. ASSUME NEW s \in Senders, NEW e \in Entries, NEW wait \in BOOLEAN,
               SendCall(s, e, wait)
        PROVE  UNCHANGED Channel!chanVars
    BY <1>1, <1>q DEF SendCall
  <1>2. ASSUME NEW s \in Senders, SendWrite(s)
        PROVE  \E e \in Entries : Channel!Send(e)
    <2>1. Succ(writeIdx) # cachedRead
      BY <1>2 DEF SendWrite, HasSlot
    <2>2. Succ(writeIdx) # readIdx /\ Ahead(readIdx, writeIdx) < MaxIndex
      BY SMTT(30), <1>t, <2>1, Room
    <2>3. /\ Succ(writeIdx) # FirstPending
          /\ Ahead(FirstPending, writeIdx) < MaxIndex
      <3>1. CASE isr # "advance"
        BY <1>f, <2>2, <3>1
      <3>2. CASE isr = "advance"
        <4>1. Ahead(FirstPending, writeIdx) = Ahead(readIdx, writeIdx) - 1
          BY <1>t, <1>f, <3>2, AheadSucc
        <4>2. Succ(writeIdx) # Succ(readIdx)
          BY <1>t, <1>f, <3>2, SuccInjective
        <4>3. Ahead(readIdx, writeIdx) \in Int /\ MaxIndex \in Int
          BY <1>t, RingArithmetic DEF Slots
        <4> QED BY <1>f, <2>2, <3>2, <4>1, <4>2, <4>3
      <3> QED BY <3>1, <3>2
    <2>4. args[s] \in Entries /\ args[s] \in Cells
      BY <1>2 DEF SendWrite, TypeOK, Cells
    <2>5. FirstPending' = FirstPending
      BY <1>2 DEF SendWrite, FirstPending
    <2>6. PendingEvents' = Append(PendingEvents, args[s])
      <3>1. PendingEvents' = Window([buf EXCEPT ![writeIdx] = args[s]],
                                    FirstPending, Succ(writeIdx))
        BY <1>2, <2>5 DEF SendWrite, PendingEvents
      <3> QED BY ZenonT(60), <1>t, <1>f, <2>3, <2>4, <3>1, WindowAppend DEF PendingEvents
    <2>7. Len(PendingEvents) < MaxIndex
      BY <1>t, <1>f, <2>3, WindowSeq DEF PendingEvents
    <2>8. UNCHANGED <<evtRegMask, executed>>
      BY <1>2 DEF SendWrite
    <2> QED BY <2>4, <2>6, <2>7, <2>8 DEF Channel!Send
  <1>3. ASSUME NEW s \in Senders, SendFail(s) PROVE UNCHANGED Channel!chanVars
    BY <1>3, <1>q DEF SendFail
  <1>4. ASSUME NEW s \in Senders, SendFull(s) PROVE UNCHANGED Channel!chanVars
    BY <1>4, <1>q DEF SendFull
  <1>5. ASSUME NEW s \in Senders, SendReread(s) PROVE UNCHANGED Channel!chanVars
    BY <1>5, <1>q DEF SendReread
  <1>6. ASSUME NEW s \in Senders, SendPublish(s) PROVE UNCHANGED Channel!chanVars
    BY <1>6, <1>q DEF SendPublish
  <1>7. ASSUME NEW s \in Senders, SendInterrupt(s) PROVE UNCHANGED Channel!chanVars
    BY <1>7, <1>q DEF SendInterrupt
  <1>8. CASE IsrClear
    BY <1>8 DEF IsrClear, PendingEvents, FirstPending
  <1>9. CASE IsrFetch
    BY <1>9 DEF IsrFetch, PendingEvents, FirstPending
  <1>10. ASSUME IsrExec PROVE Channel!Deliver
    <2>1. FirstPending = readIdx /\ FirstPending' = Succ(readIdx)
      BY <1>10 DEF IsrExec, FirstPending
    <2>2. readIdx # writeIdx
      BY <1>10, <1>t, Room DEF IsrExec
    <2>3. /\ PendingEvents # <<>>
          /\ Head(PendingEvents) = buf[readIdx]
          /\ Tail(PendingEvents) = Window(buf, Succ(readIdx), writeIdx)
      BY <1>t, <2>1, <2>2, WindowTail DEF PendingEvents
    <2>4. PendingEvents' = Window(buf, Succ(readIdx), writeIdx)
      BY <1>10, <2>1 DEF IsrExec, PendingEvents
    <2>5. /\ executed' = IF buf[readIdx].event \in evtRegMask
                         THEN <<buf[readIdx]>> ELSE executed
          /\ evtRegMask' = evtRegMask
      BY <1>10 DEF IsrExec
    <2> QED BY <2>3, <2>4, <2>5 DEF Channel!Deliver
  <1>11. ASSUME IsrAdvance PROVE UNCHANGED Channel!chanVars
    <2>1. FirstPending' = FirstPending
      BY <1>11 DEF IsrAdvance, FirstPending
    <2> QED BY <1>11, <2>1 DEF IsrAdvance, PendingEvents
  <1>12. CASE IsrReturn
    BY <1>12 DEF IsrReturn, PendingEvents, FirstPending
  <1>13. ASSUME NEW e \in Events, RegisterEvent(e) PROVE Channel!Register
    BY <1>13 DEF RegisterEvent, PendingEvents, FirstPending, Channel!Register, TypeOK
  <1>14. ASSUME NEW e \in Events, UnregisterEvent(e) PROVE Channel!Register
    BY <1>14 DEF UnregisterEvent, PendingEvents, FirstPending, Channel!Register, TypeOK
  <1>15. ASSUME NEW on \in BOOLEAN, SetInterrupt(on)
         PROVE  UNCHANGED Channel!chanVars
    BY <1>15, <1>q DEF SetInterrupt
  <1>16. CASE UNCHANGED vars
    BY <1>16, <1>q
  <1>17. Entries = Channel!Entries
    BY DEF Entries, Channel!Entries
  <1> QED
    BY <1>1, <1>2, <1>3, <1>4, <1>5, <1>6, <1>7, <1>8, <1>9, <1>10, <1>11,
       <1>12, <1>13, <1>14, <1>15, <1>16, <1>17
       DEF Next, SendStep, IsrStep, Channel!ChanNext

(* With one sending thread the driver is a bounded FIFO channel of events, *)
(* for any size of the buffer: nothing is lost, duplicated or reordered.   *)
THEOREM CircImplementsChannel ==
    ASSUME SingleSender
    PROVE  Spec => ImplementsChannel
  <1>1. Init => RingInv
    BY RingArithmetic DEF Init, RingInv, RingOrder, InOrder
  <1>2. Init => Channel!ChanInit
    <2> SUFFICES ASSUME Init PROVE Channel!ChanInit
      OBVIOUS
    <2>1. /\ buf \in [Slots -> Cells] /\ FirstPending \in Slots
          /\ Ahead(FirstPending, writeIdx) = 0 /\ writeIdx \in Slots
      BY RingArithmetic DEF Init, FirstPending, Cells
    <2>2. PendingEvents \in Seq(Cells) /\ Len(PendingEvents) = 0
      BY <2>1, WindowSeq DEF PendingEvents
    <2>3. PendingEvents = <<>>
      BY <2>2
    <2> QED BY <2>3 DEF Init, Channel!ChanInit, NoEntry
  <1>3. TypeOK /\ RingInv /\ [Next]_vars => RingInv'
    BY RingStep
  <1>4. TypeOK /\ RingInv /\ [Next]_vars => [Channel!ChanNext]_(Channel!chanVars)
    BY StepSimulation
  <1> QED
    BY <1>1, <1>2, <1>3, <1>4, TypeCorrect, PTL
       DEF Spec, ImplementsChannel, Channel!ChanSpec
=============================================================================
