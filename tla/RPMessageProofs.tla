--------------------------- MODULE RPMessageProofs ---------------------------
(***************************************************************************)
(* Proofs about RPMessage over its two rings, for any number of senders,   *)
(* endpoints, buffers and blocks.                                          *)
(***************************************************************************)
EXTENDS RPMessage, FiniteSetTheorems, SequenceTheorems, TLAPS

USE RPMessageAssumption
USE DEF vars, rings, hosts, swis, objects, Rings, Tasks, NoOne, TheSwi, Places

-----------------------------------------------------------------------------
(***************************************************************************)
(* Every buffer is in its ring, returned, or in the hands of this side or  *)
(* of the host; every block is free or holds a copy on a queue.            *)
(***************************************************************************)
Filling == {t \in Senders : pc[t] = "fill"}
CopiesOf(q) == {c \in Endpoints \X Nat : c[2] \in 1 .. Len(q[c[1]])}
Copies  == CopiesOf(queue)
InSwi   == IF swi \in {"deliver", "fault"} THEN 1 ELSE 0

BufferInv ==
    /\ IsFiniteSet(Filling)
    /\ avail["toHost"] + used["toHost"] + Cardinality(Filling) = NumBufs
    /\ avail["fromHost"] + used["fromHost"] + hostFree + InSwi = NumBufs
    /\ swi \in {"deliver", "fault"} => cur \in Messages

BlockInv == IsFiniteSet(Copies) /\ blocks + Cardinality(Copies) = NumBlocks

(***************************************************************************)
(* An endpoint's semaphore counts its messages, and one for the reader who *)
(* has been woken, until it is unblocked; it is not deleted before         *)
(* RPMessage_unblock has returned.                                         *)
(***************************************************************************)
Reader(e) ==
    /\ pc[e] \in {"pend", "woken"} => endpoint[e] = "queue"
    /\ pc[e] = "delete" <=> endpoint[e] = "torn"
    /\ endpoint[e] # "queue" => queue[e] = <<>>
    /\ endpoint[e] = "queue" /\ ~unblocked[e] =>
          Len(queue[e]) = sem[e] + IF pc[e] = "woken" THEN 1 ELSE 0

ReaderInv ==
    /\ \A e \in Endpoints : Reader(e)
    /\ \A t \in Senders, e \in Endpoints : pc[t] = e => endpoint[e] = "queue" /\ unblocked[e]

StateInv == Types /\ BufferInv /\ BlockInv /\ ReaderInv

(* A task that goes to a place leaves the others where they are.           *)
LEMMA Moved ==
    ASSUME DOMAIN pc = Tasks, NEW t \in Tasks, NEW p, pc' = [pc EXCEPT ![t] = p]
    PROVE  \A u \in Tasks : pc'[u] = IF u = t THEN p ELSE pc[u]
  OBVIOUS

(* Tasks are not places, and senders are not endpoints.                    *)
LEMMA PlacesApart ==
    /\ \A t \in Tasks : t \notin {NoOne, TheSwi} \cup Places
    /\ \A t \in Senders, e \in Endpoints : t # e
    /\ \A t \in Senders : t \in Tasks
    /\ \A e \in Endpoints : e \in Tasks
  OBVIOUS

(* What a copy does to its endpoint.                                       *)
LEMMA CopyTypes ==
    ASSUME NEW e \in Endpoints, cur \in Messages, blocks \in Nat,
           queue \in [Endpoints -> Seq(Messages)], sem \in [Endpoints -> Nat],
           Copy(e)
    PROVE  queue' \in [Endpoints -> Seq(Messages)] /\ sem' \in [Endpoints -> Nat] /\ blocks' \in Nat
  <1>1. CASE blocks = 0
    BY <1>1 DEF Copy
  <1>2. CASE blocks > 0
    <2>1. Append(queue[e], cur) \in Seq(Messages)
      OBVIOUS
    <2>2. PICK new \in Seq(Messages) : queue' = [queue EXCEPT ![e] = new]
      BY ZenonT(60), <1>2, <2>1 DEF Copy
    <2>3. queue' \in [Endpoints -> Seq(Messages)]
      BY <2>2
    <2>4. sem' = [sem EXCEPT ![e] = @ + 1] /\ blocks' = blocks - 1
      BY <1>2 DEF Copy
    <2> QED BY <1>2, <2>3, <2>4
  <1> QED BY <1>1, <1>2

(* Every step keeps the types.                                             *)
LEMMA TypesStep == Types /\ (swi = "deliver" => cur \in Messages) /\ [Next]_vars => Types'
  <1> SUFFICES ASSUME Types, swi = "deliver" => cur \in Messages, [Next]_vars PROVE Types'
    OBVIOUS
  <1> USE DEF Types, At, Goto
  <1>1. ASSUME NEW t \in Senders, SendGetBuf(t) PROVE Types'
    BY <1>1 DEF SendGetBuf, AskForKick
  <1>2. ASSUME NEW t \in Senders, SendTakeBuf(t) PROVE Types'
    BY <1>2 DEF SendTakeBuf, TakeAvail
  <1>3. ASSUME NEW t \in Senders, SendNoBuf(t) PROVE Types'
    BY <1>3 DEF SendNoBuf
  <1>4. ASSUME NEW t \in Senders, SendWake(t) PROVE Types'
    BY ZenonT(60), <1>4 DEF SendWake
  <1>5. ASSUME NEW t \in Senders, SendFill(t) PROVE Types'
    BY <1>5 DEF SendFill, AddUsed
  <1>6. ASSUME NEW t \in Senders, SendKick(t) PROVE Types'
    BY <1>6 DEF SendKick, Kick, Suppressed
  <1>7. ASSUME NEW t \in Senders, NEW e \in Endpoints, Unblock(t, e) PROVE Types'
    BY <1>7 DEF Unblock
  <1>8. ASSUME NEW t \in Senders, NEW e \in Endpoints, UnblockPost(t, e) PROVE Types'
    BY <1>8 DEF UnblockPost
  <1>9. ASSUME NEW r \in Rings, Isr(r) PROVE Types'
    BY <1>9 DEF Isr
  <1>10. CASE SwiGetBuf
    BY <1>10 DEF SwiGetBuf, AskForKick
  <1>11. CASE SwiTakeBuf
    <2>1. avail["fromHost"] > 0 /\ inbox # <<>>
      BY <1>11 DEF SwiTakeBuf, TakeAvail
    <2>2. Head(inbox) \in Messages /\ Tail(inbox) \in Seq(Messages)
          /\ Len(Tail(inbox)) = Len(inbox) - 1
      <3>1. inbox \in Seq(Messages)
        OBVIOUS
      <3> QED BY <2>1, <3>1, HeadTailProperties
    <2> QED BY <1>11, <2>1, <2>2 DEF SwiTakeBuf, TakeAvail
  <1>12. CASE SwiEmpty
    BY <1>12 DEF SwiEmpty
  <1>13. CASE SwiDeliver
    <2>1. cur \in Messages /\ cur.dst \in Endpoints
      BY <1>13 DEF SwiDeliver, Messages
    <2>2. queue' \in [Endpoints -> Seq(Messages)] /\ sem' \in [Endpoints -> Nat] /\ blocks' \in Nat
      BY <1>13, <2>1, CopyTypes DEF SwiDeliver
    <2>3. used' \in [Rings -> Nat]
      BY <1>13 DEF SwiDeliver, AddUsed
    <2> QED BY <1>13, <2>2, <2>3 DEF SwiDeliver
  <1>14. CASE SwiFault
    BY <1>14 DEF SwiFault
  <1>15. CASE SwiKick
    BY <1>15 DEF SwiKick, Kick, Suppressed
  <1>16. ASSUME NEW e \in Endpoints, Create(e) PROVE Types'
    BY <1>16 DEF Create
  <1>17. ASSUME NEW e \in Endpoints, DeleteTear(e) PROVE Types'
    BY <1>17 DEF DeleteTear
  <1>18. ASSUME NEW e \in Endpoints, DeleteSlot(e) PROVE Types'
    BY <1>18 DEF DeleteSlot
  <1>19. ASSUME NEW e \in Endpoints, RecvCall(e) PROVE Types'
    BY <1>19 DEF RecvCall
  <1>20. ASSUME NEW e \in Endpoints, RecvTimeOut(e) PROVE Types'
    BY <1>20 DEF RecvTimeOut
  <1>21. ASSUME NEW e \in Endpoints, RecvWake(e) PROVE Types'
    BY <1>21 DEF RecvWake
  <1>22. ASSUME NEW e \in Endpoints, RecvUnblocked(e) PROVE Types'
    BY <1>22 DEF RecvUnblocked
  <1>23. ASSUME NEW e \in Endpoints, RecvGet(e) PROVE Types'
    <2>1. queue[e] \in Seq(Messages) /\ queue[e] # <<>>
      BY <1>23 DEF RecvGet
    <2>2. Tail(queue[e]) \in Seq(Messages)
      BY <2>1, HeadTailProperties
    <2> QED BY <1>23, <2>2 DEF RecvGet
  <1>24. CASE HostInterrupted
    BY <1>24 DEF HostInterrupted, HostAt
  <1>25. CASE HostReceive
    BY <1>25 DEF HostReceive, HostAt
  <1>26. CASE HostReceived
    BY <1>26 DEF HostReceived, HostAt, HostKick
  <1>27. ASSUME NEW m \in Messages, HostSend(m) PROVE Types'
    BY <1>27 DEF HostSend, HostAt
  <1>28. CASE HostSent
    BY <1>28 DEF HostSent, HostAt, HostKick
  <1>29. CASE HostCollect
    BY <1>29 DEF HostCollect, HostAt
  <1>30. CASE HostStarved
    <2>1. \E h \in {"recheck", "asleep"} : host' = [host EXCEPT !["fromHost"] = h]
      BY <1>30 DEF HostStarved, HostAt
    <2>2. noInterrupt' \in BOOLEAN
      BY <1>30 DEF HostStarved
    <2>3. host' \in [Rings -> {"idle", "receive", "kick", "recheck", "asleep"}]
          /\ host'["toHost"] = host["toHost"] /\ host'["fromHost"] # "receive"
      BY <2>1
    <2> QED BY <1>30, <2>2, <2>3 DEF HostStarved
  <1>31. CASE HostWake
    BY <1>31 DEF HostWake, HostAt
  <1>32. CASE UNCHANGED vars
    BY <1>32
  <1> QED
    BY <1>1, <1>2, <1>3, <1>4, <1>5, <1>6, <1>7, <1>8, <1>9, <1>10, <1>11,
       <1>12, <1>13, <1>14, <1>15, <1>16, <1>17, <1>18, <1>19, <1>20, <1>21,
       <1>22, <1>23, <1>24, <1>25, <1>26, <1>27, <1>28, <1>29, <1>30, <1>31,
       <1>32 DEF Next, SendStep, SwiStep, RecvStep, HostStep

(* Every buffer stays in one of these places.                              *)
LEMMA BufferStep == Types /\ BufferInv /\ [Next]_vars => BufferInv'
  <1> SUFFICES ASSUME Types, BufferInv, [Next]_vars PROVE BufferInv'
    OBVIOUS
  <1> USE DEF At, Goto
  <1>t. /\ pc \in [Tasks -> Places \cup Endpoints]
        /\ avail \in [Rings -> Nat] /\ used \in [Rings -> Nat] /\ hostFree \in Nat
        /\ \A e \in Endpoints : pc[e] \in {"idle", "delete", "pend", "woken"}
    BY DEF Types
  <1>d. DOMAIN pc = Tasks
    BY DEF Types
  <1>c. IsFiniteSet(Filling) /\ Cardinality(Filling) \in Nat
    BY FS_CardinalityType DEF BufferInv
  <1>q. ASSUME UNCHANGED <<avail, used, hostFree, swi, cur>>,
               \A t \in Senders : pc'[t] = "fill" <=> pc[t] = "fill"
        PROVE  BufferInv'
    <2>1. Filling' = Filling
      BY <1>q DEF Filling
    <2> QED BY <1>q, <2>1 DEF BufferInv, InSwi
  <1>s. ASSUME UNCHANGED pc PROVE Filling' = Filling
    BY <1>s DEF Filling
  <1>1. ASSUME NEW t \in Senders, SendGetBuf(t) \/ SendNoBuf(t) \/ SendWake(t) \/ SendKick(t)
        PROVE  BufferInv'
    <2>1. UNCHANGED <<avail, used, hostFree, swi, cur>>
      BY <1>1 DEF SendGetBuf, SendNoBuf, SendWake, SendKick
    <2>2. /\ pc[t] # "fill"
          /\ \E p \in {"test", "starved", "retry", "idle"} : pc' = [pc EXCEPT ![t] = p]
      BY <1>1 DEF SendGetBuf, SendNoBuf, SendWake, SendKick
    <2>3. \A u \in Senders : pc'[u] = "fill" <=> pc[u] = "fill"
      BY <1>t, <2>2
    <2> QED BY <1>q, <2>1, <2>3
  <1>2. ASSUME NEW t \in Senders, SendTakeBuf(t) PROVE BufferInv'
    <2>1. Filling' = Filling \cup {t} /\ t \notin Filling
      <3>1. pc[t] = "test" /\ pc' = [pc EXCEPT ![t] = "fill"]
        BY <1>2 DEF SendTakeBuf
      <3>2. \A u \in Senders : pc'[u] = IF u = t THEN "fill" ELSE pc[u]
        BY <1>d, <3>1, Moved, PlacesApart
      <3> QED BY <3>1, <3>2 DEF Filling
    <2>2. /\ avail["toHost"] > 0 /\ avail' = [avail EXCEPT !["toHost"] = @ - 1]
          /\ UNCHANGED <<used, hostFree, swi, cur>>
      BY <1>2 DEF SendTakeBuf, TakeAvail
    <2>3. IsFiniteSet(Filling') /\ Cardinality(Filling') = Cardinality(Filling) + 1
      BY <1>c, <2>1, FS_AddElement
    <2> QED BY <1>t, <1>c, <2>2, <2>3 DEF BufferInv, InSwi
  <1>3. ASSUME NEW t \in Senders, SendFill(t) PROVE BufferInv'
    <2>1. Filling' = Filling \ {t} /\ t \in Filling
      <3>1. pc[t] = "fill" /\ pc' = [pc EXCEPT ![t] = "kick"]
        BY <1>3 DEF SendFill
      <3>2. \A u \in Senders : pc'[u] = IF u = t THEN "kick" ELSE pc[u]
        BY <1>d, <3>1, Moved, PlacesApart
      <3> QED BY <3>1, <3>2 DEF Filling
    <2>2. /\ used' = [used EXCEPT !["toHost"] = @ + 1]
          /\ UNCHANGED <<avail, hostFree, swi, cur>>
      BY <1>3 DEF SendFill, AddUsed
    <2>3. IsFiniteSet(Filling') /\ Cardinality(Filling') = Cardinality(Filling) - 1
      BY <1>c, <2>1, FS_RemoveElement
    <2> QED BY <1>t, <1>c, <2>2, <2>3 DEF BufferInv, InSwi
  <1>4. ASSUME NEW t \in Senders, NEW e \in Endpoints, Unblock(t, e) \/ UnblockPost(t, e)
        PROVE  BufferInv'
    <2>1. UNCHANGED <<avail, used, hostFree, swi, cur>>
      BY <1>4 DEF Unblock, UnblockPost
    <2>2. e # "fill" /\ t \in Tasks
      BY PlacesApart
    <2>3. pc[t] # "fill" /\ \E p \in {"idle", e} : pc' = [pc EXCEPT ![t] = p]
      BY <1>4, <2>2 DEF Unblock, UnblockPost
    <2>4. \A u \in Senders : pc'[u] = "fill" <=> pc[u] = "fill"
      BY <1>t, <2>2, <2>3
    <2> QED BY <1>q, <2>1, <2>4
  <1>5. ASSUME \/ \E r \in Rings : Isr(r)
               \/ HostInterrupted \/ HostReceived \/ HostSent \/ HostStarved \/ HostWake
        PROVE  BufferInv'
    BY <1>5, <1>q DEF Isr, HostInterrupted, HostReceived, HostSent, HostStarved, HostWake
  <1>6. CASE SwiGetBuf
    BY <1>6, <1>s DEF SwiGetBuf, BufferInv, InSwi
  <1>7. CASE SwiTakeBuf
    <2>1. inbox \in Seq(Messages) /\ Len(inbox) = avail["fromHost"] /\ avail["fromHost"] > 0
      BY <1>7 DEF SwiTakeBuf, TakeAvail, Types
    <2>2. Head(inbox) \in Messages
      BY <2>1, <1>t, HeadTailProperties
    <2>3. /\ avail' = [avail EXCEPT !["fromHost"] = @ - 1] /\ cur' = Head(inbox)
          /\ swi = "test" /\ swi' = "deliver" /\ UNCHANGED <<used, hostFree, pc>>
      BY <1>7 DEF SwiTakeBuf, TakeAvail
    <2> QED BY <1>s, <1>t, <1>c, <2>1, <2>2, <2>3 DEF BufferInv, InSwi
  <1>8. CASE SwiEmpty
    <2>1. /\ swi = "test" /\ swi' \in {"kick", "idle"}
          /\ UNCHANGED <<avail, used, hostFree, cur, pc>>
      BY <1>8 DEF SwiEmpty
    <2> QED BY <1>s, <2>1 DEF BufferInv, InSwi
  <1>9. CASE SwiDeliver
    <2>1. /\ used' = [used EXCEPT !["fromHost"] = @ + 1]
          /\ swi = "deliver" /\ swi' = "next" /\ UNCHANGED <<avail, hostFree, pc>>
      BY <1>9 DEF SwiDeliver, AddUsed
    <2> QED BY <1>s, <1>t, <1>c, <2>1 DEF BufferInv, InSwi
  <1>10. CASE SwiFault
    <2>1. /\ swi = "deliver" /\ swi' = "fault" /\ UNCHANGED <<avail, used, hostFree, cur, pc>>
      BY <1>10 DEF SwiFault
    <2> QED BY <1>s, <2>1 DEF BufferInv, InSwi
  <1>11. CASE SwiKick
    <2>1. /\ swi = "kick" /\ swi' = "idle" /\ UNCHANGED <<avail, used, hostFree, cur, pc>>
      BY <1>11 DEF SwiKick
    <2> QED BY <1>s, <2>1 DEF BufferInv, InSwi
  <1>12. ASSUME NEW e \in Endpoints,
                \/ Create(e) \/ DeleteTear(e) \/ DeleteSlot(e) \/ RecvCall(e) \/ RecvTimeOut(e)
                \/ RecvWake(e) \/ RecvUnblocked(e) \/ RecvGet(e)
         PROVE  BufferInv'
    <2>1. /\ UNCHANGED <<avail, used, hostFree, swi, cur>>
          /\ pc' = pc \/ \E p \in Places : pc' = [pc EXCEPT ![e] = p]
      BY <1>12 DEF Create, DeleteTear, DeleteSlot, RecvCall, RecvTimeOut, RecvWake,
                   RecvUnblocked, RecvGet
    <2>2. \A u \in Senders : u # e /\ u \in Tasks
      BY PlacesApart
    <2>3. \A u \in Senders : pc'[u] = pc[u]
      BY <1>d, <2>1, <2>2, Moved, PlacesApart
    <2> QED BY <1>q, <2>1, <2>3
  <1>13. CASE HostReceive
    <2>1. /\ used["toHost"] > 0 /\ used' = [used EXCEPT !["toHost"] = @ - 1]
          /\ avail' = [avail EXCEPT !["toHost"] = @ + 1]
          /\ UNCHANGED <<hostFree, swi, cur, pc>>
      BY <1>13 DEF HostReceive
    <2> QED BY <1>s, <1>t, <1>c, <2>1 DEF BufferInv, InSwi
  <1>14. ASSUME NEW m \in Messages, HostSend(m) PROVE BufferInv'
    <2>1. /\ hostFree > 0 /\ hostFree' = hostFree - 1
          /\ avail' = [avail EXCEPT !["fromHost"] = @ + 1]
          /\ UNCHANGED <<used, swi, cur, pc>>
      BY <1>14 DEF HostSend
    <2> QED BY <1>s, <1>t, <1>c, <2>1 DEF BufferInv, InSwi
  <1>15. CASE HostCollect
    <2>1. /\ hostFree = 0 /\ hostFree' = used["fromHost"]
          /\ used' = [used EXCEPT !["fromHost"] = 0]
          /\ UNCHANGED <<avail, swi, cur, pc>>
      BY <1>15 DEF HostCollect
    <2> QED BY <1>s, <1>t, <1>c, <2>1 DEF BufferInv, InSwi
  <1>16. CASE UNCHANGED vars
    BY <1>16, <1>q
  <1> QED
    BY <1>1, <1>2, <1>3, <1>4, <1>5, <1>6, <1>7, <1>8, <1>9, <1>10, <1>11,
       <1>12, <1>13, <1>14, <1>15, <1>16
       DEF Next, SendStep, SwiStep, RecvStep, HostStep

-----------------------------------------------------------------------------
(* Changing one queue changes the number of copies by what its length      *)
(* changes.                                                                *)
LEMMA CopiesCount ==
    ASSUME NEW q \in [Endpoints -> Seq(Messages)], IsFiniteSet(CopiesOf(q)),
           NEW e \in Endpoints, NEW s \in Seq(Messages),
           NEW p, p = [q EXCEPT ![e] = s]
    PROVE  /\ IsFiniteSet(CopiesOf(p))
           /\ Cardinality(CopiesOf(p)) = Cardinality(CopiesOf(q)) + Len(s) - Len(q[e])
           /\ Len(q[e]) <= Cardinality(CopiesOf(q))
  <1> DEFINE Own(m) == {e} \X (1 .. m)
             Rest   == CopiesOf(q) \ Own(Len(q[e]))
  <1>1. Len(q[e]) \in Nat /\ Len(s) \in Nat
    OBVIOUS
  <1>2. \A m \in Nat : IsFiniteSet(Own(m)) /\ Cardinality(Own(m)) = m
    <2>1. TAKE m \in Nat
    <2>2. IsFiniteSet(1 .. m) /\ Cardinality(1 .. m) = m
      BY FS_Interval
    <2>3. IsFiniteSet({e}) /\ Cardinality({e}) = 1
      BY FS_Singleton
    <2>4. /\ IsFiniteSet({e} \X (1 .. m))
          /\ Cardinality({e} \X (1 .. m)) = Cardinality({e}) * Cardinality(1 .. m)
      BY <2>2, <2>3, FS_Product
    <2> QED BY <2>2, <2>3, <2>4
  <1>3. Own(Len(q[e])) \subseteq CopiesOf(q)
    BY <1>1 DEF CopiesOf
  <1>4. IsFiniteSet(Rest) /\ Cardinality(Rest) = Cardinality(CopiesOf(q)) - Len(q[e])
    <2>1. CopiesOf(q) \cap Own(Len(q[e])) = Own(Len(q[e]))
      BY <1>3
    <2>2. /\ IsFiniteSet(Rest)
          /\ Cardinality(Rest) = Cardinality(CopiesOf(q))
                                 - Cardinality(CopiesOf(q) \cap Own(Len(q[e])))
      <3> HIDE DEF Own
      <3> QED BY FS_Difference
    <2>3. Cardinality(Own(Len(q[e]))) = Len(q[e])
      <3> HIDE DEF Own
      <3> QED BY <1>1, <1>2
    <2> HIDE DEF Own, Rest
    <2> QED BY <2>1, <2>2, <2>3
  <1>5. CopiesOf(p) = Rest \cup Own(Len(s))
    <2>1. p[e] = s /\ \A d \in Endpoints : d # e => p[d] = q[d]
      OBVIOUS
    <2>2. ASSUME NEW c PROVE c \in CopiesOf(p) <=> c \in Rest \cup Own(Len(s))
      <3>1. CASE c \in Endpoints \X Nat /\ c[1] = e
        BY <3>1, <2>1, <1>1 DEF CopiesOf
      <3>2. CASE c \in Endpoints \X Nat /\ c[1] # e
        BY <3>2, <2>1, <1>1 DEF CopiesOf
      <3>3. CASE c \notin Endpoints \X Nat
        BY <3>3, <1>1 DEF CopiesOf
      <3> QED BY <3>1, <3>2, <3>3
    <2> QED BY <2>2
  <1>6. Rest \cap Own(Len(s)) = {}
    BY <1>1 DEF CopiesOf
  <1>7. Cardinality(Rest \cap Own(Len(s))) = 0
    BY <1>6, FS_EmptySet
  <1>8. /\ IsFiniteSet(CopiesOf(p))
        /\ Cardinality(CopiesOf(p)) = Cardinality(Rest) + Len(s) - 0
    <2> HIDE DEF Own, Rest
    <2>1. IsFiniteSet(Own(Len(s))) /\ Cardinality(Own(Len(s))) = Len(s)
      BY <1>1, <1>2
    <2> QED BY ZenonT(60), <1>4, <1>5, <1>7, <2>1, FS_Union
  <1>9. Cardinality(CopiesOf(q)) \in Nat /\ Cardinality(Rest) \in Nat
    BY <1>4, FS_CardinalityType
  <1> QED BY <1>1, <1>4, <1>8, <1>9

(* Every block is free or holds a copy.                                    *)
LEMMA BlockStep == Types /\ BufferInv /\ BlockInv /\ ReaderInv /\ [Next]_vars => BlockInv'
  <1> SUFFICES ASSUME Types, BufferInv, BlockInv, ReaderInv, [Next]_vars PROVE BlockInv'
    OBVIOUS
  <1>t. queue \in [Endpoints -> Seq(Messages)] /\ blocks \in Nat
    BY DEF Types
  <1>b. IsFiniteSet(Copies) /\ Cardinality(Copies) \in Nat /\ blocks + Cardinality(Copies) = NumBlocks
    BY FS_CardinalityType DEF BlockInv
  <1>q. ASSUME UNCHANGED <<queue, blocks>> PROVE BlockInv'
    BY <1>q DEF BlockInv, Copies
  <1>c. ASSUME NEW e \in Endpoints, NEW s \in Seq(Messages), queue' = [queue EXCEPT ![e] = s],
               blocks' = blocks + Len(queue[e]) - Len(s)
        PROVE  BlockInv'
    <2>1. /\ IsFiniteSet(Copies')
          /\ Cardinality(Copies') = Cardinality(Copies) + Len(s) - Len(queue[e])
      BY <1>t, <1>b, <1>c, CopiesCount DEF Copies
    <2>2. Len(s) \in Nat /\ Len(queue[e]) \in Nat
      BY <1>t
    <2> QED BY <1>t, <1>b, <1>c, <2>1, <2>2 DEF BlockInv
  <1>1. ASSUME NEW t \in Senders, SendStep(t) PROVE BlockInv'
    BY <1>1, <1>q DEF SendStep, SendGetBuf, SendTakeBuf, SendNoBuf, SendWake, SendFill, SendKick
  <1>2. ASSUME NEW t \in Senders, NEW e \in Endpoints, Unblock(t, e) \/ UnblockPost(t, e)
        PROVE  BlockInv'
    BY <1>2, <1>q DEF Unblock, UnblockPost
  <1>3. ASSUME NEW r \in Rings, Isr(r) PROVE BlockInv'
    BY <1>3, <1>q DEF Isr
  <1>4. ASSUME SwiGetBuf \/ SwiTakeBuf \/ SwiEmpty \/ SwiFault \/ SwiKick PROVE BlockInv'
    BY <1>4, <1>q DEF SwiGetBuf, SwiTakeBuf, SwiEmpty, SwiFault, SwiKick
  <1>5. CASE SwiDeliver
    <2>1. cur \in Messages /\ cur.dst \in Endpoints
      BY <1>5 DEF SwiDeliver, BufferInv, Messages
    <2>2. CASE UNCHANGED <<queue, blocks>>
      BY <2>2, <1>q
    <2>3. CASE ~ UNCHANGED <<queue, blocks>>
      <3>1. queue' = [queue EXCEPT ![cur.dst] = Append(@, cur)] /\ blocks' = blocks - 1
        BY <1>5, <2>3 DEF SwiDeliver, Copy
      <3>2. /\ Append(queue[cur.dst], cur) \in Seq(Messages)
            /\ Len(Append(queue[cur.dst], cur)) = Len(queue[cur.dst]) + 1
            /\ Len(queue[cur.dst]) \in Nat
        BY <1>t, <2>1
      <3>3. blocks' = blocks + Len(queue[cur.dst]) - Len(Append(queue[cur.dst], cur))
        BY <1>t, <3>1, <3>2
      <3> QED BY <1>c, <2>1, <3>1, <3>2, <3>3
    <2> QED BY <2>2, <2>3
  <1>6. ASSUME NEW e \in Endpoints, Create(e) PROVE BlockInv'
    <2>1. endpoint[e] = "absent" /\ queue' = [queue EXCEPT ![e] = <<>>] /\ UNCHANGED blocks
      BY <1>6 DEF Create
    <2>2. queue[e] = <<>>
      BY <2>1 DEF ReaderInv, Reader
    <2> QED BY <1>t, <1>q, <2>1, <2>2
  <1>7. ASSUME NEW e \in Endpoints, DeleteTear(e) PROVE BlockInv'
    <2>1. /\ queue' = [queue EXCEPT ![e] = <<>>] /\ blocks' = blocks + Len(queue[e])
          /\ <<>> \in Seq(Messages) /\ Len(<<>>) = 0 /\ Len(queue[e]) \in Nat
      BY <1>t, <1>7 DEF DeleteTear
    <2>2. blocks' = blocks + Len(queue[e]) - Len(<<>>)
      BY <1>t, <2>1
    <2> QED BY <1>c, <2>1, <2>2
  <1>8. ASSUME NEW e \in Endpoints, RecvGet(e) PROVE BlockInv'
    <2> DEFINE rest == Tail(queue[e])
    <2>1. queue[e] # <<>> /\ queue' = [queue EXCEPT ![e] = rest] /\ blocks' = blocks + 1
      BY <1>8 DEF RecvGet
    <2>2. rest \in Seq(Messages) /\ Len(rest) = Len(queue[e]) - 1 /\ Len(queue[e]) \in Nat
      BY <1>t, <2>1, HeadTailProperties
    <2> HIDE DEF rest
    <2>3. blocks' = blocks + Len(queue[e]) - Len(rest)
      BY <1>t, <2>1, <2>2
    <2> QED BY <1>c, <2>1, <2>2, <2>3
  <1>9. ASSUME NEW e \in Endpoints,
               DeleteSlot(e) \/ RecvCall(e) \/ RecvTimeOut(e) \/ RecvWake(e) \/ RecvUnblocked(e)
        PROVE  BlockInv'
    BY <1>9, <1>q DEF DeleteSlot, RecvCall, RecvTimeOut, RecvWake, RecvUnblocked
  <1>10. CASE HostStep
    BY <1>10, <1>q DEF HostStep, HostInterrupted, HostReceive, HostReceived, HostSent,
                       HostCollect, HostStarved, HostWake
  <1>11. ASSUME NEW m \in Messages, HostSend(m) PROVE BlockInv'
    BY <1>11, <1>q DEF HostSend
  <1>12. CASE UNCHANGED vars
    BY <1>12, <1>q
  <1> QED
    BY <1>1, <1>2, <1>3, <1>4, <1>5, <1>6, <1>7, <1>8, <1>9, <1>10, <1>11, <1>12
       DEF Next, SwiStep, RecvStep

(* Semaphore, queue and unblocking of an endpoint stay together.           *)
LEMMA ReaderStep == Types /\ BufferInv /\ ReaderInv /\ [Next]_vars => ReaderInv'
  <1> SUFFICES ASSUME Types, BufferInv, ReaderInv, [Next]_vars PROVE ReaderInv'
    OBVIOUS
  <1> USE DEF At, Goto
  <1>t. /\ queue \in [Endpoints -> Seq(Messages)] /\ sem \in [Endpoints -> Nat]
        /\ DOMAIN endpoint = Endpoints /\ DOMAIN unblocked = Endpoints /\ DOMAIN pc = Tasks
    BY DEF Types
  <1>q. ASSUME UNCHANGED <<endpoint, queue, sem, unblocked>>,
               \A e \in Endpoints : pc'[e] = pc[e],
               \A t \in Senders, e \in Endpoints : pc'[t] = e => pc[t] = e
        PROVE  ReaderInv'
    BY <1>q DEF ReaderInv, Reader
  <1>e. ASSUME NEW e \in Endpoints,
               \A d \in Endpoints : d # e =>
                  /\ endpoint'[d] = endpoint[d] /\ unblocked'[d] = unblocked[d]
                  /\ queue'[d] = queue[d] /\ sem'[d] = sem[d] /\ pc'[d] = pc[d],
               \A t \in Senders : pc'[t] = pc[t],
               Reader(e)',
               (\E t \in Senders : pc[t] = e) => endpoint'[e] = "queue" /\ unblocked'[e]
        PROVE  ReaderInv'
    <2>1. \A d \in Endpoints : Reader(d)'
      <3>1. TAKE d \in Endpoints
      <3>2. CASE d = e
        BY <3>2, <1>e
      <3>3. CASE d # e
        BY <3>3, <1>e DEF ReaderInv, Reader
      <3> QED BY <3>2, <3>3
    <2>2. ASSUME NEW t \in Senders, NEW d \in Endpoints, pc'[t] = d
          PROVE  endpoint'[d] = "queue" /\ unblocked'[d]
      BY <2>2, <1>e DEF ReaderInv
    <2> QED BY <2>1, <2>2 DEF ReaderInv
  <1>m. ASSUME NEW e \in Endpoints, NEW p, pc' = [pc EXCEPT ![e] = p]
        PROVE  /\ pc'[e] = p /\ \A t \in Senders : pc'[t] = pc[t]
               /\ \A d \in Endpoints : d # e => pc'[d] = pc[d]
    BY <1>m, <1>t, Moved, PlacesApart
  <1>1. ASSUME NEW t \in Senders, SendStep(t) PROVE ReaderInv'
    <2>1. UNCHANGED <<endpoint, queue, sem, unblocked>>
      BY <1>1 DEF SendStep, SendGetBuf, SendTakeBuf, SendNoBuf, SendWake, SendFill, SendKick
    <2>2. \E p \in Places : pc' = [pc EXCEPT ![t] = p]
      BY <1>1 DEF SendStep, SendGetBuf, SendTakeBuf, SendNoBuf, SendWake, SendFill, SendKick
    <2>3. PICK p \in Places : \A u \in Tasks : pc'[u] = IF u = t THEN p ELSE pc[u]
      BY <2>2, <1>t, Moved, PlacesApart
    <2>4. \A e \in Endpoints : pc'[e] = pc[e]
      BY <2>3, PlacesApart
    <2>5. \A u \in Senders, e \in Endpoints : pc'[u] = e => pc[u] = e
      BY <2>3, PlacesApart
    <2> QED BY <1>q, <2>1, <2>4, <2>5
  <1>2. ASSUME NEW t \in Senders, NEW e \in Endpoints, Unblock(t, e) PROVE ReaderInv'
    <2>1. /\ endpoint[e] = "queue" /\ unblocked' = [unblocked EXCEPT ![e] = TRUE]
          /\ UNCHANGED <<endpoint, queue, sem>>
      BY <1>2 DEF Unblock
    <2>2. \A u \in Tasks : pc'[u] = IF u = t THEN e ELSE pc[u]
      BY <1>2, <1>t, Moved, PlacesApart DEF Unblock
    <2>3. \A d \in Endpoints : pc'[d] = pc[d]
      BY <2>2, PlacesApart
    <2>4. unblocked'[e] /\ \A d \in Endpoints : d # e => unblocked'[d] = unblocked[d]
      BY <1>t, <2>1
    <2>5. \A d \in Endpoints : Reader(d)'
      BY <2>1, <2>3, <2>4 DEF ReaderInv, Reader
    <2>6. ASSUME NEW u \in Senders, NEW d \in Endpoints, pc'[u] = d
          PROVE  endpoint'[d] = "queue" /\ unblocked'[d]
      BY <2>6, <2>1, <2>2, <2>4, PlacesApart DEF ReaderInv
    <2> QED BY <2>5, <2>6 DEF ReaderInv
  <1>3. ASSUME NEW t \in Senders, NEW e \in Endpoints, UnblockPost(t, e) PROVE ReaderInv'
    <2>1. /\ pc[t] = e /\ sem' = [sem EXCEPT ![e] = @ + 1]
          /\ UNCHANGED <<endpoint, queue, unblocked>>
      BY <1>3 DEF UnblockPost
    <2>2. \A u \in Tasks : pc'[u] = IF u = t THEN "idle" ELSE pc[u]
      BY <1>3, <1>t, Moved, PlacesApart DEF UnblockPost
    <2>3. \A d \in Endpoints : pc'[d] = pc[d]
      BY <2>2, PlacesApart
    <2>4. unblocked[e] /\ \A d \in Endpoints : d # e => sem'[d] = sem[d]
      BY <1>t, <2>1 DEF ReaderInv
    <2>5. \A d \in Endpoints : Reader(d)'
      BY <2>1, <2>3, <2>4 DEF ReaderInv, Reader
    <2>6. \A u \in Senders, d \in Endpoints : pc'[u] = d => pc[u] = d
      BY <2>2, PlacesApart
    <2> QED BY <2>1, <2>5, <2>6 DEF ReaderInv
  <1>4. ASSUME \/ \E r \in Rings : Isr(r)
               \/ SwiGetBuf \/ SwiTakeBuf \/ SwiEmpty \/ SwiFault \/ SwiKick
               \/ HostStep \/ \E m \in Messages : HostSend(m)
               \/ UNCHANGED vars
        PROVE  ReaderInv'
    <2>1. UNCHANGED <<endpoint, queue, sem, unblocked, pc>>
      BY <1>4 DEF Isr, SwiGetBuf, SwiTakeBuf, SwiEmpty, SwiFault, SwiKick, HostStep,
                  HostInterrupted, HostReceive, HostReceived, HostSent, HostCollect,
                  HostStarved, HostWake, HostSend
    <2> QED BY <1>q, <2>1
  <1>5. CASE SwiDeliver
    <2>1. PICK e \in Endpoints : e = cur.dst
      BY <1>5 DEF SwiDeliver, BufferInv, Messages
    <2>2. UNCHANGED <<endpoint, unblocked, pc>>
      BY <1>5 DEF SwiDeliver
    <2>3. CASE UNCHANGED <<queue, sem>>
      BY <2>2, <2>3, <1>q
    <2>4. CASE ~ UNCHANGED <<queue, sem>>
      <3>1. /\ queue' = [queue EXCEPT ![e] = Append(@, cur)] /\ sem' = [sem EXCEPT ![e] = @ + 1]
            /\ endpoint[e] = "queue"
        BY <1>5, <2>1, <2>4 DEF SwiDeliver, Copy
      <3>2. Reader(e) /\ \A t \in Senders : pc[t] = e => unblocked[e]
        BY DEF ReaderInv
      <3>3. /\ \A d \in Endpoints : d # e => queue'[d] = queue[d] /\ sem'[d] = sem[d]
            /\ Len(queue'[e]) = Len(queue[e]) + 1 /\ sem'[e] = sem[e] + 1
            /\ Len(queue[e]) \in Nat /\ sem[e] \in Nat
        BY <1>t, <3>1
      <3>4. UNCHANGED <<pc[e], endpoint[e], unblocked[e]>>
        BY <2>2
      <3>5. Reader(e)'
        BY <3>1, <3>2, <3>3, <3>4 DEF Reader
      <3> QED BY <1>e, <2>2, <3>1, <3>2, <3>3, <3>5
    <2> QED BY <2>3, <2>4
  <1>6. ASSUME NEW e \in Endpoints, Create(e) PROVE ReaderInv'
    <2>1. /\ pc[e] = "idle" /\ endpoint[e] = "absent" /\ UNCHANGED pc
          /\ \E kind \in {"queue", "callback"} : endpoint' = [endpoint EXCEPT ![e] = kind]
          /\ queue' = [queue EXCEPT ![e] = <<>>] /\ sem' = [sem EXCEPT ![e] = 0]
          /\ unblocked' = [unblocked EXCEPT ![e] = FALSE]
      BY <1>6 DEF Create
    <2>2. /\ \A d \in Endpoints : d # e =>
                /\ endpoint'[d] = endpoint[d] /\ unblocked'[d] = unblocked[d]
                /\ queue'[d] = queue[d] /\ sem'[d] = sem[d]
          /\ queue'[e] = <<>> /\ sem'[e] = 0 /\ endpoint'[e] \in {"queue", "callback"}
      BY <1>t, <2>1
    <2>3. Reader(e)'
      BY <2>1, <2>2 DEF Reader
    <2>4. ~ \E t \in Senders : pc[t] = e
      BY <2>1 DEF ReaderInv
    <2> QED BY <1>e, <2>1, <2>2, <2>3, <2>4
  <1>7. ASSUME NEW e \in Endpoints, DeleteTear(e) PROVE ReaderInv'
    <2>1. /\ ~ \E t \in Senders : pc[t] = e
          /\ endpoint' = [endpoint EXCEPT ![e] = "torn"] /\ UNCHANGED unblocked
          /\ queue' = [queue EXCEPT ![e] = <<>>] /\ sem' = [sem EXCEPT ![e] = 0]
          /\ pc' = [pc EXCEPT ![e] = "delete"]
      BY <1>7 DEF DeleteTear, Unblocking
    <2>2. /\ \A d \in Endpoints : d # e =>
                endpoint'[d] = endpoint[d] /\ queue'[d] = queue[d] /\ sem'[d] = sem[d]
          /\ queue'[e] = <<>> /\ endpoint'[e] = "torn"
      BY <1>t, <2>1
    <2>3. Reader(e)'
      BY ZenonT(60), <1>m, <2>1, <2>2 DEF Reader
    <2> QED BY <1>e, <1>m, <2>1, <2>2, <2>3
  <1>8. ASSUME NEW e \in Endpoints, DeleteSlot(e) PROVE ReaderInv'
    <2>1. /\ pc[e] = "delete" /\ endpoint' = [endpoint EXCEPT ![e] = "absent"]
          /\ UNCHANGED <<queue, sem, unblocked>> /\ pc' = [pc EXCEPT ![e] = "idle"]
      BY <1>8 DEF DeleteSlot
    <2>2. /\ \A d \in Endpoints : d # e => endpoint'[d] = endpoint[d]
          /\ endpoint'[e] = "absent" /\ endpoint[e] = "torn" /\ queue[e] = <<>>
      BY <1>t, <2>1 DEF ReaderInv, Reader
    <2>3. pc'[e] = "idle"
      BY <1>m, <2>1
    <2>4. Reader(e)'
      BY <2>1, <2>2, <2>3 DEF Reader
    <2>5. ~ \E t \in Senders : pc[t] = e
      BY <2>2 DEF ReaderInv
    <2> QED BY <1>e, <1>m, <2>1, <2>2, <2>4, <2>5
  <1>9. ASSUME NEW e \in Endpoints, RecvCall(e) \/ RecvTimeOut(e) \/ RecvUnblocked(e)
        PROVE  ReaderInv'
    <2>1. /\ UNCHANGED <<endpoint, queue, sem, unblocked>>
          /\ pc[e] = "woken" => unblocked[e]
          /\ pc[e] # "delete"
          /\ \E p \in {"idle", "pend"} : pc' = [pc EXCEPT ![e] = p] /\ (p = "pend" => endpoint[e] = "queue")
      BY <1>9 DEF RecvCall, RecvTimeOut, RecvUnblocked
    <2>2. Reader(e) /\ \A t \in Senders : pc[t] = e => endpoint[e] = "queue" /\ unblocked[e]
      BY DEF ReaderInv
    <2>3. Reader(e)'
      BY <1>m, <2>1, <2>2 DEF Reader
    <2> QED BY <1>e, <1>m, <2>1, <2>2, <2>3
  <1>10. ASSUME NEW e \in Endpoints, RecvWake(e) PROVE ReaderInv'
    <2>1. /\ pc[e] = "pend" /\ sem[e] > 0 /\ sem' = [sem EXCEPT ![e] = @ - 1]
          /\ UNCHANGED <<endpoint, queue, unblocked>> /\ pc' = [pc EXCEPT ![e] = "woken"]
      BY <1>10 DEF RecvWake
    <2>2. Reader(e) /\ \A t \in Senders : pc[t] = e => endpoint[e] = "queue" /\ unblocked[e]
      BY DEF ReaderInv
    <2>3. /\ \A d \in Endpoints : d # e => sem'[d] = sem[d]
          /\ sem'[e] = sem[e] - 1 /\ sem[e] \in Nat /\ Len(queue[e]) \in Nat
      BY <1>t, <2>1
    <2>4. pc'[e] = "woken"
      BY <1>m, <2>1
    <2>5. Reader(e)'
      BY <2>1, <2>2, <2>3, <2>4 DEF Reader
    <2> QED BY <1>e, <1>m, <2>1, <2>2, <2>3, <2>5
  <1>11. ASSUME NEW e \in Endpoints, RecvGet(e) PROVE ReaderInv'
    <2>1. /\ pc[e] = "woken" /\ queue[e] # <<>> /\ queue' = [queue EXCEPT ![e] = Tail(queue[e])]
          /\ UNCHANGED <<endpoint, sem, unblocked>> /\ pc' = [pc EXCEPT ![e] = "idle"]
      BY <1>11 DEF RecvGet
    <2>2. Reader(e) /\ \A t \in Senders : pc[t] = e => endpoint[e] = "queue" /\ unblocked[e]
      BY DEF ReaderInv
    <2>3. Len(Tail(queue[e])) = Len(queue[e]) - 1 /\ Len(queue[e]) \in Nat
      BY <1>t, <2>1, HeadTailProperties
    <2>4. \A d \in Endpoints : d # e => queue'[d] = queue[d]
      BY <1>t, <2>1
    <2>5. queue'[e] = Tail(queue[e]) /\ sem[e] \in Nat /\ endpoint[e] = "queue"
      BY <1>t, <2>1, <2>2 DEF Reader
    <2>6. Len(queue'[e]) = Len(queue[e]) - 1
      BY <2>3, <2>5
    <2>7. pc'[e] = "idle" /\ UNCHANGED <<endpoint[e], sem[e], unblocked[e]>>
      BY <1>m, <2>1
    <2>8. Reader(e)'
      BY <2>1, <2>2, <2>3, <2>5, <2>6, <2>7 DEF Reader
    <2> QED BY <1>e, <1>m, <2>1, <2>2, <2>4, <2>8
  <1> QED
    BY <1>1, <1>2, <1>3, <1>4, <1>5, <1>6, <1>7, <1>8, <1>9, <1>10, <1>11
       DEF Next, SwiStep, RecvStep

-----------------------------------------------------------------------------
(***************************************************************************)
(* The suppression flags.  This side asks not to be kicked only while the  *)
(* swi is sure to look at the ring again, and the host asks to be          *)
(* interrupted before it looks a last time.                                *)
(***************************************************************************)
KickedWhenIdle   == noNotify["fromHost"] => swi \in {"deliver", "next", "fault"}
InboxLookedAt    == swi \in {"idle", "kick"} /\ inbox # <<>> =>
                        posted \/ kick["fromHost"] > 0 \/ host["fromHost"] = "kick"
AskedWhenStarved == host["fromHost"] \in {"recheck", "asleep"} => ~noInterrupt
ToHostTaken      == used["toHost"] > 0 => \/ hostInt["toHost"] \/ host["toHost"] = "receive"
                                          \/ \E t \in Senders : pc[t] = "kick"
HostWoken        == host["fromHost"] = "asleep" /\ used["fromHost"] > 0 =>
                        hostInt["fromHost"] \/ usedBufAdded

ServedInv == KickedWhenIdle /\ InboxLookedAt /\ AskedWhenStarved /\ ToHostTaken /\ HostWoken

(* The flags and the rings agree: that is enough for the property.         *)
LEMMA ServedGivesNoneStranded == ServedInv => NoneStranded
  BY DEF ServedInv, InboxLookedAt, ToHostTaken, HostWoken, NoneStranded, SwiComing

(* The flags, the kicks and the interrupts keep both sides served.         *)
LEMMA ServedStep == Types /\ ServedInv /\ [Next]_vars => ServedInv'
  <1> SUFFICES ASSUME Types, ServedInv, [Next]_vars PROVE ServedInv'
    OBVIOUS
  <1> USE DEF At, Goto, ServedInv, KickedWhenIdle, InboxLookedAt, AskedWhenStarved, ToHostTaken,
              HostWoken
  <1>t. /\ noNotify \in [Rings -> BOOLEAN] /\ used \in [Rings -> Nat]
        /\ kick \in [Rings -> 0 .. MailboxDepth] /\ hostInt \in [Rings -> BOOLEAN]
        /\ DOMAIN host = Rings /\ DOMAIN pc = Tasks
        /\ inbox \in Seq(Messages) /\ Len(inbox) = avail["fromHost"]
    BY DEF Types
  <1>q. ASSUME UNCHANGED <<noNotify, noInterrupt, used, inbox, kick, hostInt, host, swi,
                           usedBufAdded>>,
               posted => posted',
               \A t \in Senders : pc[t] = "kick" => pc'[t] = "kick"
        PROVE  ServedInv'
    BY <1>q
  <1>1. ASSUME NEW t \in Senders, SendGetBuf(t) \/ SendTakeBuf(t) PROVE ServedInv'
    <2>1. /\ UNCHANGED <<noInterrupt, used, inbox, kick, hostInt, host, posted, swi, usedBufAdded>>
          /\ \E b \in BOOLEAN : noNotify' = [noNotify EXCEPT !["toHost"] = b]
          /\ pc[t] # "kick" /\ \E p \in {"test", "fill"} : pc' = [pc EXCEPT ![t] = p]
      BY <1>1 DEF SendGetBuf, SendTakeBuf, AskForKick, TakeAvail
    <2>2. noNotify'["fromHost"] = noNotify["fromHost"]
      BY <1>t, <2>1
    <2>3. \A u \in Senders : pc[u] = "kick" => pc'[u] = "kick"
      BY <1>t, <2>1, Moved, PlacesApart
    <2> QED BY <2>1, <2>2, <2>3
  <1>2. ASSUME NEW t \in Senders, SendNoBuf(t) \/ SendWake(t) PROVE ServedInv'
    <2>1. /\ UNCHANGED <<noNotify, noInterrupt, used, inbox, kick, hostInt, host, posted, swi,
                         usedBufAdded>>
          /\ pc[t] # "kick" /\ \E p \in {"starved", "retry"} : pc' = [pc EXCEPT ![t] = p]
      BY <1>2 DEF SendNoBuf, SendWake
    <2>2. \A u \in Senders : pc[u] = "kick" => pc'[u] = "kick"
      BY <1>t, <2>1, Moved, PlacesApart
    <2> QED BY <1>q, <2>1, <2>2
  <1>3. ASSUME NEW t \in Senders, SendFill(t) PROVE ServedInv'
    <2>1. /\ UNCHANGED <<noNotify, noInterrupt, inbox, kick, hostInt, host, posted, swi,
                         usedBufAdded>>
          /\ used' = [used EXCEPT !["toHost"] = @ + 1]
          /\ pc' = [pc EXCEPT ![t] = "kick"]
      BY <1>3 DEF SendFill, AddUsed
    <2>2. pc'[t] = "kick" /\ used'["fromHost"] = used["fromHost"]
      BY <1>t, <2>1, Moved, PlacesApart
    <2> QED BY <2>1, <2>2
  <1>4. ASSUME NEW t \in Senders, SendKick(t) PROVE ServedInv'
    <2>1. /\ UNCHANGED <<noNotify, noInterrupt, used, inbox, kick, host, posted, swi, usedBufAdded>>
          /\ hostInt' = [hostInt EXCEPT !["toHost"] = TRUE]
      BY <1>4 DEF SendKick, Kick, Suppressed
    <2>2. hostInt'["toHost"] /\ hostInt'["fromHost"] = hostInt["fromHost"]
      BY <1>t, <2>1
    <2> QED BY <2>1, <2>2
  <1>5. ASSUME NEW t \in Senders, NEW e \in Endpoints, Unblock(t, e) \/ UnblockPost(t, e)
        PROVE  ServedInv'
    <2>1. e # "kick" /\ t \in Tasks
      BY PlacesApart
    <2>2. /\ UNCHANGED <<noNotify, noInterrupt, used, inbox, kick, hostInt, host, posted, swi,
                         usedBufAdded>>
          /\ pc[t] # "kick" /\ \E p \in {"idle", e} : pc' = [pc EXCEPT ![t] = p]
      BY <1>5, <2>1 DEF Unblock, UnblockPost
    <2>3. \A u \in Senders : pc[u] = "kick" => pc'[u] = "kick"
      BY <1>t, <2>2, Moved, PlacesApart
    <2> QED BY <1>q, <2>2, <2>3
  <1>6. ASSUME NEW r \in Rings, Isr(r) PROVE ServedInv'
    <2>1. /\ UNCHANGED <<noNotify, noInterrupt, used, inbox, hostInt, host, swi, usedBufAdded, pc>>
          /\ kick' = [kick EXCEPT ![r] = @ - 1] /\ posted' = (posted \/ r = "fromHost")
      BY <1>6 DEF Isr
    <2>2. r # "fromHost" => kick'["fromHost"] = kick["fromHost"]
      BY <1>t, <2>1
    <2> QED BY <2>1, <2>2
  <1>7. CASE SwiGetBuf
    <2>1. /\ UNCHANGED <<noInterrupt, used, inbox, kick, hostInt, host, usedBufAdded, pc>>
          /\ noNotify' = [noNotify EXCEPT !["fromHost"] = FALSE] /\ swi' = "test"
      BY <1>7 DEF SwiGetBuf, AskForKick
    <2>2. ~ noNotify'["fromHost"]
      BY <1>t, <2>1
    <2> QED BY <2>1, <2>2
  <1>8. CASE SwiTakeBuf
    <2>1. /\ UNCHANGED <<noInterrupt, used, kick, hostInt, host, posted, usedBufAdded, pc>>
          /\ swi' = "deliver"
      BY <1>8 DEF SwiTakeBuf
    <2> QED BY <2>1
  <1>9. CASE SwiEmpty
    <2>1. /\ UNCHANGED <<noNotify, noInterrupt, used, inbox, kick, hostInt, host, posted,
                         usedBufAdded, pc>>
          /\ swi = "test" /\ avail["fromHost"] = 0
      BY <1>9 DEF SwiEmpty
    <2>2. inbox = <<>>
      BY <1>t, <2>1
    <2> QED BY <2>1, <2>2
  <1>10. CASE SwiDeliver
    <2>1. /\ UNCHANGED <<noNotify, noInterrupt, inbox, kick, hostInt, host, posted, pc>>
          /\ swi' = "next" /\ used' = [used EXCEPT !["fromHost"] = @ + 1] /\ usedBufAdded'
      BY <1>10 DEF SwiDeliver, AddUsed
    <2>2. used'["toHost"] = used["toHost"]
      BY <1>t, <2>1
    <2> QED BY <2>1, <2>2
  <1>11. CASE SwiFault
    <2>1. /\ UNCHANGED <<noNotify, noInterrupt, used, inbox, kick, hostInt, host, posted,
                         usedBufAdded, pc>>
          /\ swi = "deliver" /\ swi' = "fault"
      BY <1>11 DEF SwiFault
    <2> QED BY <2>1
  <1>12. CASE SwiKick
    <2>1. /\ UNCHANGED <<noNotify, noInterrupt, used, inbox, kick, host, posted, pc>>
          /\ swi = "kick" /\ swi' = "idle"
          /\ hostInt' = IF noInterrupt THEN hostInt ELSE [hostInt EXCEPT !["fromHost"] = TRUE]
      BY <1>12 DEF SwiKick, Kick, Suppressed
    <2>2. /\ hostInt'["toHost"] = hostInt["toHost"]
          /\ ~noInterrupt => hostInt'["fromHost"]
      BY <1>t, <2>1
    <2> QED BY <2>1, <2>2
  <1>13. ASSUME NEW e \in Endpoints,
                \/ Create(e) \/ DeleteTear(e) \/ DeleteSlot(e) \/ RecvCall(e) \/ RecvTimeOut(e)
                \/ RecvWake(e) \/ RecvUnblocked(e) \/ RecvGet(e)
         PROVE  ServedInv'
    <2>1. /\ UNCHANGED <<noNotify, noInterrupt, used, inbox, kick, hostInt, host, swi,
                         usedBufAdded>>
          /\ posted => posted'
          /\ pc' = pc \/ \E p \in Places : pc' = [pc EXCEPT ![e] = p]
      BY <1>13 DEF Create, DeleteTear, DeleteSlot, RecvCall, RecvTimeOut, RecvWake,
                   RecvUnblocked, RecvGet
    <2>2. \A u \in Senders : pc'[u] = pc[u]
      BY <1>t, <2>1, Moved, PlacesApart
    <2> QED BY <1>q, <2>1, <2>2
  <1>14. CASE HostInterrupted
    <2>1. /\ UNCHANGED <<noNotify, noInterrupt, used, inbox, kick, posted, swi, usedBufAdded, pc>>
          /\ hostInt' = [hostInt EXCEPT !["toHost"] = FALSE]
          /\ host' = [host EXCEPT !["toHost"] = "receive"]
      BY <1>14 DEF HostInterrupted, HostAt
    <2>2. /\ hostInt'["fromHost"] = hostInt["fromHost"] /\ host'["fromHost"] = host["fromHost"]
          /\ host'["toHost"] = "receive"
      BY <1>t, <2>1
    <2> QED BY <2>1, <2>2
  <1>15. CASE HostReceive
    <2>1. /\ UNCHANGED <<noNotify, noInterrupt, inbox, kick, hostInt, posted, swi, usedBufAdded, pc>>
          /\ host["toHost"] = "receive" /\ host' = [host EXCEPT !["toHost"] = "receive"]
          /\ used' = [used EXCEPT !["toHost"] = @ - 1]
      BY <1>15 DEF HostReceive, HostAt
    <2>2. /\ used'["fromHost"] = used["fromHost"] /\ host'["fromHost"] = host["fromHost"]
          /\ host'["toHost"] = "receive"
      BY <1>t, <2>1
    <2> QED BY <2>1, <2>2
  <1>16. CASE HostReceived
    <2>1. /\ UNCHANGED <<noNotify, noInterrupt, used, inbox, hostInt, posted, swi, usedBufAdded, pc>>
          /\ used["toHost"] = 0 /\ host' = [host EXCEPT !["toHost"] = "idle"]
          /\ kick' = kick \/ kick' = [kick EXCEPT !["toHost"] = @ + 1]
      BY <1>16 DEF HostReceived, HostAt, HostKick
    <2>2. host'["fromHost"] = host["fromHost"] /\ kick'["fromHost"] = kick["fromHost"]
      BY <1>t, <2>1
    <2> QED BY <2>1, <2>2
  <1>17. ASSUME NEW m \in Messages, HostSend(m) PROVE ServedInv'
    <2>1. /\ UNCHANGED <<noNotify, noInterrupt, used, kick, hostInt, posted, swi, usedBufAdded, pc>>
          /\ host' = [host EXCEPT !["fromHost"] = "kick"]
      BY <1>17 DEF HostSend, HostAt
    <2>2. host'["toHost"] = host["toHost"] /\ host'["fromHost"] = "kick"
      BY <1>t, <2>1
    <2> QED BY <2>1, <2>2
  <1>18. CASE HostSent
    <2>1. /\ UNCHANGED <<noNotify, noInterrupt, used, inbox, hostInt, posted, swi, usedBufAdded, pc>>
          /\ host' = [host EXCEPT !["fromHost"] = "idle"]
          /\ \/ noNotify["fromHost"]
             \/ kick' = [kick EXCEPT !["fromHost"] = @ + 1]
      BY <1>18 DEF HostSent, HostAt, HostKick
    <2>2. host'["toHost"] = host["toHost"] /\ host'["fromHost"] = "idle"
      BY <1>t, <2>1
    <2>3. ~noNotify["fromHost"] => kick'["fromHost"] > 0
      BY <1>t, <2>1
    <2> QED BY <2>1, <2>2, <2>3
  <1>19. CASE HostCollect
    <2>1. /\ UNCHANGED <<noNotify, inbox, kick, hostInt, posted, swi, usedBufAdded, pc>>
          /\ host' = [host EXCEPT !["fromHost"] = "idle"] /\ host["fromHost"] # "kick"
          /\ used' = [used EXCEPT !["fromHost"] = 0]
      BY <1>19 DEF HostCollect, HostAt
    <2>2. /\ host'["toHost"] = host["toHost"] /\ host'["fromHost"] = "idle"
          /\ used'["toHost"] = used["toHost"]
      BY <1>t, <2>1
    <2> QED BY <2>1, <2>2
  <1>20. CASE HostStarved
    <2>1. /\ UNCHANGED <<noNotify, used, inbox, kick, hostInt, posted, swi, usedBufAdded, pc>>
          /\ used["fromHost"] = 0 /\ host["fromHost"] # "kick"
          /\ \/ host' = [host EXCEPT !["fromHost"] = "recheck"] /\ noInterrupt' = FALSE
             \/ /\ host["fromHost"] = "recheck" /\ UNCHANGED noInterrupt
                /\ host' = [host EXCEPT !["fromHost"] = "asleep"]
      BY <1>20 DEF HostStarved, HostAt
    <2>2. host'["toHost"] = host["toHost"] /\ host'["fromHost"] # "kick" /\ ~noInterrupt'
      BY <1>t, <2>1
    <2> QED BY <2>1, <2>2
  <1>21. CASE HostWake
    <2>1. /\ UNCHANGED <<noNotify, noInterrupt, used, inbox, kick, posted, swi, usedBufAdded, pc>>
          /\ host["fromHost"] = "asleep" /\ host' = [host EXCEPT !["fromHost"] = "recheck"]
          /\ hostInt' = [hostInt EXCEPT !["fromHost"] = FALSE]
      BY <1>21 DEF HostWake, HostAt
    <2>2. /\ host'["toHost"] = host["toHost"] /\ host'["fromHost"] = "recheck"
          /\ hostInt'["toHost"] = hostInt["toHost"]
      BY <1>t, <2>1
    <2> QED BY <2>1, <2>2
  <1>22. CASE UNCHANGED vars
    BY <1>22, <1>q
  <1> QED
    BY <1>1, <1>2, <1>3, <1>4, <1>5, <1>6, <1>7, <1>8, <1>9, <1>10, <1>11, <1>12, <1>13,
       <1>14, <1>15, <1>16, <1>17, <1>18, <1>19, <1>20, <1>21, <1>22
       DEF Next, SendStep, SwiStep, RecvStep, HostStep

-----------------------------------------------------------------------------
(***************************************************************************)
(* One sender: nobody else sets the flag of toHost between its look at the *)
(* ring and its sleep.                                                     *)
(***************************************************************************)
OneSender == \A s, t \in Senders : s = t

ToHostAsked == \A t \in Senders : pc[t] \in {"test", "starved"} => ~noNotify["toHost"]

LoneInv == ToHostAsked /\ StarvedIsWoken

(* A lone sender that sleeps has asked to be kicked, and is.               *)
LEMMA LoneStep == OneSender /\ Types /\ LoneInv /\ [Next]_vars => LoneInv'
  <1> SUFFICES ASSUME OneSender, Types, LoneInv, [Next]_vars PROVE LoneInv'
    OBVIOUS
  <1> USE DEF At, Goto
  <1>t. /\ noNotify \in [Rings -> BOOLEAN] /\ avail \in [Rings -> Nat]
        /\ kick \in [Rings -> 0 .. MailboxDepth]
        /\ DOMAIN host = Rings /\ DOMAIN pc = Tasks
    BY DEF Types
  <1>q. ASSUME \A t \in Senders : pc'[t] \in {"test", "starved"} => pc'[t] = pc[t],
               \A t \in Senders : pc[t] \in {"retry", "test"} => pc'[t] = pc[t],
               UNCHANGED <<noNotify["toHost"], avail["toHost"], semToHost, kick["toHost"],
                           host["toHost"]>>
        PROVE  LoneInv'
    BY <1>q DEF LoneInv, ToHostAsked, StarvedIsWoken
  <1>a. ASSUME NEW t \in Senders, pc'[t] \notin {"test", "starved"} PROVE LoneInv'
    <2>1. \A u \in Senders : u = t
      BY DEF OneSender
    <2> QED BY <1>a, <2>1 DEF LoneInv, ToHostAsked, StarvedIsWoken
  <1>m. ASSUME NEW t \in Senders, NEW p, pc' = [pc EXCEPT ![t] = p] PROVE pc'[t] = p
    BY <1>m, <1>t, PlacesApart
  <1>1. ASSUME NEW t \in Senders, SendTakeBuf(t) \/ SendWake(t) \/ SendFill(t) \/ SendKick(t)
        PROVE  LoneInv'
    <2>1. \E p \in {"fill", "retry", "kick", "idle"} : pc' = [pc EXCEPT ![t] = p]
      BY <1>1 DEF SendTakeBuf, SendWake, SendFill, SendKick
    <2>2. pc'[t] \notin {"test", "starved"}
      BY <1>m, <2>1
    <2> QED BY <1>a, <2>2
  <1>2. ASSUME NEW t \in Senders, SendGetBuf(t) PROVE LoneInv'
    <2>1. pc'[t] = "test" /\ ~noNotify'["toHost"]
      BY <1>2, <1>m, <1>t DEF SendGetBuf, AskForKick
    <2>2. \A u \in Senders : u = t
      BY DEF OneSender
    <2> QED BY <2>1, <2>2 DEF LoneInv, ToHostAsked, StarvedIsWoken
  <1>3. ASSUME NEW t \in Senders, SendNoBuf(t) PROVE LoneInv'
    <2>1. pc[t] = "test" /\ UNCHANGED <<noNotify, avail>> /\ avail["toHost"] = 0
      BY <1>3 DEF SendNoBuf
    <2>2. \A u \in Senders : u = t
      BY DEF OneSender
    <2> QED BY <2>1, <2>2 DEF LoneInv, ToHostAsked, StarvedIsWoken
  <1>4. ASSUME NEW t \in Senders, NEW e \in Endpoints, Unblock(t, e) \/ UnblockPost(t, e)
        PROVE  LoneInv'
    <2>1. e \notin {"test", "starved"}
      BY PlacesApart
    <2>2. \E p \in {"idle", e} : pc' = [pc EXCEPT ![t] = p]
      BY <1>4 DEF Unblock, UnblockPost
    <2>3. pc'[t] \notin {"test", "starved"}
      BY <1>m, <2>1, <2>2
    <2> QED BY <1>a, <2>3
  <1>5. ASSUME NEW r \in Rings, Isr(r) PROVE LoneInv'
    <2>1. /\ UNCHANGED <<noNotify, avail, host, pc>> /\ kick' = [kick EXCEPT ![r] = @ - 1]
          /\ semToHost' = (semToHost \/ r = "toHost")
      BY <1>5 DEF Isr
    <2>2. r # "toHost" => kick'["toHost"] = kick["toHost"]
      BY <1>t, <2>1
    <2> QED BY <2>1, <2>2 DEF LoneInv, ToHostAsked, StarvedIsWoken
  <1>6. CASE SwiStep
    <2>1. /\ UNCHANGED <<semToHost, kick, host, pc>>
          /\ noNotify' = noNotify \/ \E b \in BOOLEAN : noNotify' = [noNotify EXCEPT !["fromHost"] = b]
          /\ avail' = avail \/ avail' = [avail EXCEPT !["fromHost"] = @ - 1]
      BY <1>6 DEF SwiStep, SwiGetBuf, SwiTakeBuf, SwiEmpty, SwiDeliver, SwiFault, SwiKick,
                  AskForKick, TakeAvail
    <2>2. UNCHANGED <<noNotify["toHost"], avail["toHost"]>>
      BY <1>t, <2>1
    <2> QED BY <1>q, <2>1, <2>2
  <1>7. ASSUME NEW e \in Endpoints,
               \/ Create(e) \/ DeleteTear(e) \/ RecvCall(e) \/ RecvTimeOut(e) \/ RecvStep(e)
        PROVE  LoneInv'
    <2>1. /\ UNCHANGED <<noNotify, avail, semToHost, kick, host>>
          /\ pc' = pc \/ \E p \in Places : pc' = [pc EXCEPT ![e] = p]
      BY <1>7 DEF Create, DeleteTear, DeleteSlot, RecvCall, RecvTimeOut, RecvStep, RecvWake,
                  RecvUnblocked, RecvGet
    <2>2. \A u \in Senders : pc'[u] = pc[u]
      BY <1>t, <2>1, Moved, PlacesApart
    <2> QED BY <1>q, <2>1, <2>2
  <1>8. ASSUME HostInterrupted \/ HostReceive PROVE LoneInv'
    <2>1. UNCHANGED <<noNotify, pc>> /\ host' = [host EXCEPT !["toHost"] = "receive"]
      BY <1>8 DEF HostInterrupted, HostReceive, HostAt
    <2>2. host'["toHost"] = "receive"
      BY <1>t, <2>1
    <2> QED BY <2>1, <2>2 DEF LoneInv, ToHostAsked, StarvedIsWoken
  <1>9. CASE HostReceived
    <2>1. /\ UNCHANGED <<noNotify, pc, avail, semToHost>>
          /\ noNotify["toHost"] \/ kick' = [kick EXCEPT !["toHost"] = @ + 1]
      BY <1>9 DEF HostReceived, HostKick
    <2>2. noNotify["toHost"] \/ kick'["toHost"] > 0
      BY <1>t, <2>1
    <2> QED BY <2>1, <2>2 DEF LoneInv, ToHostAsked, StarvedIsWoken
  <1>10. ASSUME \/ \E m \in Messages : HostSend(m)
                \/ HostSent \/ HostCollect \/ HostStarved \/ HostWake
         PROVE  LoneInv'
    <2>1. /\ UNCHANGED <<noNotify, pc, semToHost>>
          /\ avail' = avail \/ avail' = [avail EXCEPT !["fromHost"] = @ + 1]
          /\ kick' = kick \/ kick' = [kick EXCEPT !["fromHost"] = @ + 1]
          /\ \E h \in {"kick", "idle", "recheck", "asleep"} : host' = [host EXCEPT !["fromHost"] = h]
      BY <1>10 DEF HostSend, HostSent, HostCollect, HostStarved, HostWake, HostAt, HostKick
    <2>2. UNCHANGED <<avail["toHost"], kick["toHost"], host["toHost"]>>
      BY <1>t, <2>1
    <2> QED BY <1>q, <2>1, <2>2
  <1>11. CASE UNCHANGED vars
    BY <1>11, <1>q
  <1> QED
    BY <1>1, <1>2, <1>3, <1>4, <1>5, <1>6, <1>7, <1>8, <1>9, <1>10, <1>11
       DEF Next, SendStep, HostStep

-----------------------------------------------------------------------------
(* What holds at first.                                                    *)
LEMMA InitInv == Init => StateInv /\ ServedInv /\ LoneInv
  <1> SUFFICES ASSUME Init PROVE StateInv /\ ServedInv /\ LoneInv
    OBVIOUS
  <1>1. /\ \A t \in Tasks : pc[t] = "idle"
        /\ \A e \in Endpoints : endpoint[e] = "absent" /\ queue[e] = <<>>
        /\ used["toHost"] = 0 /\ used["fromHost"] = 0 /\ inbox = <<>>
        /\ avail["toHost"] = NumBufs /\ avail["fromHost"] = 0 /\ hostFree = NumBufs
        /\ host["fromHost"] = "idle" /\ noNotify["fromHost"] = FALSE /\ swi = "idle"
        /\ blocks = NumBlocks
    BY DEF Init
  <1>2. Filling = {} /\ Copies = {}
    BY <1>1, PlacesApart DEF Filling, Copies, CopiesOf
  <1>3. Types
    <2>1. /\ avail \in [Rings -> Nat] /\ used \in [Rings -> Nat] /\ hostFree \in Nat
          /\ inbox \in Seq(Messages) /\ Len(inbox) = avail["fromHost"] /\ blocks \in Nat
      BY DEF Init
    <2>2. /\ noNotify \in [Rings -> BOOLEAN] /\ hostInt \in [Rings -> BOOLEAN]
          /\ kick \in [Rings -> 0 .. MailboxDepth]
          /\ host \in [Rings -> {"idle", "receive", "kick", "recheck", "asleep"}]
          /\ host["toHost"] \in {"idle", "receive"} /\ host["fromHost"] # "receive"
      BY DEF Init
    <2>3. /\ pc \in [Tasks -> Places \cup Endpoints]
          /\ endpoint \in [Endpoints -> {"absent", "queue", "callback", "torn"}]
          /\ queue \in [Endpoints -> Seq(Messages)] /\ sem \in [Endpoints -> Nat]
          /\ unblocked \in [Endpoints -> BOOLEAN]
      BY DEF Init
    <2>4. /\ noInterrupt \in BOOLEAN /\ gate \in Tasks \cup {NoOne, TheSwi}
          /\ posted \in BOOLEAN /\ usedBufAdded \in BOOLEAN /\ semToHost \in BOOLEAN
          /\ swi = "idle" /\ cur = NoMsg
      BY DEF Init
    <2>5. /\ \A t \in Senders : pc[t] \notin {"delete", "pend", "woken"}
          /\ \A e \in Endpoints : pc[e] \in {"idle", "delete", "pend", "woken"}
      BY <1>1, PlacesApart
    <2> QED BY <2>1, <2>2, <2>3, <2>4, <2>5 DEF Types
  <1>4. BufferInv
    BY <1>1, <1>2, FS_EmptySet DEF BufferInv, InSwi
  <1>5. BlockInv
    BY <1>1, <1>2, FS_EmptySet DEF BlockInv
  <1>6. ReaderInv
    BY <1>1, PlacesApart DEF ReaderInv, Reader
  <1>7. ServedInv
    BY <1>1 DEF ServedInv, KickedWhenIdle, InboxLookedAt, AskedWhenStarved, ToHostTaken, HostWoken
  <1>8. LoneInv
    BY <1>1, PlacesApart DEF LoneInv, ToHostAsked, StarvedIsWoken
  <1> QED BY <1>3, <1>4, <1>5, <1>6, <1>7, <1>8 DEF StateInv

(* Buffers, blocks and readers, together.                                  *)
LEMMA StateStep == StateInv /\ [Next]_vars => StateInv'
  <1>1. BufferInv => (swi = "deliver" => cur \in Messages)
    BY DEF BufferInv
  <1> QED BY <1>1, TypesStep, BufferStep, BlockStep, ReaderStep DEF StateInv

(* The state is sound in every behaviour.                                  *)
LEMMA StateHolds == Spec => []StateInv
  <1>1. Init => StateInv
    BY InitInv
  <1> QED BY <1>1, StateStep, PTL DEF Spec

(***************************************************************************)
(* Every variable has its type, and there are never more buffers in a ring *)
(* or in the host's hands, or blocks free, than there are.                 *)
(***************************************************************************)
THEOREM TypeCorrect == Spec => []TypeOK
  <1>1. StateInv => TypeOK
    <2> SUFFICES ASSUME StateInv PROVE TypeOK
      OBVIOUS
    <2>1. /\ avail \in [Rings -> Nat] /\ used \in [Rings -> Nat] /\ hostFree \in Nat
          /\ blocks \in Nat /\ InSwi \in Nat /\ Types
      BY DEF StateInv, Types, InSwi
    <2>2. Cardinality(Filling) \in Nat /\ Cardinality(Copies) \in Nat
      BY FS_CardinalityType DEF StateInv, BufferInv, BlockInv
    <2>3. \A r \in Rings : avail[r] <= NumBufs /\ used[r] <= NumBufs
      BY <2>1, <2>2 DEF StateInv, BufferInv
    <2>4. hostFree <= NumBufs
      BY <2>1, <2>2 DEF StateInv, BufferInv
    <2>5. blocks <= NumBlocks
      BY <2>1, <2>2 DEF StateInv, BlockInv
    <2> QED BY <2>1, <2>3, <2>4, <2>5 DEF TypeOK
  <1> QED BY <1>1, StateHolds, PTL

(***************************************************************************)
(* RPMessage_recv, woken and not unblocked, finds its message, for any     *)
(* number of endpoints, created, deleted and unblocked by anyone.          *)
(***************************************************************************)
THEOREM ReadersFind == Spec => []RecvFindsPayload
  <1>1. StateInv => RecvFindsPayload
    <2> SUFFICES ASSUME StateInv, NEW e \in Endpoints, pc[e] = "woken", ~unblocked[e]
                 PROVE  queue[e] # <<>>
      BY DEF RecvFindsPayload
    <2>1. Reader(e) /\ sem[e] \in Nat
      BY DEF StateInv, ReaderInv, Types
    <2>2. Len(queue[e]) = sem[e] + 1
      BY <2>1 DEF Reader
    <2> QED BY <2>1, <2>2
  <1> QED BY <1>1, StateHolds, PTL

(* The flags and the rings agree in every behaviour.                       *)
LEMMA ServedHolds == Spec => []ServedInv
  <1>1. Init => ServedInv
    BY InitInv
  <1>2. StateInv /\ ServedInv /\ [Next]_vars => ServedInv'
    BY ServedStep DEF StateInv
  <1> QED BY <1>1, <1>2, StateHolds, PTL DEF Spec

(***************************************************************************)
(* No buffer is stranded in either ring, however many tasks send: the      *)
(* suppression of interrupts and kicks loses none of those that count.     *)
(***************************************************************************)
THEOREM NothingStranded == Spec => []NoneStranded
  BY ServedHolds, ServedGivesNoneStranded, PTL

(***************************************************************************)
(* With one sender, which is what the comment in VirtQueue_getAvailBuf     *)
(* supposes, its sleep for a buffer ends as well.                          *)
(***************************************************************************)
THEOREM RingsServed ==
    ASSUME OneSender
    PROVE  Spec => []RingsAreServed
  <1>1. Init => LoneInv
    BY InitInv
  <1>2. StateInv /\ LoneInv /\ [Next]_vars => LoneInv'
    BY LoneStep, OneSender DEF StateInv
  <1>3. Spec => []LoneInv
    BY <1>1, <1>2, StateHolds, PTL DEF Spec
  <1>4. LoneInv => StarvedIsWoken
    BY DEF LoneInv
  <1>5. NoneStranded /\ StarvedIsWoken /\ RecvFindsPayload => RingsAreServed
    BY DEF RingsAreServed
  <1> QED BY <1>3, <1>4, <1>5, NothingStranded, ReadersFind, PTL
=============================================================================
