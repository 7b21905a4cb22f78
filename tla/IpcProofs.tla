----------------------------- MODULE IpcProofs -----------------------------
(***************************************************************************)
(* Proofs about two processors that attach to each other and detach again  *)
(* with their message transport at work (module Ipc).                      *)
(***************************************************************************)
EXTENDS Ipc, SequenceTheorems, TLAPS

(* Where the setups are being made, and from where on they are gone.       *)
Making      == {"attachNotify", "attachNameServer", "attachTransport", "lists",
                "event", "register", "flag", "finish"}
NoLists     == {"unregister", "unregisterEvent", "freeTransport", "detachNameServer",
                "detachNotify", "detached"}
NoTransport == NoLists \ {"unregister"}
NoEvent     == NoTransport \ {"unregisterEvent"}
NoMemory    == NoEvent \ {"freeTransport"}
NoServer    == NoMemory \ {"detachNameServer"}

Places == {"idle"} \cup InAttach \cup InDetach \cup InPut

(* p has attached, or has only to wait for the other; and may be detaching. *)
Finished(p) == startedKey[p] = "FINISH"

(***************************************************************************)
(* What each processor knows by itself: which call its task is in, and how *)
(* far the objects it has made or opened go with it.                       *)
(***************************************************************************)
CallInv(p) ==
    /\ attached[p] > 0 <=> Finished(p) /\ pc[p] # "wait"
    /\ pc[p] \in InAttach => goal[p] = "attach"
    /\ pc[p] \in InDetach => goal[p] = "detach" /\ attached[p] = 1
    /\ pc[p] \in InPut => goal[p] = "none" /\ Finished(p)
    /\ pc[p] \in Making \cup {"readKey"} => startedKey[p] = "START"
    /\ pc[p] = "wait" => p = Slave /\ Finished(p)
    /\ goal[p] = "attach" => attached[p] < MaxAttached
    /\ goal[p] = "detach" => attached[p] > 0

ObjectInv(p) ==
    /\ open[p] <=> \/ pc[p] \in {"event", "register", "flag", "finish"}
                   \/ Finished(p) /\ pc[p] \notin NoLists
    /\ registered[p] <=> \/ pc[p] \in {"register", "flag", "finish"}
                         \/ Finished(p) /\ pc[p] \notin NoEvent
    /\ transport[p] <=> \/ pc[p] \in {"flag", "finish"}
                        \/ Finished(p) /\ pc[p] \notin NoTransport
    /\ startedKey[p] \in {"none", "DETACH"} => ~notify[p] /\ ~nameServer[p]
    /\ Finished(p) => /\ notify[p] <=> pc[p] # "detached"
                      /\ nameServer[p] <=> pc[p] \notin NoServer
    /\ pc[p] \in Making \ {"attachNotify"} => notify[p]
    /\ pc[p] \in Making \ {"attachNotify", "attachNameServer"} => nameServer[p]

(* The slave's memory and the flag by which it says that the lists are there. *)
MemoryInv ==
    /\ memory["notify"] <=> notify[Slave]
    /\ memory["nameServer"] <=> nameServer[Slave]
    /\ memory["transport"] <=>
         \/ pc[Slave] \in {"lists", "event", "register", "flag", "finish"}
         \/ Finished(Slave) /\ pc[Slave] \notin NoMemory
    /\ flagUp <=> \/ pc[Slave] = "finish"
                  \/ Finished(Slave) /\ pc[Slave] \notin NoLists

(***************************************************************************)
(* The handshake.  The master is ahead of the slave in nothing but the     *)
(* detaching: it has begun only when the slave has, has set up only when   *)
(* the slave has finished, and the slave tears down only after it.         *)
(***************************************************************************)
KeyInv ==
    /\ startedKey[Master] = "START" => startedKey[Slave] \in {"START", "FINISH"}
    /\ startedKey[Master] = "FINISH" => Finished(Slave)
    /\ pc[Slave] \in Making => startedKey[Master] = "START"
    /\ pc[Slave] \in InDetach => startedKey[Master] = "DETACH"
    /\ Finished(Slave) => startedKey[Master] # "none"
    /\ attached[Slave] > 0 => startedKey[Master] \in {"FINISH", "DETACH"}
    /\ pc[Master] \in Making \/ notify[Master] \/ nameServer[Master] => Finished(Slave)

(***************************************************************************)
(* Who puts a message holds the gate; the message is on the other's list   *)
(* until the event is out.                                                 *)
(***************************************************************************)
PutInv ==
    /\ \A p \in Procs : gate = p <=> pc[p] \in InPut
    /\ \A p \in Procs : IF pc[p] = "notify"
                        THEN \E i \in DOMAIN list[Peer(p)] : sending[p] = {list[Peer(p)][i]}
                        ELSE sending[p] = {}

(* Nobody has put anything before the master has attached.                 *)
FreshInv ==
    \/ pc[Slave] \in {"event", "register", "flag", "finish"}
    \/ Finished(Slave) /\ startedKey[Master] = "START"
    => \A p \in Procs : list[p] = <<>>

StateInv ==
    /\ TypeOK
    /\ \A p \in Procs : CallInv(p) /\ ObjectInv(p)
    /\ MemoryInv
    /\ KeyInv
    /\ PutInv

-----------------------------------------------------------------------------
(* TransportShm_put takes its message off the list again.                  *)
LEMMA ListRemoved ==
    ASSUME NEW s \in Seq(Messages), NEW i \in DOMAIN s
    PROVE  /\ RemoveAt(s, i) \in Seq(Messages)
           /\ Len(RemoveAt(s, i)) = Len(s) - 1
           /\ \A j \in 1 .. Len(s) - 1 : RemoveAt(s, i)[j] = IF j < i THEN s[j] ELSE s[j + 1]
  <1> DEFINE before == SubSeq(s, 1, i - 1)
             after  == SubSeq(s, i + 1, Len(s))
  <1>0. i \in 1 .. Len(s) /\ Len(s) \in Nat
    OBVIOUS
  <1>1. /\ before \in Seq(Messages) /\ Len(before) = i - 1
        /\ \A j \in 1 .. i - 1 : before[j] = s[j]
    OBVIOUS
  <1>2. /\ after \in Seq(Messages) /\ Len(after) = Len(s) - i
        /\ \A j \in 1 .. Len(s) - i : after[j] = s[i + j]
    OBVIOUS
  <1> HIDE DEF before, after
  <1>3. RemoveAt(s, i) = before \o after
    BY DEF RemoveAt, before, after
  <1>4. /\ before \o after \in Seq(Messages) /\ Len(before \o after) = Len(s) - 1
        /\ \A j \in 1 .. Len(s) - 1 :
              (before \o after)[j] = IF j < i THEN before[j] ELSE after[j - (i - 1)]
    BY SMTT(30), <1>1, <1>2
  <1>5. ASSUME NEW j \in 1 .. Len(s) - 1
        PROVE  (before \o after)[j] = IF j < i THEN s[j] ELSE s[j + 1]
    <2>1. CASE j < i
      BY <1>1, <1>4, <2>1
    <2>2. CASE j >= i
      <3>1. j - (i - 1) \in 1 .. Len(s) - i /\ i + (j - (i - 1)) = j + 1
        BY <1>0, <2>2
      <3>2. (before \o after)[j] = after[j - (i - 1)]
        BY <1>4, <2>2
      <3>3. after[j - (i - 1)] = s[i + (j - (i - 1))]
        BY <1>2, <3>1
      <3>4. (before \o after)[j] = s[j + 1]
        BY <3>1, <3>2, <3>3
      <3> QED BY <1>0, <2>2, <3>4
    <2>3. j < i \/ j >= i
      BY <1>0
    <2> QED BY <2>1, <2>2, <2>3
  <1> QED BY <1>3, <1>4, <1>5

-----------------------------------------------------------------------------
(* Every step of attach, detach and of the transport keeps the state       *)
(* invariant.                                                              *)
LEMMA StateStep == StateInv /\ [Next]_vars => StateInv'
  <1> SUFFICES ASSUME StateInv, [Next]_vars PROVE StateInv'
    OBVIOUS
  <1> USE IpcAssumption DEF Procs, Slave, Master, Peer
  <1>1. ASSUME NEW p \in Procs, NEW g \in {"attach", "detach"}, Decide(p, g) PROVE StateInv'
    <2> USE <1>1 DEF Task, Goto, object, swis, setup, ipcVars, Decide, shmVars
    <2>1. TypeOK'
      BY DEF StateInv, TypeOK, Goals
    <2>2. ASSUME NEW q \in Procs PROVE CallInv(q)'
      BY DEF StateInv, CallInv, Finished, Making, NoTransport, NoLists, InPut
    <2>3. ASSUME NEW q \in Procs PROVE ObjectInv(q)'
      BY DEF StateInv, ObjectInv, Finished, Making, NoLists, NoTransport, NoEvent,
             NoMemory, NoServer
    <2>4. MemoryInv'
      BY DEF StateInv, MemoryInv, Finished, Making, NoLists, NoTransport, NoEvent,
             NoMemory, NoServer
    <2>5. KeyInv'
      BY DEF StateInv, KeyInv, Finished, Making, NoLists
    <2>6. PutInv'
      BY DEF StateInv, TypeOK, CallInv, KeyInv, PutInv, NoProc, Finished, Making,
             Places, InAttach, InDetach, InPut
    <2> QED BY <2>1, <2>2, <2>3, <2>4, <2>5, <2>6 DEF StateInv
  <1>2. ASSUME NEW p \in Procs, AttachAgain(p) PROVE StateInv'
    <2> USE <1>2 DEF Task, Goto, object, swis, setup, ipcVars, AttachAgain, shmVars
    <2>1. TypeOK'
      BY DEF StateInv, TypeOK, Goals, CallInv
    <2>2. ASSUME NEW q \in Procs PROVE CallInv(q)'
      BY DEF StateInv, TypeOK, CallInv, Finished, Making, NoTransport, NoLists,
             Places, InAttach
    <2>3. ASSUME NEW q \in Procs PROVE ObjectInv(q)'
      BY DEF StateInv, ObjectInv, Finished, Making, NoLists, NoTransport, NoEvent,
             NoMemory, NoServer
    <2>4. MemoryInv'
      BY DEF StateInv, MemoryInv, Finished, Making, NoLists, NoTransport, NoEvent,
             NoMemory, NoServer
    <2>5. KeyInv'
      BY DEF StateInv, KeyInv, Finished, Making, NoLists
    <2>6. PutInv'
      BY DEF StateInv, TypeOK, CallInv, KeyInv, PutInv, NoProc, Finished, Making,
             Places, InAttach, InDetach, InPut
    <2> QED BY <2>1, <2>2, <2>3, <2>4, <2>5, <2>6 DEF StateInv
  <1>3. ASSUME NEW p \in Procs, AttachCall(p) PROVE StateInv'
    <2> USE <1>3 DEF Task, Goto, object, swis, setup, ipcVars, AttachCall, MayStart
    <2>1. TypeOK'
      BY DEF StateInv, TypeOK, Keys, InAttach
    <2>2. ASSUME NEW q \in Procs PROVE CallInv(q)'
      BY DEF StateInv, TypeOK, CallInv, Finished, Making, NoTransport, NoLists,
             Places, InDetach, InPut
    <2>3. ASSUME NEW q \in Procs PROVE ObjectInv(q)'
      BY DEF StateInv, CallInv, ObjectInv, Finished, Making, NoLists, NoTransport,
             NoEvent, NoMemory, NoServer
    <2>4. MemoryInv'
      BY DEF StateInv, CallInv, MemoryInv, Finished, Making, NoLists, NoTransport,
             NoEvent, NoMemory, NoServer
    <2>5. KeyInv'
      BY DEF StateInv, CallInv, KeyInv, Finished, Making, NoLists, InDetach
    <2>6. PutInv'
      BY DEF StateInv, TypeOK, CallInv, KeyInv, PutInv, NoProc, Finished, Making,
             Places, InAttach, InDetach, InPut
    <2> QED BY <2>1, <2>2, <2>3, <2>4, <2>5, <2>6 DEF StateInv
  <1>4. ASSUME NEW p \in Procs, AttachReadKey(p) PROVE StateInv'
    <2> USE <1>4 DEF Task, Goto, object, swis, setup, ipcVars, AttachReadKey,
           PeerReady
    <2>1. TypeOK'
      BY DEF StateInv, TypeOK, InAttach
    <2>2. ASSUME NEW q \in Procs PROVE CallInv(q)'
      BY DEF StateInv, CallInv, Finished, Making, NoTransport, NoLists, InAttach,
             InDetach, InPut
    <2>3. ASSUME NEW q \in Procs PROVE ObjectInv(q)'
      BY DEF StateInv, ObjectInv, Finished, Making, NoLists, NoTransport, NoEvent,
             NoMemory, NoServer
    <2>4. MemoryInv'
      BY DEF StateInv, MemoryInv, Finished, Making, NoLists, NoTransport, NoEvent,
             NoMemory, NoServer
    <2>5. KeyInv'
      BY DEF StateInv, KeyInv, Finished, Making, NoLists, InDetach
    <2>6. PutInv'
      BY DEF StateInv, TypeOK, CallInv, KeyInv, PutInv, NoProc, Finished, Making,
             Places, InAttach, InDetach, InPut
    <2> QED BY <2>1, <2>2, <2>3, <2>4, <2>5, <2>6 DEF StateInv
  <1>5. ASSUME NEW p \in Procs, AttachNotify(p) PROVE StateInv'
    <2>a. /\ Task(p, "attachNotify") /\ Goto(p, "attachNameServer")
          /\ \/ notify[p] /\ UNCHANGED <<notify, nameServer, event, srPtr, memory>>
             \/ /\ ~notify[p]
                /\ srPtr' = [srPtr EXCEPT !["notify"] = TRUE]
                /\ memory' = IF p = Slave THEN [memory EXCEPT !["notify"] = TRUE] ELSE memory
                /\ notify' = [notify EXCEPT ![p] = TRUE]
                /\ nameServer' = nameServer
                /\ event' = IF p = Slave THEN [q \in Procs |-> 0] ELSE event
          /\ UNCHANGED <<driver, object, list, swis, gate, sending, held, startedKey,
                         attached, goal, failures>>
      BY <1>5 DEF AttachNotify, Setup, IsRegistered
    <2>t. /\ srPtr \in [Setups -> BOOLEAN] /\ memory \in [Setups -> BOOLEAN]
          /\ notify \in [Procs -> BOOLEAN] /\ nameServer \in [Procs -> BOOLEAN]
          /\ event \in [Procs -> 0 .. RingRoom] /\ 0 \in 0 .. RingRoom
          /\ "notify" \in Setups
      BY DEF StateInv, TypeOK, Setups
    <2>b. /\ srPtr' \in [Setups -> BOOLEAN] /\ memory' \in [Setups -> BOOLEAN]
          /\ notify' \in [Procs -> BOOLEAN] /\ nameServer' \in [Procs -> BOOLEAN]
          /\ event' \in [Procs -> 0 .. RingRoom]
      <3>1. srPtr' \in [Setups -> BOOLEAN] /\ memory' \in [Setups -> BOOLEAN]
        BY <2>a, <2>t
      <3>2. notify' \in [Procs -> BOOLEAN] /\ nameServer' \in [Procs -> BOOLEAN]
        BY <2>a, <2>t
      <3>3. event' \in [Procs -> 0 .. RingRoom]
        BY <2>a, <2>t
      <3> QED BY <3>1, <3>2, <3>3
    <2> USE <2>a, <2>b DEF Task, Goto, object, swis
    <2>1. TypeOK'
      <3>3. pc' \in [Procs -> {"idle"} \cup InAttach \cup InDetach \cup InPut]
        BY DEF StateInv, TypeOK, Places, InAttach, InDetach, InPut
      <3> QED BY <3>3 DEF StateInv, TypeOK
    <2>2. ASSUME NEW q \in Procs PROVE CallInv(q)'
      BY DEF StateInv, CallInv, Finished, Making, NoTransport, NoLists, InAttach,
             InDetach, InPut
    <2>3. ASSUME NEW q \in Procs PROVE ObjectInv(q)'
      BY DEF StateInv, CallInv, ObjectInv, Finished, Making, NoLists, NoTransport,
             NoEvent, NoMemory, NoServer
    <2>4. MemoryInv'
      BY DEF StateInv, MemoryInv, Finished, Making, NoLists, NoTransport, NoEvent,
             NoMemory, NoServer, Setups
    <2>5. KeyInv'
      BY DEF StateInv, KeyInv, Finished, Making, NoLists, InDetach
    <2>6. PutInv'
      BY DEF StateInv, TypeOK, CallInv, KeyInv, PutInv, NoProc, Finished, Making,
             Places, InAttach, InDetach, InPut
    <2> QED BY <2>1, <2>2, <2>3, <2>4, <2>5, <2>6 DEF StateInv
  <1>6. ASSUME NEW p \in Procs, AttachNameServer(p) PROVE StateInv'
    <2>a. /\ Task(p, "attachNameServer") /\ Goto(p, "attachTransport")
          /\ \/ nameServer[p] /\ UNCHANGED <<notify, nameServer, event, srPtr, memory>>
             \/ /\ ~nameServer[p]
                /\ srPtr' = [srPtr EXCEPT !["nameServer"] = TRUE]
                /\ memory' = IF p = Slave THEN [memory EXCEPT !["nameServer"] = TRUE] ELSE memory
                /\ notify' = notify
                /\ nameServer' = [nameServer EXCEPT ![p] = TRUE]
                /\ event' = event
          /\ UNCHANGED <<driver, object, list, swis, gate, sending, held, startedKey,
                         attached, goal, failures>>
      BY <1>6 DEF AttachNameServer, Setup, IsRegistered
    <2>t. /\ srPtr \in [Setups -> BOOLEAN] /\ memory \in [Setups -> BOOLEAN]
          /\ notify \in [Procs -> BOOLEAN] /\ nameServer \in [Procs -> BOOLEAN]
          /\ event \in [Procs -> 0 .. RingRoom] /\ 0 \in 0 .. RingRoom
          /\ "nameServer" \in Setups
      BY DEF StateInv, TypeOK, Setups
    <2>b. /\ srPtr' \in [Setups -> BOOLEAN] /\ memory' \in [Setups -> BOOLEAN]
          /\ notify' \in [Procs -> BOOLEAN] /\ nameServer' \in [Procs -> BOOLEAN]
          /\ event' \in [Procs -> 0 .. RingRoom]
      <3>1. srPtr' \in [Setups -> BOOLEAN] /\ memory' \in [Setups -> BOOLEAN]
        BY <2>a, <2>t
      <3>2. notify' \in [Procs -> BOOLEAN] /\ nameServer' \in [Procs -> BOOLEAN]
        BY <2>a, <2>t
      <3>3. event' \in [Procs -> 0 .. RingRoom]
        BY <2>a, <2>t
      <3> QED BY <3>1, <3>2, <3>3
    <2> USE <2>a, <2>b DEF Task, Goto, object, swis
    <2>1. TypeOK'
      <3>3. pc' \in [Procs -> {"idle"} \cup InAttach \cup InDetach \cup InPut]
        BY DEF StateInv, TypeOK, Places, InAttach, InDetach, InPut
      <3> QED BY <3>3 DEF StateInv, TypeOK
    <2>2. ASSUME NEW q \in Procs PROVE CallInv(q)'
      BY DEF StateInv, CallInv, Finished, Making, NoTransport, NoLists, InAttach,
             InDetach, InPut
    <2>3. ASSUME NEW q \in Procs PROVE ObjectInv(q)'
      BY DEF StateInv, ObjectInv, Finished, Making, NoLists, NoTransport, NoEvent,
             NoMemory, NoServer
    <2>4. MemoryInv'
      BY DEF StateInv, MemoryInv, Finished, Making, NoLists, NoTransport, NoEvent,
             NoMemory, NoServer, Setups
    <2>5. KeyInv'
      BY DEF StateInv, KeyInv, Finished, Making, NoLists, InDetach
    <2>6. PutInv'
      BY DEF StateInv, TypeOK, CallInv, KeyInv, PutInv, NoProc, Finished, Making,
             Places, InAttach, InDetach, InPut
    <2> QED BY <2>1, <2>2, <2>3, <2>4, <2>5, <2>6 DEF StateInv
  <1>7. ASSUME NEW p \in Procs, AttachTransport(p) PROVE StateInv'
    <2>a. /\ Task(p, "attachTransport") /\ Goto(p, IF transport[p] THEN "finish" ELSE "lists")
          /\ \/ transport[p] /\ UNCHANGED <<notify, nameServer, event, srPtr, memory>>
             \/ /\ ~transport[p]
                /\ srPtr' = [srPtr EXCEPT !["transport"] = TRUE]
                /\ memory' = IF p = Slave THEN [memory EXCEPT !["transport"] = TRUE] ELSE memory
                /\ notify' = notify
                /\ nameServer' = nameServer
                /\ event' = event
          /\ UNCHANGED <<driver, object, list, swis, gate, sending, held, startedKey,
                         attached, goal, failures>>
      BY <1>7 DEF AttachTransport, Setup, IsRegistered
    <2>t. /\ srPtr \in [Setups -> BOOLEAN] /\ memory \in [Setups -> BOOLEAN]
          /\ notify \in [Procs -> BOOLEAN] /\ nameServer \in [Procs -> BOOLEAN]
          /\ event \in [Procs -> 0 .. RingRoom] /\ 0 \in 0 .. RingRoom
          /\ "transport" \in Setups
      BY DEF StateInv, TypeOK, Setups
    <2>b. /\ srPtr' \in [Setups -> BOOLEAN] /\ memory' \in [Setups -> BOOLEAN]
          /\ notify' \in [Procs -> BOOLEAN] /\ nameServer' \in [Procs -> BOOLEAN]
          /\ event' \in [Procs -> 0 .. RingRoom]
      <3>1. srPtr' \in [Setups -> BOOLEAN] /\ memory' \in [Setups -> BOOLEAN]
        BY <2>a, <2>t
      <3>2. notify' \in [Procs -> BOOLEAN] /\ nameServer' \in [Procs -> BOOLEAN]
        BY <2>a, <2>t
      <3>3. event' \in [Procs -> 0 .. RingRoom]
        BY <2>a, <2>t
      <3> QED BY <3>1, <3>2, <3>3
    <2> USE <2>a, <2>b DEF Task, Goto, object, swis
    <2>1. TypeOK'
      <3>3. pc' \in [Procs -> {"idle"} \cup InAttach \cup InDetach \cup InPut]
        BY DEF StateInv, TypeOK, Places, InAttach, InDetach, InPut
      <3> QED BY <3>3 DEF StateInv, TypeOK
    <2>2. ASSUME NEW q \in Procs PROVE CallInv(q)'
      BY DEF StateInv, CallInv, Finished, Making, NoTransport, NoLists, InAttach,
             InDetach, InPut
    <2>3. ASSUME NEW q \in Procs PROVE ObjectInv(q)'
      BY DEF StateInv, ObjectInv, Finished, Making, NoLists, NoTransport, NoEvent,
             NoMemory, NoServer
    <2>4. MemoryInv'
      BY DEF StateInv, TypeOK, ObjectInv, MemoryInv, Finished, Making, NoLists,
             NoTransport, NoEvent, NoMemory, NoServer, Setups
    <2>5. KeyInv'
      BY DEF StateInv, KeyInv, Finished, Making, NoLists, InDetach
    <2>6. PutInv'
      BY DEF StateInv, TypeOK, CallInv, KeyInv, PutInv, NoProc, Finished, Making,
             Places, InAttach, InDetach, InPut
    <2> QED BY <2>1, <2>2, <2>3, <2>4, <2>5, <2>6 DEF StateInv
  <1>8. ASSUME NEW p \in Procs, AttachFails(p) PROVE StateInv'
    <2>a. /\ pc[p] \in {"attachNotify", "attachNameServer", "attachTransport"} /\ Goto(p, "idle")
          /\ failures < MaxFailures \/ (p = Master /\ pc[p] = "attachTransport" /\ ~flagUp)
          /\ failures' = failures + 1
          /\ srPtr' = srPtr \/ \E s \in Setups : srPtr' = [srPtr EXCEPT ![s] = TRUE]
          /\ UNCHANGED <<driver, object, list, event, notify, swis, gate, sending, held,
                         startedKey, attached, goal, memory, nameServer>>
      BY <1>8 DEF AttachFails, SetupFails, IsRegistered, Task, Setups
    <2>b. failures < MaxFailures
      BY <2>a DEF StateInv, TypeOK, MemoryInv, KeyInv, CallInv, Making, Finished,
             NoLists, InDetach, Keys
    <2> USE <2>a, <2>b DEF Goto, object, swis
    <2>1. TypeOK'
      <3>1. srPtr' \in [Setups -> BOOLEAN]
        <4>1. srPtr \in [Setups -> BOOLEAN]
          BY DEF StateInv, TypeOK
        <4> QED BY <4>1, <2>a
      <3>4. failures' \in 0 .. MaxFailures
        BY DEF StateInv, TypeOK
      <3>2. pc' \in [Procs -> {"idle"} \cup InAttach \cup InDetach \cup InPut]
        BY DEF StateInv, TypeOK, Places, InAttach, InDetach, InPut
      <3> QED BY <3>1, <3>2, <3>4 DEF StateInv, TypeOK
    <2>2. ASSUME NEW q \in Procs PROVE CallInv(q)'
      BY DEF StateInv, CallInv, Finished, Making, NoTransport, NoLists, InAttach,
             InDetach, InPut
    <2>3. ASSUME NEW q \in Procs PROVE ObjectInv(q)'
      BY DEF StateInv, ObjectInv, Finished, Making, NoLists, NoTransport, NoEvent,
             NoMemory, NoServer
    <2>4. MemoryInv'
      BY DEF StateInv, MemoryInv, Finished, Making, NoLists, NoTransport, NoEvent,
             NoMemory, NoServer
    <2>5. KeyInv'
      BY DEF StateInv, KeyInv, Finished, Making, NoLists, InDetach
    <2>6. PutInv'
      BY DEF StateInv, TypeOK, CallInv, KeyInv, PutInv, NoProc, Finished, Making,
             Places, InAttach, InDetach, InPut
    <2> QED BY <2>1, <2>2, <2>3, <2>4, <2>5, <2>6 DEF StateInv
  <1>9. ASSUME NEW p \in Procs, AttachFinish(p) PROVE StateInv'
    <2> USE <1>9 DEF Task, Goto, object, swis, setup, ipcVars, AttachFinish,
           Attached
    <2>1. TypeOK'
      BY DEF StateInv, TypeOK, Keys, Goals, CallInv, InAttach
    <2>2. ASSUME NEW q \in Procs PROVE CallInv(q)'
      BY DEF StateInv, TypeOK, CallInv, ObjectInv, Finished, Making, NoTransport,
             NoLists, Places, InAttach, InDetach, InPut
    <2>3. ASSUME NEW q \in Procs PROVE ObjectInv(q)'
      BY DEF StateInv, TypeOK, ObjectInv, Finished, Making, NoLists, NoTransport,
             NoEvent, NoMemory, NoServer
    <2>4. MemoryInv'
      BY DEF StateInv, TypeOK, MemoryInv, Finished, Making, NoLists, NoTransport,
             NoEvent, NoMemory, NoServer
    <2>5. KeyInv'
      BY DEF StateInv, TypeOK, CallInv, KeyInv, Finished, Making, NoLists, Places,
             InDetach
    <2>6. PutInv'
      BY DEF StateInv, TypeOK, CallInv, KeyInv, PutInv, NoProc, Finished, Making,
             Places, InAttach, InDetach, InPut
    <2> QED BY <2>1, <2>2, <2>3, <2>4, <2>5, <2>6 DEF StateInv
  <1>10. ASSUME NEW p \in Procs, AttachWait(p) PROVE StateInv'
    <2> USE <1>10 DEF Task, Goto, object, swis, setup, ipcVars, AttachWait, Attached
    <2>1. TypeOK'
      BY DEF StateInv, TypeOK, Goals, CallInv
    <2>2. ASSUME NEW q \in Procs PROVE CallInv(q)'
      BY DEF StateInv, TypeOK, CallInv, Finished, Making, NoTransport, NoLists,
             Places, InAttach, InDetach
    <2>3. ASSUME NEW q \in Procs PROVE ObjectInv(q)'
      BY DEF StateInv, ObjectInv, Finished, Making, NoLists, NoTransport, NoEvent,
             NoMemory, NoServer
    <2>4. MemoryInv'
      BY DEF StateInv, MemoryInv, Finished, Making, NoLists, NoTransport, NoEvent,
             NoMemory, NoServer
    <2>5. KeyInv'
      BY DEF StateInv, KeyInv, Finished, Making, NoLists, InDetach
    <2>6. PutInv'
      BY DEF StateInv, TypeOK, CallInv, KeyInv, PutInv, NoProc, Finished, Making,
             Places, InAttach, InDetach, InPut
    <2> QED BY <2>1, <2>2, <2>3, <2>4, <2>5, <2>6 DEF StateInv
  <1>11. ASSUME NEW p \in Procs, Quiet(InitLists(p)) PROVE StateInv'
    <2> USE <1>11 DEF Task, Goto, object, swis, setup, ipcVars, Quiet, InitLists
    <2>1. TypeOK'
      BY DEF StateInv, TypeOK, InAttach
    <2>2. ASSUME NEW q \in Procs PROVE CallInv(q)'
      BY DEF StateInv, CallInv, Finished, Making, NoTransport, NoLists, InAttach,
             InDetach, InPut
    <2>3. ASSUME NEW q \in Procs PROVE ObjectInv(q)'
      BY DEF StateInv, TypeOK, ObjectInv, Finished, Making, NoLists, NoTransport,
             NoEvent, NoMemory, NoServer
    <2>4. MemoryInv'
      BY DEF StateInv, MemoryInv, Finished, Making, NoLists, NoTransport, NoEvent,
             NoMemory, NoServer
    <2>5. KeyInv'
      BY DEF StateInv, KeyInv, Finished, Making, NoLists
    <2>6. PutInv'
      BY DEF StateInv, TypeOK, CallInv, KeyInv, PutInv, NoProc, Finished, Making,
             Places, InAttach, InDetach, InPut
    <2> QED BY <2>1, <2>2, <2>3, <2>4, <2>5, <2>6 DEF StateInv
  <1>12. ASSUME NEW p \in Procs, Quiet(InitEvent(p)) PROVE StateInv'
    <2> USE <1>12 DEF Task, Goto, object, swis, setup, ipcVars, Quiet, InitEvent
    <2>1. TypeOK'
      BY DEF StateInv, TypeOK, InAttach
    <2>2. ASSUME NEW q \in Procs PROVE CallInv(q)'
      BY DEF StateInv, CallInv, Finished, Making, NoTransport, NoLists, InAttach,
             InDetach, InPut
    <2>3. ASSUME NEW q \in Procs PROVE ObjectInv(q)'
      BY DEF StateInv, TypeOK, ObjectInv, Finished, Making, NoLists, NoTransport,
             NoEvent, NoMemory, NoServer
    <2>4. MemoryInv'
      BY DEF StateInv, MemoryInv, Finished, Making, NoLists, NoTransport, NoEvent,
             NoMemory, NoServer
    <2>5. KeyInv'
      BY DEF StateInv, KeyInv, Finished, Making, NoLists, InDetach
    <2>6. PutInv'
      BY DEF StateInv, TypeOK, CallInv, KeyInv, PutInv, NoProc, Finished, Making,
             Places, InAttach, InDetach, InPut
    <2> QED BY <2>1, <2>2, <2>3, <2>4, <2>5, <2>6 DEF StateInv
  <1>13. ASSUME NEW p \in Procs, Quiet(InitRegister(p)) PROVE StateInv'
    <2> USE <1>13 DEF Task, Goto, object, swis, setup, ipcVars, Quiet, InitRegister
    <2>1. TypeOK'
      BY DEF StateInv, TypeOK, InAttach
    <2>2. ASSUME NEW q \in Procs PROVE CallInv(q)'
      BY DEF StateInv, CallInv, Finished, Making, NoTransport, NoLists, InAttach,
             InDetach, InPut
    <2>3. ASSUME NEW q \in Procs PROVE ObjectInv(q)'
      BY DEF StateInv, TypeOK, ObjectInv, Finished, Making, NoLists, NoTransport,
             NoEvent, NoMemory, NoServer
    <2>4. MemoryInv'
      BY DEF StateInv, MemoryInv, Finished, Making, NoLists, NoTransport, NoEvent,
             NoMemory, NoServer
    <2>5. KeyInv'
      BY DEF StateInv, KeyInv, Finished, Making, NoLists, InDetach
    <2>6. PutInv'
      BY DEF StateInv, TypeOK, CallInv, KeyInv, PutInv, NoProc, Finished, Making,
             Places, InAttach, InDetach, InPut
    <2> QED BY <2>1, <2>2, <2>3, <2>4, <2>5, <2>6 DEF StateInv
  <1>14. ASSUME NEW p \in Procs, Quiet(InitFlag(p)) PROVE StateInv'
    <2> USE <1>14 DEF Task, Goto, object, swis, setup, ipcVars, Quiet, InitFlag
    <2>1. TypeOK'
      BY DEF StateInv, TypeOK, InAttach
    <2>2. ASSUME NEW q \in Procs PROVE CallInv(q)'
      BY DEF StateInv, CallInv, Finished, Making, NoTransport, NoLists, InAttach,
             InDetach, InPut
    <2>3. ASSUME NEW q \in Procs PROVE ObjectInv(q)'
      BY DEF StateInv, ObjectInv, Finished, Making, NoLists, NoTransport, NoEvent,
             NoMemory, NoServer
    <2>4. MemoryInv'
      BY DEF StateInv, TypeOK, MemoryInv, Finished, Making, NoLists, NoTransport,
             NoEvent, NoMemory, NoServer
    <2>5. KeyInv'
      BY DEF StateInv, KeyInv, Finished, Making, NoLists, InDetach
    <2>6. PutInv'
      BY DEF StateInv, TypeOK, CallInv, KeyInv, PutInv, NoProc, Finished, Making,
             Places, InAttach, InDetach, InPut
    <2> QED BY <2>1, <2>2, <2>3, <2>4, <2>5, <2>6 DEF StateInv
  <1>15. ASSUME NEW p \in Procs, DetachOnce(p) PROVE StateInv'
    <2> USE <1>15 DEF Task, Goto, object, swis, setup, ipcVars, DetachOnce, shmVars
    <2>1. TypeOK'
      BY DEF StateInv, TypeOK, Goals
    <2>2. ASSUME NEW q \in Procs PROVE CallInv(q)'
      BY DEF StateInv, TypeOK, CallInv, Finished, Making, NoTransport, NoLists,
             Places
    <2>3. ASSUME NEW q \in Procs PROVE ObjectInv(q)'
      BY DEF StateInv, ObjectInv, Finished, Making, NoLists, NoTransport, NoEvent,
             NoMemory, NoServer
    <2>4. MemoryInv'
      BY DEF StateInv, MemoryInv, Finished, Making, NoLists, NoTransport, NoEvent,
             NoMemory, NoServer
    <2>5. KeyInv'
      BY DEF StateInv, CallInv, KeyInv, Finished, Making, NoLists
    <2>6. PutInv'
      BY DEF StateInv, TypeOK, CallInv, KeyInv, PutInv, NoProc, Finished, Making,
             Places, InAttach, InDetach, InPut
    <2> QED BY <2>1, <2>2, <2>3, <2>4, <2>5, <2>6 DEF StateInv
  <1>16. ASSUME NEW p \in Procs, DetachCall(p) PROVE StateInv'
    <2> USE <1>16 DEF Task, Goto, object, swis, setup, ipcVars, DetachCall,
           MayDetach
    <2>1. TypeOK'
      BY DEF StateInv, TypeOK, InDetach
    <2>2. ASSUME NEW q \in Procs PROVE CallInv(q)'
      BY DEF StateInv, CallInv, Finished, Making, NoTransport, NoLists, InAttach,
             InPut
    <2>3. ASSUME NEW q \in Procs PROVE ObjectInv(q)'
      BY DEF StateInv, ObjectInv, Finished, Making, NoLists, NoTransport, NoEvent,
             NoMemory, NoServer
    <2>4. MemoryInv'
      BY DEF StateInv, ObjectInv, MemoryInv, Finished, Making, NoLists,
             NoTransport, NoEvent, NoMemory, NoServer
    <2>5. KeyInv'
      BY DEF StateInv, KeyInv, Finished, Making, NoLists
    <2>6. PutInv'
      BY DEF StateInv, TypeOK, CallInv, KeyInv, PutInv, NoProc, Finished, Making,
             Places, InAttach, InDetach, InPut
    <2> QED BY <2>1, <2>2, <2>3, <2>4, <2>5, <2>6 DEF StateInv
  <1>17. ASSUME NEW p \in Procs, Quiet(FinalizeLists(p)) PROVE StateInv'
    <2> USE <1>17 DEF Task, Goto, object, swis, setup, ipcVars, Quiet, FinalizeLists
    <2>1. TypeOK'
      BY DEF StateInv, TypeOK, InDetach
    <2>2. ASSUME NEW q \in Procs PROVE CallInv(q)'
      BY DEF StateInv, CallInv, Finished, Making, NoTransport, NoLists, InAttach,
             InDetach, InPut
    <2>3. ASSUME NEW q \in Procs PROVE ObjectInv(q)'
      BY DEF StateInv, TypeOK, ObjectInv, Finished, Making, NoLists, NoTransport,
             NoEvent, NoMemory, NoServer
    <2>4. MemoryInv'
      BY DEF StateInv, TypeOK, MemoryInv, Finished, Making, NoLists, NoTransport,
             NoEvent, NoMemory, NoServer
    <2>5. KeyInv'
      BY DEF StateInv, KeyInv, Finished, Making, NoLists, InDetach
    <2>6. PutInv'
      BY DEF StateInv, TypeOK, CallInv, KeyInv, PutInv, NoProc, Finished, Making,
             Places, InAttach, InDetach, InPut
    <2> QED BY <2>1, <2>2, <2>3, <2>4, <2>5, <2>6 DEF StateInv
  <1>18. ASSUME NEW p \in Procs, Quiet(FinalizeRegister(p)) PROVE StateInv'
    <2> USE <1>18 DEF Task, Goto, object, swis, setup, ipcVars, Quiet,
           FinalizeRegister
    <2>1. TypeOK'
      BY DEF StateInv, TypeOK, InDetach
    <2>2. ASSUME NEW q \in Procs PROVE CallInv(q)'
      BY DEF StateInv, CallInv, Finished, Making, NoTransport, NoLists, InAttach,
             InDetach, InPut
    <2>3. ASSUME NEW q \in Procs PROVE ObjectInv(q)'
      BY DEF StateInv, TypeOK, ObjectInv, Finished, Making, NoLists, NoTransport,
             NoEvent, NoMemory, NoServer
    <2>4. MemoryInv'
      BY DEF StateInv, MemoryInv, Finished, Making, NoLists, NoTransport, NoEvent,
             NoMemory, NoServer
    <2>5. KeyInv'
      BY DEF StateInv, KeyInv, Finished, Making, NoLists, InDetach
    <2>6. PutInv'
      BY DEF StateInv, TypeOK, CallInv, KeyInv, PutInv, NoProc, Finished, Making,
             Places, InAttach, InDetach, InPut
    <2> QED BY <2>1, <2>2, <2>3, <2>4, <2>5, <2>6 DEF StateInv
  <1>19. ASSUME NEW p \in Procs, Quiet(FinalizeEvent(p)) PROVE StateInv'
    <2> USE <1>19 DEF Task, Goto, object, swis, setup, ipcVars, Quiet, FinalizeEvent
    <2>1. TypeOK'
      BY DEF StateInv, TypeOK, InDetach
    <2>2. ASSUME NEW q \in Procs PROVE CallInv(q)'
      BY DEF StateInv, CallInv, Finished, Making, NoTransport, NoLists, InAttach,
             InDetach, InPut
    <2>3. ASSUME NEW q \in Procs PROVE ObjectInv(q)'
      BY DEF StateInv, TypeOK, ObjectInv, Finished, Making, NoLists, NoTransport,
             NoEvent, NoMemory, NoServer
    <2>4. MemoryInv'
      BY DEF StateInv, MemoryInv, Finished, Making, NoLists, NoTransport, NoEvent,
             NoMemory, NoServer
    <2>5. KeyInv'
      BY DEF StateInv, KeyInv, Finished, Making, NoLists, InDetach
    <2>6. PutInv'
      BY DEF StateInv, TypeOK, CallInv, KeyInv, PutInv, NoProc, Finished, Making,
             Places, InAttach, InDetach, InPut
    <2> QED BY <2>1, <2>2, <2>3, <2>4, <2>5, <2>6 DEF StateInv
  <1>20. ASSUME NEW p \in Procs, DetachTransport(p) PROVE StateInv'
    <2> USE <1>20 DEF Task, Goto, object, swis, setup, ipcVars, DetachTransport,
           Release
    <2>1. TypeOK'
      BY DEF StateInv, TypeOK, InDetach
    <2>2. ASSUME NEW q \in Procs PROVE CallInv(q)'
      BY DEF StateInv, CallInv, Finished, Making, NoTransport, NoLists, InAttach,
             InDetach, InPut
    <2>3. ASSUME NEW q \in Procs PROVE ObjectInv(q)'
      BY DEF StateInv, ObjectInv, Finished, Making, NoLists, NoTransport, NoEvent,
             NoMemory, NoServer
    <2>4. MemoryInv'
      BY DEF StateInv, TypeOK, MemoryInv, Finished, Making, NoLists, NoTransport,
             NoEvent, NoMemory, NoServer, Setups
    <2>5. KeyInv'
      BY DEF StateInv, KeyInv, Finished, Making, NoLists, InDetach
    <2>6. PutInv'
      BY DEF StateInv, TypeOK, CallInv, KeyInv, PutInv, NoProc, Finished, Making,
             Places, InAttach, InDetach, InPut
    <2> QED BY <2>1, <2>2, <2>3, <2>4, <2>5, <2>6 DEF StateInv
  <1>21. ASSUME NEW p \in Procs, DetachNameServer(p) PROVE StateInv'
    <2> USE <1>21 DEF Task, Goto, object, swis, setup, ipcVars, DetachNameServer,
           Release
    <2>1. TypeOK'
      BY DEF StateInv, TypeOK, InDetach
    <2>2. ASSUME NEW q \in Procs PROVE CallInv(q)'
      BY DEF StateInv, CallInv, Finished, Making, NoTransport, NoLists, InAttach,
             InDetach, InPut
    <2>3. ASSUME NEW q \in Procs PROVE ObjectInv(q)'
      BY DEF StateInv, TypeOK, ObjectInv, Finished, Making, NoLists, NoTransport,
             NoEvent, NoMemory, NoServer
    <2>4. MemoryInv'
      BY DEF StateInv, TypeOK, MemoryInv, Finished, Making, NoLists, NoTransport,
             NoEvent, NoMemory, NoServer, Setups
    <2>5. KeyInv'
      BY DEF StateInv, KeyInv, Finished, Making, NoLists, InDetach
    <2>6. PutInv'
      BY DEF StateInv, TypeOK, CallInv, KeyInv, PutInv, NoProc, Finished, Making,
             Places, InAttach, InDetach, InPut
    <2> QED BY <2>1, <2>2, <2>3, <2>4, <2>5, <2>6 DEF StateInv
  <1>22. ASSUME NEW p \in Procs, DetachNotify(p) PROVE StateInv'
    <2> USE <1>22 DEF Task, Goto, object, swis, setup, ipcVars, DetachNotify,
           Release
    <2>1. TypeOK'
      BY DEF StateInv, TypeOK, InDetach
    <2>2. ASSUME NEW q \in Procs PROVE CallInv(q)'
      BY DEF StateInv, CallInv, Finished, Making, NoTransport, NoLists, InAttach,
             InDetach, InPut
    <2>3. ASSUME NEW q \in Procs PROVE ObjectInv(q)'
      BY DEF StateInv, TypeOK, ObjectInv, Finished, Making, NoLists, NoTransport,
             NoEvent, NoMemory, NoServer
    <2>4. MemoryInv'
      BY DEF StateInv, TypeOK, MemoryInv, Finished, Making, NoLists, NoTransport,
             NoEvent, NoMemory, NoServer, Setups
    <2>5. KeyInv'
      BY DEF StateInv, KeyInv, Finished, Making, NoLists, InDetach
    <2>6. PutInv'
      BY DEF StateInv, TypeOK, CallInv, KeyInv, PutInv, NoProc, Finished, Making,
             Places, InAttach, InDetach, InPut
    <2> QED BY <2>1, <2>2, <2>3, <2>4, <2>5, <2>6 DEF StateInv
  <1>23. ASSUME NEW p \in Procs, Detached(p) PROVE StateInv'
    <2> USE <1>23 DEF Task, Goto, object, swis, setup, ipcVars, Detached
    <2>1. TypeOK'
      BY DEF StateInv, TypeOK, Keys, Goals
    <2>2. ASSUME NEW q \in Procs PROVE CallInv(q)'
      BY DEF StateInv, TypeOK, CallInv, ObjectInv, Finished, Making, NoTransport,
             NoLists, Places, InAttach, InDetach, InPut
    <2>3. ASSUME NEW q \in Procs PROVE ObjectInv(q)'
      BY DEF StateInv, TypeOK, CallInv, ObjectInv, Finished, Making, NoLists,
             NoTransport, NoEvent, NoMemory, NoServer, Places, InDetach
    <2>4. MemoryInv'
      BY DEF StateInv, TypeOK, MemoryInv, Finished, Making, NoLists, NoTransport,
             NoEvent, NoMemory, NoServer
    <2>5. KeyInv'
      BY DEF StateInv, CallInv, ObjectInv, KeyInv, Finished, Making, NoLists,
             InDetach
    <2>6. PutInv'
      BY DEF StateInv, TypeOK, CallInv, KeyInv, PutInv, NoProc, Finished, Making,
             Places, InAttach, InDetach, InPut
    <2> QED BY <2>1, <2>2, <2>3, <2>4, <2>5, <2>6 DEF StateInv
  <1>24. ASSUME NEW p \in Procs, NEW m \in Messages, goal[p] = "none", Quiet(PutLink(p, m)) PROVE StateInv'
    <2> USE <1>24 DEF Task, Goto, object, swis, setup, ipcVars, Quiet, PutLink
    <2>1. TypeOK'
      BY DEF StateInv, TypeOK, Keys, InPut
    <2>2. ASSUME NEW q \in Procs PROVE CallInv(q)'
      BY DEF StateInv, CallInv, ObjectInv, Finished, Making, NoTransport, NoLists,
             InAttach, InDetach
    <2>3. ASSUME NEW q \in Procs PROVE ObjectInv(q)'
      BY DEF StateInv, ObjectInv, Finished, Making, NoLists, NoTransport, NoEvent,
             NoMemory, NoServer
    <2>4. MemoryInv'
      BY DEF StateInv, MemoryInv, Finished, Making, NoLists, NoTransport, NoEvent,
             NoMemory, NoServer
    <2>5. KeyInv'
      BY DEF StateInv, KeyInv, Finished, Making, NoLists, InDetach
    <2>6. PutInv'
      <3>1. /\ pc[p] = "idle" /\ pc' = [pc EXCEPT ![p] = "notify"]
            /\ sending' = [sending EXCEPT ![p] = {m}] /\ gate = NoProc /\ gate' = p
            /\ list' = [list EXCEPT ![1 - p] = Append(@, m)]
        OBVIOUS
      <3>2. /\ 1 - p \in Procs /\ list[1 - p] \in Seq(Messages)
            /\ Len(list[1 - p]) + 1 \in DOMAIN Append(list[1 - p], m)
            /\ Append(list[1 - p], m)[Len(list[1 - p]) + 1] = m
        BY DEF StateInv, TypeOK
      <3>3. list'[1 - p] = Append(list[1 - p], m) /\ sending'[p] = {m}
        BY <3>1, <3>2 DEF StateInv, TypeOK
      <3>4. \E j \in DOMAIN list'[1 - p] : sending'[p] = {list'[1 - p][j]}
        BY SMTT(30), <3>2, <3>3
      <3>5. pc[1 - p] \notin InPut /\ pc'[1 - p] = pc[1 - p]
        BY SMTT(30), <3>1, <3>2 DEF StateInv, PutInv, NoProc, TypeOK
      <3>6. sending[1 - p] = {} /\ sending'[1 - p] = {}
        BY SMTT(30), <3>1, <3>2, <3>5 DEF StateInv, PutInv, InPut, TypeOK
      <3>7. pc'[p] = "notify" /\ \A q \in Procs : q = p \/ q = 1 - p
        BY <3>1 DEF StateInv, TypeOK
      <3> QED BY SMTT(30), <3>1, <3>4, <3>5, <3>6, <3>7 DEF PutInv, InPut
    <2> QED BY <2>1, <2>2, <2>3, <2>4, <2>5, <2>6 DEF StateInv
  <1>25. ASSUME NEW p \in Procs, Quiet(PutNotify(p)) PROVE StateInv'
    <2> USE <1>25 DEF Task, Goto, object, swis, setup, ipcVars, Quiet, PutNotify,
           CanSend
    <2>1. TypeOK'
      BY DEF StateInv, TypeOK, InPut
    <2>2. ASSUME NEW q \in Procs PROVE CallInv(q)'
      BY DEF StateInv, CallInv, Finished, Making, NoTransport, NoLists, InAttach,
             InDetach, InPut
    <2>3. ASSUME NEW q \in Procs PROVE ObjectInv(q)'
      BY DEF StateInv, ObjectInv, Finished, Making, NoLists, NoTransport, NoEvent,
             NoMemory, NoServer
    <2>4. MemoryInv'
      BY DEF StateInv, MemoryInv, Finished, Making, NoLists, NoTransport, NoEvent,
             NoMemory, NoServer
    <2>5. KeyInv'
      BY DEF StateInv, KeyInv, Finished, Making, NoLists, InDetach
    <2>6. PutInv'
      BY DEF StateInv, TypeOK, CallInv, KeyInv, PutInv, NoProc, Finished, Making,
             Places, InAttach, InDetach, InPut
    <2> QED BY <2>1, <2>2, <2>3, <2>4, <2>5, <2>6 DEF StateInv
  <1>26. ASSUME NEW p \in Procs, Quiet(PutFail(p)) PROVE StateInv'
    <2> USE <1>26 DEF Task, Goto, object, swis, setup, ipcVars, Quiet, PutFail,
           CanSend
    <2>1. TypeOK'
      <3>1. list' \in [Procs -> Seq(Messages)]
        <4>1. PICK i \in DOMAIN list[1 - p] : list' = [list EXCEPT ![1 - p] = RemoveAt(@, i)]
          OBVIOUS
        <4>2. RemoveAt(list[1 - p], i) \in Seq(Messages)
          BY <4>1, ListRemoved DEF StateInv, TypeOK
        <4> QED BY <4>1, <4>2 DEF StateInv, TypeOK
      <3> QED BY <3>1 DEF StateInv, TypeOK, Places, InAttach, InDetach, InPut
    <2>2. ASSUME NEW q \in Procs PROVE CallInv(q)'
      BY DEF StateInv, CallInv, Finished, Making, NoTransport, NoLists, InAttach,
             InDetach, InPut
    <2>3. ASSUME NEW q \in Procs PROVE ObjectInv(q)'
      BY DEF StateInv, ObjectInv, Finished, Making, NoLists, NoTransport, NoEvent,
             NoMemory, NoServer
    <2>4. MemoryInv'
      BY DEF StateInv, MemoryInv, Finished, Making, NoLists, NoTransport, NoEvent,
             NoMemory, NoServer
    <2>5. KeyInv'
      BY DEF StateInv, KeyInv, Finished, Making, NoLists, InDetach
    <2>6. PutInv'
      BY DEF StateInv, TypeOK, CallInv, KeyInv, PutInv, NoProc, Finished, Making,
             Places, InAttach, InDetach, InPut
    <2> QED BY <2>1, <2>2, <2>3, <2>4, <2>5, <2>6 DEF StateInv
  <1>27. ASSUME NEW p \in Procs, Quiet(PutLeave(p)) PROVE StateInv'
    <2> USE <1>27 DEF Task, Goto, object, swis, setup, ipcVars, Quiet, PutLeave
    <2>1. TypeOK'
      BY DEF StateInv, TypeOK
    <2>2. ASSUME NEW q \in Procs PROVE CallInv(q)'
      BY DEF StateInv, CallInv, Finished, Making, NoTransport, NoLists, InAttach,
             InDetach, InPut
    <2>3. ASSUME NEW q \in Procs PROVE ObjectInv(q)'
      BY DEF StateInv, ObjectInv, Finished, Making, NoLists, NoTransport, NoEvent,
             NoMemory, NoServer
    <2>4. MemoryInv'
      BY DEF StateInv, MemoryInv, Finished, Making, NoLists, NoTransport, NoEvent,
             NoMemory, NoServer
    <2>5. KeyInv'
      BY DEF StateInv, KeyInv, Finished, Making, NoLists, InDetach
    <2>6. PutInv'
      BY DEF StateInv, TypeOK, CallInv, KeyInv, PutInv, NoProc, Finished, Making,
             Places, InAttach, InDetach, InPut
    <2> QED BY <2>1, <2>2, <2>3, <2>4, <2>5, <2>6 DEF StateInv
  <1>28. ASSUME NEW p \in Procs, Quiet(NotifyFxn(p)) PROVE StateInv'
    <2> USE <1>28 DEF Task, Goto, object, swis, setup, ipcVars, Quiet, NotifyFxn
    <2>1. TypeOK'
      BY DEF StateInv, TypeOK
    <2>2. ASSUME NEW q \in Procs PROVE CallInv(q)'
      BY DEF StateInv, CallInv, Finished, Making, NoTransport, NoLists
    <2>3. ASSUME NEW q \in Procs PROVE ObjectInv(q)'
      BY DEF StateInv, ObjectInv, Finished, Making, NoLists, NoTransport, NoEvent,
             NoMemory, NoServer
    <2>4. MemoryInv'
      BY DEF StateInv, MemoryInv, Finished, Making, NoLists, NoTransport, NoEvent,
             NoMemory, NoServer
    <2>5. KeyInv'
      BY DEF StateInv, KeyInv, Finished, Making, NoLists
    <2>6. PutInv'
      BY DEF StateInv, TypeOK, CallInv, KeyInv, PutInv, NoProc, Finished, Making,
             Places, InAttach, InDetach, InPut
    <2> QED BY <2>1, <2>2, <2>3, <2>4, <2>5, <2>6 DEF StateInv
  <1>29. ASSUME NEW p \in Procs, Quiet(SwiStart(p)) PROVE StateInv'
    <2> USE <1>29 DEF Task, Goto, object, swis, setup, ipcVars, Quiet, SwiStart
    <2>1. TypeOK'
      BY DEF StateInv, TypeOK
    <2>2. ASSUME NEW q \in Procs PROVE CallInv(q)'
      BY DEF StateInv, CallInv, Finished, Making, NoTransport, NoLists
    <2>3. ASSUME NEW q \in Procs PROVE ObjectInv(q)'
      BY DEF StateInv, ObjectInv, Finished, Making, NoLists, NoTransport, NoEvent,
             NoMemory, NoServer
    <2>4. MemoryInv'
      BY DEF StateInv, MemoryInv, Finished, Making, NoLists, NoTransport, NoEvent,
             NoMemory, NoServer
    <2>5. KeyInv'
      BY DEF StateInv, KeyInv, Finished, Making, NoLists
    <2>6. PutInv'
      BY DEF StateInv, TypeOK, CallInv, KeyInv, PutInv, NoProc, Finished, Making,
             Places, InAttach, InDetach, InPut
    <2> QED BY <2>1, <2>2, <2>3, <2>4, <2>5, <2>6 DEF StateInv
  <1>30. ASSUME NEW p \in Procs, Quiet(SwiTake(p)) PROVE StateInv'
    <2> USE <1>30 DEF Task, Goto, object, swis, setup, ipcVars, Quiet, SwiTake
    <2>1. TypeOK'
      BY DEF StateInv, TypeOK
    <2>2. ASSUME NEW q \in Procs PROVE CallInv(q)'
      BY DEF StateInv, CallInv, Finished, Making, NoTransport, NoLists
    <2>3. ASSUME NEW q \in Procs PROVE ObjectInv(q)'
      BY DEF StateInv, ObjectInv, Finished, Making, NoLists, NoTransport, NoEvent,
             NoMemory, NoServer
    <2>4. MemoryInv'
      BY DEF StateInv, MemoryInv, Finished, Making, NoLists, NoTransport, NoEvent,
             NoMemory, NoServer
    <2>5. KeyInv'
      BY DEF StateInv, KeyInv, Finished, Making, NoLists
    <2>6. PutInv'
      BY DEF StateInv, TypeOK, CallInv, KeyInv, PutInv, NoProc, Finished, Making,
             Places, InAttach, InDetach, InPut
    <2> QED BY <2>1, <2>2, <2>3, <2>4, <2>5, <2>6 DEF StateInv
  <1>31. ASSUME NEW p \in Procs, Quiet(SwiEnd(p)) PROVE StateInv'
    <2> USE <1>31 DEF Task, Goto, object, swis, setup, ipcVars, Quiet, SwiEnd
    <2>1. TypeOK'
      BY DEF StateInv, TypeOK
    <2>2. ASSUME NEW q \in Procs PROVE CallInv(q)'
      BY DEF StateInv, CallInv, Finished, Making, NoTransport, NoLists
    <2>3. ASSUME NEW q \in Procs PROVE ObjectInv(q)'
      BY DEF StateInv, ObjectInv, Finished, Making, NoLists, NoTransport, NoEvent,
             NoMemory, NoServer
    <2>4. MemoryInv'
      BY DEF StateInv, MemoryInv, Finished, Making, NoLists, NoTransport, NoEvent,
             NoMemory, NoServer
    <2>5. KeyInv'
      BY DEF StateInv, KeyInv, Finished, Making, NoLists
    <2>6. PutInv'
      BY DEF StateInv, TypeOK, CallInv, KeyInv, PutInv, NoProc, Finished, Making,
             Places, InAttach, InDetach, InPut
    <2> QED BY <2>1, <2>2, <2>3, <2>4, <2>5, <2>6 DEF StateInv
  <1>32. ASSUME UNCHANGED vars PROVE StateInv'
    <2> USE <1>32 DEF vars, shmVars, object, swis, setup, ipcVars
    <2>1. TypeOK' /\ MemoryInv' /\ KeyInv' /\ PutInv'
      BY DEF StateInv, TypeOK, MemoryInv, KeyInv, PutInv, Finished
    <2>2. ASSUME NEW q \in Procs PROVE CallInv(q)' /\ ObjectInv(q)'
      BY DEF StateInv, CallInv, ObjectInv, Finished
    <2> QED BY <2>1, <2>2 DEF StateInv
  <1>33. ASSUME NEW p \in Procs, AttachStep(p) \/ Quiet(InitStep(p)) PROVE StateInv'
    BY <1>2, <1>3, <1>4, <1>5, <1>6, <1>7, <1>9, <1>10, <1>11, <1>12, <1>13,
       <1>14, <1>33
       DEF AttachStep, InitStep, Quiet
  <1>34. ASSUME NEW p \in Procs, DetachStep(p) \/ Quiet(FinalizeStep(p)) PROVE StateInv'
    BY <1>15, <1>16, <1>17, <1>18, <1>19, <1>20, <1>21, <1>22, <1>23, <1>34
       DEF DetachStep, FinalizeStep, Quiet
  <1>35. ASSUME NEW p \in Procs, Quiet(PutStep(p)) \/ Quiet(NotifyFxn(p)) \/ Quiet(SwiStep(p)) PROVE StateInv'
    BY <1>25, <1>26, <1>27, <1>28, <1>29, <1>30, <1>31, <1>35
       DEF PutStep, SwiStep, Quiet
  <1> QED
    BY <1>1, <1>8, <1>24, <1>32, <1>33, <1>34, <1>35 DEF Next, TaskStep

(* The state invariant holds before anyone attaches.                       *)
LEMMA StateInit == Init => StateInv
  <1> USE IpcAssumption
      DEF Init, InitTransport, Procs, Slave, Master, Peer
  <1>1. Init => TypeOK
    <2> SUFFICES ASSUME Init PROVE TypeOK
      OBVIOUS
    <2>1. /\ 0 \in 0 .. RingRoom /\ 0 \in 0 .. MaxAttached /\ 0 \in 0 .. MaxFailures
          /\ <<>> \in Seq(Messages)
      OBVIOUS
    <2>2. held \in [Procs -> SUBSET Messages]
      OBVIOUS
    <2>3. /\ startedKey \in [Procs -> Keys] /\ goal \in [Procs -> Goals]
          /\ attached \in [Procs -> 0 .. MaxAttached] /\ failures \in 0 .. MaxFailures
          /\ srPtr \in [Setups -> BOOLEAN] /\ memory \in [Setups -> BOOLEAN]
      BY <2>1 DEF Keys, Goals
    <2>4. /\ event \in [Procs -> 0 .. RingRoom] /\ list \in [Procs -> Seq(Messages)]
      BY <2>1
    <2> QED BY <2>2, <2>3, <2>4 DEF TypeOK
  <1>2. Init => \A p \in Procs : CallInv(p) /\ ObjectInv(p)
    BY DEF CallInv, ObjectInv, Finished, InAttach, InDetach, InPut, Making
  <1>3. Init => MemoryInv /\ KeyInv
    BY DEF MemoryInv, KeyInv, Finished, InDetach, Making, Setups
  <1>4. Init => PutInv
    BY DEF PutInv, InPut, NoProc
  <1> QED BY <1>1, <1>2, <1>3, <1>4 DEF StateInv

(* The state invariant holds of every behaviour.                           *)
LEMMA StateInvariant == Spec => []StateInv
  BY StateInit, StateStep, PTL DEF Spec

(***************************************************************************)
(* Every variable keeps its type.  The bound on failures needs more than   *)
(* the types: the master never finds the flag down, so it never fails for  *)
(* that reason.                                                            *)
(***************************************************************************)
THEOREM TypeCorrect == Spec => []TypeOK
  <1>1. StateInv => TypeOK
    BY DEF StateInv
  <1> QED BY <1>1, StateInvariant, PTL

(***************************************************************************)
(* What the master has open lies in memory that the slave has not freed,   *)
(* and a processor that has attached and not begun to detach finds the     *)
(* other serving it, unless the other has begun to detach; this is         *)
(* procSyncStart, procSyncFinish and Ipc_detach together.                  *)
(***************************************************************************)
THEOREM PeersServe == Spec => []PeersAreThere
  <1> USE DEF Procs, Slave, Master, Peer
  <1>1. StateInv => OpenIsLive
    <2> SUFFICES ASSUME StateInv PROVE OpenIsLive
      OBVIOUS
    <2>1. notify[Master] \/ nameServer[Master] \/ transport[Master] \/ open[Master]
            => Finished(Slave) /\ pc[Slave] \notin InDetach
      BY DEF StateInv, KeyInv, ObjectInv, Finished, Making, TypeOK, Keys
    <2>2. Finished(Slave) /\ pc[Slave] \notin InDetach
            => open[Slave] /\ \A s \in Setups : memory[s]
      BY DEF StateInv, MemoryInv, ObjectInv, Setups, InDetach,
             NoLists, NoTransport, NoEvent, NoMemory, NoServer
    <2> QED BY <2>1, <2>2 DEF OpenIsLive, IsRegistered, Setups
  <1>2. StateInv => AttachedIsReachable
    <2> SUFFICES ASSUME StateInv, NEW p \in Procs, attached[p] > 0, pc[p] \notin InDetach
                 PROVE  \/ Serving(Peer(p))
                        \/ p = Slave /\ (pc[Master] \in InDetach \/ startedKey[Master] = "DETACH")
      BY DEF AttachedIsReachable
    <2>1. ASSUME NEW q \in Procs, Finished(q), pc[q] \notin InDetach PROVE Serving(q)
      BY <2>1 DEF StateInv, ObjectInv, Serving, InDetach,
                  NoLists, NoTransport, NoEvent, NoMemory, NoServer
    <2>2. CASE p = Master
      <3>1. Finished(Slave) /\ pc[Slave] \notin InDetach
        BY <2>2 DEF StateInv, CallInv, KeyInv, Finished
      <3> QED BY <2>1, <2>2, <3>1
    <2>3. CASE p = Slave
      <3>1. Finished(Master) \/ startedKey[Master] = "DETACH"
        BY <2>3 DEF StateInv, KeyInv, Finished
      <3> QED BY <2>1, <2>3, <3>1
    <2> QED BY <2>2, <2>3
  <1> QED BY <1>1, <1>2, StateInvariant, PTL DEF PeersAreThere
-----------------------------------------------------------------------------
(* Where the slave has made the lists and not said so yet.                 *)
Fresh == {"event", "register", "flag", "finish"}

(* Nobody has put anything before the master has attached.                 *)
LEMMA FreshStep == StateInv /\ FreshInv /\ [Next]_vars => FreshInv'
  <1> SUFFICES ASSUME StateInv, FreshInv, [Next]_vars,
                      \/ pc'[Slave] \in Fresh
                      \/ startedKey'[Slave] = "FINISH" /\ startedKey'[Master] = "START"
               PROVE  \A p \in Procs : list'[p] = <<>>
    BY DEF FreshInv, Fresh, Finished
  <1> USE DEF Procs, Slave, Master, Peer, Fresh
  <1>f. \/ pc[Slave] \in Fresh
        \/ startedKey[Slave] = "FINISH" /\ startedKey[Master] = "START"
        => \A p \in Procs : list[p] = <<>>
    BY DEF FreshInv, Finished
  <1>t. /\ pc \in [Procs -> Places] /\ startedKey \in [Procs -> Keys]
        /\ list \in [Procs -> Seq(Messages)]
    BY DEF StateInv, TypeOK, Places
  <1>1. ASSUME UNCHANGED <<list, startedKey>>, pc'[Slave] \in Fresh => pc[Slave] \in Fresh
        PROVE  \A p \in Procs : list'[p] = <<>>
    BY <1>1, <1>f
  <1>2. ASSUME NEW p \in Procs, NEW g \in Goals, Decide(p, g)
        PROVE  \A q \in Procs : list'[q] = <<>>
    BY <1>1, <1>2 DEF Decide, shmVars
  <1>3. ASSUME NEW p \in Procs,
               \/ AttachAgain(p) \/ AttachReadKey(p) \/ AttachNotify(p) \/ AttachNameServer(p)
               \/ AttachFails(p) \/ AttachWait(p)
        PROVE  \A q \in Procs : list'[q] = <<>>
    <2>1. UNCHANGED <<list, startedKey>>
      <3>1. CASE AttachAgain(p) \/ AttachReadKey(p) \/ AttachWait(p)
        BY <3>1 DEF AttachAgain, AttachReadKey, AttachWait, shmVars, ipcVars
      <3>2. CASE AttachNotify(p) \/ AttachNameServer(p) \/ AttachFails(p)
        BY <3>2 DEF AttachNotify, AttachNameServer, AttachFails, Setup, SetupFails
      <3> QED BY <1>3, <3>1, <3>2
    <2>2. pc' = pc \/ \E to \in Places \ Fresh : pc' = [pc EXCEPT ![p] = to]
      BY <1>3 DEF AttachAgain, AttachReadKey, AttachNotify, AttachNameServer,
             AttachFails,
                  AttachWait, Setup, SetupFails, Attached, Goto, shmVars, Places, InAttach
    <2> QED BY <1>1, <1>t, <2>1, <2>2
  <1>4. ASSUME NEW p \in Procs, AttachCall(p) PROVE \A q \in Procs : list'[q] = <<>>
    BY <1>4, <1>f, <1>t DEF AttachCall, MayStart, Goto
  <1>5. ASSUME NEW p \in Procs, AttachTransport(p) PROVE \A q \in Procs : list'[q] = <<>>
    <2>1. ~transport[p]
      BY <1>5 DEF AttachTransport, Setup, Task, StateInv, CallInv, ObjectInv,
             Making, Finished
    <2>2. UNCHANGED <<list, startedKey>> /\ pc' = [pc EXCEPT ![p] = "lists"]
      BY <1>5, <2>1 DEF AttachTransport, Setup, Goto, IsRegistered
    <2> QED BY <1>1, <1>t, <2>2
  <1>6. ASSUME NEW p \in Procs, AttachFinish(p) PROVE \A q \in Procs : list'[q] = <<>>
    <2>1. /\ pc[p] = "finish" /\ list' = list
          /\ startedKey' = [startedKey EXCEPT ![p] = "FINISH"]
          /\ \E to \in {"idle", "wait"} : pc' = [pc EXCEPT ![p] = to]
      BY <1>6 DEF AttachFinish, Attached, Task, Goto
    <2> QED BY <1>f, <1>t, <2>1
  <1>7. ASSUME NEW p \in Procs, Quiet(InitStep(p)) PROVE \A q \in Procs : list'[q] = <<>>
    <2>1. CASE InitLists(p)
      <3>1. CASE p = Slave
        BY <2>1, <3>1 DEF InitLists
      <3>2. CASE p = Master
        BY <1>7, <1>1, <1>t, <2>1, <3>2 DEF InitLists, Goto, Quiet, ipcVars
      <3> QED BY <3>1, <3>2
    <2>2. CASE InitEvent(p) \/ InitRegister(p) \/ InitFlag(p)
      BY <1>7, <1>1, <1>t, <2>2 DEF InitEvent, InitRegister, InitFlag, Task, Goto,
             Quiet, ipcVars
    <2> QED BY <1>7, <2>1, <2>2 DEF Quiet, InitStep
  <1>8. ASSUME NEW p \in Procs, DetachStep(p) PROVE \A q \in Procs : list'[q] = <<>>
    <2>1. CASE DetachOnce(p)
      BY <1>1, <2>1 DEF DetachOnce, shmVars
    <2>2. CASE Detached(p)
      <3>1. /\ list' = list /\ startedKey' = [startedKey EXCEPT ![p] = "DETACH"]
            /\ pc' = [pc EXCEPT ![p] = "idle"] 
        BY <2>2 DEF Detached, Goto
      <3> QED BY <1>f, <1>t, <3>1
    <2>3. CASE DetachCall(p) \/ DetachTransport(p) \/ DetachNameServer(p) \/ DetachNotify(p)
      <3>1. UNCHANGED <<list, startedKey>>
        BY <2>3 DEF DetachCall, DetachTransport, DetachNameServer, DetachNotify,
               ipcVars
      <3>2. \E to \in Places \ Fresh : pc' = [pc EXCEPT ![p] = to]
        BY <2>3 DEF DetachCall, DetachTransport, DetachNameServer, DetachNotify,
               Goto, Places,
                    InDetach
      <3> QED BY <1>1, <1>t, <3>1, <3>2
    <2> QED BY <1>8, <2>1, <2>2, <2>3 DEF DetachStep
  <1>9. ASSUME NEW p \in Procs, Quiet(FinalizeStep(p)) PROVE \A q \in Procs : list'[q] = <<>>
    <2>1. CASE p = Slave /\ FinalizeLists(p)
      BY <2>1 DEF FinalizeLists
    <2>2. CASE ~(p = Slave /\ FinalizeLists(p))
      BY <1>9, <1>1, <1>t, <2>2
         DEF FinalizeStep, FinalizeLists, FinalizeRegister, FinalizeEvent, Goto,
                Quiet, ipcVars
    <2> QED BY <2>1, <2>2
  <1>10. ASSUME NEW p \in Procs, NEW m \in Messages, Quiet(PutLink(p, m)) PROVE FALSE
    <2>1. pc[p] = "idle" /\ transport[p] /\ UNCHANGED startedKey /\ pc' = [pc EXCEPT ![p] = "notify"]
      BY <1>10 DEF PutLink, Task, Goto, Quiet, ipcVars
    <2>2. Finished(p) /\ attached[p] > 0
      BY <2>1 DEF StateInv, ObjectInv, CallInv, Finished
    <2>3. CASE p = Slave
      BY <1>t, <2>1, <2>2, <2>3 DEF StateInv, KeyInv
    <2>4. CASE p = Master
      BY <1>t, <2>1, <2>2, <2>4 DEF StateInv, KeyInv, Finished, Making
    <2> QED BY <2>3, <2>4
  <1>11. ASSUME NEW p \in Procs, Quiet(PutStep(p)) PROVE \A q \in Procs : list'[q] = <<>>
    <2>1. pc[p] \in InPut /\ UNCHANGED startedKey /\ \E to \in {"leave", "idle"} : pc' = [pc EXCEPT ![p] = to]
      BY <1>11 DEF PutStep, PutNotify, PutFail, PutLeave, Task, Goto, Quiet,
             ipcVars, InPut
    <2>2. Finished(p) /\ attached[p] > 0
      BY <2>1 DEF StateInv, CallInv, InPut
    <2>3. CASE p = Slave
      BY <1>t, <2>1, <2>2, <2>3 DEF StateInv, KeyInv
    <2>4. CASE p = Master
      BY <1>t, <2>1, <2>2, <2>4 DEF StateInv, KeyInv, Finished, Making
    <2> QED BY <2>3, <2>4
  <1>12. ASSUME NEW p \in Procs, Quiet(NotifyFxn(p)) \/ Quiet(SwiStep(p))
         PROVE  \A q \in Procs : list'[q] = <<>>
    <2>1. UNCHANGED <<pc, startedKey>>
      BY <1>12 DEF NotifyFxn, SwiStep, SwiStart, SwiTake, SwiEnd, Quiet, ipcVars
    <2>2. \A q \in Procs : list[q] = <<>>
      BY <1>f, <2>1
    <2>3. list' = list
      BY <1>12, <2>2 DEF NotifyFxn, SwiStep, SwiStart, SwiTake, SwiEnd, Quiet
    <2> QED BY <2>2, <2>3
  <1>13. ASSUME UNCHANGED vars PROVE \A q \in Procs : list'[q] = <<>>
    BY <1>1, <1>13 DEF vars, shmVars, ipcVars
  <1>14. ASSUME NEW p \in Procs, AttachStep(p) PROVE \A q \in Procs : list'[q] = <<>>
    BY <1>3, <1>4, <1>5, <1>6, <1>14 DEF AttachStep
  <1> QED
    BY <1>2, <1>3, <1>7, <1>8, <1>9, <1>10, <1>11, <1>12, <1>13, <1>14 DEF Next,
           TaskStep, Goals
-----------------------------------------------------------------------------
(* What ToSet holds after a message is added to a list or taken off it.    *)
LEMMA ListAppended ==
    ASSUME NEW s \in Seq(Messages), NEW m \in Messages
    PROVE  ToSet(Append(s, m)) = ToSet(s) \cup {m}
  <1>1. /\ Len(s) \in Nat /\ DOMAIN s = 1 .. Len(s)
        /\ DOMAIN Append(s, m) = 1 .. Len(s) + 1
        /\ Append(s, m)[Len(s) + 1] = m
        /\ \A j \in 1 .. Len(s) : Append(s, m)[j] = s[j]
    OBVIOUS
  <1>2. ASSUME NEW x \in ToSet(Append(s, m)) PROVE x \in ToSet(s) \cup {m}
    <2>1. PICK j \in 1 .. Len(s) + 1 : x = Append(s, m)[j]
      BY <1>1, <1>2 DEF ToSet
    <2>2. CASE j = Len(s) + 1
      BY <1>1, <2>1, <2>2
    <2>3. CASE j \in 1 .. Len(s)
      BY <1>1, <2>1, <2>3 DEF ToSet
    <2> QED BY <1>1, <2>2, <2>3
  <1>3. ASSUME NEW x \in ToSet(s) PROVE x \in ToSet(Append(s, m))
    BY <1>1 DEF ToSet
  <1>4. m \in ToSet(Append(s, m))
    BY <1>1 DEF ToSet
  <1> QED BY <1>2, <1>3, <1>4

(* What remains of a list when one message is taken from within.           *)
LEMMA ListTaken ==
    ASSUME NEW s \in Seq(Messages), NEW i \in DOMAIN s,
           \A j, k \in DOMAIN s : s[j] = s[k] => j = k
    PROVE  /\ ToSet(RemoveAt(s, i)) = ToSet(s) \ {s[i]}
           /\ \A j, k \in DOMAIN RemoveAt(s, i) : RemoveAt(s, i)[j] = RemoveAt(s, i)[k] => j = k
  <1>1. /\ RemoveAt(s, i) \in Seq(Messages) /\ Len(RemoveAt(s, i)) = Len(s) - 1
        /\ \A j \in 1 .. Len(s) - 1 : RemoveAt(s, i)[j] = IF j < i THEN s[j] ELSE s[j + 1]
    BY ListRemoved
  <1>2. i \in 1 .. Len(s) /\ DOMAIN s = 1 .. Len(s) /\ Len(s) \in Nat
    OBVIOUS
  <1> DEFINE r == RemoveAt(s, i)
  <1> HIDE DEF r
  <1>3. ASSUME NEW x \in ToSet(r) PROVE x \in ToSet(s) \ {s[i]}
    <2>1. PICK j \in 1 .. Len(s) - 1 : x = IF j < i THEN s[j] ELSE s[j + 1]
      BY <1>1, <1>2, <1>3 DEF ToSet, r
    <2> DEFINE k == IF j < i THEN j ELSE j + 1
    <2>2. k \in 1 .. Len(s) /\ k # i
      BY <1>2
    <2> QED BY <1>2, <2>1, <2>2 DEF ToSet
  <1>4. ASSUME NEW x \in ToSet(s) \ {s[i]} PROVE x \in ToSet(r)
    <2>1. PICK k \in 1 .. Len(s) : x = s[k]
      BY <1>2 DEF ToSet
    <2> DEFINE j == IF k < i THEN k ELSE k - 1
    <2>2. j \in 1 .. Len(s) - 1 /\ k = IF j < i THEN j ELSE j + 1
      BY <1>2, <1>4, <2>1
    <2>3. r[j] = x
      BY <1>1, <2>1, <2>2 DEF r
    <2>4. j \in DOMAIN r
      BY <1>1, <2>2 DEF r
    <2> QED BY <2>3, <2>4 DEF ToSet
  <1>5. ASSUME NEW j \in DOMAIN r, NEW k \in DOMAIN r, r[j] = r[k] PROVE j = k
    <2>1. j \in 1 .. Len(s) - 1 /\ k \in 1 .. Len(s) - 1
      BY <1>1, <1>2 DEF r
    <2>2. (IF j < i THEN s[j] ELSE s[j + 1]) = (IF k < i THEN s[k] ELSE s[k + 1])
      BY <1>1, <1>5, <2>1 DEF r
    <2> QED BY <1>2, <2>1, <2>2
  <1> QED BY <1>3, <1>4, <1>5 DEF r

(* What remains of a list when its first message is taken.                 *)
LEMMA ListHead ==
    ASSUME NEW s \in Seq(Messages), s # <<>>,
           \A j, k \in DOMAIN s : s[j] = s[k] => j = k
    PROVE  /\ Head(s) \in ToSet(s)
           /\ ToSet(Tail(s)) = ToSet(s) \ {Head(s)}
           /\ \A j, k \in DOMAIN Tail(s) : Tail(s)[j] = Tail(s)[k] => j = k
  <1>1. /\ Len(s) \in Nat \ {0} /\ DOMAIN s = 1 .. Len(s) /\ Head(s) = s[1]
        /\ DOMAIN Tail(s) = 1 .. Len(s) - 1
        /\ \A j \in 1 .. Len(s) - 1 : Tail(s)[j] = s[j + 1]
    OBVIOUS
  <1>2. ASSUME NEW x \in ToSet(Tail(s)) PROVE x \in ToSet(s) \ {Head(s)}
    <2>1. PICK j \in 1 .. Len(s) - 1 : x = s[j + 1]
      BY <1>1 DEF ToSet
    <2>2. j + 1 \in 1 .. Len(s) /\ j + 1 # 1 /\ 1 \in 1 .. Len(s)
      BY <1>1
    <2> QED BY <1>1, <2>1, <2>2 DEF ToSet
  <1>3. ASSUME NEW x \in ToSet(s) \ {Head(s)} PROVE x \in ToSet(Tail(s))
    <2>1. PICK k \in 1 .. Len(s) : x = s[k]
      BY <1>1 DEF ToSet
    <2>2. k - 1 \in 1 .. Len(s) - 1 /\ k = (k - 1) + 1
      BY <1>1, <1>3, <2>1
    <2>3. Tail(s)[k - 1] = x
      BY <1>1, <2>1, <2>2
    <2> QED BY <1>1, <2>2, <2>3 DEF ToSet
  <1>4. Head(s) \in ToSet(s)
    BY <1>1 DEF ToSet
  <1>5. ASSUME NEW j \in DOMAIN Tail(s), NEW k \in DOMAIN Tail(s), Tail(s)[j] = Tail(s)[k]
        PROVE  j = k
    <2>1. j + 1 \in 1 .. Len(s) /\ k + 1 \in 1 .. Len(s) /\ s[j + 1] = s[k + 1]
      BY <1>1, <1>5
    <2> QED BY <1>1, <2>1
  <1> QED BY <1>2, <1>3, <1>4, <1>5

(* What OneOwner says beyond PutInv.                                       *)
Apart ==
    /\ held[Slave] \cap held[Master] = {}
    /\ ToSet(list[Slave]) \cap ToSet(list[Master]) = {}
    /\ \A p, q \in Procs : held[p] \cap ToSet(list[q]) = {}
    /\ \A p \in Procs : \A i, j \in DOMAIN list[p] : list[p][i] = list[p][j] => i = j

(* With the state invariant, which places the message being put, Apart is  *)
(* all of OneOwner.                                                        *)
LEMMA OneOwnerIsApart == StateInv => (OneOwner <=> Apart)
  <1> SUFFICES ASSUME StateInv, NEW p \in Procs PROVE sending[p] \subseteq ToSet(list[Peer(p)])
    BY DEF OneOwner, Apart
  <1> QED BY DEF StateInv, PutInv, ToSet

(* Every step moves a message from one owner to another.                   *)
LEMMA OwnerStep == StateInv /\ Apart /\ [Next]_vars => Apart'
  <1> SUFFICES ASSUME StateInv, Apart, [Next]_vars PROVE Apart'
    OBVIOUS
  <1> USE DEF Procs, Slave, Master, Peer
  <1>t. /\ list \in [Procs -> Seq(Messages)] /\ held \in [Procs -> SUBSET Messages]
        /\ sending \in [Procs -> SUBSET Messages]
    BY DEF StateInv, TypeOK
  <1>1. ASSUME UNCHANGED <<list, held>> PROVE Apart'
    BY <1>1 DEF Apart
  <1>2. ASSUME UNCHANGED held, \A p \in Procs : list'[p] = <<>> PROVE Apart'
    BY <1>2 DEF Apart, ToSet
  <1>3. ASSUME NEW p \in Procs, NEW m \in Messages, Quiet(PutLink(p, m)) PROVE Apart'
    <2>1. /\ m \in held[p]
          /\ held' = [held EXCEPT ![p] = @ \ {m}]
          /\ list' = [list EXCEPT ![Peer(p)] = Append(@, m)]
      BY <1>3 DEF Quiet, PutLink
    <2>2. ToSet(list'[Peer(p)]) = ToSet(list[Peer(p)]) \cup {m} /\ list'[p] = list[p]
      BY <1>t, <2>1, ListAppended
    <2>3. m \notin ToSet(list[Peer(p)]) /\ m \notin ToSet(list[p]) /\ m \notin held[Peer(p)]
      BY <2>1 DEF Apart
    <2>4. \A i, j \in DOMAIN list'[Peer(p)] : list'[Peer(p)][i] = list'[Peer(p)][j] => i = j
      <3> DEFINE s == list[Peer(p)]
      <3>1. /\ list'[Peer(p)] = Append(s, m) /\ s \in Seq(Messages)
            /\ \A i, j \in DOMAIN s : s[i] = s[j] => i = j
            /\ \A i \in DOMAIN s : s[i] # m
        BY <1>t, <2>1, <2>3 DEF Apart, ToSet
      <3> HIDE DEF s
      <3> QED BY <3>1
    <2> QED BY <1>t, <2>1, <2>2, <2>3, <2>4 DEF Apart
  <1>4. ASSUME NEW p \in Procs, Quiet(PutFail(p)) PROVE Apart'
    <2>1. PICK i \in DOMAIN list[Peer(p)] :
             /\ list[Peer(p)][i] \in sending[p]
             /\ list' = [list EXCEPT ![Peer(p)] = RemoveAt(@, i)]
      BY <1>4 DEF Quiet, PutFail
    <2> DEFINE m == list[Peer(p)][i]
               s == list[Peer(p)]
    <2>2. sending[p] = {m}
      BY <1>4, <2>1 DEF Quiet, PutFail, Task, StateInv, PutInv
    <2>3. held' = [held EXCEPT ![p] = @ \cup {m}]
      BY <1>4, <2>2 DEF Quiet, PutFail
    <2>4. s \in Seq(Messages) /\ \A j, k \in DOMAIN s : s[j] = s[k] => j = k
      BY <1>t DEF Apart
    <2>5. /\ list'[Peer(p)] = RemoveAt(s, i) /\ list'[p] = list[p]
          /\ ToSet(RemoveAt(s, i)) = ToSet(s) \ {m}
          /\ \A j, k \in DOMAIN RemoveAt(s, i) : RemoveAt(s, i)[j] = RemoveAt(s, i)[k] => j = k
      BY <1>t, <2>1, <2>4, ListTaken
    <2>6. m \in ToSet(s)
      BY <2>1 DEF ToSet
    <2> HIDE DEF m
    <2> QED BY <1>t, <2>3, <2>5, <2>6 DEF Apart
  <1>5. ASSUME NEW p \in Procs, Quiet(SwiTake(p)) PROVE Apart'
    <2> DEFINE s == list[p]
    <2>1. /\ s # <<>>
          /\ held' = [held EXCEPT ![p] = @ \cup {Head(s)}]
          /\ list' = [list EXCEPT ![p] = Tail(@)]
      BY <1>5 DEF Quiet, SwiTake
    <2>2. s \in Seq(Messages) /\ \A j, k \in DOMAIN s : s[j] = s[k] => j = k
      BY <1>t DEF Apart
    <2>3. /\ list'[p] = Tail(s) /\ list'[Peer(p)] = list[Peer(p)]
          /\ Head(s) \in ToSet(s) /\ ToSet(Tail(s)) = ToSet(s) \ {Head(s)}
          /\ \A j, k \in DOMAIN Tail(s) : Tail(s)[j] = Tail(s)[k] => j = k
      BY <1>t, <2>1, <2>2, ListHead
    <2> QED BY <1>t, <2>1, <2>3 DEF Apart
  <1>6. ASSUME NEW p \in Procs, Quiet(InitStep(p)) \/ Quiet(FinalizeStep(p)) PROVE Apart'
    BY <1>1, <1>2, <1>6 DEF Quiet, InitStep, InitLists, InitEvent, InitRegister,
           InitFlag,
       FinalizeStep, FinalizeLists, FinalizeRegister, FinalizeEvent
  <1>7. ASSUME NEW p \in Procs,
               \/ AttachStep(p) \/ DetachStep(p) \/ AttachFails(p) \/ Quiet(NotifyFxn(p))
               \/ \E g \in Goals : Decide(p, g)
        PROVE  UNCHANGED <<list, held>>
    <2>1. CASE AttachStep(p)
      <3>1. CASE AttachNotify(p) \/ AttachNameServer(p) \/ AttachTransport(p)
        BY <3>1 DEF AttachNotify, AttachNameServer, AttachTransport, Setup
      <3>2. CASE ~(AttachNotify(p) \/ AttachNameServer(p) \/ AttachTransport(p))
        BY <2>1, <3>2 DEF AttachStep, AttachAgain, AttachCall, AttachReadKey,
               AttachFinish,
                          AttachWait, shmVars
      <3> QED BY <3>1, <3>2
    <2>2. CASE DetachStep(p)
      BY <2>2 DEF DetachStep, DetachOnce, DetachCall, DetachTransport,
             DetachNameServer,
                  DetachNotify, Detached, shmVars
    <2>3. CASE AttachFails(p) \/ Quiet(NotifyFxn(p)) \/ \E g \in Goals : Decide(p, g)
      BY <2>3 DEF AttachFails, SetupFails, Quiet, NotifyFxn, Decide, shmVars
    <2> QED BY <1>7, <2>1, <2>2, <2>3
  <1>8. ASSUME NEW p \in Procs, Quiet(PutStep(p)) \/ Quiet(SwiStep(p)) PROVE Apart'
    <2>1. CASE Quiet(PutNotify(p)) \/ Quiet(PutLeave(p)) \/ Quiet(SwiStart(p)) \/ Quiet(SwiEnd(p))
      BY <1>1, <2>1 DEF Quiet, PutNotify, PutLeave, SwiStart, SwiEnd
    <2> QED BY <1>4, <1>5, <1>8, <2>1 DEF Quiet, PutStep, SwiStep
  <1>9. ASSUME UNCHANGED vars PROVE UNCHANGED <<list, held>>
    BY <1>9 DEF vars, shmVars
  <1> QED BY <1>1, <1>3, <1>6, <1>7, <1>8, <1>9 DEF Next, TaskStep, Goals

(***************************************************************************)
(* Every list that is served and not empty has somebody coming for it.     *)
(***************************************************************************)
Served(p) == event[p] > 0 \/ posted[p] \/ swi[p] \/ sending[Peer(p)] # {}

(* Every step keeps a message on a list within reach of its receiver.      *)
LEMMA StrandedStep ==
    StateInv /\ FreshInv /\ NoStranded /\ [Next]_vars => NoStranded'
  <1> SUFFICES ASSUME StateInv, FreshInv, NoStranded, [Next]_vars,
                      NEW q \in Procs, list'[q] # <<>>, open'[q], registered'[q]
               PROVE  Served(q)'
    BY DEF NoStranded, Served
  <1> USE DEF Procs, Slave, Master, Peer
  <1>t. /\ list \in [Procs -> Seq(Messages)] /\ event \in [Procs -> 0 .. RingRoom]
        /\ sending \in [Procs -> SUBSET Messages] /\ posted \in [Procs -> BOOLEAN]
        /\ swi \in [Procs -> BOOLEAN] /\ open \in [Procs -> BOOLEAN]
        /\ registered \in [Procs -> BOOLEAN] /\ pc \in [Procs -> Places]
        /\ RingRoom \in Nat \ {0} /\ driver \in {"shm", "circ"}
    BY IpcAssumption DEF StateInv, TypeOK, Places, Drivers
  <1>s. list[q] # <<>> /\ open[q] /\ registered[q] => Served(q)
    BY DEF NoStranded, Served
  <1>1. ASSUME UNCHANGED <<list, open, registered, event, swis, sending>> PROVE Served(q)'
    BY <1>1, <1>s DEF Served, swis
  <1>2. ASSUME NEW p \in Procs,
               \/ AttachStep(p) /\ ~AttachNotify(p)
               \/ AttachFails(p) \/ \E g \in Goals : Decide(p, g)
        PROVE  Served(q)'
    <2>1. CASE AttachNameServer(p) \/ AttachTransport(p) \/ AttachFails(p)
      BY <1>1, <2>1 DEF AttachNameServer, AttachTransport, AttachFails, Setup,
             SetupFails, object
    <2>2. CASE \E g \in Goals : Decide(p, g)
      BY <1>1, <2>2 DEF Decide, shmVars, object
    <2>3. CASE AttachAgain(p) \/ AttachCall(p) \/ AttachReadKey(p) \/ AttachFinish(p) \/ AttachWait(p)
      BY <1>1, <2>3 DEF AttachAgain, AttachCall, AttachReadKey, AttachFinish,
             AttachWait,
                        shmVars, object
    <2> QED BY <1>2, <2>1, <2>2, <2>3 DEF AttachStep
  <1>3. ASSUME NEW p \in Procs, AttachNotify(p) PROVE Served(q)'
    <2>1. UNCHANGED <<list, open, registered, swis, sending>>
      BY <1>3 DEF AttachNotify, Setup, object
    <2>2. CASE event' = event
      BY <1>1, <2>1, <2>2
    <2>3. CASE event' # event
      <3>1. p = Slave /\ pc[Slave] = "attachNotify"
        BY <1>3, <2>3 DEF AttachNotify, Setup, Task
      <3>2. startedKey[Master] = "START" /\ startedKey[Slave] = "START"
        BY <3>1 DEF StateInv, KeyInv, CallInv, Making
      <3>3. ~registered[Slave] /\ ~registered[Master]
        BY <3>1, <3>2 DEF StateInv, ObjectInv, KeyInv, Finished, Making
      <3> QED BY <2>1, <3>3
    <2> QED BY <2>2, <2>3
  <1>4. ASSUME NEW p \in Procs, DetachStep(p) PROVE Served(q)'
    BY <1>1, <1>4 DEF DetachStep, DetachOnce, DetachCall, DetachTransport,
           DetachNameServer,
                      DetachNotify, Detached, shmVars, object
  <1>5. ASSUME NEW p \in Procs, Quiet(InitStep(p)) PROVE Served(q)'
    <2>1. CASE InitLists(p)
      <3>1. CASE q = p
        <4>1. ~registered[p] /\ registered' = registered
          BY <2>1 DEF InitLists, Task, StateInv, CallInv, ObjectInv, Making,
                 Finished
        <4> QED BY <3>1, <4>1
      <3>2. CASE q # p /\ p = Slave
        BY <2>1, <3>2 DEF InitLists
      <3>3. CASE q # p /\ p = Master
        BY <1>s, <1>t, <2>1, <3>3 DEF InitLists, Served, swis
      <3> QED BY <3>1, <3>2, <3>3
    <2>2. CASE InitEvent(p)
      <3>1. CASE q = p
        <4>1. pc[p] = "event" /\ list' = list
          BY <2>2 DEF InitEvent, Task
        <4>2. list[p] = <<>>
          BY <4>1 DEF StateInv, FreshInv, KeyInv, CallInv, Making
        <4> QED BY <3>1, <4>1, <4>2
      <3>2. CASE q # p
        BY <1>s, <1>t, <2>2, <3>2 DEF InitEvent, Served, swis
      <3> QED BY <3>1, <3>2
    <2>3. CASE InitRegister(p) \/ InitFlag(p)
      BY <1>1, <2>3 DEF InitRegister, InitFlag
    <2> QED BY <1>5, <2>1, <2>2, <2>3 DEF Quiet, InitStep
  <1>6. ASSUME NEW p \in Procs, Quiet(FinalizeStep(p)) PROVE Served(q)'
    <2>1. CASE FinalizeLists(p)
      <3>1. q # p /\ p = Master
        BY <1>t, <2>1 DEF FinalizeLists
      <3> QED BY <1>s, <1>t, <2>1, <3>1 DEF FinalizeLists, Served, swis
    <2>2. CASE FinalizeRegister(p)
      BY <1>1, <2>2 DEF FinalizeRegister
    <2>3. CASE FinalizeEvent(p)
      BY <1>s, <1>t, <2>3 DEF FinalizeEvent, Served, swis
    <2> QED BY <1>6, <2>1, <2>2, <2>3 DEF Quiet, FinalizeStep
  <1>7. ASSUME NEW p \in Procs, NEW m \in Messages, Quiet(PutLink(p, m)) PROVE Served(q)'
    <2>1. /\ sending' = [sending EXCEPT ![p] = {m}] /\ UNCHANGED <<open, registered, event, swis>>
          /\ list' = [list EXCEPT ![Peer(p)] = Append(@, m)]
      BY <1>7 DEF Quiet, PutLink, object
    <2>2. CASE q = Peer(p)
      BY <1>t, <2>1, <2>2 DEF Served
    <2>3. CASE q = p
      <3>1. list'[q] = list[q] /\ sending'[Peer(q)] = sending[Peer(q)]
        BY <1>t, <2>1, <2>3
      <3> QED BY <1>s, <2>1, <3>1 DEF Served, swis
    <2> QED BY <2>2, <2>3
  <1>8. ASSUME NEW p \in Procs, Quiet(PutNotify(p)) PROVE Served(q)'
    <2>1. /\ sending' = [sending EXCEPT ![p] = {}] /\ UNCHANGED <<open, registered, list, swis>>
          /\ event' = [event EXCEPT ![Peer(p)] = IF driver = "shm" THEN 1 ELSE @ + 1]
      BY <1>8 DEF Quiet, PutNotify, object
    <2>2. CASE q = Peer(p)
      BY <1>t, <2>1, <2>2 DEF Served
    <2>3. CASE q = p
      <3>1. event'[q] = event[q] /\ sending'[Peer(q)] = sending[Peer(q)]
        BY <1>t, <2>1, <2>3
      <3> QED BY <1>s, <2>1, <3>1 DEF Served, swis
    <2> QED BY <2>2, <2>3
  <1>9. ASSUME NEW p \in Procs, Quiet(PutFail(p)) PROVE Served(q)'
    <2>1. /\ sending' = [sending EXCEPT ![p] = {}] /\ UNCHANGED <<open, registered, event, swis>>
          /\ \A x \in Procs : x # Peer(p) => list'[x] = list[x]
          /\ ~CanSend(p)
      BY <1>9, <1>t DEF Quiet, PutFail, object
    <2>2. CASE q = Peer(p)
      <3>1. event[q] > 0
        BY <1>t, <2>1, <2>2 DEF CanSend
      <3> QED BY <2>1, <3>1 DEF Served
    <2>3. CASE q = p
      <3>1. list'[q] = list[q] /\ sending'[Peer(q)] = sending[Peer(q)]
        BY <1>t, <2>1, <2>3
      <3> QED BY <1>s, <2>1, <3>1 DEF Served, swis
    <2> QED BY <2>2, <2>3
  <1>10. ASSUME NEW p \in Procs, Quiet(PutLeave(p)) PROVE Served(q)'
    BY <1>1, <1>10 DEF Quiet, PutLeave, object
  <1>11. ASSUME NEW p \in Procs, Quiet(NotifyFxn(p)) PROVE Served(q)'
    BY <1>s, <1>t, <1>11 DEF Quiet, NotifyFxn, Served, object
  <1>12. ASSUME NEW p \in Procs, Quiet(SwiStep(p)) PROVE Served(q)'
    <2>1. CASE SwiStart(p)
      BY <1>s, <1>t, <2>1 DEF SwiStart, Served, object
    <2>2. CASE SwiTake(p)
      BY <1>s, <1>t, <2>2 DEF SwiTake, Served, object, swis
    <2>3. CASE SwiEnd(p)
      BY <1>s, <1>t, <2>3 DEF SwiEnd, Served, object
    <2> QED BY <1>12, <2>1, <2>2, <2>3 DEF Quiet, SwiStep
  <1>13. ASSUME UNCHANGED vars PROVE Served(q)'
    BY <1>1, <1>13 DEF vars, shmVars, object
  <1>14. ASSUME NEW p \in Procs, TaskStep(p) PROVE Served(q)'
    BY <1>2, <1>3, <1>4, <1>5, <1>6, <1>8, <1>9, <1>10, <1>14 DEF TaskStep,
           PutStep, Quiet
  <1> QED BY <1>2, <1>7, <1>11, <1>12, <1>13, <1>14 DEF Next, Goals

(***************************************************************************)
(* No message is in two places, not even while TransportShm_put has linked *)
(* it and does not know yet whether it will give it away; and none stays   *)
(* on the list of a receiver that nothing wakes.                           *)
(***************************************************************************)
THEOREM MessagesAreAccounted == Spec => []MessagesAccounted
  <1>1. Init => FreshInv /\ Apart /\ NoStranded
    BY DEF Init, InitTransport, FreshInv, Apart, NoStranded, ToSet, Procs, Slave,
           Master
  <1>2. FreshInv /\ Apart /\ NoStranded /\ StateInv /\ [Next]_vars
          => (FreshInv /\ Apart /\ NoStranded)'
    BY FreshStep, OwnerStep, StrandedStep
  <1>3. StateInv /\ Apart /\ NoStranded => MessagesAccounted
    BY OneOwnerIsApart DEF MessagesAccounted
  <1> QED BY <1>1, <1>2, <1>3, StateInvariant, PTL DEF Spec
=============================================================================
