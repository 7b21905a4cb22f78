-------------------- MODULE NameServerRemoteNotifyProofs --------------------
(***************************************************************************)
(* Looking up names over shared memory, for any number of tasks and any    *)
(* names: on a processor that waits for its answers however long they take *)
(* every get returns the answer to its own request.                        *)
(***************************************************************************)
EXTENDS NameServerRemoteNotify, SequenceTheorems, TLAPS

USE NameServerAssumption DEF vars, server, sems, client

-----------------------------------------------------------------------------
(* One task of a processor is inside get, and semMultiBlock says so.       *)
OneInside ==
    \A p \in Procs :
        \/ /\ semMultiBlock[p] = 1
           /\ \A t \in TasksOf(p) : pc[t] = "idle"
        \/ /\ semMultiBlock[p] = 0
           /\ \E t \in TasksOf(p) :
                 /\ pc[t] # "idle"
                 /\ \A u \in TasksOf(p) : pc[u] # "idle" => u = t

(* A swi is ready once.                                                    *)
ReadyOnce(s) == \A i, j \in 1 .. Len(s) : s[i] = s[j] => i = j

StateInv == TypeOK /\ OneInside /\ \A p \in Procs : ReadyOnce(ready[p])

(* Where the request of p is: on its way, or its answer on the way back.   *)
Asked(p) ==
    event[Peer(p)] = "Request" \/ Contains(ready[Peer(p)], "Request")
AnswerComes(p) ==
    \/ swi[Peer(p)] = "answer" \/ event[p] = "Response"
    \/ Contains(ready[p], "Response") \/ semRemoteWait[p] > 0

Answered(p) ==
    /\ searched[p].name = msg[p].name
    /\ msg[p].requestStatus = searched[p].found
    /\ msg[p].requestStatus => msg[p].value = msg[p].name

(***************************************************************************)
(* The inductive invariant, for a processor p that waits: one token stands *)
(* for the request of the task that pends, and none when no task does; and *)
(* p's slot holds what belongs to the place of that token.                 *)
(***************************************************************************)
Pends(p) == \E t \in TasksOf(p) : pc[t] = "pend"

SlotInv(p) ==
    \A t \in TasksOf(p) :
        /\ pc[t] \in {"send", "pend", "read"} => msg[p].name = name[t]
        /\ pc[t] = "send" => ~msg[p].requestStatus
        /\ pc[t] = "pend" =>
              /\ Asked(p) => ~msg[p].requestStatus
              /\ swi[Peer(p)] = "found" =>
                    /\ searched[p].name = msg[p].name /\ searched[p].found
                    /\ msg[p].value = msg[p].name
              /\ AnswerComes(p) => Answered(p)
        /\ pc[t] = "read" => Answered(p)

PatientInv ==
    \A p \in Procs \ MayTimeOut : Tokens(p) = Count(Pends(p)) /\ SlotInv(p)

IInv == StateInv /\ PatientInv

-----------------------------------------------------------------------------
(* The two processors are each other's peers.                              *)
LEMMA Peers ==
    \A p \in Procs : Peer(p) \in Procs /\ Peer(p) # p /\ Peer(Peer(p)) = p
                     /\ \A q \in Procs : q = p \/ q = Peer(p)
  BY DEF Procs, Peer

(* Posting a swi, and taking the first that is ready.                      *)
LEMMA ReadyPosted ==
    ASSUME NEW s \in Seq(Payloads), ReadyOnce(s), NEW f \in Payloads,
           NEW r, r = IF Contains(s, f) THEN s ELSE Append(s, f)
    PROVE  /\ r \in Seq(Payloads) /\ ReadyOnce(r)
           /\ \A g : Contains(r, g) <=> Contains(s, g) \/ g = f
  <1>1. CASE Contains(s, f)
    BY <1>1 DEF Contains
  <1>2. CASE ~Contains(s, f)
    <2>1. /\ r \in Seq(Payloads) /\ Len(r) = Len(s) + 1
          /\ \A i \in 1 .. Len(s) : r[i] = s[i]
          /\ r[Len(s) + 1] = f
      BY <1>2, AppendProperties
    <2>2. ReadyOnce(r)
      BY <1>2, <2>1 DEF Contains, ReadyOnce
    <2>3. \A g : Contains(r, g) <=> Contains(s, g) \/ g = f
      BY <2>1 DEF Contains
    <2> QED BY <2>1, <2>2, <2>3
  <1> QED BY <1>1, <1>2

(* The queue of posted swis when its first is taken.                       *)
LEMMA ReadyTaken ==
    ASSUME NEW s \in Seq(Payloads), ReadyOnce(s), s # <<>>
    PROVE  /\ Head(s) \in Payloads /\ Contains(s, Head(s))
           /\ Tail(s) \in Seq(Payloads) /\ ReadyOnce(Tail(s))
           /\ \A g : Contains(Tail(s), g) <=> Contains(s, g) /\ g # Head(s)
  <1>1. /\ Len(s) \in Nat /\ Len(s) >= 1 /\ Head(s) = s[1] /\ s[1] \in Payloads
        /\ Tail(s) \in Seq(Payloads) /\ Len(Tail(s)) = Len(s) - 1
        /\ \A i \in 1 .. Len(Tail(s)) : Tail(s)[i] = s[i + 1]
    BY HeadTailProperties
  <1>2. ReadyOnce(Tail(s))
    <2> SUFFICES ASSUME NEW i \in 1 .. Len(Tail(s)), NEW j \in 1 .. Len(Tail(s)),
                        Tail(s)[i] = Tail(s)[j]
                 PROVE  i = j
      BY DEF ReadyOnce
    <2>1. i + 1 \in 1 .. Len(s) /\ j + 1 \in 1 .. Len(s) /\ s[i + 1] = s[j + 1]
      BY <1>1
    <2> QED BY <2>1 DEF ReadyOnce
  <1>3. ASSUME NEW g PROVE Contains(Tail(s), g) <=> Contains(s, g) /\ g # Head(s)
    <2>1. ASSUME NEW i \in 1 .. Len(Tail(s)), Tail(s)[i] = g
          PROVE  Contains(s, g) /\ g # Head(s)
      <3>1. i + 1 \in 1 .. Len(s) /\ s[i + 1] = g /\ 1 \in 1 .. Len(s) /\ i + 1 # 1
        BY <1>1, <2>1
      <3> QED BY <1>1, <3>1 DEF Contains, ReadyOnce
    <2>2. ASSUME NEW i \in 1 .. Len(s), s[i] = g, g # Head(s)
          PROVE  Contains(Tail(s), g)
      <3>1. i # 1 /\ i - 1 \in 1 .. Len(Tail(s)) /\ Tail(s)[i - 1] = g
        BY <1>1, <2>2
      <3> QED BY <3>1 DEF Contains
    <2> QED BY <2>1, <2>2 DEF Contains
  <1>4. Contains(s, Head(s))
    BY <1>1 DEF Contains
  <1> QED BY <1>1, <1>2, <1>3, <1>4

-----------------------------------------------------------------------------
(***************************************************************************)
(* Types, and one task at a time inside get.                               *)
(***************************************************************************)
LEMMA Homes ==
    \A t \in Tasks : Home[t] \in Procs /\ t \in TasksOf(Home[t])
                    /\ \A p \in Procs : t \in TasksOf(p) <=> p = Home[t]
  BY DEF Procs, TasksOf, Home

Places == {"idle", "write", "send", "pend", "read"}

(* What every action of a task does to OneInside.                          *)
LEMMA InsideStep ==
    ASSUME OneInside, NEW t \in Tasks,
           pc \in [Tasks -> Places], semMultiBlock \in [Procs -> {0, 1}],
           \/ /\ pc[t] = "idle" /\ semMultiBlock[Home[t]] > 0
              /\ semMultiBlock' = [semMultiBlock EXCEPT ![Home[t]] = @ - 1]
              /\ \E place \in Places \ {"idle"} : pc' = [pc EXCEPT ![t] = place]
           \/ /\ pc[t] # "idle"
              /\ semMultiBlock' = [semMultiBlock EXCEPT ![Home[t]] = @ + 1]
              /\ pc' = [pc EXCEPT ![t] = "idle"]
           \/ /\ pc[t] # "idle" /\ semMultiBlock' = semMultiBlock
              /\ \E place \in Places \ {"idle"} : pc' = [pc EXCEPT ![t] = place]
    PROVE  OneInside' /\ semMultiBlock' \in [Procs -> {0, 1}]
  <1> SUFFICES ASSUME NEW p \in Procs
               PROVE  /\ semMultiBlock'[p] \in {0, 1}
                      /\ \/ /\ semMultiBlock'[p] = 1
                            /\ \A u \in TasksOf(p) : pc'[u] = "idle"
                         \/ /\ semMultiBlock'[p] = 0
                            /\ \E u \in TasksOf(p) :
                                  /\ pc'[u] # "idle"
                                  /\ \A v \in TasksOf(p) : pc'[v] # "idle" => v = u
    BY DEF OneInside
  <1>1. CASE p # Home[t]
    BY <1>1, Homes DEF OneInside, TasksOf
  <1>2. CASE p = Home[t]
    BY <1>2, Homes DEF OneInside, TasksOf
  <1> QED BY <1>1, <1>2

(* Every step keeps types and control as they must be.                     *)
LEMMA StateStep == StateInv /\ [Next]_vars => StateInv'
  <1> SUFFICES ASSUME StateInv, [Next]_vars PROVE StateInv'
    OBVIOUS
  <1> USE DEF StateInv, TypeOK
  <1>p. pc \in [Tasks -> Places]
    BY DEF Places
  <1>1. ASSUME NEW p \in Procs, NEW n \in AskedOf(p), ChangeEntries(p, n)
        PROVE  StateInv'
    <2>1. n \in Names
      BY DEF AskedOf, Wanted, Names
    <2>2. entries' \in [Procs -> SUBSET Names]
      BY <1>1, <2>1 DEF ChangeEntries
    <2> QED BY <1>1, <2>2 DEF ChangeEntries, OneInside
  <1>2. ASSUME NEW t \in Tasks, NEW n \in Names, GetEnter(t, n) PROVE StateInv'
    <2>1. OneInside' /\ semMultiBlock' \in [Procs -> {0, 1}]
      BY <1>2, <1>p, InsideStep DEF GetEnter, At, Places
    <2> QED BY <1>2, <2>1 DEF GetEnter
  <1>3. ASSUME NEW t \in Tasks, GetWrite(t) PROVE StateInv'
    <2>1. OneInside' /\ semMultiBlock' \in [Procs -> {0, 1}]
      BY <1>3, <1>p, InsideStep DEF GetWrite, At, Places
    <2>2. msg' \in [Procs -> Messages]
      <3> DEFINE m == [msg[Home[t]] EXCEPT !.name = name[t], !.requestStatus = FALSE]
      <3>1. m \in Messages
        <4>1. msg[Home[t]] \in Messages /\ name[t] \in Names \cup {NoName}
          BY Homes
        <4> QED BY <4>1 DEF Messages
      <3>2. msg' = [msg EXCEPT ![Home[t]] = m]
        BY <1>3, Homes DEF GetWrite
      <3> QED BY <3>1, <3>2
    <2>3. searched' \in [Procs -> [name : Names \cup {NoName}, found : BOOLEAN]]
      BY <1>3 DEF GetWrite, NoSearch
    <2> QED BY <1>3, <2>1, <2>2, <2>3 DEF GetWrite
  <1>4. ASSUME NEW t \in Tasks, GetSend(t) PROVE StateInv'
    <2>1. OneInside' /\ semMultiBlock' \in [Procs -> {0, 1}]
      BY <1>4, <1>p, InsideStep DEF GetSend, At, Places
    <2>2. event' \in [Procs -> Payloads \cup {NoEvent}]
      BY <1>4 DEF GetSend, Payloads
    <2> QED BY <1>4, <2>1, <2>2 DEF GetSend
  <1>5. ASSUME NEW t \in Tasks, GetSendFails(t) PROVE StateInv'
    <2>1. OneInside' /\ semMultiBlock' \in [Procs -> {0, 1}]
      BY <1>5, <1>p, InsideStep DEF GetSendFails, Return, At
    <2> QED BY <1>5, <2>1 DEF GetSendFails, Return
  <1>6. ASSUME NEW t \in Tasks, GetWake(t) PROVE StateInv'
    <2>1. OneInside' /\ semMultiBlock' \in [Procs -> {0, 1}]
      BY <1>6, <1>p, InsideStep DEF GetWake, At, Places
    <2>2. semRemoteWait' \in [Procs -> Nat]
      BY <1>6, Homes DEF GetWake
    <2> QED BY <1>6, <2>1, <2>2 DEF GetWake
  <1>7. ASSUME NEW t \in Tasks, GetTimeOut(t) PROVE StateInv'
    <2>1. OneInside' /\ semMultiBlock' \in [Procs -> {0, 1}]
      BY <1>7, <1>p, InsideStep DEF GetTimeOut, Return, At
    <2> QED BY <1>7, <2>1 DEF GetTimeOut, Return
  <1>8. ASSUME NEW t \in Tasks, GetRead(t) PROVE StateInv'
    <2>1. OneInside' /\ semMultiBlock' \in [Procs -> {0, 1}]
      BY <1>8, <1>p, InsideStep DEF GetRead, Return, At
    <2>2. searched' \in [Procs -> [name : Names \cup {NoName}, found : BOOLEAN]]
      BY <1>8 DEF GetRead, NoSearch
    <2> QED BY <1>8, <2>1, <2>2 DEF GetRead, Return
  <1>9. ASSUME NEW p \in Procs, CbFxn(p) PROVE StateInv'
    <2>1. /\ ready'[p] \in Seq(Payloads) /\ ReadyOnce(ready'[p])
          /\ \A q \in Procs : q # p => ready'[q] = ready[q]
          /\ ready' = [ready EXCEPT ![p] = ready'[p]]
      BY <1>9, ReadyPosted DEF CbFxn, Post
    <2>2. /\ ready' \in [Procs -> Seq(Payloads)]
          /\ \A q \in Procs : ReadyOnce(ready'[q])
      BY <2>1
    <2> QED BY <1>9, <2>2 DEF CbFxn, OneInside
  <1>10. ASSUME NEW p \in Procs, NEW f \in Payloads, SwiStarts(p, f)
         PROVE  /\ ready' \in [Procs -> Seq(Payloads)]
                /\ \A q \in Procs : ReadyOnce(ready'[q])
    BY <1>10, ReadyTaken DEF SwiStarts
  <1>11. ASSUME NEW p \in Procs, RequestSearch(p) PROVE StateInv'
    <2>1. SwiStarts(p, "Request") /\ Peer(p) \in Procs /\ "Request" \in Payloads
      BY <1>11, Peers DEF RequestSearch, Payloads
    <2>2. msg' \in [Procs -> Messages]
      <3> DEFINE m == [msg[Peer(p)] EXCEPT !.value = msg[Peer(p)].name]
      <3>1. m \in Messages
        <4>1. msg[Peer(p)] \in Messages
          BY <2>1
        <4> QED BY <4>1 DEF Messages
      <3>2. msg' = msg \/ msg' = [msg EXCEPT ![Peer(p)] = m]
        BY <1>11, <2>1 DEF RequestSearch
      <3> QED BY <3>1, <3>2
    <2>3. /\ searched' \in [Procs -> [name : Names \cup {NoName}, found : BOOLEAN]]
          /\ swi' \in [Procs -> {"idle", "found", "answer"}]
      BY <1>11, <2>1 DEF RequestSearch, Messages
    <2> QED BY <1>11, <1>10, <2>1, <2>2, <2>3 DEF RequestSearch, OneInside
  <1>12. ASSUME NEW p \in Procs, RequestFound(p) PROVE StateInv'
    <2>1. msg' \in [Procs -> Messages]
      <3> DEFINE m == [msg[Peer(p)] EXCEPT !.requestStatus = TRUE]
      <3>1. m \in Messages
        <4>1. msg[Peer(p)] \in Messages
          BY Peers
        <4> QED BY <4>1 DEF Messages
      <3>2. msg' = [msg EXCEPT ![Peer(p)] = m]
        BY <1>12, Peers DEF RequestFound
      <3> QED BY <3>1, <3>2
    <2> QED BY <1>12, <2>1 DEF RequestFound, OneInside
  <1>13. ASSUME NEW p \in Procs, RequestAnswer(p) PROVE StateInv'
    <2>1. event' \in [Procs -> Payloads \cup {NoEvent}]
      BY <1>13 DEF RequestAnswer, Payloads
    <2> QED BY <1>13, <2>1 DEF RequestAnswer, OneInside
  <1>14. ASSUME NEW p \in Procs, ResponsePost(p) PROVE StateInv'
    <2>1. SwiStarts(p, "Response") /\ "Response" \in Payloads
      BY <1>14 DEF ResponsePost, Payloads
    <2> QED BY <1>14, <1>10, <2>1 DEF ResponsePost, OneInside
  <1>15. CASE UNCHANGED vars
    BY <1>15 DEF OneInside
  <1> QED
    BY <1>1, <1>2, <1>3, <1>4, <1>5, <1>6, <1>7, <1>8, <1>9, <1>11, <1>12, <1>13,
       <1>14, <1>15 DEF Next, GetStep, SwiStep

(* They are so in every behaviour.                                         *)
LEMMA StateInvariant == Spec => []StateInv
  <1>1. Init => StateInv
    <2> SUFFICES ASSUME Init PROVE StateInv
      OBVIOUS
    <2>1. msg \in [Procs -> Messages]
      BY DEF Init, Messages
    <2>2. /\ ready \in [Procs -> Seq(Payloads)]
          /\ \A p \in Procs : ReadyOnce(ready[p])
      BY DEF Init, ReadyOnce
    <2>3. OneInside
      BY DEF Init, OneInside, TasksOf
    <2> QED BY <2>1, <2>2, <2>3 DEF Init, StateInv, TypeOK, NoSearch
  <1> QED BY <1>1, StateStep, PTL DEF Spec

(* Every variable keeps its type.                                          *)
THEOREM TypeCorrect == Spec => []TypeOK
  BY StateInvariant, PTL DEF StateInv

-----------------------------------------------------------------------------
(***************************************************************************)
(* The requests of a processor p that waits.                               *)
(***************************************************************************)
LEMMA PatientStep ==
    ASSUME StateInv, [Next]_vars, NEW p \in Procs, p \notin MayTimeOut,
           Tokens(p) = Count(Pends(p)), SlotInv(p)
    PROVE  (Tokens(p) = Count(Pends(p)) /\ SlotInv(p))'
  <1> DEFINE q == Peer(p)
  <1>q. q \in Procs /\ q # p /\ Peer(q) = p /\ \A r \in Procs : r = p \/ r = q
    BY Peers
  <1>t. /\ msg \in [Procs -> Messages] /\ event \in [Procs -> Payloads \cup {NoEvent}]
        /\ ready \in [Procs -> Seq(Payloads)] /\ \A r \in Procs : ReadyOnce(ready[r])
        /\ swi \in [Procs -> {"idle", "found", "answer"}]
        /\ semRemoteWait \in [Procs -> Nat]
        /\ pc \in [Tasks -> Places] /\ name \in [Tasks -> Names \cup {NoName}]
        /\ searched \in [Procs -> [name : Names \cup {NoName}, found : BOOLEAN]]
    BY DEF StateInv, TypeOK, Places
  <1>o. \A t, u \in TasksOf(p) : pc[t] # "idle" /\ pc[u] # "idle" => t = u
    BY DEF StateInv, OneInside
  <1> HIDE DEF q
  (* What p waits for is left alone. *)
  <1>f. ASSUME UNCHANGED <<event[p] = "Response", event[q] = "Request", swi[q],
                          semRemoteWait[p], msg[p], searched[p]>>,
               Contains(ready'[p], "Response") <=> Contains(ready[p], "Response"),
               Contains(ready'[q], "Request") <=> Contains(ready[q], "Request"),
               \A t \in TasksOf(p) : pc'[t] = pc[t] /\ name'[t] = name[t]
        PROVE  (Tokens(p) = Count(Pends(p)) /\ SlotInv(p))'
    BY <1>f DEF Tokens, Count, Pends, SlotInv, Asked, AnswerComes, Answered, q
  <1>1. ASSUME NEW r \in Procs, NEW n \in AskedOf(r), ChangeEntries(r, n) PROVE (Tokens(p) = Count(Pends(p)) /\ SlotInv(p))'
    BY <1>1, <1>f DEF ChangeEntries
  <1>2. ASSUME NEW t \in Tasks, Home[t] # p,
               GetStep(t) \/ \E n \in Names : GetEnter(t, n)
        PROVE  (Tokens(p) = Count(Pends(p)) /\ SlotInv(p))'
    <2>1. Home[t] = q /\ Peer(Home[t]) = p
      BY <1>2, <1>q, Homes
    <2>2. \A u \in TasksOf(p) : u # t /\ u \in Tasks
      BY <1>2 DEF TasksOf
    <2>3. /\ UNCHANGED <<ready, swi, semRemoteWait[p], msg[p], searched[p], event[q]>>
          /\ event[p] = "Response" <=> event'[p] = "Response"
          /\ \A u \in TasksOf(p) : pc'[u] = pc[u] /\ name'[u] = name[u]
      BY <1>2, <1>q, <1>t, <2>1, <2>2
         DEF GetStep, GetEnter, GetWrite, GetSend, GetSendFails, GetWake, GetTimeOut,
             GetRead, Return, NoEvent
    <2> QED BY <1>f, <2>3
  <1>3. ASSUME NEW t \in Tasks, Home[t] = p PROVE t \in TasksOf(p)
    BY <1>3 DEF TasksOf
  <1>4. ASSUME NEW t \in TasksOf(p), NEW n \in Names, GetEnter(t, n) PROVE (Tokens(p) = Count(Pends(p)) /\ SlotInv(p))'
    <2>1. \A u \in TasksOf(p) : u # t => pc'[u] = pc[u] /\ name'[u] = name[u]
      BY <1>4, <1>t DEF GetEnter, TasksOf
    <2>2. pc[t] = "idle" /\ pc'[t] = "write"
      BY <1>4, <1>t DEF GetEnter, At, TasksOf
    <2>3. UNCHANGED <<event, ready, swi, semRemoteWait, msg, searched>>
      BY <1>4 DEF GetEnter
    <2> QED
      BY ZenonT(60), <2>1, <2>2, <2>3 DEF Tokens, Pends, SlotInv, Asked, AnswerComes, Answered
  (* A step of a task of p: the others are not inside get. *)
  <1>i. ASSUME NEW t \in TasksOf(p), pc[t] # "idle", GetStep(t)
        PROVE  /\ Home[t] = p /\ t \in Tasks
               /\ \A u \in TasksOf(p) : u # t => pc'[u] = "idle" /\ pc[u] = "idle"
    BY <1>i, <1>o, <1>t
       DEF TasksOf, GetStep, GetWrite, GetSend, GetSendFails, GetWake, GetTimeOut,
           GetRead, Return
  <1>5. ASSUME NEW t \in TasksOf(p), GetWrite(t) PROVE (Tokens(p) = Count(Pends(p)) /\ SlotInv(p))'
    <2>1. /\ Home[t] = p /\ t \in Tasks /\ pc[t] = "write" /\ pc'[t] = "send"
          /\ \A u \in TasksOf(p) : u # t => pc'[u] = "idle" /\ pc[u] = "idle"
      BY <1>5, <1>i, <1>t DEF GetWrite, GetStep, At, TasksOf
    <2>2. msg'[p].name = name'[t] /\ ~msg'[p].requestStatus
      BY <1>5, <1>t, <2>1 DEF GetWrite, Messages
    <2>3. ~Pends(p) /\ ~Pends(p)'
      BY <2>1 DEF Pends
    <2>4. Tokens(p)' = Tokens(p)
      BY <1>5 DEF GetWrite, Tokens
    <2>5. SlotInv(p)'
      BY <2>1, <2>2 DEF SlotInv
    <2> QED BY <2>3, <2>4, <2>5 DEF Count
  <1>6. ASSUME NEW t \in TasksOf(p), GetSend(t) PROVE (Tokens(p) = Count(Pends(p)) /\ SlotInv(p))'
    <2>1. /\ Home[t] = p /\ t \in Tasks /\ pc[t] = "send" /\ pc'[t] = "pend"
          /\ \A u \in TasksOf(p) : u # t => pc'[u] = "idle" /\ pc[u] = "idle"
      BY <1>6, <1>i, <1>t DEF GetSend, GetStep, At, TasksOf
    <2>2. ~Pends(p) /\ Pends(p)'
      BY <2>1 DEF Pends
    <2>3. /\ event[q] = "none" /\ event'[q] = "Request" /\ event'[p] = event[p]
          /\ UNCHANGED <<ready, swi, semRemoteWait, msg, searched, name>>
      BY <1>6, <1>q, <1>t, <2>1 DEF GetSend, NoEvent, q
    <2>4. /\ ~Contains(ready[q], "Request") /\ swi[q] = "idle" /\ event[p] # "Response"
          /\ ~Contains(ready[p], "Response") /\ semRemoteWait[p] = 0
      BY <1>q, <1>t, <2>2 DEF Tokens, Count, q
    <2>5. Tokens(p)' = 1
      BY <2>3, <2>4 DEF Tokens, Count, q
    <2>6. SlotInv(p)'
      BY <2>1, <2>3, <2>4 DEF SlotInv, AnswerComes, q
    <2> QED BY <2>2, <2>5, <2>6 DEF Count
  <1>7. ASSUME NEW t \in TasksOf(p), GetSendFails(t) \/ GetRead(t) PROVE (Tokens(p) = Count(Pends(p)) /\ SlotInv(p))'
    <2>1. /\ Home[t] = p /\ t \in Tasks /\ pc[t] \in {"send", "read"} /\ pc'[t] = "idle"
          /\ \A u \in TasksOf(p) : u # t => pc'[u] = "idle" /\ pc[u] = "idle"
      BY <1>7, <1>i, <1>t DEF GetSendFails, GetRead, Return, GetStep, At, TasksOf
    <2>2. ~Pends(p) /\ ~Pends(p)' /\ SlotInv(p)'
      BY <2>1 DEF Pends, SlotInv
    <2>3. Tokens(p)' = Tokens(p)
      BY <1>7 DEF GetSendFails, GetRead, Tokens
    <2> QED BY <2>2, <2>3 DEF Count
  <1>8. ASSUME NEW t \in TasksOf(p), GetWake(t) PROVE (Tokens(p) = Count(Pends(p)) /\ SlotInv(p))'
    <2>1. /\ Home[t] = p /\ t \in Tasks /\ pc[t] = "pend" /\ pc'[t] = "read"
          /\ \A u \in TasksOf(p) : u # t => pc'[u] = "idle" /\ pc[u] = "idle"
      BY <1>8, <1>i, <1>t DEF GetWake, GetStep, At, TasksOf
    <2>2. /\ semRemoteWait[p] > 0 /\ semRemoteWait'[p] = semRemoteWait[p] - 1
          /\ UNCHANGED <<event, ready, swi, msg, searched, name>>
      BY <1>8, <1>t, <2>1 DEF GetWake
    <2>3. Pends(p) /\ ~Pends(p)'
      BY <2>1 DEF Pends
    <2>4. Tokens(p)' = 0
      <3>1. /\ event[q] # "Request" /\ ~Contains(ready[q], "Request") /\ swi[q] = "idle"
            /\ event[p] # "Response" /\ ~Contains(ready[p], "Response")
            /\ semRemoteWait[p] = 1
        BY <1>q, <1>t, <2>2, <2>3 DEF Tokens, Count, q
      <3> QED BY <2>2, <3>1 DEF Tokens, Count, q
    <2>5. SlotInv(p)'
      BY <2>1, <2>2 DEF SlotInv, AnswerComes, Answered
    <2> QED BY <2>3, <2>4, <2>5 DEF Count
  <1>9. ASSUME NEW t \in TasksOf(p), GetTimeOut(t) PROVE FALSE
    BY <1>9 DEF GetTimeOut, TasksOf
  <1>10. ASSUME NEW r \in Procs, CbFxn(r) PROVE (Tokens(p) = Count(Pends(p)) /\ SlotInv(p))'
    <2>1. /\ event[r] \in Payloads /\ event' = [event EXCEPT ![r] = "none"]
          /\ UNCHANGED <<msg, swi, semRemoteWait, pc, name, searched>>
          /\ \A x \in Procs : x # r => ready'[x] = ready[x]
      BY <1>10, <1>t DEF CbFxn, Post, NoEvent
    <2>2. \A g : Contains(ready'[r], g) <=> Contains(ready[r], g) \/ g = event[r]
      <3>1. ready'[r] = IF Contains(ready[r], event[r]) THEN ready[r]
                                                        ELSE Append(ready[r], event[r])
        BY <1>10, <1>t DEF CbFxn, Post
      <3> QED BY <1>t, <2>1, <3>1, ReadyPosted
    <2>3. CASE (r = p /\ event[p] = "Response") \/ (r = q /\ event[q] = "Request")
      <3>1. Pends(p)' = Pends(p)
        BY <2>1 DEF Pends
      <3>2. Tokens(p)' = Tokens(p)
        BY <1>q, <1>t, <2>1, <2>2, <2>3 DEF Tokens, Count, Pends, q
      <3>3. Asked(p)' = Asked(p) /\ AnswerComes(p)' = AnswerComes(p)
        BY <1>q, <1>t, <2>1, <2>2, <2>3 DEF Asked, AnswerComes, q
      <3>4. SlotInv(p)'
        BY <2>1, <3>3 DEF SlotInv, Answered
      <3> QED BY <3>1, <3>2, <3>4
    <2>4. CASE ~((r = p /\ event[p] = "Response") \/ (r = q /\ event[q] = "Request"))
      <3>1. /\ Contains(ready'[p], "Response") <=> Contains(ready[p], "Response")
            /\ Contains(ready'[q], "Request") <=> Contains(ready[q], "Request")
        BY <1>q, <2>1, <2>2, <2>4
      <3>2. /\ event'[p] = "Response" <=> event[p] = "Response"
            /\ event'[q] = "Request" <=> event[q] = "Request"
        BY <1>q, <1>t, <2>1, <2>4
      <3> QED BY <1>f, <2>1, <3>1, <3>2
    <2> QED BY <2>3, <2>4
  <1>11. ASSUME NEW r \in Procs, NEW f \in Payloads, SwiStarts(r, f)
         PROVE  /\ f = Head(ready[r]) /\ Contains(ready[r], f) /\ swi[r] = "idle"
                /\ \A g : Contains(ready'[r], g) <=> Contains(ready[r], g) /\ g # f
                /\ \A x \in Procs : x # r => ready'[x] = ready[x]
    BY <1>11, <1>t, ReadyTaken DEF SwiStarts
  <1>12. ASSUME RequestSearch(p) PROVE (Tokens(p) = Count(Pends(p)) /\ SlotInv(p))'
    <2>1. /\ \A g : Contains(ready'[p], g) <=> Contains(ready[p], g) /\ g # "Request"
          /\ ready'[q] = ready[q]
      BY <1>12, <1>11, <1>q DEF RequestSearch, Payloads
    <2>2. /\ UNCHANGED <<event, semRemoteWait, pc, name>>
          /\ swi'[q] = swi[q] /\ msg'[p] = msg[p] /\ searched'[p] = searched[p]
      BY <1>12, <1>q, <1>t DEF RequestSearch, q
    <2> QED BY <1>f, <2>1, <2>2
  <1>13. ASSUME RequestSearch(q) PROVE (Tokens(p) = Count(Pends(p)) /\ SlotInv(p))'
    <2>1. /\ Contains(ready[q], "Request") /\ ~Contains(ready'[q], "Request")
          /\ ready'[p] = ready[p] /\ swi[q] = "idle"
      BY <1>13, <1>11, <1>q DEF RequestSearch, Payloads
    <2>2. /\ UNCHANGED <<event, semRemoteWait, pc, name>>
          /\ swi'[q] \in {"found", "answer"}
          /\ searched'[p].name = msg[p].name
          /\ searched'[p].found <=> (swi'[q] = "found")
          /\ msg'[p].name = msg[p].name /\ msg'[p].requestStatus = msg[p].requestStatus
          /\ swi'[q] = "found" => msg'[p].value = msg[p].name
      <3> DEFINE found == msg[p].name \in entries[q]
      <3>1. /\ UNCHANGED <<event, semRemoteWait, pc, name>>
            /\ searched'[p] = [name |-> msg[p].name, found |-> found]
            /\ swi'[q] = IF found THEN "found" ELSE "answer"
            /\ msg' = IF found THEN [msg EXCEPT ![p].value = msg[p].name] ELSE msg
        BY <1>13, <1>q, <1>t DEF RequestSearch, q
      <3>2. /\ msg'[p].name = msg[p].name /\ msg'[p].requestStatus = msg[p].requestStatus
            /\ found => msg'[p].value = msg[p].name
        BY <1>t, <3>1 DEF Messages
      <3>3. CASE found
        <4>0. searched'[p] = [name |-> msg[p].name, found |-> TRUE]
          <5> HIDE DEF found
          <5>1. found = TRUE
            BY <3>3
          <5> QED BY <3>1, <5>1, Zenon
        <4>1. searched'[p].name = msg[p].name /\ searched'[p].found /\ swi'[q] = "found"
          BY <3>1, <3>3, <4>0
        <4> QED BY <3>1, <3>2, <3>3, <4>1
      <3>4. CASE ~found
        <4>0. searched'[p] = [name |-> msg[p].name, found |-> FALSE]
          <5> HIDE DEF found
          <5>1. found = FALSE
            BY <3>4
          <5> QED BY <3>1, <5>1, Zenon
        <4>1. searched'[p].name = msg[p].name /\ ~searched'[p].found /\ swi'[q] = "answer"
          BY <3>1, <3>4, <4>0
        <4> QED BY <3>1, <3>2, <3>4, <4>1
      <3> QED BY <3>3, <3>4
    <2>3. /\ event[q] # "Request" /\ event[p] # "Response"
          /\ ~Contains(ready[p], "Response") /\ semRemoteWait[p] = 0 /\ Pends(p)
      BY <1>q, <1>t, <2>1 DEF Tokens, Count, q
    <2>4. Tokens(p)' = 1 /\ Pends(p)'
      BY <1>q, <2>1, <2>2, <2>3 DEF Tokens, Count, Pends, q
    <2>5. ~Asked(p)'
      BY <2>1, <2>2, <2>3 DEF Asked, q
    <2>6. \E t \in TasksOf(p) : pc[t] = "pend" /\ \A u \in TasksOf(p) : pc[u] # "idle" => u = t
      BY <1>o, <2>3 DEF Pends
    <2>7. ~msg[p].requestStatus
      BY <2>1, <2>6 DEF SlotInv, Asked, q
    <2>8. AnswerComes(p)' => Answered(p)'
      <3>1. AnswerComes(p)' => swi'[q] = "answer"
        BY <2>1, <2>2, <2>3 DEF AnswerComes, q
      <3>2. /\ ~msg'[p].requestStatus /\ msg'[p].requestStatus \in BOOLEAN
            /\ searched'[p].found \in BOOLEAN
        <4>1. msg' \in [Procs -> Messages]
          BY StateStep DEF StateInv, TypeOK
        <4>2. searched' \in [Procs -> [name : Names \cup {NoName}, found : BOOLEAN]]
          BY StateStep DEF StateInv, TypeOK
        <4> QED BY <2>2, <2>7, <4>1, <4>2 DEF Messages
      <3> QED BY <2>2, <3>1, <3>2 DEF Answered
    <2>9. SlotInv(p)'
      <3>1. swi'[q] = "found" => /\ searched'[p].name = msg'[p].name /\ searched'[p].found
                                 /\ msg'[p].value = msg'[p].name
        BY <2>2
      <3>2. \A t \in TasksOf(p) : pc[t] # "idle" => pc[t] = "pend" /\ msg'[p].name = name'[t]
        BY <2>2, <2>6 DEF SlotInv
      <3> QED BY <2>2, <2>5, <2>8, <3>1, <3>2 DEF SlotInv, q
    <2> QED BY <2>4, <2>9 DEF Count
  <1>14. ASSUME RequestFound(p) \/ RequestAnswer(p) PROVE (Tokens(p) = Count(Pends(p)) /\ SlotInv(p))'
    <2>1. /\ UNCHANGED <<ready, semRemoteWait, pc, name, searched>>
          /\ swi'[q] = swi[q] /\ msg'[p] = msg[p] /\ event'[p] = event[p]
          /\ event[q] = "Request" <=> event'[q] = "Request"
      BY <1>14, <1>q, <1>t DEF RequestFound, RequestAnswer, NoEvent, q
    <2> QED BY <1>f, <2>1
  <1>15. ASSUME RequestFound(q) PROVE (Tokens(p) = Count(Pends(p)) /\ SlotInv(p))'
    <2>1. /\ UNCHANGED <<event, ready, semRemoteWait, pc, name, searched>>
          /\ swi[q] = "found" /\ swi'[q] = "answer"
          /\ msg'[p].name = msg[p].name /\ msg'[p].value = msg[p].value
          /\ msg'[p].requestStatus = TRUE
      BY <1>15, <1>q, <1>t DEF RequestFound, Messages, q
    <2>2. Tokens(p)' = Tokens(p) /\ Pends(p)' = Pends(p)
      BY <2>1 DEF Tokens, Count, Pends, q
    <2>3. Pends(p) /\ ~Asked(p)'
      BY <1>q, <1>t, <2>1 DEF Tokens, Count, Asked, q
    <2>4. \E t \in TasksOf(p) : pc[t] = "pend" /\ \A u \in TasksOf(p) : pc[u] # "idle" => u = t
      BY <1>o, <2>3 DEF Pends
    <2>5. Answered(p)'
      BY <1>t, <2>1, <2>4 DEF SlotInv, Answered, q
    <2>6. SlotInv(p)'
      BY <2>1, <2>3, <2>4, <2>5 DEF SlotInv, q
    <2> QED BY <2>2, <2>6
  <1>16. ASSUME RequestAnswer(q) PROVE (Tokens(p) = Count(Pends(p)) /\ SlotInv(p))'
    <2>1. /\ UNCHANGED <<ready, semRemoteWait, pc, name, searched, msg>>
          /\ swi[q] = "answer" /\ swi'[q] = "idle" /\ event'[q] = event[q]
          /\ event[p] = "none" /\ event'[p] = "Response"
      BY <1>16, <1>q, <1>t DEF RequestAnswer, NoEvent, q
    <2>2. Tokens(p)' = Tokens(p) /\ Pends(p)' = Pends(p)
      BY <1>q, <1>t, <2>1 DEF Tokens, Count, Pends, q
    <2>3. AnswerComes(p) /\ Asked(p)' = Asked(p)
      BY <2>1 DEF AnswerComes, Asked, q
    <2>4. SlotInv(p)'
      BY <2>1, <2>3 DEF SlotInv, Answered, q
    <2> QED BY <2>2, <2>4
  <1>17. ASSUME ResponsePost(p) PROVE (Tokens(p) = Count(Pends(p)) /\ SlotInv(p))'
    <2>1. /\ Contains(ready[p], "Response") /\ ~Contains(ready'[p], "Response")
          /\ ready'[q] = ready[q]
      BY <1>17, <1>11, <1>q DEF ResponsePost, Payloads
    <2>2. /\ UNCHANGED <<event, swi, pc, name, searched, msg>>
          /\ semRemoteWait'[p] = semRemoteWait[p] + 1
      BY <1>17, <1>t DEF ResponsePost
    <2>3. Tokens(p)' = Tokens(p) /\ Pends(p)' = Pends(p)
      BY <1>q, <1>t, <2>1, <2>2 DEF Tokens, Count, Pends, q
    <2>4. AnswerComes(p) /\ Asked(p)' = Asked(p)
      BY <2>1, <2>2 DEF AnswerComes, Asked, q
    <2>5. SlotInv(p)'
      BY <2>2, <2>4 DEF SlotInv, Answered, q
    <2> QED BY <2>3, <2>5
  <1>18. ASSUME ResponsePost(q) PROVE (Tokens(p) = Count(Pends(p)) /\ SlotInv(p))'
    <2>1. /\ \A g : Contains(ready'[q], g) <=> Contains(ready[q], g) /\ g # "Response"
          /\ ready'[p] = ready[p]
      BY <1>18, <1>11, <1>q DEF ResponsePost, Payloads
    <2>2. /\ UNCHANGED <<event, swi, pc, name, searched, msg>>
          /\ semRemoteWait'[p] = semRemoteWait[p]
      BY <1>18, <1>q, <1>t DEF ResponsePost
    <2> QED BY <1>f, <2>1, <2>2
  <1>19. CASE UNCHANGED vars
    BY <1>19, <1>f
  <1>20. ASSUME NEW t \in Tasks, Home[t] = p,
                GetStep(t) \/ \E n \in Names : GetEnter(t, n)
         PROVE  (Tokens(p) = Count(Pends(p)) /\ SlotInv(p))'
    BY <1>3, <1>4, <1>5, <1>6, <1>7, <1>8, <1>9, <1>20 DEF GetStep
  <1>21. ASSUME NEW r \in Procs, SwiStep(r) PROVE (Tokens(p) = Count(Pends(p)) /\ SlotInv(p))'
    <2>1. CASE r = p
      BY <1>12, <1>14, <1>17, <1>21, <2>1 DEF SwiStep
    <2>2. CASE r = q
      BY <1>13, <1>15, <1>16, <1>18, <1>21, <2>2 DEF SwiStep
    <2> QED BY <1>q, <2>1, <2>2
  <1> QED BY <1>1, <1>2, <1>10, <1>19, <1>20, <1>21 DEF Next

(***************************************************************************)
(* The answer that get returns, on a processor that waits for it, is what  *)
(* the peer's tables held for the name of this request.                    *)
(***************************************************************************)
THEOREM AnswersAreOwn == Spec => []AnswerIsOwn
  <1>1. Init => PatientInv
    <2> SUFFICES ASSUME Init, NEW p \in Procs \ MayTimeOut
                 PROVE  Tokens(p) = Count(Pends(p)) /\ SlotInv(p)
      BY DEF PatientInv
    <2>1. ~Pends(p) /\ SlotInv(p)
      BY DEF Init, Pends, SlotInv, TasksOf
    <2>2. \A f : ~Contains(<<>>, f)
      BY DEF Contains
    <2>3. Tokens(p) = 0
      BY <2>2, Peers DEF Init, Tokens, Count, NoEvent
    <2> QED BY <2>1, <2>3 DEF Count
  <1>2. StateInv /\ PatientInv /\ [Next]_vars => PatientInv'
    BY PatientStep DEF PatientInv
  <1>3. PatientInv => AnswerIsOwn
    <2> SUFFICES ASSUME PatientInv, NEW t \in Tasks, pc[t] = "read", Home[t] \notin MayTimeOut
                 PROVE  /\ searched[Home[t]].name = name[t]
                        /\ msg[Home[t]].requestStatus = searched[Home[t]].found
                        /\ msg[Home[t]].requestStatus => msg[Home[t]].value = name[t]
      BY DEF AnswerIsOwn
    <2> QED BY Homes DEF PatientInv, SlotInv, Answered
  <1> QED BY <1>1, <1>2, <1>3, StateInvariant, PTL DEF Spec
=============================================================================
