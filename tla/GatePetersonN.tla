---------------------------- MODULE GatePetersonN ----------------------------
(***************************************************************************)
(* The multi-processor gate of packages/ti/sdo/ipc/gates/GatePetersonN.c:   *)
(* Peterson's filter lock for the N processors of a cluster.  A processor   *)
(* goes through N - 1 stages; in each it publishes the stage, signs in as   *)
(* the last to enter it, and waits for every other processor in turn until  *)
(* that one is at a lower stage or another has signed in.  A local gate,    *)
(* which its owner may enter again, orders the threads of one processor.    *)
(*                                                                         *)
(* Every access to shared memory is a step.  Each word that is read has     *)
(* been invalidated in the cache since it was last read, and each that is   *)
(* written is written back at once, so a step reads or writes memory.       *)
(***************************************************************************)
EXTENDS Integers

CONSTANTS N,          \* obj->numProcessors
          Threads,    \* the threads that use the gate
          Home,       \* the selfId of the processor each of them runs on
          MaxNest,    \* bound on the depth to which a thread enters the gate
          None        \* nobody owns the local gate

Procs == 0 .. N - 1
Stages == 0 .. N - 2

ASSUME NAssumption == N \in Nat \ {0}
ASSUME HomeAssumption == Home \in [Threads -> Procs]
ASSUME NestAssumption == MaxNest \in Nat \ {0}
ASSUME NoneAssumption == None \notin Threads

NOT_INTERESTED == -1

VARIABLES enteredStage,            \* shared memory, per processor
          lastProcEnteringStage,   \* shared memory, per stage
          owner, nested,           \* the local gate's owner, and obj->nested
          pc,                      \* where the thread inside each local gate is
          curStage, proc           \* its two loop counters

shared == <<enteredStage, lastProcEnteringStage>>
vars == <<shared, owner, nested, pc, curStage, proc>>

Init ==
    /\ enteredStage = [p \in Procs |-> NOT_INTERESTED]
    /\ lastProcEnteringStage = [s \in Stages |-> 0]
    /\ owner = [p \in Procs |-> None]
    /\ nested = [p \in Procs |-> 0]
    /\ pc = [p \in Procs |-> "out"]
    /\ curStage = [p \in Procs |-> 0]
    /\ proc = [p \in Procs |-> 0]

Goto(p, where) == pc' = [pc EXCEPT ![p] = where]

-----------------------------------------------------------------------------
(* GatePetersonN_enter *)

(* Mutant: the loop makes one stage too few. *)
StartOfStageShort(s) == IF s >= N - 2 THEN "in" ELSE "setStage"

(* The head of the loop over the stages. *)
StartOfStage(s) == IF s < N - 1 THEN "setStage" ELSE "in"

(* Enter the local gate; an owner that enters again only counts. *)
Enter(t) ==
    LET p == Home[t] IN
    /\ pc[p] \in {"out", "in"}
    /\ owner[p] \in {None, t}
    /\ nested[p] < MaxNest
    /\ owner' = [owner EXCEPT ![p] = t]
    /\ nested' = [nested EXCEPT ![p] = @ + 1]
    /\ Goto(p, IF nested[p] + 1 > 1 THEN "in" ELSE StartOfStage(0))
    /\ UNCHANGED <<shared, curStage, proc>>

SetStage(p) ==
    /\ pc[p] = "setStage"
    /\ enteredStage' = [enteredStage EXCEPT ![p] = curStage[p]]
    /\ Goto(p, "setLast")
    /\ UNCHANGED <<lastProcEnteringStage, owner, nested, curStage, proc>>

(* The processors that p waits for, in the order of the inner loop; N when
   there is none left from q on. *)
NextOther(p, q) == IF q = p THEN q + 1 ELSE q

SetLast(p) ==
    /\ pc[p] = "setLast"
    /\ lastProcEnteringStage' = [lastProcEnteringStage EXCEPT ![curStage[p]] = p]
    /\ proc' = [proc EXCEPT ![p] = NextOther(p, 0)]
    /\ Goto(p, "readStage")
    /\ UNCHANGED <<enteredStage, owner, nested, curStage>>

(* The wait for one processor is over: the next one, or the next stage. *)
PassProc(p) ==
    LET next == NextOther(p, proc[p] + 1) IN
    \/ /\ next < N
       /\ proc' = [proc EXCEPT ![p] = next]
       /\ Goto(p, "readStage")
       /\ UNCHANGED curStage
    \/ /\ next >= N
       /\ proc' = [proc EXCEPT ![p] = 0]
       /\ curStage' = [curStage EXCEPT ![p] = @ + 1]
       /\ Goto(p, StartOfStage(curStage[p] + 1))

(* The first operand of the wait's condition, *)
ReadStage(p) ==
    /\ pc[p] = "readStage"
    /\ \/ /\ enteredStage[proc[p]] < curStage[p]
          /\ PassProc(p)
       \/ /\ enteredStage[proc[p]] >= curStage[p]
          /\ Goto(p, "readLast")
          /\ UNCHANGED <<curStage, proc>>
    /\ UNCHANGED <<shared, owner, nested>>

(* ... and the second. *)
ReadLast(p) ==
    /\ pc[p] = "readLast"
    /\ \/ /\ lastProcEnteringStage[curStage[p]] # p
          /\ PassProc(p)
       \/ /\ lastProcEnteringStage[curStage[p]] = p
          /\ Goto(p, "readStage")
          /\ UNCHANGED <<curStage, proc>>
    /\ UNCHANGED <<shared, owner, nested>>

-----------------------------------------------------------------------------
(* GatePetersonN_leave *)

Leave(t) ==
    LET p == Home[t] IN
    /\ pc[p] = "in"
    /\ owner[p] = t
    /\ nested' = [nested EXCEPT ![p] = @ - 1]
    /\ Goto(p, IF nested[p] - 1 = 0 THEN "clearStage" ELSE "in")
    /\ UNCHANGED <<shared, owner, curStage, proc>>

ClearStage(p) ==
    /\ pc[p] = "clearStage"
    /\ enteredStage' = [enteredStage EXCEPT ![p] = NOT_INTERESTED]
    /\ curStage' = [curStage EXCEPT ![p] = 0]
    /\ Goto(p, "leaveLocal")
    /\ UNCHANGED <<lastProcEnteringStage, owner, nested, proc>>

LeaveLocal(p) ==
    /\ pc[p] = "leaveLocal"
    /\ owner' = [owner EXCEPT ![p] = None]
    /\ Goto(p, "out")
    /\ UNCHANGED <<shared, nested, curStage, proc>>

-----------------------------------------------------------------------------
Step(p) ==
    \/ SetStage(p) \/ SetLast(p) \/ ReadStage(p) \/ ReadLast(p)
    \/ ClearStage(p) \/ LeaveLocal(p)

Next == \/ \E t \in Threads : Enter(t) \/ Leave(t)
        \/ \E p \in Procs : Step(p)

(* A processor runs the code of the gate, and no user of the gate keeps it:
   in between the entries it nests, a thread comes to its outermost leave. *)
OutermostLeave(p) == nested[p] = 1 /\ \E t \in Threads : Home[t] = p /\ Leave(t)
Fairness == \A p \in Procs :
    /\ WF_vars(Step(p))
    /\ WF_vars(\E t \in Threads : Home[t] = p /\ Leave(t))
    /\ SF_vars(OutermostLeave(p))

Spec == Init /\ [][Next]_vars /\ Fairness

-----------------------------------------------------------------------------
(* Every variable of the gate has its type. *)
TypeOK ==
    /\ enteredStage \in [Procs -> Stages \cup {NOT_INTERESTED}]
    /\ lastProcEnteringStage \in [Stages -> Procs]
    /\ owner \in [Procs -> Threads \cup {None}]
    /\ nested \in [Procs -> 0..MaxNest]
    /\ pc \in [Procs -> {"out", "setStage", "setLast", "readStage", "readLast",
                         "in", "clearStage", "leaveLocal"}]
    /\ curStage \in [Procs -> 0..N-1]
    /\ proc \in [Procs -> Procs]

(* GatePetersonN_enter returns to at most one processor at a time, although
   a processor reads the others' stages one by one while they change. *)
MutualExclusion ==
    \A p, q \in Procs : pc[p] = "in" /\ pc[q] = "in" => p = q

(* The filter: while two processors are past a stage, the one that signed in
   last is still held at it.  No counter in the code says so. *)
LastIsHeld ==
    \A p, q \in Procs, s \in Stages :
        p # q /\ curStage[p] > s /\ curStage[q] > s
            => curStage[lastProcEnteringStage[s]] = s

(* A processor that starts on the stages gets the gate. *)
EnterReturns == \A p \in Procs : pc[p] = "setStage" ~> pc[p] = "in"
=============================================================================
