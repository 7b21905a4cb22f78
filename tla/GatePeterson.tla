---------------------------- MODULE GatePeterson ----------------------------
(***************************************************************************)
(* The two-processor multi-processor gate of                               *)
(* packages/ti/sdo/ipc/gates/GatePeterson.c: Peterson's algorithm on two   *)
(* flags and a turn in shared memory, reached through caches that no       *)
(* hardware keeps coherent, under a local gate that orders the threads of  *)
(* one processor and that its owner may enter again.                       *)
(*                                                                         *)
(* A processor is named by its selfId, 0 or 1.  Every access to shared     *)
(* memory is a step of its own: the other processor, and the other threads *)
(* of this one, run in between.                                            *)
(***************************************************************************)
EXTENDS Integers

CONSTANTS Threads0,   \* the threads that use the gate on processor 0
          Threads1,   \* and on processor 1
          MaxNest     \* bound on the depth to which a thread enters the gate

ASSUME NestAssumption == MaxNest \in Nat \ {0}

Procs == {0, 1}
Other(p) == 1 - p                           \* obj->otherId

Threads == Threads0 \cup Threads1
Home    == [t \in Threads |-> IF t \in Threads0 THEN 0 ELSE 1]

FREE == 0
BUSY == 1

CONSTANTS None,       \* nobody owns the local gate
          Absent      \* the line is not in the cache
ASSUME NoneAssumption == None \notin Threads
ASSUME AbsentAssumption == Absent \notin {0, 1}

VARIABLES flag,       \* shared memory: flag[p], one cache line each
          turn,       \* shared memory: the processor that has the turn
          line,       \* line[p]: what p's cache holds of flag[Other(p)] and of turn
          owner,      \* the thread that owns the local gate of p
          nested,     \* obj->nested of p's instance
          pc,         \* where each thread is
          passed      \* history: entries of the other processor while p waits

vars == <<flag, turn, line, owner, nested, pc, passed>>

NoLines == [flag |-> Absent, turn |-> Absent]

Init ==
    /\ flag = [p \in Procs |-> FREE]
    /\ turn = 0
    /\ line = [p \in Procs |-> NoLines]
    /\ owner = [p \in Procs |-> None]
    /\ nested = [p \in Procs |-> 0]
    /\ pc = [t \in Threads |-> "out"]
    /\ passed = [p \in Procs |-> 0]

Goto(t, where) == pc' = [pc EXCEPT ![t] = where]

(* The processor p is past "give away the turn" and has not got the gate. *)
Waiting(p) == \E t \in Threads : Home[t] = p /\ pc[t] \in {"readFlag", "readTurn"}

(* A thread gets the gate: it returns the key to its caller. *)
Acquire(t) ==
    /\ Goto(t, "in")
    /\ passed' = [passed EXCEPT ![Other(Home[t])] =
                      IF Waiting(Other(Home[t])) THEN @ + 1 ELSE @]

-----------------------------------------------------------------------------
(* GatePeterson_enter *)

(* Enter the local gate; an owner that enters again only counts. *)
Enter(t) ==
    /\ pc[t] \in {"out", "in"}
    /\ owner[Home[t]] \in {None, t}
    /\ nested[Home[t]] < MaxNest
    /\ owner' = [owner EXCEPT ![Home[t]] = t]
    /\ nested' = [nested EXCEPT ![Home[t]] = @ + 1]
    /\ Goto(t, IF nested[Home[t]] + 1 > 1 THEN "in" ELSE "setFlag")
    /\ UNCHANGED <<flag, turn, line, passed>>

(* Indicate that we need to use the resource. *)
SetFlag(t) ==
    /\ pc[t] = "setFlag"
    /\ flag' = [flag EXCEPT ![Home[t]] = BUSY]
    /\ Goto(t, "setTurn")
    /\ UNCHANGED <<turn, line, owner, nested, passed>>

(* Mutant: the other processor's flag is not invalidated before it is read. *)
SetTurnKeepsLine(t) ==
    /\ pc[t] = "setTurn"
    /\ turn' = Other(Home[t])
    /\ line' = [line EXCEPT ![Home[t]].turn = Absent]
    /\ passed' = [passed EXCEPT ![Home[t]] = 0]
    /\ Goto(t, "readFlag")
    /\ UNCHANGED <<flag, owner, nested>>

(* Mutant: the processor keeps the turn for itself. *)
SetTurnSelf(t) ==
    /\ pc[t] = "setTurn"
    /\ turn' = Home[t]
    /\ line' = [line EXCEPT ![Home[t]] = NoLines]
    /\ passed' = [passed EXCEPT ![Home[t]] = 0]
    /\ Goto(t, "readFlag")
    /\ UNCHANGED <<flag, owner, nested>>

(* Give away the turn, write it back, and drop the lines to be read. *)
SetTurn(t) ==
    /\ pc[t] = "setTurn"
    /\ turn' = Other(Home[t])
    /\ line' = [line EXCEPT ![Home[t]] = NoLines]
    /\ passed' = [passed EXCEPT ![Home[t]] = 0]
    /\ Goto(t, "readFlag")
    /\ UNCHANGED <<flag, owner, nested>>

(* What the processor p sees of a word: its cache's copy when there is one. *)
Seen(copy, memory) == IF copy = Absent THEN memory ELSE copy

(* The first operand of the loop's condition. *)
ReadFlag(t) ==
    LET p == Home[t]
        seen == Seen(line[p].flag, flag[Other(p)])
    IN  /\ pc[t] = "readFlag"
        /\ line' = [line EXCEPT ![p].flag = seen]
        /\ \/ /\ seen = FREE
              /\ Acquire(t)
           \/ /\ seen = BUSY
              /\ Goto(t, "readTurn")
              /\ UNCHANGED passed
        /\ UNCHANGED <<flag, turn, owner, nested>>

(* Mutant: the loop does not invalidate what it reads again. *)
ReadTurnStale(t) ==
    LET p == Home[t]
        seen == Seen(line[p].turn, turn)
    IN  /\ pc[t] = "readTurn"
        /\ line' = [line EXCEPT ![p].turn = seen]
        /\ \/ /\ seen = Other(p)
              /\ Goto(t, "readFlag")
              /\ UNCHANGED passed
           \/ /\ seen # Other(p)
              /\ Acquire(t)
        /\ UNCHANGED <<flag, turn, owner, nested>>

(* The second operand; while the other has the turn, drop both lines and try again. *)
ReadTurn(t) ==
    LET p == Home[t]
        seen == Seen(line[p].turn, turn)
    IN  /\ pc[t] = "readTurn"
        /\ \/ /\ seen = Other(p)
              /\ line' = [line EXCEPT ![p] = NoLines]
              /\ Goto(t, "readFlag")
              /\ UNCHANGED passed
           \/ /\ seen # Other(p)
              /\ line' = [line EXCEPT ![p].turn = seen]
              /\ Acquire(t)
        /\ UNCHANGED <<flag, turn, owner, nested>>

-----------------------------------------------------------------------------
(* GatePeterson_leave *)

(* obj->nested--; an inner leave only leaves the local gate's inner level. *)
Leave(t) ==
    /\ pc[t] = "in"
    /\ nested' = [nested EXCEPT ![Home[t]] = @ - 1]
    /\ Goto(t, IF nested[Home[t]] - 1 = 0 THEN "clearFlag" ELSE "in")
    /\ UNCHANGED <<flag, turn, line, owner, passed>>

(* Release the resource, ... *)
ClearFlag(t) ==
    /\ pc[t] = "clearFlag"
    /\ flag' = [flag EXCEPT ![Home[t]] = FREE]
    /\ Goto(t, "leaveLocal")
    /\ UNCHANGED <<turn, line, owner, nested, passed>>

(* ... and leave the local gate. *)
LeaveLocal(t) ==
    /\ pc[t] = "leaveLocal"
    /\ owner' = [owner EXCEPT ![Home[t]] = None]
    /\ Goto(t, "out")
    /\ UNCHANGED <<flag, turn, line, nested, passed>>

-----------------------------------------------------------------------------
Step(t) ==
    \/ SetFlag(t) \/ SetTurn(t) \/ ReadFlag(t) \/ ReadTurn(t)
    \/ ClearFlag(t) \/ LeaveLocal(t)

Next == \E t \in Threads : Enter(t) \/ Step(t) \/ Leave(t)

(* A processor runs the code of the gate (its thread is the one inside the
   local gate), and no user of the gate keeps it: in between the entries it
   nests, a thread comes to its outermost leave. *)
Runs(p)            == \E t \in Threads : Home[t] = p /\ Step(t)
Leaves(p)          == \E t \in Threads : Home[t] = p /\ Leave(t)
OutermostLeaves(p) == nested[p] = 1 /\ Leaves(p)
Fairness == \A p \in Procs :
    WF_vars(Runs(p)) /\ WF_vars(Leaves(p)) /\ SF_vars(OutermostLeaves(p))

Spec == Init /\ [][Next]_vars /\ Fairness

-----------------------------------------------------------------------------
Locations == {"out", "setFlag", "setTurn", "readFlag", "readTurn", "in",
              "clearFlag", "leaveLocal"}

(* Every variable of the gate has the type its declaration gives it. *)
TypeOK ==
    /\ flag \in [Procs -> {FREE, BUSY}]
    /\ turn \in Procs
    /\ line \in [Procs -> [flag : {FREE, BUSY, Absent}, turn : Procs \cup {Absent}]]
    /\ owner \in [Procs -> Threads \cup {None}]
    /\ nested \in [Procs -> 0..MaxNest]
    /\ pc \in [Threads -> Locations]
    /\ passed \in [Procs -> Nat]

(* Two threads never hold the gate at the same time, on whichever processors
   they run and however often they entered it: GatePeterson_enter returns
   only when no other thread is between its enter and its last leave. *)
MutualExclusion ==
    \A s, t \in Threads : pc[s] = "in" /\ pc[t] = "in" => s = t

(* A processor that has given away the turn is overtaken at most once: the
   other processor, having left the gate, cannot get it again before. *)
OvertakenOnce == \A p \in Procs : passed[p] <= 1

(* A thread that is inside the local gate gets the gate, however the other
   processor uses it: the loop of GatePeterson_enter ends. *)
EnterReturns == \A t \in Threads : pc[t] = "setFlag" ~> pc[t] = "in"
=============================================================================
