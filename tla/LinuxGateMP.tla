----------------------------- MODULE LinuxGateMP -----------------------------
(***************************************************************************)
(* Gates on the Linux side.  A process keeps one object per gate it has    *)
(* created or opened, found by resource in a table of its own; LAD hands   *)
(* out resources and names, one command at a time.  A gate is entered      *)
(* through the process's recursive mutex and then a hardware spinlock.     *)
(*                                                                         *)
(* Source: linux/src/api/gates/{GateMP,GateHWSpinlock,GateMutex}.c,        *)
(*         linux/src/daemon/GateMP_daemon.c                                *)
(***************************************************************************)
EXTENDS Integers, Sequences, SequencesExt, FiniteSetsExt

CONSTANTS GateUsers,
          ProcessOf,    \* ProcessOf[t]: the process of thread t
          Gates,        \* the names of the gates
          Creates,      \* Creates[t]: the gates t may create, each once
          Resources,    \* the spinlocks, but for the default gate's
          RemoteUses,   \* those of gates that a remote processor enters, too
          GateObjects,  \* bound: objects alive at a time
          MaxGates      \* bound: gates a thread is in at a time

Processes == {ProcessOf[t] : t \in GateUsers}
NoOne  == "no one"
RemoteHolder == "a remote processor"
NoRef  == 0

\* Resources and objects have numbers, and nobody is called like no one.
ASSUME GatesAssumption ==
  /\ Resources \subseteq Nat \ {NoRef} /\ GateObjects \subseteq Nat \ {NoRef}
  /\ Processes \cap {NoOne, RemoteHolder} = {} /\ NoOne \notin GateUsers

VARIABLES
  inUse,       \* the resources marked USED, in memory shared with the remotes
  gateNames,   \* gateNames[g]: the resource LAD's name server has for g, or NoRef
  lock,        \* lock[r]: the process that holds the spinlock
  gateAlive,   \* the processes that run
  gateMade,    \* [thread, gate] that have been created, once each
  gateTable,   \* remoteSystemGates of each process
  gateObjs,    \* [live, process, res, opened, opens, nested]
  mutex,       \* GateMP_module->mutex of each process
  localGate,   \* [owner, depth] of each process
  thr,         \* [pc, gate, obj, res] of each thread
  gateHandle,  \* gateHandle[t][g]: the object, or NoRef
  entered,     \* entered[t]: the objects t has entered, and not left
  misused      \* a freed object has been used

gateLadVars   == <<inUse, gateNames>>
processVars   == <<gateTable, gateObjs, mutex>>
enterVars     == <<lock, localGate, entered>>
linuxGateVars == <<gateLadVars, gateAlive, gateMade, processVars, enterVars, thr, gateHandle, misused>>

NoGateObj == [live |-> FALSE, process |-> NoOne, res |-> NoRef, opened |-> FALSE, opens |-> 0, nested |-> 0]
IdleUser  == [pc |-> "idle", gate |-> NoRef, obj |-> NoRef, res |-> NoRef]
NoneOpen == [g \in Gates |-> NoRef]
GatesInit ==
  /\ inUse = {} /\ gateNames = [g \in Gates |-> NoRef]
  /\ lock = [r \in Resources |-> NoOne]
  /\ gateAlive = Processes /\ gateMade = {}
  /\ gateTable = [p \in Processes |-> [r \in Resources |-> NoRef]]
  /\ gateObjs = [o \in GateObjects |-> NoGateObj]
  /\ mutex = [p \in Processes |-> NoOne]
  /\ localGate = [p \in Processes |-> [owner |-> NoOne, depth |-> 0]]
  /\ thr = [t \in GateUsers |-> IdleUser]
  /\ gateHandle = [t \in GateUsers |-> NoneOpen]
  /\ entered = [t \in GateUsers |-> <<>>]
  /\ misused = FALSE

\* Memory is given out again once nobody points to it: a use of it is seen.
FreeObjects ==
  {o \in GateObjects : /\ ~gateObjs[o].live
                       /\ \A t \in GateUsers : thr[t].obj # o /\ \A g \in Gates : gateHandle[t][g] # o}
Mine(t) == ProcessOf[t]
UserAt(t, pc) == thr[t].pc = pc /\ Mine(t) \in gateAlive /\ ~misused
UserGoto(t, pc) == thr' = [thr EXCEPT ![t].pc = pc]
MayCall(t, g) == UserAt(t, "idle") /\ entered[t] = <<>> /\ gateHandle[t][g] = NoRef
UserReturns(t) == thr' = [thr EXCEPT ![t] = IdleUser]
Calloc(t, fields) == gateObjs' = [gateObjs EXCEPT ![Min(FreeObjects)] = [fields EXCEPT !.live = TRUE, !.process = Mine(t)]]

----------------------------------------------------------------------------
(* GateMP_create. *)

CreateCall(t, g) ==
  /\ MayCall(t, g) /\ g \in Creates[t] /\ <<t, g>> \notin gateMade /\ FreeObjects # {}
  /\ Calloc(t, NoGateObj)
  /\ thr' = [thr EXCEPT ![t] = [pc |-> "getFree", gate |-> g, obj |-> Min(FreeObjects), res |-> NoRef]]
  /\ gateMade' = gateMade \cup {<<t, g>>}
  /\ UNCHANGED <<gateLadVars, gateAlive, gateTable, mutex, enterVars, gateHandle, misused>>
\* LAD finds a free resource under the default gate and marks it.
GetFreeResource(t) ==
  /\ UserAt(t, "getFree")
  /\ \/ /\ Resources \subseteq inUse
        /\ gateObjs' = [gateObjs EXCEPT ![thr[t].obj] = NoGateObj]
        /\ UserReturns(t)
        /\ UNCHANGED inUse
     \/ /\ Resources \ inUse # {}
        /\ inUse' = inUse \cup {Min(Resources \ inUse)}
        /\ gateObjs' = [gateObjs EXCEPT ![thr[t].obj].res = Min(Resources \ inUse)]
        /\ thr' = [thr EXCEPT ![t].pc = "store", ![t].res = Min(Resources \ inUse)]
  /\ UNCHANGED <<gateNames, gateAlive, gateMade, gateTable, mutex, enterVars, gateHandle, misused>>
\* The proxy is made and the object stored in the table, then named if it is new.
Store(t) ==
  /\ UserAt(t, "store")
  /\ gateTable' = [gateTable EXCEPT ![Mine(t)][thr[t].res] = thr[t].obj]
  /\ IF gateObjs[thr[t].obj].opened
     THEN gateHandle' = [gateHandle EXCEPT ![t][thr[t].gate] = thr[t].obj] /\ UserReturns(t)
     ELSE gateHandle' = gateHandle /\ UserGoto(t, "name")
  /\ UNCHANGED <<gateLadVars, gateAlive, gateMade, gateObjs, mutex, enterVars, misused>>
\* A name that is taken is refused: the object is freed, and nothing else is.
AddName(t) ==
  /\ UserAt(t, "name")
  /\ LET g == thr[t].gate
     IN IF gateNames[g] = NoRef
        THEN /\ gateNames' = [gateNames EXCEPT ![g] = thr[t].res]
             /\ gateHandle' = [gateHandle EXCEPT ![t][g] = thr[t].obj]
             /\ gateObjs' = gateObjs
        ELSE /\ gateObjs' = [gateObjs EXCEPT ![thr[t].obj] = NoGateObj]
             /\ UNCHANGED <<gateNames, gateHandle>>
  /\ UserReturns(t)
  /\ UNCHANGED <<inUse, gateAlive, gateMade, gateTable, mutex, enterVars, misused>>

----------------------------------------------------------------------------
(* GateMP_delete, which asks nobody: the user calls it once no other thread, *)
(* of any process, has the gate open or opens it.                           *)

Unused(t, g) == \A u \in GateUsers \ {t} : gateHandle[u][g] = NoRef /\ thr[u].gate # g
DeleteCall(t, g) ==
  /\ UserAt(t, "idle") /\ entered[t] = <<>>
  /\ gateHandle[t][g] # NoRef /\ ~gateObjs[gateHandle[t][g]].opened /\ Unused(t, g)
  /\ gateNames' = [gateNames EXCEPT ![g] = NoRef]
  /\ thr' = [thr EXCEPT ![t] = [pc |-> "clear", gate |-> g, obj |-> gateHandle[t][g], res |-> gateObjs[gateHandle[t][g]].res]]
  /\ UNCHANGED <<inUse, gateAlive, gateMade, processVars, enterVars, gateHandle, misused>>
DeleteClears(t) ==
  /\ UserAt(t, "clear")
  /\ gateTable' = [gateTable EXCEPT ![Mine(t)][thr[t].res] = NoRef]
  /\ UserGoto(t, "release")
  /\ UNCHANGED <<gateLadVars, gateAlive, gateMade, gateObjs, mutex, enterVars, gateHandle, misused>>
\* LAD releases the resource, and the object is freed.
ReleaseResource(t) ==
  /\ UserAt(t, "release")
  /\ inUse' = inUse \ {thr[t].res}
  /\ gateObjs' = [gateObjs EXCEPT ![thr[t].obj] = NoGateObj]
  /\ gateHandle' = [gateHandle EXCEPT ![t][thr[t].gate] = NoRef]
  /\ UserReturns(t)
  /\ UNCHANGED <<gateNames, gateAlive, gateMade, gateTable, mutex, enterVars, misused>>

----------------------------------------------------------------------------
(* GateMP_open. *)

OpenCall(t, g) ==
  /\ MayCall(t, g) /\ gateNames[g] # NoRef
  /\ thr' = [thr EXCEPT ![t] = [pc |-> "look", gate |-> g, obj |-> NoRef, res |-> gateNames[g]]]
  /\ UNCHANGED <<gateLadVars, gateAlive, gateMade, processVars, enterVars, gateHandle, misused>>
\* The table is read without the mutex: the object found there is counted, and
\* where there is none, one is made that has one opener.
OpenLooks(t) ==
  /\ UserAt(t, "look")
  /\ LET o == gateTable[Mine(t)][thr[t].res]
     IN \/ /\ o # NoRef
           /\ thr' = [thr EXCEPT ![t].pc = "count", ![t].obj = o]
           /\ gateObjs' = gateObjs
        \/ /\ o = NoRef /\ FreeObjects # {}
           /\ Calloc(t, [NoGateObj EXCEPT !.res = thr[t].res, !.opened = TRUE, !.opens = 1])
           /\ thr' = [thr EXCEPT ![t].pc = "store", ![t].obj = Min(FreeObjects)]
  /\ UNCHANGED <<gateLadVars, gateAlive, gateMade, gateTable, mutex, enterVars, gateHandle, misused>>
OpenCounts(t) ==
  /\ UserAt(t, "count") /\ mutex[Mine(t)] = NoOne
  /\ gateObjs[thr[t].obj].live
  /\ gateObjs' = [gateObjs EXCEPT ![thr[t].obj].opens = @ + 1]
  /\ gateHandle' = [gateHandle EXCEPT ![t][thr[t].gate] = thr[t].obj]
  /\ UserReturns(t)
  /\ UNCHANGED <<gateLadVars, gateAlive, gateMade, gateTable, mutex, enterVars, misused>>
OpenCountsFreed(t) ==
  /\ UserAt(t, "count") /\ mutex[Mine(t)] = NoOne
  /\ ~gateObjs[thr[t].obj].live
  /\ misused' = TRUE
  /\ UNCHANGED <<gateLadVars, gateAlive, gateMade, processVars, enterVars, thr, gateHandle>>

(* GateMP_close: the last one of an object made by open deletes it, still in *)
(* the mutex.  The handle of a creator is refused.                           *)
Close(t, g) ==
  /\ UserAt(t, "idle") /\ entered[t] = <<>> /\ gateHandle[t][g] # NoRef /\ mutex[Mine(t)] = NoOne
  /\ LET o == gateHandle[t][g]
     IN /\ gateObjs[o].opens > 0
        /\ gateObjs' = [gateObjs EXCEPT ![o].opens = @ - 1]
        /\ gateHandle' = [gateHandle EXCEPT ![t][g] = NoRef]
        /\ IF gateObjs[o].opens = 1 /\ gateObjs[o].opened
           THEN /\ thr' = [thr EXCEPT ![t] = [pc |-> "close", gate |-> g, obj |-> o, res |-> gateObjs[o].res]]
                /\ mutex' = [mutex EXCEPT ![Mine(t)] = t]
           ELSE UNCHANGED <<thr, mutex>>
  /\ UNCHANGED <<gateLadVars, gateAlive, gateMade, gateTable, enterVars, misused>>
CloseDeletes(t) ==
  /\ UserAt(t, "close")
  /\ gateTable' = [gateTable EXCEPT ![Mine(t)][thr[t].res] = NoRef]
  /\ gateObjs' = [gateObjs EXCEPT ![thr[t].obj] = NoGateObj]
  /\ mutex' = [mutex EXCEPT ![Mine(t)] = NoOne]
  /\ UserReturns(t)
  /\ UNCHANGED <<gateLadVars, gateAlive, gateMade, enterVars, gateHandle, misused>>

----------------------------------------------------------------------------
(* GateHWSpinlock_enter and GateHWSpinlock_leave. *)

MayEnter(t) == localGate[Mine(t)].owner \in {NoOne, t}
EntersLocal(t) == [localGate EXCEPT ![Mine(t)] = [owner |-> t, depth |-> @.depth + 1]]
LeavesLocal(t) ==
  [localGate EXCEPT ![Mine(t)] = [owner |-> IF @.depth = 1 THEN NoOne ELSE t, depth |-> @.depth - 1]]

\* An object that was entered already is only counted.
EnterGate(t, g) ==
  /\ UserAt(t, "idle") /\ gateHandle[t][g] # NoRef /\ Len(entered[t]) < MaxGates /\ MayEnter(t)
  /\ LET o == gateHandle[t][g]
     IN /\ gateObjs' = [gateObjs EXCEPT ![o].nested = @ + 1]
        /\ localGate' = EntersLocal(t)
        /\ IF gateObjs[o].nested = 0
           THEN /\ thr' = [thr EXCEPT ![t] = [pc |-> "spin", gate |-> g, obj |-> o, res |-> gateObjs[o].res]]
                /\ entered' = entered
           ELSE /\ entered' = [entered EXCEPT ![t] = Append(@, o)]
                /\ thr' = thr
  /\ UNCHANGED <<gateLadVars, gateAlive, gateMade, gateTable, mutex, lock, gateHandle, misused>>
Locks(t) ==
  /\ UserAt(t, "spin") /\ lock[thr[t].res] = NoOne
  /\ lock' = [lock EXCEPT ![thr[t].res] = Mine(t)]
  /\ entered' = [entered EXCEPT ![t] = Append(@, thr[t].obj)]
  /\ UserReturns(t)
  /\ UNCHANGED <<gateLadVars, gateAlive, gateMade, processVars, localGate, gateHandle, misused>>
\* The spinlock is taken: the local gate is left and entered again.  A mutant:
\* the object stays counted meanwhile.
StaysNested(o) == gateObjs' = gateObjs
Unnested(o) == gateObjs' = [gateObjs EXCEPT ![o].nested = @ - 1]
BacksOff(t) ==
  /\ UserAt(t, "spin") /\ lock[thr[t].res] # NoOne
  /\ Unnested(thr[t].obj)
  /\ localGate' = LeavesLocal(t)
  /\ UserGoto(t, "again")
  /\ UNCHANGED <<gateLadVars, gateAlive, gateMade, gateTable, mutex, lock, entered, gateHandle, misused>>
Again(t) ==
  /\ UserAt(t, "again") /\ MayEnter(t)
  /\ gateObjs' = [gateObjs EXCEPT ![thr[t].obj].nested = @ + 1]
  /\ localGate' = EntersLocal(t)
  /\ UserGoto(t, "spin")
  /\ UNCHANGED <<gateLadVars, gateAlive, gateMade, gateTable, mutex, lock, entered, gateHandle, misused>>
LeaveGate(t) ==
  /\ UserAt(t, "idle") /\ entered[t] # <<>>
  /\ LET o == Last(entered[t])
     IN /\ gateObjs' = [gateObjs EXCEPT ![o].nested = @ - 1]
        /\ lock' = IF gateObjs[o].nested = 1 THEN [lock EXCEPT ![gateObjs[o].res] = NoOne] ELSE lock
  /\ localGate' = LeavesLocal(t)
  /\ entered' = [entered EXCEPT ![t] = Front(@)]
  /\ UNCHANGED <<gateLadVars, gateAlive, gateMade, gateTable, mutex, thr, gateHandle, misused>>

----------------------------------------------------------------------------
(* A process dies: LAD releases nothing of its gates.  The spinlock driver   *)
(* unlocks what it held; without the driver it stays locked.                 *)
Die(p) ==
  /\ p \in gateAlive /\ ~misused
  /\ gateAlive' = gateAlive \ {p}
  /\ gateObjs' = [o \in GateObjects |-> IF gateObjs[o].process = p THEN NoGateObj ELSE gateObjs[o]]
  /\ \E held \in {p, NoOne} : lock' = [r \in Resources |-> IF lock[r] = p THEN held ELSE lock[r]]
  /\ thr' = [t \in GateUsers |-> IF Mine(t) = p THEN IdleUser ELSE thr[t]]
  /\ gateHandle' = [t \in GateUsers |-> IF Mine(t) = p THEN NoneOpen ELSE gateHandle[t]]
  /\ entered' = [t \in GateUsers |-> IF Mine(t) = p THEN <<>> ELSE entered[t]]
  /\ localGate' = [localGate EXCEPT ![p] = [owner |-> NoOne, depth |-> 0]]
  /\ mutex' = [mutex EXCEPT ![p] = NoOne]
  /\ UNCHANGED <<gateLadVars, gateMade, gateTable, misused>>

(* A remote processor enters and leaves.                                     *)
RemoteEnters(r) ==
  /\ ~misused /\ r \in RemoteUses \cap inUse /\ lock[r] \in {NoOne, RemoteHolder}
  /\ lock' = [lock EXCEPT ![r] = IF @ = NoOne THEN RemoteHolder ELSE NoOne]
  /\ UNCHANGED <<gateLadVars, gateAlive, gateMade, processVars, localGate, entered, thr, gateHandle, misused>>

UserStep(t) ==
  \/ GetFreeResource(t) \/ Store(t) \/ AddName(t) \/ DeleteClears(t) \/ ReleaseResource(t)
  \/ OpenLooks(t) \/ OpenCounts(t) \/ OpenCountsFreed(t) \/ CloseDeletes(t)
  \/ Locks(t) \/ BacksOff(t) \/ Again(t) \/ LeaveGate(t)
GatesNext ==
  \/ \E t \in GateUsers : UserStep(t)
  \/ \E t \in GateUsers, g \in Gates :
       CreateCall(t, g) \/ DeleteCall(t, g) \/ OpenCall(t, g) \/ Close(t, g) \/ EnterGate(t, g)
  \/ \E p \in Processes : Die(p)
  \/ \E r \in Resources : RemoteEnters(r)
GatesSpec == GatesInit /\ [][GatesNext]_linuxGateVars

----------------------------------------------------------------------------
\* Two threads are never in gates of the same resource, whatever objects their
\* processes have for it, and a thread's gates are locked for its process
\* (GateHWSpinlock_enter, GateHWSpinlock_leave).
OneInGate ==
  \A t \in GateUsers : \A i \in DOMAIN entered[t] :
    LET r == gateObjs[entered[t][i]].res
    IN /\ lock[r] = Mine(t)
       /\ \A u \in GateUsers \ {t} : \A j \in DOMAIN entered[u] : gateObjs[entered[u][j]].res # r

\* Two gates have two resources, both marked (GateMP_getFreeResource,
\* GateMP_releaseResource).
CreatedGates == {o \in GateObjects : gateObjs[o].live /\ ~gateObjs[o].opened /\ gateObjs[o].res # NoRef}
ResourcesAccounted ==
  /\ \A o \in CreatedGates : gateObjs[o].res \in inUse
  /\ \A o, u \in CreatedGates : gateObjs[o].res = gateObjs[u].res => o = u
  /\ \A g \in Gates : gateNames[g] # NoRef => gateNames[g] \in inUse

\* A handle that was not closed points to an object that was not freed, until
\* open counts an object that close has freed since open found it
\* (GateMP_open, GateMP_close).
HandlesAreLive ==
  \A t \in GateUsers, g \in Gates : gateHandle[t][g] # NoRef /\ ~misused => gateObjs[gateHandle[t][g]].live

\* One thread is in a gate, of all processes, and its spinlock is taken for it;
\* resources and handles are accounted for.
ProcessesExclude == OneInGate /\ ResourcesAccounted /\ HandlesAreLive
=============================================================================
