------------------------------- MODULE GateMP -------------------------------
(***************************************************************************)
(* Gates between processors.  A gate lives in shared memory (its attrs)    *)
(* and owns one of the resources of the remote gate delegate; an array of  *)
(* in-use flags, also shared, is changed under the default gate.  Every    *)
(* processor that opens a gate has an object of its own for it, found by   *)
(* resource in a local table and counted by the handles given out.  A gate *)
(* without remote protection stays on its processor: its attrs hold the    *)
(* object itself.                                                          *)
(*                                                                         *)
(* Source: packages/ti/sdo/ipc/GateMP.c                                    *)
(***************************************************************************)
EXTENDS Integers, Sequences, FiniteSets

CONSTANTS Tasks,
          Owner,        \* the processor that owns region 0 and its default gate
          Proc,         \* Proc[t]: the processor task t runs on
          Creates,      \* Creates[t]: the gates task t may create, each once
          Gates,        \* the gates' addresses in shared memory
          LocalGates,   \* those with GateMP_RemoteProtect_NONE
          Resources,    \* what the delegates have, but for the default gate's
          Room,         \* Room[g]: those of the delegate of gate g
          HostSupport,  \* is what open needs in the name server's entry?
          Proxies,      \* the proxies' [num, map]: resources, and who has its own array
          Objects       \* bound: the objects alive at a time

Procs == {Proc[t] : t \in Tasks}
Nothing  == 0   \* no resource, no object
Creator(g) == {Proc[t] : t \in {u \in Tasks : g \in Creates[u]}}
Nobody == "nobody"

VARIABLES
  inUse,        \* the resources marked USED
  attrs,        \* attrs[g]: [created, arg]
  made,         \* the gates that have been created, which happens once to each
  names,        \* the gates the name server knows
  table,        \* remoteSystemGates of each processor
  objs,         \* the instance objects
  attached,     \* the processors with a default gate
  defaultGate,  \* who is in it
  task,         \* [pc, gate, obj, res]
  handles,      \* handles[t][g]: the object t has opened or created for g
  fault         \* freed memory or a NULL pointer has been used

shared == <<inUse, attrs, made, names>>
local  == <<table, objs, attached>>
gateVars == <<shared, local, defaultGate, task, handles, fault>>

NoObj  == [live |-> FALSE, gate |-> Nothing, res |-> Nothing, opened |-> FALSE, opens |-> 0]
Idle   == [pc |-> "idle", gate |-> Nothing, obj |-> Nothing, res |-> Nothing]
Init ==
  /\ inUse = {} /\ attrs = [g \in Gates |-> [created |-> FALSE, arg |-> Nothing]]
  /\ made = {} /\ names = {}
  /\ table = [p \in Procs |-> [r \in Resources |-> Nothing]]
  /\ objs = [o \in Objects |-> NoObj]
  /\ attached = {Owner}
  /\ defaultGate = Nobody
  /\ task = [t \in Tasks |-> Idle]
  /\ handles = [t \in Tasks |-> [g \in Gates |-> Nothing]]
  /\ fault = FALSE

Lowest(S) == CHOOSE i \in S : \A j \in S : i <= j
\* Freed memory counts as free once nobody points to it: a use of it is seen.
Opening(g) == \E t \in Tasks : task[t].pc \in {"check", "open"} /\ task[t].gate = g
Pointed(o) ==
  \/ \E t \in Tasks : task[t].obj = o \/ \E g \in Gates : handles[t][g] = o
  \/ \E g \in LocalGates : attrs[g].arg = o /\ Opening(g)
FreeObjects == {o \in Objects : ~objs[o].live /\ ~Pointed(o)}
At(t, pc) == task[t].pc = pc /\ ~fault
Goto(t, pc) == task' = [task EXCEPT ![t].pc = pc]
Fault == fault' = TRUE /\ UNCHANGED <<shared, local, defaultGate, task, handles>>

----------------------------------------------------------------------------
(* GateMP_start and GateMP_stop of the processor that owns region 0, when no *)
(* gate is left; GateMP_attach and GateMP_detach of the others.              *)

Start ==
  /\ ~fault /\ Owner \notin attached
  /\ attached' = attached \cup {Owner}
  /\ inUse' = {}
  /\ UNCHANGED <<attrs, made, names, table, objs, defaultGate, task, handles, fault>>
Stop ==
  /\ ~fault /\ attached = {Owner}
  /\ (\A t \in Tasks : task[t].pc = "idle") /\ (\A o \in Objects : ~objs[o].live)
  /\ attached' = {}
  /\ UNCHANGED <<shared, table, objs, defaultGate, task, handles, fault>>

Attach(p) ==
  /\ ~fault /\ p # Owner /\ p \notin attached /\ Owner \in attached
  /\ attached' = attached \cup {p}
  /\ UNCHANGED <<shared, table, objs, defaultGate, task, handles, fault>>
Detach(p) ==
  /\ ~fault /\ p # Owner /\ p \in attached
  /\ \A t \in Tasks : Proc[t] = p => task[t].pc = "idle"
  /\ attached' = attached \ {p}
  /\ UNCHANGED <<shared, table, objs, defaultGate, task, handles, fault>>

----------------------------------------------------------------------------
(* Creating. *)

\* The object and the attrs are allocated; an attrs that could not be is NULL
\* when finalize clears its status.
CreateCall(t, g) ==
  /\ At(t, "idle") /\ g \in Creates[t] \ made /\ Proc[t] \in attached /\ FreeObjects # {}
  /\ LET o == Lowest(FreeObjects)
     IN /\ objs' = [objs EXCEPT ![o] = [NoObj EXCEPT !.live = TRUE, !.gate = g]]
        /\ task' = [task EXCEPT ![t] = [pc |-> "enter", gate |-> g, obj |-> o, res |-> Nothing]]
  /\ made' = made \cup {g}
  /\ UNCHANGED <<inUse, attrs, names, table, attached, defaultGate, handles, fault>>
NoMemory(t) == At(t, "enter") /\ Fault

\* A gate that stays on its processor needs no resource; its name may be taken.
CreateLocal(t) ==
  /\ At(t, "enter") /\ task[t].gate \in LocalGates
  /\ attrs' = [attrs EXCEPT ![task[t].gate] = [created |-> TRUE, arg |-> task[t].obj]]
  /\ \/ /\ names' = names \cup {task[t].gate}
        /\ handles' = [handles EXCEPT ![t][task[t].gate] = task[t].obj]
        /\ task' = [task EXCEPT ![t] = Idle]
     \/ /\ Goto(t, "finalize")
        /\ UNCHANGED <<names, handles>>
  /\ UNCHANGED <<inUse, made, local, defaultGate, fault>>

Enter(t) == defaultGate = Nobody /\ defaultGate' = t
Leave(t) == defaultGate' = IF defaultGate = t THEN Nobody ELSE defaultGate

\* GateMP_getFreeResource: the first resource not in use is found, then marked.
FindFree(t) ==
  /\ At(t, "enter") /\ task[t].gate \notin LocalGates
  /\ Enter(t)
  /\ LET unused == Room[task[t].gate] \ inUse
     IN task' = [task EXCEPT ![t].pc = "mark",
                             ![t].res = IF unused = {} THEN Nothing ELSE Lowest(unused)]
  /\ UNCHANGED <<shared, local, handles, fault>>
MarkUsed(t) ==
  /\ At(t, "mark")
  /\ inUse' = inUse \cup ({task[t].res} \ {Nothing})
  /\ objs' = [objs EXCEPT ![task[t].obj].res = task[t].res]
  /\ Leave(t)
  /\ Goto(t, IF task[t].res = Nothing THEN "finalize" ELSE "register")
  /\ UNCHANGED <<attrs, made, names, table, attached, handles, fault>>
\* The delegate's object is made and the local table filled in ...
Register(t) ==
  /\ At(t, "register")
  /\ table' = [table EXCEPT ![Proc[t]][task[t].res] = task[t].obj]
  /\ Goto(t, "publish")
  /\ UNCHANGED <<shared, objs, attached, defaultGate, handles, fault>>
\* ... or not,
RegisterFails(t) ==
  /\ At(t, "register")
  /\ Goto(t, "finalize")
  /\ UNCHANGED <<shared, local, defaultGate, handles, fault>>
\* then the attrs, and last the name, which may be taken.
Publish(t) ==
  /\ At(t, "publish")
  /\ attrs' = [attrs EXCEPT ![task[t].gate] = [created |-> TRUE, arg |-> task[t].res]]
  /\ \/ /\ names' = names \cup {task[t].gate}
        /\ handles' = [handles EXCEPT ![t][task[t].gate] = task[t].obj]
        /\ task' = [task EXCEPT ![t] = Idle]
     \/ /\ Goto(t, "finalize")
        /\ UNCHANGED <<names, handles>>
  /\ UNCHANGED <<inUse, made, local, defaultGate, fault>>

----------------------------------------------------------------------------
(* Deleting, and undoing a creation that failed: Instance_finalize. *)

\* "Cannot call when numOpens is non-zero"; other processors have closed it.
DeleteCall(t, g) ==
  /\ At(t, "idle")
  /\ LET o == handles[t][g]
     IN /\ o # Nothing /\ ~objs[o].opened /\ objs[o].opens = 0
        /\ \A u \in Tasks \ {t} : handles[u][g] = Nothing
        /\ task' = [task EXCEPT ![t] = [pc |-> "finalize", gate |-> g, obj |-> o, res |-> objs[o].res]]
  /\ handles' = [handles EXCEPT ![t][g] = Nothing]
  /\ UNCHANGED <<shared, local, defaultGate, fault>>

\* A mutant: the entry of the local table is left.
TableKept(p, r) == table
Cleared(p, r) == [table EXCEPT ![p] = [q \in Resources |-> IF q = r THEN Nothing ELSE @[q]]]

Finalize(t) ==
  /\ At(t, "finalize") /\ objs[task[t].obj].live
  /\ names' = names \ {task[t].gate}
  /\ attrs' = [attrs EXCEPT ![task[t].gate].created = FALSE]
  /\ Goto(t, IF task[t].gate \in LocalGates THEN "free" ELSE "clear")
  /\ UNCHANGED <<inUse, made, local, defaultGate, handles, fault>>
ClearEntry(t) ==
  /\ At(t, "clear")
  /\ table' = Cleared(Proc[t], objs[task[t].obj].res)
  /\ Goto(t, IF objs[task[t].obj].res = Nothing THEN "free" ELSE "release")
  /\ UNCHANGED <<shared, objs, attached, defaultGate, handles, fault>>
\* Under the default gate, or with interrupts disabled when there is none.
Release(t) ==
  /\ At(t, "release")
  /\ Proc[t] \in attached => defaultGate = Nobody
  /\ inUse' = inUse \ {objs[task[t].obj].res}
  /\ Goto(t, "free")
  /\ UNCHANGED <<attrs, made, names, local, defaultGate, handles, fault>>
Free(t) ==
  /\ At(t, "free")
  /\ objs' = [objs EXCEPT ![task[t].obj] = NoObj]
  /\ task' = [task EXCEPT ![t] = Idle]
  /\ UNCHANGED <<shared, table, attached, defaultGate, handles, fault>>

----------------------------------------------------------------------------
(* Opening and closing. *)

\* GateMP_open asks the name server: a local gate of another processor is
\* refused, with host support the entry has the resource ...
InEntry(g) == HostSupport /\ g \notin LocalGates
OpenCall(t, g) ==
  /\ At(t, "idle") /\ handles[t][g] = Nothing /\ g \in names
  /\ g \in LocalGates => Proc[t] \in Creator(g)
  /\ task' = [task EXCEPT ![t] = IF InEntry(g)
                                THEN [Idle EXCEPT !.pc = "open", !.gate = g, !.res = attrs[g].arg]
                                ELSE [Idle EXCEPT !.pc = "check", !.gate = g]]
  /\ UNCHANGED <<shared, local, defaultGate, handles, fault>>
\* ... without, openByAddr looks at the status of the attrs ...
OpenChecks(t) ==
  /\ At(t, "check")
  /\ task' = [task EXCEPT ![t] = IF attrs[task[t].gate].created THEN [@ EXCEPT !.pc = "open"] ELSE Idle]
  /\ UNCHANGED <<shared, local, defaultGate, handles, fault>>
\* ... and, interrupts disabled, counts a handle to the object in the table, or
\* makes one.
CountOpen(t, g, r) ==
  /\ LET known == table[Proc[t]][r]
         o == IF known # Nothing THEN known ELSE Lowest(FreeObjects)
     IN /\ IF known # Nothing
           THEN /\ objs[o].live
                /\ objs' = [objs EXCEPT ![o].opens = @ + 1]
                /\ UNCHANGED table
           ELSE /\ FreeObjects # {}
                /\ objs' = [objs EXCEPT ![o] = [live |-> TRUE, gate |-> g, res |-> r, opened |-> TRUE, opens |-> 1]]
                /\ table' = [table EXCEPT ![Proc[t]][r] = o]
        /\ handles' = [handles EXCEPT ![t][g] = o]
  /\ task' = [task EXCEPT ![t] = Idle]
  /\ UNCHANGED <<shared, attached, defaultGate, fault>>
OpenEntry(t) ==
  At(t, "open") /\ InEntry(task[t].gate) /\ CountOpen(t, task[t].gate, task[t].res)
OpenCounts(t) ==
  /\ At(t, "open") /\ task[t].gate \notin LocalGates /\ ~HostSupport
  /\ CountOpen(t, task[t].gate, attrs[task[t].gate].arg)

\* A local gate's object is the one its attrs hold.
OpenLocal(t) ==
  /\ At(t, "open") /\ task[t].gate \in LocalGates
  /\ LET o == attrs[task[t].gate].arg
     IN /\ objs[o].live
        /\ objs' = [objs EXCEPT ![o].opens = @ + 1]
        /\ handles' = [handles EXCEPT ![t][task[t].gate] = o]
  /\ task' = [task EXCEPT ![t] = Idle]
  /\ UNCHANGED <<shared, table, attached, defaultGate, fault>>

\* GateMP_close counts down with interrupts disabled and deletes afterwards.
Close(t, g) ==
  /\ At(t, "idle")
  /\ LET o == handles[t][g]
     IN /\ o # Nothing /\ objs[o].live /\ objs[o].opens > 0
        /\ objs' = [objs EXCEPT ![o].opens = @ - 1]
        /\ task' = [task EXCEPT ![t] =
                      IF objs[o].opens = 1 /\ objs[o].opened
                      THEN [pc |-> "drop", gate |-> g, obj |-> o, res |-> objs[o].res]
                      ELSE Idle]
  /\ handles' = [handles EXCEPT ![t][g] = Nothing]
  /\ UNCHANGED <<shared, table, attached, defaultGate, fault>>
\* The assertion in Instance_finalize is the end of the program when it fails.
Drop(t) ==
  /\ At(t, "drop") /\ objs[task[t].obj].live /\ objs[task[t].obj].opens = 0
  /\ table' = Cleared(Proc[t], objs[task[t].obj].res)
  /\ Goto(t, "free")
  /\ UNCHANGED <<shared, objs, attached, defaultGate, handles, fault>>

\* An object that another task has freed in the meantime.
UsesFreedObject(t) ==
  /\ \/ At(t, "drop") /\ (~objs[task[t].obj].live \/ objs[task[t].obj].opens > 0)
     \/ At(t, "free") /\ ~objs[task[t].obj].live
     \/ At(t, "open") /\ task[t].gate \in LocalGates /\ ~objs[attrs[task[t].gate].arg].live
     \/ At(t, "idle") /\ \E g \in Gates : handles[t][g] # Nothing /\ ~objs[handles[t][g]].live
  /\ Fault

----------------------------------------------------------------------------
TaskStep(t) ==
  \/ NoMemory(t) \/ FindFree(t) \/ MarkUsed(t) \/ Register(t) \/ RegisterFails(t) \/ Publish(t)
  \/ Finalize(t) \/ ClearEntry(t) \/ Release(t) \/ Free(t)
  \/ CreateLocal(t) \/ OpenChecks(t) \/ OpenEntry(t) \/ OpenCounts(t)
  \/ OpenLocal(t) \/ Drop(t) \/ UsesFreedObject(t)
  \/ \E g \in Gates : CreateCall(t, g) \/ DeleteCall(t, g) \/ OpenCall(t, g) \/ Close(t, g)
Next == (\E t \in Tasks : TaskStep(t)) \/ Start \/ Stop \/ \E p \in Procs : Attach(p) \/ Detach(p)
Spec == Init /\ [][Next]_gateVars

----------------------------------------------------------------------------
(* What the owner keeps at the start of region 0 for everybody: a version  *)
(* and an array of in-use flags for each delegate that has resources.      *)

Align == 4
Up(n) == ((n + Align - 1) \div Align) * Align
Owns(p, k) == p.map[k] = k
ReservedSize(p) ==
  Up(4) + Up(p.num["system"]) + (IF Owns(p, "custom1") THEN Up(p.num["custom1"]) ELSE 0)
        + (IF Owns(p, "custom2") THEN Up(p.num["custom2"]) ELSE 0)
\* Each array begins behind the one before; a proxy with the delegate of
\* another has its array.  0 is the NULL that is left where there is nothing.
InUseArray(p) ==
  LET system  == Up(4)
      custom1 == IF ~Owns(p, "custom1") THEN system
                 ELSE IF p.num["custom1"] = 0 THEN Nothing ELSE system + Up(p.num["system"])
      custom2 == IF Owns(p, "custom2")
                 THEN IF p.num["custom2"] = 0 THEN Nothing ELSE custom1 + Up(p.num["custom1"])
                 ELSE IF p.map["custom2"] = "custom1" THEN custom1 ELSE system
  IN [system |-> system, custom1 |-> custom1, custom2 |-> custom2]
Flags(p, k) == InUseArray(p)[k] .. InUseArray(p)[k] + p.num[k] - 1

\* The arrays lie behind the version, within what is reserved, and are shared
\* by the proxies of one delegate alone (setRegion0Reserved, whose arithmetic
\* openRegion0Reserved repeats, and getRegion0ReservedSize).
ReservedFits ==
  \A p \in Proxies : \A k \in DOMAIN p.num :
    /\ Flags(p, k) \subseteq Up(4) .. ReservedSize(p) - 1
    /\ \A l \in DOMAIN p.num : p.map[l] # p.map[k] => Flags(p, k) \cap Flags(p, l) = {}

----------------------------------------------------------------------------
\* A resource marked in use belongs to one gate that exists, is being created or
\* is being deleted, whatever processors create and delete at the same time and
\* wherever a creation fails (getFreeResource, Instance_init, Instance_finalize).
Holders(r) == {o \in Objects : objs[o].live /\ ~objs[o].opened /\ objs[o].res = r}
ResourcesAccounted ==
  \A r \in Resources :
    LET leaving == {t \in Tasks : task[t].pc = "free" /\ task[t].obj \in Holders(r)}
    IN Cardinality(Holders(r)) - Cardinality(leaving) = IF r \in inUse THEN 1 ELSE 0

\* A processor's table has no entry for an object that was freed: the next open
\* would count a handle to it.
TableIsLive ==
  \A p \in Procs, r \in Resources : table[p][r] # Nothing => objs[table[p][r]].live /\ objs[table[p][r]].res = r

\* Instance_finalize: "Cannot call when numOpen is non-zero."
FinalizeIsUnopened == \A t \in Tasks : At(t, "drop") => objs[task[t].obj].opens = 0
=============================================================================
