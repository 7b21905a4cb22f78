------------------------------- MODULE Notify -------------------------------
(***************************************************************************)
(* A Notify object of one processor (packages/ti/sdo/ipc/Notify.c): the    *)
(* callbacks and listener lists of its events, the module gate that guards *)
(* them, and the nesting of disable and restore.  It is the local object   *)
(* (loopback: procId is this processor), or has a driver underneath,       *)
(* seen here through what NotifyDriverShm does to its interrupt line and   *)
(* to the set of registered events.  The module gate is a mutex that its   *)
(* owner may enter again (Notify.xs plugs GateSwi unless another is set).  *)
(*                                                                         *)
(* A remote event is executed by an isr and a local one with interrupts    *)
(* disabled: neither is interrupted by a thread, so what they read is one  *)
(* state.  disableEvent of the driver executes a pending event in a thread.*)
(***************************************************************************)
EXTENDS Integers, Sequences, SequencesExt, FiniteSetsExt

CONSTANTS
    NotifyThreads,
    Fns,             \* callback functions with their arguments
    Listeners,       \* the EventListeners the heap has room for
    ManyEvents,      \* events used with registerEvent
    SingleEvents,    \* events used with registerEventSingle
    MaxNesting,      \* bound on the nesting of disable
    MaxDepth         \* bound on the nesting of the module gate

(* An event is used with one of the two interfaces.  The other constants   *)
(* are told apart from the names below.                                    *)
ASSUME NotifyAssumption ==
    /\ ManyEvents \cap SingleEvents = {}
    /\ "none" \notin Fns \cup Listeners /\ "execMany" \notin Fns
    /\ "no one" \notin NotifyThreads
    /\ MaxNesting \in Nat /\ MaxDepth \in Nat

Events   == ManyEvents \cup SingleEvents
NoOne    == "no one"
NoFxn    == "none"
ExecMany == "execMany"
NoArgs   == <<>>

VARIABLES
    local,           \* is this the loopback object?  (it stays what it is)
    modOwner, modDepth,  \* the module gate, which a thread may enter again
    callback,        \* callback[e]: NoFxn, ExecMany or a single function
    eventList,       \* eventList[e]: the listeners of e, in order
    fnOf,            \* fnOf[l]: the callback of listener l, NoFxn when it is free
    regEvents,       \* the events registered with the driver
    lineEnabled,     \* the interrupt line, as the driver left it
    nesting,
    keys,            \* keys[t]: the keys thread t got from disable
    enableMask,
    notifyPc, args,  \* args[t]: the event and function thread t works on
    cursor           \* cursor[t]: the listener execMany of thread t is at

moduleGate == <<modOwner, modDepth>>
object     == <<callback, eventList, fnOf>>
driver     == <<regEvents, lineEnabled>>
nest       == <<nesting, keys>>
thread     == <<notifyPc, args, cursor>>
notifyVars == <<local, moduleGate, object, driver, nest, enableMask, thread>>

NotifyInit ==
    /\ local \in BOOLEAN
    /\ modOwner = NoOne /\ modDepth = 0
    /\ callback = [e \in Events |-> NoFxn]
    /\ eventList = [e \in Events |-> <<>>]
    /\ fnOf = [l \in Listeners |-> NoFxn]
    /\ regEvents = {}
    /\ lineEnabled = TRUE
    /\ nesting = 0
    /\ keys = [t \in NotifyThreads |-> <<>>]
    /\ enableMask = Events
    /\ notifyPc = [t \in NotifyThreads |-> "idle"]
    /\ args = [t \in NotifyThreads |-> NoArgs]
    /\ cursor = [t \in NotifyThreads |-> NoFxn]

-----------------------------------------------------------------------------
CanEnter(t) == modOwner \in {NoOne, t} /\ modDepth < MaxDepth

EnterModule(t) == CanEnter(t) /\ modOwner' = t /\ modDepth' = modDepth + 1

LeaveModule(t) ==
    /\ modDepth' = modDepth - 1
    /\ modOwner' = IF modDepth = 1 THEN NoOne ELSE t

NotifyGoto(t, to) == notifyPc' = [notifyPc EXCEPT ![t] = to]

Return(t) ==
    /\ NotifyGoto(t, "idle")
    /\ args' = [args EXCEPT ![t] = NoArgs]
    /\ UNCHANGED cursor

Call(t, to, e, f) ==
    /\ notifyPc[t] = "idle"
    /\ NotifyGoto(t, to)
    /\ args' = [args EXCEPT ![t] = [event |-> e, fn |-> f]]
    /\ UNCHANGED cursor

Event(t) == args[t].event
Fn(t)    == args[t].fn

-----------------------------------------------------------------------------
(***************************************************************************)
(* registerEvent: the listener goes to the list; the first one registers   *)
(* execMany as the callback, and that registers the event with the driver. *)
(***************************************************************************)
RegisterEvent(t, e, f) ==
    /\ EnterModule(t)
    /\ Call(t, "alloc", e, f)
    /\ UNCHANGED <<object, driver, nest, local, enableMask>>

Free == {l \in Listeners : fnOf[l] = NoFxn}

RegisterNoMemory(t) ==
    /\ notifyPc[t] = "alloc"
    /\ Free = {}
    /\ LeaveModule(t)
    /\ Return(t)
    /\ UNCHANGED <<object, driver, nest, local, enableMask>>

(* Mutant: the callback is registered for every listener but the first.    *)
FirstListenerInverted(e) == eventList[e] # <<>>

FirstListener(e) == eventList[e] = <<>>

RegisterListPut(t) ==
    /\ notifyPc[t] = "alloc"
    /\ \E l \in Free :
          /\ fnOf' = [fnOf EXCEPT ![l] = Fn(t)]
          /\ eventList' = [eventList EXCEPT ![Event(t)] = Append(@, l)]
    /\ IF FirstListener(Event(t))
       THEN /\ NotifyGoto(t, "single")
            /\ args' = [args EXCEPT ![t].fn = ExecMany]
            /\ UNCHANGED <<moduleGate, cursor>>
       ELSE LeaveModule(t) /\ Return(t)
    /\ UNCHANGED <<callback, driver, nest, local, enableMask>>

(***************************************************************************)
(* registerEventSingle, called by a thread or by registerEvent.            *)
(***************************************************************************)
RegisterEventSingle(t, e, f) ==
    /\ EnterModule(t)
    /\ Call(t, "single", e, f)
    /\ UNCHANGED <<object, driver, nest, local, enableMask>>

(* A second callback is refused; registerEvent asserts that it is not.     *)
SingleExists(t) ==
    /\ notifyPc[t] = "single"
    /\ callback[Event(t)] # NoFxn
    /\ IF Fn(t) = ExecMany
       THEN NotifyGoto(t, "assertFailed") /\ UNCHANGED <<moduleGate, args, cursor>>
       ELSE LeaveModule(t) /\ Return(t)
    /\ UNCHANGED <<object, driver, nest, local, enableMask>>

SingleSet(t) ==
    /\ notifyPc[t] = "single"
    /\ callback[Event(t)] = NoFxn
    /\ callback' = [callback EXCEPT ![Event(t)] = Fn(t)]
    /\ IF local
       THEN LeaveModule(t) /\ Return(t)
       ELSE NotifyGoto(t, "driverRegister") /\ UNCHANGED <<moduleGate, args, cursor>>
    /\ UNCHANGED <<eventList, fnOf, driver, nest, local, enableMask>>

(* The driver disables its line, registers the event, enables its line.    *)
DriverRegister(t) ==
    /\ notifyPc[t] = "driverRegister"
    /\ regEvents' = regEvents \cup {Event(t)}
    /\ lineEnabled' = TRUE
    /\ LeaveModule(t)
    /\ Return(t)
    /\ UNCHANGED <<object, nest, local, enableMask>>

-----------------------------------------------------------------------------
(***************************************************************************)
(* unregisterEventSingle: first the driver, then the callback.             *)
(***************************************************************************)
UnregisterEventSingle(t, e) ==
    /\ EnterModule(t)
    /\ Call(t, "unSingle", e, NoFxn)
    /\ UNCHANGED <<object, driver, nest, local, enableMask>>

UnSingleMissing(t) ==
    /\ notifyPc[t] = "unSingle"
    /\ callback[Event(t)] = NoFxn
    /\ IF Fn(t) = NoFxn
       THEN LeaveModule(t) /\ Return(t)
       ELSE NotifyGoto(t, "assertFailed") /\ UNCHANGED <<moduleGate, args, cursor>>
    /\ UNCHANGED <<object, driver, nest, local, enableMask>>

UnSingleDriver(t) ==
    /\ notifyPc[t] = "unSingle"
    /\ callback[Event(t)] # NoFxn
    /\ regEvents' = regEvents \ {Event(t)}
    /\ lineEnabled' = (local => lineEnabled)
    /\ NotifyGoto(t, "unSingleClear")
    /\ UNCHANGED <<moduleGate, object, nest, local, enableMask, args, cursor>>

UnSingleClear(t) ==
    /\ notifyPc[t] = "unSingleClear"
    /\ callback' = [callback EXCEPT ![Event(t)] = NoFxn]
    /\ IF Fn(t) = NoFxn
       THEN LeaveModule(t) /\ Return(t)
       ELSE NotifyGoto(t, "unLast") /\ UNCHANGED <<moduleGate, args, cursor>>
    /\ UNCHANGED <<eventList, fnOf, driver, nest, local, enableMask>>

(***************************************************************************)
(* unregisterEvent.  With an empty list it returns without leaving the     *)
(* module gate.                                                            *)
(***************************************************************************)
UnregisterEvent(t, e, f) ==
    /\ EnterModule(t)
    /\ Call(t, "find", e, f)
    /\ UNCHANGED <<object, driver, nest, local, enableMask>>

UnregisterEmpty(t) ==
    /\ notifyPc[t] = "find"
    /\ eventList[Event(t)] = <<>>
    /\ Return(t)
    /\ UNCHANGED <<moduleGate, object, driver, nest, local, enableMask>>

(* The places of the listeners that match; the first is taken.             *)
Matching(e, f) == {i \in DOMAIN eventList[e] : fnOf[eventList[e][i]] = f}

UnregisterNotFound(t) ==
    /\ notifyPc[t] = "find"
    /\ eventList[Event(t)] # <<>>
    /\ Matching(Event(t), Fn(t)) = {}
    /\ LeaveModule(t)
    /\ Return(t)
    /\ UNCHANGED <<object, driver, nest, local, enableMask>>

(* The last listener unregisters the callback before it leaves the list.   *)
UnregisterLast(t) ==
    /\ notifyPc[t] = "find"
    /\ Matching(Event(t), Fn(t)) # {}
    /\ Len(eventList[Event(t)]) = 1
    /\ NotifyGoto(t, "unSingle")
    /\ UNCHANGED <<moduleGate, object, driver, nest, local, enableMask, args, cursor>>

Release(e, i) ==
    /\ eventList' = [eventList EXCEPT ![e] = RemoveAt(@, i)]
    /\ fnOf' = [fnOf EXCEPT ![eventList[e][i]] = NoFxn]

UnregisterRemove(t) ==
    /\ notifyPc[t] = "find"
    /\ Matching(Event(t), Fn(t)) # {}
    /\ Len(eventList[Event(t)]) > 1
    /\ Release(Event(t), Min(Matching(Event(t), Fn(t))))
    /\ LeaveModule(t)
    /\ Return(t)
    /\ UNCHANGED <<callback, driver, nest, local, enableMask>>

UnregisterRemoveLast(t) ==
    /\ notifyPc[t] = "unLast"
    /\ Release(Event(t), Min(Matching(Event(t), Fn(t))))
    /\ LeaveModule(t)
    /\ Return(t)
    /\ UNCHANGED <<callback, driver, nest, local, enableMask>>

-----------------------------------------------------------------------------
(***************************************************************************)
(* disable and restore.  The key is the nesting; restore asserts that the  *)
(* keys come back in order.                                                *)
(***************************************************************************)
Disable(t) ==
    /\ notifyPc[t] = "idle"
    /\ CanEnter(t)
    /\ nesting < MaxNesting
    /\ nesting' = nesting + 1
    /\ keys' = [keys EXCEPT ![t] = Append(@, nesting')]
    /\ lineEnabled' = (lineEnabled /\ (nesting > 0 \/ local))
    /\ UNCHANGED <<moduleGate, object, regEvents, local, enableMask, thread>>

Restore(t) ==
    /\ notifyPc[t] = "idle"
    /\ CanEnter(t)
    /\ keys[t] # <<>> /\ Last(keys[t]) = nesting
    /\ nesting' = nesting - 1
    /\ keys' = [keys EXCEPT ![t] = Front(@)]
    /\ lineEnabled' = (lineEnabled \/ nesting' = 0)
    /\ UNCHANGED <<moduleGate, object, regEvents, local, enableMask, thread>>

(***************************************************************************)
(* disableEvent and enableEvent take no gate.  The driver executes an      *)
(* event that is UP in the calling thread, its interrupt line disabled.    *)
(***************************************************************************)
DisableEvent(t, e) ==
    /\ notifyPc[t] = "idle"
    /\ enableMask' = enableMask \ {e}
    /\ \/ UNCHANGED <<thread, lineEnabled>>
       \/ /\ ~local
          /\ e \in regEvents \cap enableMask
          /\ callback[e] = ExecMany
          /\ lineEnabled' = FALSE
          /\ NotifyGoto(t, "walk")
          /\ args' = [args EXCEPT ![t] = [event |-> e, fn |-> NoFxn]]
          /\ cursor' = [cursor EXCEPT ![t] = Head(eventList[e])]
    /\ UNCHANGED <<moduleGate, object, regEvents, nest, local>>

EnableEvent(t, e) ==
    /\ notifyPc[t] = "idle"
    /\ enableMask' = enableMask \cup {e}
    /\ UNCHANGED <<moduleGate, object, driver, nest, local, thread>>

(* execMany calls the listener at the cursor, then reads its link.         *)
WalkNext(t) ==
    /\ notifyPc[t] = "walk"
    /\ LET rest == eventList[Event(t)]
           at   == SelectInSeq(rest, LAMBDA l : l = cursor[t])
       IN  IF at # 0 /\ at < Len(rest)
           THEN /\ cursor' = [cursor EXCEPT ![t] = rest[at + 1]]
                /\ UNCHANGED <<notifyPc, args, lineEnabled>>
           ELSE /\ cursor' = [cursor EXCEPT ![t] = NoFxn]
                /\ NotifyGoto(t, "idle")
                /\ args' = [args EXCEPT ![t] = NoArgs]
                /\ lineEnabled' = TRUE
    /\ UNCHANGED <<moduleGate, object, regEvents, nest, local, enableMask>>

-----------------------------------------------------------------------------
RegisterStep(t) ==
    \/ RegisterNoMemory(t) \/ RegisterListPut(t)
    \/ SingleExists(t) \/ SingleSet(t) \/ DriverRegister(t)

UnregisterStep(t) ==
    \/ UnSingleMissing(t) \/ UnSingleDriver(t) \/ UnSingleClear(t)
    \/ UnregisterEmpty(t) \/ UnregisterNotFound(t) \/ UnregisterLast(t)
    \/ UnregisterRemove(t) \/ UnregisterRemoveLast(t)

NotifyNext == \E t \in NotifyThreads :
    \/ \E e \in ManyEvents, f \in Fns : RegisterEvent(t, e, f)
                                        \/ UnregisterEvent(t, e, f)
    \/ \E e \in SingleEvents, f \in Fns : RegisterEventSingle(t, e, f)
    \/ \E e \in SingleEvents : UnregisterEventSingle(t, e)
    \/ RegisterStep(t)
    \/ UnregisterStep(t)
    \/ Disable(t) \/ Restore(t)
    \/ \E e \in Events : DisableEvent(t, e) \/ EnableEvent(t, e)
    \/ WalkNext(t)

NotifySpec == NotifyInit /\ [][NotifyNext]_notifyVars

-----------------------------------------------------------------------------
Args == [event : Events, fn : Fns \cup {NoFxn, ExecMany}]

(* Every variable has its type.                                            *)
NotifyTypeOK ==
    /\ local \in BOOLEAN
    /\ modOwner \in NotifyThreads \cup {NoOne}
    /\ modDepth \in 0 .. MaxDepth /\ (modDepth = 0 <=> modOwner = NoOne)
    /\ callback \in [Events -> Fns \cup {NoFxn, ExecMany}]
    /\ eventList \in [Events -> Seq(Listeners)]
    /\ fnOf \in [Listeners -> Fns \cup {NoFxn}]
    /\ regEvents \subseteq Events /\ enableMask \subseteq Events
    /\ lineEnabled \in BOOLEAN
    /\ nesting \in 0 .. MaxNesting
    /\ keys \in [NotifyThreads -> Seq(1 .. MaxNesting)]
    /\ DOMAIN notifyPc = NotifyThreads /\ DOMAIN args = NotifyThreads
    /\ \A t \in NotifyThreads : IF notifyPc[t] = "idle" THEN args[t] = NoArgs
                          ELSE args[t] \in Args
    /\ cursor \in [NotifyThreads -> Listeners \cup {NoFxn}]

(***************************************************************************)
(* The rule in the note on interrupt latency: at every step of registering *)
(* and unregistering, an event that can be executed has a callback, and if *)
(* that is execMany it has listeners.  (ti_sdo_ipc_Notify_exec asserts it.)*)
(***************************************************************************)
CanExecute(e) == IF local THEN callback[e] # NoFxn ELSE e \in regEvents

ExecutableHasCallback ==
    \A e \in Events : CanExecute(e) =>
        /\ callback[e] # NoFxn
        /\ callback[e] = ExecMany => eventList[e] # <<>>

(***************************************************************************)
(* Once registerEvent has returned its listener will be called: when no    *)
(* thread is inside, an event with listeners is executable and calls them  *)
(* all.  And every allocated listener is on exactly one list: none leaks.  *)
(***************************************************************************)
Quiet == \A t \in NotifyThreads : notifyPc[t] \in {"idle", "walk"}

ListenersAreServed ==
    Quiet => \A e \in ManyEvents :
        eventList[e] # <<>> <=> CanExecute(e) /\ callback[e] = ExecMany

NoListenerLeaks ==
    /\ \A l \in Listeners :
          fnOf[l] # NoFxn => \E e \in Events : l \in ToSet(eventList[e])
    /\ \A e, f \in Events :
          \A i \in DOMAIN eventList[e], j \in DOMAIN eventList[f] :
              /\ fnOf[eventList[e][i]] # NoFxn
              /\ eventList[e][i] = eventList[f][j] => e = f /\ i = j

(* registerEvent and unregisterEvent: an event that can be executed has a  *)
(* callback, a listener is served while it is listed and is freed after.   *)
ListenersAreKept == ExecutableHasCallback /\ ListenersAreServed /\ NoListenerLeaks
=============================================================================
