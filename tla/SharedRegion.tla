----------------------------- MODULE SharedRegion -----------------------------
(***************************************************************************)
(* The table of shared memory regions of each processor and the heap that  *)
(* the owner of a region creates in it (packages/ti/sdo/ipc/               *)
(* SharedRegion.c), with the calls that Ipc_start, Ipc_attach, Ipc_detach  *)
(* and Ipc_stop make (packages/ti/sdo/ipc/Ipc.c; their handshake is the    *)
(* subject of Ipc).  Regions that are known before Ipc_start are in every  *)
(* table; tasks of one processor add and clear entries at the same time.   *)
(* Memory for the handle of a heap that is opened is not short.            *)
(***************************************************************************)
EXTENDS Integers, FiniteSetsExt

CONSTANTS
    Procs,
    NumEntries,
    Static,        \* Static[i]: the entry of region i before Ipc_start, or NoEntry
    NoEntry,       \* an entry that is not valid
    Local, Setters,    \* the processor whose tasks call setEntry
    NewEntries,    \* what they add: [base, len, owner, createHeap]
    OffsetBits     \* numOffsetBits

Ids == 0 .. NumEntries - 1

VARIABLES
    table,         \* table[p][i]
    heap,          \* heap[p][i]: p has a handle of the heap of region i
    created,       \* the bases at which there is a heap
    failed,        \* the bases at which the owner could not create it when it started
    started,       \* processors that returned from SharedRegion_start
    attached,      \* attached[p]: the processors p is attached to
    pc, arg,       \* the calls of setEntry and clearEntry: [id, entry]
    raced          \* a task went on with an entry, or a place, that another had
                   \* set or cleared since it looked

system  == <<failed, started, attached>>
setters == <<pc, arg, raced>>
vars    == <<table, heap, created, system, setters>>

Valid(p, i) == table[p][i] # NoEntry
Base(p, i)  == table[p][i].base
Owner(p, i) == table[p][i].owner
Own(p)      == {i \in Ids : Valid(p, i) /\ Owner(p, i) = p}
Region0Owner == Static[0].owner

NoCall == [id |-> 0, entry |-> NoEntry]

Init ==
    /\ table = [p \in Procs |-> Static]
    /\ heap = [p \in Procs |-> [i \in Ids |-> FALSE]]
    /\ created = {} /\ failed = {}
    /\ started = {}
    /\ attached = [p \in Procs |-> {}]
    /\ pc = [t \in Setters |-> "idle"] /\ arg = [t \in Setters |-> NoCall]
    /\ raced = FALSE

Bases(p, S) == {Base(p, i) : i \in S}
SetHeaps(p, S, b) == heap' = [heap EXCEPT ![p] = [i \in Ids |-> IF i \in S THEN b ELSE @[i]]]

-----------------------------------------------------------------------------
(* SharedRegion_start and stop: the owner creates and deletes its heaps.   *)
(* One that cannot be created fails Ipc_start, which the next call finds   *)
(* done already.  A processor stops when it is detached; from a larger one *)
(* it is not before that one is.                                           *)

ToCreate(p) == {i \in Own(p) : table[p][i].createHeap /\ ~heap[p][i]}
Start(p) ==
    /\ p \notin started
    /\ \E bad \in SUBSET ToCreate(p) :
          /\ created' = created \cup Bases(p, ToCreate(p) \ bad)
          /\ failed' = (failed \ Bases(p, Own(p))) \cup Bases(p, bad)
          /\ SetHeaps(p, ToCreate(p) \ bad, TRUE)
    /\ started' = started \cup {p}
    /\ UNCHANGED <<table, attached, setters>>

Stop(p) ==
    /\ p \in started /\ attached[p] = {}
    /\ \A q \in Procs : q > p => p \notin attached[q]
    /\ started' = started \ {p}
    /\ created' = created \ Bases(p, {i \in Own(p) : heap[p][i]})
    /\ SetHeaps(p, Own(p), FALSE)
    /\ UNCHANGED <<table, failed, attached, setters>>

(***************************************************************************)
(* Ipc_attach, whose handshake waits until the other has started, calls    *)
(* SharedRegion_attach: it opens the heaps of every other owner, not only  *)
(* those of the processor that is attached to, and returns the status of   *)
(* the last one.  What follows in Ipc_attach may fail too.                 *)
(***************************************************************************)
ToOpen(p) == {i \in Ids : Valid(p, i) /\ Owner(p, i) # p /\ table[p][i].createHeap /\ ~heap[p][i]}
HasHeap(p, i) == Base(p, i) \in created

Attach(p, q) ==
    /\ {p, q} \subseteq started /\ q # p /\ q \notin attached[p]
    /\ Region0Owner \in {p, q} \cup attached[p]
    /\ SetHeaps(p, {i \in ToOpen(p) : HasHeap(p, i)}, TRUE)
    /\ \/ /\ ToOpen(p) # {} => HasHeap(p, Max(ToOpen(p)))
          /\ attached' = [attached EXCEPT ![p] = @ \cup {q}]
       \/ UNCHANGED attached
    /\ UNCHANGED <<table, created, failed, started, setters>>

(* Ipc_detach: the larger of two processors goes first, the owner of       *)
(* region 0 is left last.                                                  *)
Detach(p, q) ==
    /\ q \in attached[p]
    /\ q = Region0Owner => attached[p] = {q}
    /\ p < q => p \notin attached[q]
    /\ SetHeaps(p, {i \in Ids : Valid(p, i) /\ Owner(p, i) = q}, FALSE)
    /\ attached' = [attached EXCEPT ![p] = @ \ {q}]
    /\ UNCHANGED <<table, created, failed, started, setters>>

-----------------------------------------------------------------------------
(* setEntry and clearEntry *)

End(e) == e.base + e.len

\* Mutant: only the start of the new region is compared.
OverlapsStart(e, r) == e.base >= r.base /\ e.base < End(r)

Overlaps(e, r) == IF e.base >= r.base THEN e.base < End(r) ELSE End(e) > r.base

CheckOverlap(e) == \E i \in Ids : Valid(Local, i) /\ Overlaps(e, table[Local][i])

SetCheck(t, i, e) ==
    /\ pc[t] = "idle"
    /\ ~CheckOverlap(e) /\ ~Valid(Local, i)
    /\ pc' = [pc EXCEPT ![t] = "set"]
    /\ arg' = [arg EXCEPT ![t] = [id |-> i, entry |-> e]]
    /\ UNCHANGED <<table, heap, created, system, raced>>

Return(t)    == pc' = [pc EXCEPT ![t] = "idle"] /\ arg' = [arg EXCEPT ![t] = NoCall]
Stores(t, e) ==
    /\ pc[t] = "set"
    /\ table' = [table EXCEPT ![Local][arg[t].id] = e]
    /\ raced' = (raced \/ CheckOverlap(arg[t].entry) \/ Valid(Local, arg[t].id))
    /\ UNCHANGED <<heap, created, system>>
SetStore(t) ==
    /\ Stores(t, arg[t].entry)
    /\ pc' = [pc EXCEPT ![t] = "heap"]
    /\ UNCHANGED arg
\* The entry is not valid yet.
SetInvalid(t) == Stores(t, NoEntry) /\ Return(t)

(* The owner creates the heap, another processor opens it; if it cannot,   *)
(* the entry is not valid.  One may be asked for without a heap, and one   *)
(* may be there.                                                           *)
SetHeap(t) ==
    LET i == arg[t].id
        e == arg[t].entry
        mine == e.owner = Local
    IN  /\ pc[t] = "heap"
        /\ IF e.createHeap /\ ~heap[Local][i]
           THEN \E ok \in IF mine THEN BOOLEAN ELSE {e.base \in created} :
                   /\ heap' = [heap EXCEPT ![Local][i] = ok]
                   /\ created' = IF mine /\ ok THEN created \cup {e.base} ELSE created
                   /\ table' = [table EXCEPT ![Local][i] = IF ok THEN @ ELSE NoEntry]
           ELSE UNCHANGED <<heap, created, table>>
        /\ raced' = (raced \/ table[Local][i] # e)
        /\ Return(t)
        /\ UNCHANGED system

(* The handle that the entry had is deleted or closed afterwards.          *)
ClearEntry(t, i) ==
    /\ pc[t] = "idle"
    /\ i # 0 /\ Valid(Local, i)
    /\ table' = [table EXCEPT ![Local][i] = NoEntry]
    /\ heap' = [heap EXCEPT ![Local][i] = FALSE]
    /\ IF heap[Local][i]
       THEN /\ arg' = [arg EXCEPT ![t] = [id |-> i, entry |-> table[Local][i]]]
            /\ pc' = [pc EXCEPT ![t] = "delete"]
       ELSE UNCHANGED <<arg, pc>>
    /\ UNCHANGED <<created, system, raced>>

ClearDelete(t) ==
    /\ pc[t] = "delete"
    /\ created' = IF arg[t].entry.owner = Local THEN created \ {arg[t].entry.base} ELSE created
    /\ raced' = (raced \/ (created' # created /\ arg[t].entry.base \in Bases(Local, Own(Local))))
    /\ Return(t)
    /\ UNCHANGED <<table, heap, system>>

-----------------------------------------------------------------------------
SetEntry(t) ==
    \/ SetStore(t) \/ SetInvalid(t) \/ SetHeap(t)
    \/ \E i \in Ids, e \in NewEntries : SetCheck(t, i, e)

\* Nothing is known of what follows a race.
Next ==
    /\ ~raced
    /\ \/ \E p \in Procs : Start(p) \/ Stop(p)
       \/ \E p, q \in Procs : Attach(p, q) \/ Detach(p, q)
       \/ \E t \in Setters : SetEntry(t) \/ ClearDelete(t) \/ \E i \in Ids : ClearEntry(t, i)

Spec == Init /\ [][Next]_vars

-----------------------------------------------------------------------------
(* Pointers that processors exchange: getSRPtr and getPtr. *)

InvalidSRPtr == NumEntries * 2^OffsetBits - 1

GetSRPtr(p, addr, i) == i * 2^OffsetBits + (addr - table[p][i].base)
GetPtr(p, sr)        == (sr % 2^OffsetBits) + table[p][sr \div 2^OffsetBits].base

(***************************************************************************)
(* The regions of a table do not overlap; every address of a region has a  *)
(* shared pointer, which leads back to it and is not the invalid one,      *)
(* except for the last byte of the last region.  The table is checked and  *)
(* written in two critical sections, so that two tasks may set entries     *)
(* that overlap: a race, of which nothing is said.                         *)
(***************************************************************************)
NoOverlap ==
    \A p \in Procs : \A i, j \in Ids :
       i < j /\ Valid(p, i) /\ Valid(p, j)
         => End(table[p][i]) <= table[p][j].base \/ End(table[p][j]) <= table[p][i].base

PointersTranslate ==
    \A p \in Procs : \A i \in Ids : Valid(p, i) =>
       \A addr \in table[p][i].base .. End(table[p][i]) - 1 :
          /\ GetPtr(p, GetSRPtr(p, addr, i)) = addr
          /\ GetSRPtr(p, addr, i) = InvalidSRPtr
               => i = NumEntries - 1 /\ addr = table[p][i].base + 2^OffsetBits - 1

(***************************************************************************)
(* While a processor is attached to a smaller one, it has the heaps of its *)
(* regions open and they exist, but for those that could not be created.   *)
(* (The larger of two detaches first, so it may delete its own heaps under *)
(* the smaller one.)                                                       *)
(***************************************************************************)
AtWork(p, i) == p = Local /\ \E t \in Setters : pc[t] = "heap" /\ arg[t].id = i
AttachedHasHeap ==
    \A p \in Procs : \A i \in Ids :
       Valid(p, i) /\ table[p][i].createHeap /\ ~AtWork(p, i)
         /\ Owner(p, i) \in attached[p] /\ Owner(p, i) < p
         => Base(p, i) \in failed \/ (heap[p][i] /\ HasHeap(p, i))

(***************************************************************************)
(* A table keeps a heap that has been deleted only of an owner that it is  *)
(* not attached to, as attach opens everybody's heaps and detach closes    *)
(* one's, or whose heap could not be created when it started again, or     *)
(* that is larger and goes first; never one of its own.                    *)
(***************************************************************************)
KeptIsKnown ==
    \A p \in Procs : \A i \in Ids :
       Valid(p, i) /\ heap[p][i] /\ ~HasHeap(p, i) =>
          /\ Owner(p, i) # p
          /\ Owner(p, i) \in attached[p] => Owner(p, i) > p \/ Base(p, i) \in failed

\* What holds until two tasks race for an entry or a place.
RegionsAreSound == ~raced => NoOverlap /\ PointersTranslate /\ AttachedHasHeap /\ KeptIsKnown
=============================================================================
