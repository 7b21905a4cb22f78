---------------------------- MODULE MessageQTable ----------------------------
(***************************************************************************)
(* The table of a BIOS processor's queues: MessageQ_create and _delete     *)
(* change it in the module's gate and grow it when it is full; MessageQ_put*)
(* reads it without the gate.  What put does with the queue it found is in *)
(* MessageQ.                                                               *)
(*                                                                         *)
(* Source: packages/ti/sdo/ipc/MessageQ.c                                  *)
(***************************************************************************)
EXTENDS Integers, Sequences

CONSTANTS Users,        \* the threads that create, delete and put
          Names, Objects,
          NumReserved,  \* numReservedEntries
          NumQueues,    \* entries of the static table
          MaxQueues,    \* bound: entries the table grows to
          AnyIndex      \* MessageQ_ANY

ASSUME TableAssumption ==
  /\ Objects \subseteq Nat /\ NumQueues \in Nat /\ NumReserved \in 0 .. NumQueues
  /\ MaxQueues \in Nat /\ AnyIndex \in Nat \ {0}

VARIABLES
  growth,       \* maxRuntimeEntries is NameServer_ALLOWGROWTH
  queues,       \* the table; its first entry is index 0
  old,          \* the static table as it was when a larger one replaced it
  version,      \* how often the table was replaced
  names,        \* names[n]: the queue id the name server has, an index, or Nil
  objs,         \* [state, index, name, named] of each object
  thr,          \* [pc, obj, index, version] of each thread
  tableFault    \* memory was written or read that is not the module's

queueTableVars == <<growth, queues, old, version, names, objs, thr, tableFault>>

Nil        == -1
Idle       == [pc |-> "idle", obj |-> Nil, index |-> Nil, version |-> 0]
FreeObject == [state |-> "free", index |-> Nil, name |-> Nil, named |-> FALSE]
TableInit ==
  /\ growth \in BOOLEAN
  /\ queues = [i \in 1 .. NumQueues |-> Nil] /\ old = queues /\ version = 0
  /\ names = [n \in Names |-> Nil]
  /\ objs = [o \in Objects |-> FreeObject]
  /\ thr = [t \in Users |-> Idle]
  /\ tableFault = FALSE

At(t, pc) == thr[t].pc = pc /\ ~tableFault
UserGoto(t, pc) == thr' = [thr EXCEPT ![t].pc = pc]
Entry(i) == queues[i + 1]
Indices == 0 .. Len(queues) - 1

----------------------------------------------------------------------------
(* MessageQ_create, in the gate: an entry is found, or one is added to a     *)
(* larger table, and the object is in it before it can take a message.       *)

Dynamic == {i \in Indices : i >= NumReserved /\ Entry(i) = Nil}
CreateCall(t, o, n, index) ==
  /\ At(t, "idle") /\ objs[o].state = "free" /\ \A u \in Objects : u < o => objs[u].state # "free"
  /\ objs' = [objs EXCEPT ![o] = [FreeObject EXCEPT !.state = "bare", !.name = n]]
  /\ thr' = [thr EXCEPT ![t] = [Idle EXCEPT !.pc = "slot", !.obj = o, !.index = index]]
  /\ UNCHANGED <<growth, queues, old, version, names, tableFault>>

Takes(t, i) ==
  /\ queues' = [queues EXCEPT ![i + 1] = thr[t].obj]
  /\ thr' = [thr EXCEPT ![t].pc = "fill", ![t].index = i]
  /\ UNCHANGED <<objs, tableFault>>
TakesReserved(t) ==
  /\ At(t, "slot") /\ thr[t].index # AnyIndex
  /\ IF thr[t].index < NumReserved /\ Entry(thr[t].index) = Nil
     THEN Takes(t, thr[t].index)
     ELSE /\ objs' = [objs EXCEPT ![thr[t].obj] = FreeObject]
          /\ thr' = [thr EXCEPT ![t] = Idle]
          /\ UNCHANGED <<queues, tableFault>>
  /\ UNCHANGED <<growth, old, version, names>>
TakesHole(t) ==
  /\ At(t, "slot") /\ thr[t].index = AnyIndex /\ Dynamic # {}
  /\ Takes(t, CHOOSE i \in Dynamic : \A j \in Dynamic : i <= j)
  /\ UNCHANGED <<growth, old, version, names>>
\* The new table has what the old one had.  A mutant: it has not the last entry.
CopiedShort == SubSeq(queues, 1, Len(queues) - 1) \o <<Nil>>
Copied == queues
Grow(t) ==
  /\ At(t, "slot") /\ thr[t].index = AnyIndex /\ Dynamic = {}
  /\ growth /\ Len(queues) < MaxQueues
  /\ queues' = Append(Copied, thr[t].obj)
  /\ version' = version + 1
  /\ old' = IF version = 0 THEN queues ELSE old
  /\ thr' = [thr EXCEPT ![t].pc = "fill", ![t].index = Len(queues)]
  /\ UNCHANGED <<growth, names, objs, tableFault>>
\* No entry and no growth: finalize clears the entry of an index that was not set.
MaxReached(t) ==
  /\ At(t, "slot") /\ thr[t].index = AnyIndex /\ Dynamic = {} /\ ~growth
  /\ tableFault' = TRUE
  /\ UNCHANGED <<growth, queues, old, version, names, objs, thr>>

\* Out of the gate: the lists, the id, and the name, which may be taken.
Fill(t) ==
  /\ At(t, "fill")
  /\ LET o == thr[t].obj
         n == objs[o].name
         named == names[n] = Nil
     IN /\ names' = IF named THEN [names EXCEPT ![n] = thr[t].index] ELSE names
        /\ objs' = [objs EXCEPT ![o].state = IF named THEN "ready" ELSE "torn", ![o].index = thr[t].index, ![o].named = named]
        /\ thr' = [thr EXCEPT ![t] = IF named THEN Idle ELSE [@ EXCEPT !.pc = "null"]]
  /\ UNCHANGED <<growth, queues, old, version, tableFault>>

----------------------------------------------------------------------------
(* MessageQ_delete, of a queue to which nobody puts, and the end of a create *)
(* whose name was taken: the synchronizer and the lists go first, then the   *)
(* entry, in the gate, and then the name.                                    *)

DeleteCall(t, o) ==
  /\ At(t, "idle") /\ objs[o].state = "ready"
  /\ \A u \in Users : ~(thr[u].pc \in {"table", "entry"} /\ thr[u].index = objs[o].index)
  /\ objs' = [objs EXCEPT ![o].state = "torn"]
  /\ thr' = [thr EXCEPT ![t] = [Idle EXCEPT !.pc = "null", !.obj = o, !.index = objs[o].index]]
  /\ UNCHANGED <<growth, queues, old, version, names, tableFault>>
DeleteNulls(t) ==
  /\ At(t, "null")
  /\ queues' = [queues EXCEPT ![thr[t].index + 1] = Nil]
  /\ UserGoto(t, "unname")
  /\ UNCHANGED <<growth, old, version, names, objs, tableFault>>
DeleteUnnames(t) ==
  /\ At(t, "unname")
  /\ LET o == thr[t].obj
     IN /\ names' = IF objs[o].named THEN [names EXCEPT ![objs[o].name] = Nil] ELSE names
        /\ objs' = [objs EXCEPT ![o] = FreeObject]
  /\ thr' = [thr EXCEPT ![t] = Idle]
  /\ UNCHANGED <<growth, queues, old, version, tableFault>>

----------------------------------------------------------------------------
(* MessageQ_put to an id that MessageQ_open found: the table's address is    *)
(* loaded, then the entry.  A static table stays when it was replaced, a     *)
(* later one is freed.                                                       *)

PutFinds(t, n) ==
  /\ At(t, "idle") /\ names[n] # Nil
  /\ Entry(names[n]) # Nil /\ objs[Entry(names[n])].state = "ready"
  /\ thr' = [thr EXCEPT ![t] = [pc |-> "table", obj |-> Entry(names[n]), index |-> names[n], version |-> 0]]
  /\ UNCHANGED <<growth, queues, old, version, names, objs, tableFault>>
PutLoadsTable(t) ==
  /\ At(t, "table")
  /\ thr' = [thr EXCEPT ![t].pc = "entry", ![t].version = version]
  /\ UNCHANGED <<growth, queues, old, version, names, objs, tableFault>>
FreedTable(v) == 0 < v /\ v < version
Found(t) == IF thr[t].version = version THEN Entry(thr[t].index) ELSE old[thr[t].index + 1]
PutLoadsEntry(t) ==
  /\ At(t, "entry")
  /\ tableFault' = FreedTable(thr[t].version)
  /\ thr' = IF tableFault' THEN thr ELSE [thr EXCEPT ![t] = Idle]
  /\ UNCHANGED <<growth, queues, old, version, names, objs>>

TableNext ==
  \E t \in Users :
    \/ \E o \in Objects, n \in Names, index \in {0, AnyIndex} : CreateCall(t, o, n, index)
    \/ TakesReserved(t) \/ TakesHole(t) \/ Grow(t) \/ MaxReached(t) \/ Fill(t)
    \/ \E o \in Objects : DeleteCall(t, o)
    \/ DeleteNulls(t) \/ DeleteUnnames(t)
    \/ \E n \in Names : PutFinds(t, n)
    \/ PutLoadsTable(t) \/ PutLoadsEntry(t)
TableSpec == TableInit /\ [][TableNext]_queueTableVars

----------------------------------------------------------------------------
\* A queue that was created is found at its index, whatever grows, fails and is
\* deleted beside it, and no entry outlives its object (MessageQ_create,
\* MessageQ_delete, MessageQ_grow).
TableIsLive ==
  /\ \A o \in Objects : objs[o].state = "ready" => Entry(objs[o].index) = o
  /\ \A i \in Indices : Entry(i) # Nil => objs[Entry(i)].state # "free"

\* A put that loads the entry finds the queue that it was to go to, but in one case:
\* the table that it loaded was not the static one, and a grow has replaced and freed
\* it since.  What it then reads is no table (MessageQ_put, line 524, against
\* MessageQ_grow, lines 1239 to 1246).
PutFindsItsQueue ==
  \A t \in Users : thr[t].pc = "entry" => FreedTable(thr[t].version) \/ Found(t) = thr[t].obj

\* Memory that is not the table's is used in two cases only: the table may not grow and
\* is full, or it was replaced twice at least.  The first growth takes no put's
\* table away, as the static one is not freed (canFreeQueues).
FaultsAreKnown == tableFault => ~growth \/ version > 1

\* A name leads to its queue, but while a delete is between the table and the name.
NamesAgree ==
  \A n \in Names : names[n] # Nil /\ (\A t \in Users : thr[t].pc # "unname") =>
    Entry(names[n]) # Nil /\ objs[Entry(names[n])].name = n
QueuesAreFound == TableIsLive /\ PutFindsItsQueue /\ FaultsAreKnown /\ NamesAgree
=============================================================================
