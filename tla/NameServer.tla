------------------------------ MODULE NameServer ------------------------------
(***************************************************************************)
(* The name tables of a processor (packages/ti/sdo/utils/NameServer.c):    *)
(* one instance, with a fixed number of entries or one that grows, which   *)
(* tasks create, share by its name and delete, the entries they add and    *)
(* remove, the memory of both, the drivers to the other processors, and    *)
(* the search of a name over them.  A list operation is atomic (List.c);   *)
(* the module's gate is a GateSwi, so what runs inside it is one action.   *)
(* Tasks do not create the instance at the same time (startup code), but   *)
(* count themselves in and out without a lock.  A driver is not taken away *)
(* between get's look at the table and its call.                           *)
(***************************************************************************)
EXTENDS Naturals, SequencesExt

CONSTANTS
    Tasks,
    Params,       \* what the instance may be created with: [growth, wide, check]
    Names,        \* sequences of letters
    Entries,      \* the table's entries: numDynamic of them
    Self,
    Base, Cluster, \* the cluster: processors Base .. Base + Cluster - 1
    NumProcs,     \* all processors
    Global,       \* whether the drivers are indexed by the processor's own number
    None

VARIABLES
    object,       \* the parameters of the instance, or None
    refCount,
    handles,      \* the tasks that hold a handle
    blocks,       \* the memory allocated from tableHeap
    freeList, nameList,
    name,         \* name[e], the name entry e was last added under
    elem,         \* nsRemoteHandle: the processor that the driver at an index is of
    pc, arg,      \* each task's call: [name, entry, count]
    mine,         \* mine[t]: the entries t has added and not removed
    fault         \* "count": a task has written back a count that another has changed
                  \* since it was read, or freed an instance that another was
                  \* counting; "name": it has got the memory of an entry that
                  \* another has freed and will read; or "none"

instance == <<object, refCount, handles, blocks>>
lists    == <<freeList, nameList, name>>
vars     == <<instance, lists, elem, pc, arg, mine, fault>>

Length == IF Global THEN NumProcs ELSE Cluster
NoCall == [name |-> None, entry |-> None, count |-> 0]

Init ==
    /\ object = None /\ refCount = 0 /\ handles = {} /\ blocks = {}
    /\ freeList = <<>> /\ nameList = <<>>
    /\ name = [e \in Entries |-> None]
    /\ elem = [i \in 0 .. Length - 1 |-> None]
    /\ pc = [t \in Tasks |-> "idle"] /\ arg = [t \in Tasks |-> NoCall]
    /\ mine = [t \in Tasks |-> {}] /\ fault = "none"

Goto(t, l) == pc' = [pc EXCEPT ![t] = l]
Return(t)  == Goto(t, "idle") /\ arg' = [arg EXCEPT ![t] = NoCall]

-----------------------------------------------------------------------------
(* create, delete.  The memory of a table, in the order it is allocated; of
   one that grows, that of each entry.  A value of a word needs none. *)

TableBlocks(p) == IF p.growth THEN <<>>
                  ELSE IF p.wide THEN <<"table", "values", "names">> ELSE <<"table", "names">>
EntryBlocks(p, e) == {<<"entry", e>>, <<"name", e>>} \cup IF p.wide THEN {<<"value", e>>} ELSE {}
EntryMemory(p, e) == IF p.growth THEN EntryBlocks(p, e) ELSE {}

\* A new instance's entries are all free.
postInit(p) == freeList' = IF p.growth THEN <<>> ELSE SetToSeq(Entries)
CreateNew(t, p) ==
    /\ pc[t] = "idle" /\ t \notin handles
    /\ object = None
    /\ object' = p /\ refCount' = 1
    /\ handles' = {t}
    /\ blocks' = blocks \cup ToSet(TableBlocks(p))
    /\ postInit(p) /\ nameList' = <<>>
    /\ UNCHANGED <<name, elem, pc, arg, mine, fault>>

\* What finalize frees: the buffers that are there, or those of the entries
\* that are still in the table.
Freed(p, held) ==
    IF p.growth THEN UNION {EntryBlocks(p, e) : e \in ToSet(nameList)}
    ELSE {b \in held : b \in {"names", "table"} \/ (b = "values" /\ p.wide)}
\* The n-th allocation fails: the instance is finalized, not created.
CreateFails(t, p) ==
    /\ pc[t] = "idle" /\ t \notin handles
    /\ object = None
    /\ \E n \in DOMAIN TableBlocks(p) :
          LET held == blocks \cup ToSet(SubSeq(TableBlocks(p), 1, n - 1))
          IN  blocks' = held \ Freed(p, held)
    /\ UNCHANGED <<object, refCount, handles, lists, elem, pc, arg, mine, fault>>

(* An instance that is there is counted: the count is read, and written     *)
(* back.  (Other parameters raise an error and count nothing, and the       *)
(* handle is returned all the same: the callers here agree.)                *)
Reads(t, l) == arg' = [arg EXCEPT ![t].count = refCount] /\ Goto(t, l)
CreateFinds(t) ==
    /\ pc[t] = "idle" /\ t \notin handles
    /\ object # None
    /\ Reads(t, "create")
    /\ UNCHANGED <<instance, lists, elem, mine, fault>>
CreateCounts(t) ==
    /\ pc[t] = "create"
    /\ refCount' = arg[t].count + 1
    /\ handles' = handles \cup {t}
    /\ fault' = IF refCount # arg[t].count THEN "count" ELSE fault
    /\ Return(t)
    /\ UNCHANGED <<object, blocks, lists, elem, mine>>

(* A task deletes its handle after it has removed its entries; the count it *)
(* has written is read again, and the last one finalizes the instance.      *)
DeleteReads(t) ==
    /\ pc[t] = "idle" /\ t \in handles /\ mine[t] = {}
    /\ Reads(t, "delete")
    /\ UNCHANGED <<instance, lists, elem, mine, fault>>
DeleteCounts(t) ==
    /\ pc[t] = "delete"
    /\ refCount' = arg[t].count - 1
    /\ handles' = handles \ {t}
    /\ fault' = IF refCount # arg[t].count THEN "count" ELSE fault
    /\ arg' = [arg EXCEPT ![t].count = @ - 1]
    /\ Goto(t, "test")
    /\ UNCHANGED <<object, blocks, lists, elem, mine>>
Counting == {t \in Tasks : pc[t] \in {"create", "delete", "test"}}
DeleteTests(t) ==
    /\ pc[t] = "test"
    /\ IF refCount = 0
       THEN /\ object' = None /\ freeList' = <<>> /\ nameList' = <<>>
            /\ blocks' = blocks \ Freed(object, blocks)
       ELSE UNCHANGED <<object, blocks, freeList, nameList>>
    /\ fault' = IF refCount = 0 /\ Counting \ {t} # {} THEN "count" ELSE fault
    /\ Return(t)
    /\ UNCHANGED <<refCount, handles, name, elem, mine>>

-----------------------------------------------------------------------------
(* add; the check is made when the instance was created with it. *)

FindLocal(n) == \E i \in DOMAIN nameList : name[nameList[i]] = n

AddCheck(t, n) ==
    /\ pc[t] = "idle" /\ t \in handles
    /\ object.check => ~FindLocal(n)
    /\ arg' = [arg EXCEPT ![t].name = n]
    /\ Goto(t, "get")
    /\ UNCHANGED <<instance, lists, elem, mine, fault>>

AddGet(t) ==
    /\ pc[t] = "get" /\ freeList # <<>>
    /\ arg' = [arg EXCEPT ![t].entry = Head(freeList)]
    /\ freeList' = Tail(freeList)
    /\ Goto(t, "put")
    /\ UNCHANGED <<instance, nameList, name, elem, mine, fault>>

\* The free list is empty: the table grows by an entry.
Grows(t, e) ==
    /\ pc[t] = "get" /\ freeList = <<>> /\ object.growth
    /\ <<"entry", e>> \notin blocks
    /\ arg' = [arg EXCEPT ![t].entry = e]
    /\ fault' = IF \E u \in Tasks : pc[u] = "freeName" /\ arg[u].entry = e THEN "name" ELSE fault
AddGrow(t) ==
    /\ \E e \in Entries : Grows(t, e) /\ blocks' = blocks \cup EntryBlocks(object, e)
    /\ Goto(t, "put")
    /\ UNCHANGED <<object, refCount, handles, lists, elem, mine>>

\* No memory for the value: the entry is freed,
AddNoValue(t) ==
    /\ \E e \in Entries : Grows(t, e) /\ object.wide /\ blocks' = blocks \cup {<<"name", e>>}
    /\ Goto(t, "freeName")
    /\ UNCHANGED <<object, refCount, handles, lists, elem, mine>>
\* and then its name, which is read from it: the memory keeps it until it is
\* another entry's.
AddFreesName(t) ==
    /\ pc[t] = "freeName"
    /\ blocks' = blocks \ {<<"name", arg[t].entry>>}
    /\ Return(t)
    /\ UNCHANGED <<object, refCount, handles, lists, elem, mine, fault>>

\* No entry; or no memory for it or for its name.
AddFull(t) ==
    /\ pc[t] = "get" /\ freeList = <<>>
    /\ Return(t)
    /\ UNCHANGED <<instance, lists, elem, mine, fault>>

AddPut(t) ==
    /\ pc[t] = "put"
    /\ name' = [name EXCEPT ![arg[t].entry] = arg[t].name]
    /\ nameList' = Append(nameList, arg[t].entry)
    /\ mine' = [mine EXCEPT ![t] = @ \cup {arg[t].entry}]
    /\ Return(t)
    /\ UNCHANGED <<instance, freeList, elem, fault>>

-----------------------------------------------------------------------------
(* remove and removeEntry, of an entry that the task added (removeLocal). *)

\* An entry goes back to the list, or to the heap.
GiveBack(e) ==
    IF object.growth THEN blocks' = blocks \ EntryBlocks(object, e) /\ UNCHANGED freeList
    ELSE freeList' = Append(freeList, e) /\ UNCHANGED blocks

\* Mutant: the first entry of the name is taken for the caller's.
RemoveNameFirst(t, e) ==
    /\ pc[t] = "idle" /\ t \in handles /\ e \in mine[t]
    /\ nameList' = Tail(nameList)
    /\ mine' = [mine EXCEPT ![t] = @ \ {e}]
    /\ GiveBack(e)
    /\ UNCHANGED <<object, refCount, handles, name, elem, pc, arg, fault>>

(* By its name: all of it in the gate.  It takes the first entry of the    *)
(* name; of a name that two adds raced to enter that may be another        *)
(* task's, and that case is left out.                                      *)
RemoveName(t, e) ==
    /\ pc[t] = "idle" /\ t \in handles /\ e \in mine[t]
    /\ \A i \in DOMAIN nameList : name[nameList[i]] = name[e] => nameList[i] = e
    /\ nameList' = Remove(nameList, e)
    /\ mine' = [mine EXCEPT ![t] = @ \ {e}]
    /\ GiveBack(e)
    /\ UNCHANGED <<object, refCount, handles, name, elem, pc, arg, fault>>

(* By its handle: the entry is freed after the gate.                       *)
RemoveEntry(t, e) ==
    /\ pc[t] = "idle" /\ t \in handles /\ e \in mine[t]
    /\ nameList' = Remove(nameList, e)
    /\ mine' = [mine EXCEPT ![t] = @ \ {e}]
    /\ arg' = [arg EXCEPT ![t].entry = e]
    /\ Goto(t, "free")
    /\ UNCHANGED <<instance, freeList, name, elem, fault>>

RemoveFree(t) ==
    /\ pc[t] = "free"
    /\ GiveBack(arg[t].entry)
    /\ Return(t)
    /\ UNCHANGED <<object, refCount, handles, nameList, name, elem, mine, fault>>

-----------------------------------------------------------------------------
(* The drivers to the other processors, each at its processor's index. *)

baseId == IF Global THEN 0 ELSE Base
Index(p) == p - baseId
isRegistered(p) == elem[Index(p)] # None
\* A second driver for a processor is refused.
registerRemoteDriver(p) ==
    /\ ~isRegistered(p)
    /\ elem' = [elem EXCEPT ![Index(p)] = p]
    /\ UNCHANGED <<instance, lists, pc, arg, mine, fault>>
unregisterRemoteDriver(p) ==
    /\ isRegistered(p)
    /\ elem' = [elem EXCEPT ![Index(p)] = None]
    /\ UNCHANGED <<instance, lists, pc, arg, mine, fault>>

-----------------------------------------------------------------------------
Add(t)  ==
    \/ AddGet(t) \/ AddGrow(t) \/ AddNoValue(t) \/ AddFreesName(t) \/ AddFull(t) \/ AddPut(t)
    \/ \E n \in Names : AddCheck(t, n)
Count(t) == CreateFinds(t) \/ CreateCounts(t) \/ DeleteReads(t) \/ DeleteCounts(t) \/ DeleteTests(t)
Drop(t) == RemoveFree(t) \/ \E e \in Entries : RemoveName(t, e) \/ RemoveEntry(t, e)

\* Nothing is known of what follows a fault.
Next ==
    /\ fault = "none"
    /\ \/ \E t \in Tasks :
             \/ \E p \in Params : CreateNew(t, p) \/ CreateFails(t, p)
             \/ Count(t) \/ Add(t) \/ Drop(t)
       \/ \E p \in (Base .. Base + Cluster - 1) \ {Self} : registerRemoteDriver(p) \/ unregisterRemoteDriver(p)

Spec == Init /\ [][Next]_vars

-----------------------------------------------------------------------------
(* get: the processors are asked in turn until one has the name or fails
   for another reason than time; all of the table of drivers after the local
   table, or those of a list.  One without a driver is passed over. *)

Indices == 0 .. Length - 1
QueryAll == <<Self>> \o SelectSeq([i \in 1 .. Length |-> baseId + i - 1], LAMBDA p : p # Self)
QueryList(list) == SubSeq(list, 1, IF Len(list) < Cluster THEN Len(list) ELSE Cluster)
Driver(p) == IF p = Self THEN Self ELSE elem[Index(p)]
GoesOn(status) == status \in {"notfound", "timeout"}

\* status[p] is what processor p would say.
Get(query, status) ==
    LET search[i \in 0 .. Len(query)] ==
          IF i = 0 THEN "notfound"
          ELSE IF ~GoesOn(search[i - 1]) \/ Driver(query[i]) = None THEN search[i - 1]
          ELSE status[Driver(query[i])]
    IN  search[Len(query)]

\* What a local table gives for a name: an entry with it; and for match the
\* last entry of those whose names are longer prefixes than the ones before.
getLocal(n) == SelectInSeq(nameList, LAMBDA e : name[e] = n)
match(n) ==
    FoldLeft(LAMBDA best, e : IF Len(name[e]) > Len(best) /\ IsPrefix(name[e], n)
                              THEN name[e] ELSE best, <<>>, nameList)

-----------------------------------------------------------------------------
(* A task's handle is an instance.                                         *)
HandlesAreLive == handles # {} => object # None /\ refCount > 0

(***************************************************************************)
(* An entry is free, in the table, or in the hands of one call; the table  *)
(* holds what the tasks added, under the names they added it.              *)
(***************************************************************************)
Holders(e) == {t \in Tasks : pc[t] \in {"put", "free"} /\ arg[t].entry = e}
PlacesOf(e) ==
       ({"free"} \X {i \in DOMAIN freeList : freeList[i] = e})
  \cup ({"table"} \X {i \in DOMAIN nameList : nameList[i] = e})
  \cup ({"hand"} \X Holders(e))

EntriesArePartitioned ==
    object # None =>
       /\ \A e \in Entries :
             \/ Cardinality(PlacesOf(e)) = 1
             \/ object.growth /\ PlacesOf(e) = {}
       /\ ToSet(nameList) = UNION {mine[t] : t \in Tasks}

(***************************************************************************)
(* The memory held is that of the instance and, when it grows, of its      *)
(* entries, and the name of one whose value could not be allocated, until  *)
(* it is freed: nothing leaks when an allocation fails, an entry goes or   *)
(* the instance is deleted.                                                *)
(***************************************************************************)
MemoryIsAccounted ==
    blocks = IF object = None THEN {}
             ELSE ToSet(TableBlocks(object))
                    \cup UNION {EntryMemory(object, e) : e \in {d \in Entries : PlacesOf(d) # {}}}
                    \cup {<<"name", arg[t].entry>> : t \in {u \in Tasks : pc[u] = "freeName"}}

(***************************************************************************)
(* A search over all processors, or over the cluster in the caller's       *)
(* order, finds the name if one that can be asked has it and none before   *)
(* it failed but by a timeout, and does not find it otherwise.             *)
(***************************************************************************)
Answers == {"found", "notfound", "timeout", "fail"}
Asked   == {Self} \cup ({elem[i] : i \in Indices} \ {None})

Finds(query, order) ==
    \A status \in [Asked -> Answers] :
       Get(query, status) = "found" <=>
          \E i \in DOMAIN order :
             /\ order[i] \in Asked /\ status[order[i]] = "found"
             /\ \A j \in 1 .. i - 1 : order[j] \in Asked => status[order[j]] # "fail"

ClusterProcs == [i \in 1 .. Cluster |-> Base + i - 1]
SearchFinds ==
    /\ Finds(QueryAll, <<Self>> \o ClusterProcs)
    /\ Finds(QueryList(Reverse(ClusterProcs)), Reverse(ClusterProcs))

(***************************************************************************)
(* A name matches the longest of the table's names it begins with.         *)
(***************************************************************************)
MatchIsLongest ==
    \A n \in Names :
       LET prefixes == {<<>>} \cup {name[e] : e \in {d \in ToSet(nameList) : IsPrefix(name[d], n)}}
       IN  match(n) \in prefixes /\ \A p \in prefixes : Len(p) <= Len(match(n))

(***************************************************************************)
(* What holds until the two things the code does not guard against happen: *)
(* a reference count that another task changes between its reading and its *)
(* writing, or an instance freed while another task counts itself in, and  *)
(* an entry whose memory another task gets between the moment a failed add *)
(* frees it and the moment it reads its name.  (The search depends on the  *)
(* drivers alone.)                                                         *)
(***************************************************************************)
TableIsSound ==
    fault = "none" =>
      /\ HandlesAreLive /\ EntriesArePartitioned /\ MemoryIsAccounted /\ MatchIsLongest
      /\ handles = {} => SearchFinds
=============================================================================
