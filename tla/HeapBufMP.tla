------------------------------ MODULE HeapBufMP ------------------------------
(***************************************************************************)
(* A heap of blocks of one size in shared memory                           *)
(* (packages/ti/sdo/ipc/heaps/HeapBufMP.c).  The free blocks are a ListMP, *)
(* see that module, and are a sequence here.  The counters are in the      *)
(* attrs, one cache line that every processor may hold an old copy of:     *)
(* what a call reads before it enters the gate loads one.  free starts the *)
(* invalidation of that copy and does not wait for its end; one operation  *)
(* on the cache ends before the next starts, and those of ListMP are       *)
(* waited for.                                                             *)
(***************************************************************************)
EXTENDS Integers, SequencesExt

CONSTANTS
    Procs, Creator,
    Params,       \* what create may be given: [align, blockSize, numBlocks]
    Places,       \* addresses the region's heap returns for attrs
    CacheLine,    \* SharedRegion_getCacheLineSize
    AttrsSize, ListSize,   \* sizeof(Attrs), ListMP_sharedMemReq
    MaxUInt       \* (UInt)-1, the counters are of its width

None == 0     \* no processor

VARIABLES
    params, place,
    attrs,        \* [created, numFreeBlocks, minFreeBlocks] in memory
    cached,       \* cached[p]: p's copy of attrs, a sequence of at most one
    freeList,
    open,         \* processors with an instance
    owner,        \* owner[b]: who allocated block b, or None
    gate,         \* who is in the heap's gate, or None
    pc, block,    \* each processor's call
    least,        \* the fewest blocks that were ever free
    lost          \* a free has counted from the cache, or lost its count in it

shape  == <<params, place>>
heap   == <<attrs, cached, freeList>>
calls  == <<owner, gate, pc, block>>
stats  == <<least, lost>>
vars   == <<shape, heap, open, calls, stats>>

Roundup(n, align) == ((n + align - 1) \div align) * align

-----------------------------------------------------------------------------
(***************************************************************************)
(* The layout.  Instance_init takes the alignment of the region whatever   *)
(* alignment it is given; sharedMemReq, which the user calls to find room, *)
(* takes the larger of the two.                                            *)
(***************************************************************************)
BlockSize(p) == Roundup(p.blockSize, CacheLine)

BufAlign(p) == IF p.align < CacheLine THEN CacheLine ELSE p.align
SharedMemReq(p) ==
    Roundup(Roundup(AttrsSize, CacheLine) + ListSize, BufAlign(p))
      + Roundup(p.blockSize, BufAlign(p)) * p.numBlocks

Buf(p, at) == Roundup(Roundup(at + AttrsSize, CacheLine) + ListSize, CacheLine)
Blocks(p, at) == {Buf(p, at) + i * BlockSize(p) : i \in 0 .. p.numBlocks - 1}

Init ==
    /\ params \in Params /\ place \in Places
    /\ attrs = [created |-> FALSE, numFreeBlocks |-> 0, minFreeBlocks |-> 0]
    /\ cached = [p \in Procs |-> <<>>]
    /\ freeList = <<>>
    /\ open = {}
    /\ owner = [b \in Blocks(params, place) |-> None]
    /\ gate = None
    /\ pc = [p \in Procs |-> "idle"] /\ block = [p \in Procs |-> 0]
    /\ least = 0 /\ lost = FALSE

-----------------------------------------------------------------------------
(* create with postInit, openByAddr, close and delete. *)

Create ==
    /\ ~attrs.created /\ open = {}
    /\ attrs' = [created |-> TRUE, numFreeBlocks |-> params.numBlocks,
                 minFreeBlocks |-> MaxUInt]
    /\ cached' = [cached EXCEPT ![Creator] = <<>>]
    /\ freeList' = SetToSortSeq(Blocks(params, place), <)
    /\ open' = {Creator}
    /\ least' = params.numBlocks /\ lost' = FALSE
    /\ UNCHANGED <<shape, calls>>

\* The list cannot be created: the creator has a heap without one, its status
\* is not set, and no error says so.
CreateFails ==
    /\ ~attrs.created /\ open = {}
    /\ open' = {Creator}
    /\ UNCHANGED <<shape, heap, calls, stats>>

OpenByAddr(p) ==
    /\ p \notin open
    /\ cached' = [cached EXCEPT ![p] = <<attrs>>]
    /\ open' = IF attrs.created THEN open \cup {p} ELSE open
    /\ UNCHANGED <<shape, attrs, freeList, calls, stats>>

Close(p) ==
    /\ p \in open \ {Creator}
    /\ pc[p] = "idle"
    /\ open' = open \ {p}
    /\ UNCHANGED <<shape, heap, calls, stats>>

(* The heap is deleted when nobody uses it.                                *)
Delete ==
    /\ open = {Creator} /\ pc[Creator] = "idle"
    /\ \A b \in DOMAIN owner : owner[b] = None
    /\ attrs' = [attrs EXCEPT !.created = FALSE]
    /\ cached' = [cached EXCEPT ![Creator] = <<>>]
    /\ freeList' = <<>>
    /\ open' = {}
    /\ UNCHANGED <<shape, calls, stats>>

-----------------------------------------------------------------------------
(* alloc, free and getStats.  What a call does in the gate to the counters: *)

Enter(p) == gate = None /\ gate' = p
Leave(p) == gate' = None /\ pc' = [pc EXCEPT ![p] = "idle"]

\* Mutant: the counters are read from the cache.
CurrentHeld(p) == IF cached[p] = <<>> THEN attrs ELSE cached[p][1]

\* Cache_inv, then the read.
Current(p) == attrs

Plus(count, n) == (count + n) % (MaxUInt + 1)

AllocEnter(p) ==
    /\ p \in open /\ pc[p] = "idle"
    /\ Enter(p)
    /\ pc' = [pc EXCEPT ![p] = "take"]
    /\ UNCHANGED <<shape, heap, open, owner, block, stats>>

AllocNone(p) ==
    /\ pc[p] = "take" /\ attrs.created
    /\ freeList = <<>>
    /\ Leave(p)
    /\ UNCHANGED <<shape, heap, open, owner, block, stats>>

AllocTake(p) ==
    /\ pc[p] = "take"
    /\ freeList # <<>>
    /\ block' = [block EXCEPT ![p] = Head(freeList)]
    /\ freeList' = Tail(freeList)
    /\ pc' = [pc EXCEPT ![p] = "allocCount"]
    /\ UNCHANGED <<shape, attrs, cached, open, owner, gate, stats>>

\* There is no list to take a block from: the call goes no further.
AllocNull(p) ==
    /\ pc[p] = "take" /\ ~attrs.created
    /\ pc' = [pc EXCEPT ![p] = "null"]
    /\ UNCHANGED <<shape, heap, open, owner, gate, block, stats>>

\* The new counters are written back and dropped from the cache.
AllocCount(p) ==
    /\ pc[p] = "allocCount"
    /\ LET numFree == Plus(Current(p).numFreeBlocks, -1)
       IN  attrs' = [Current(p) EXCEPT
                       !.numFreeBlocks = numFree,
                       !.minFreeBlocks = IF numFree < @ THEN numFree ELSE @]
    /\ cached' = [cached EXCEPT ![p] = <<>>]
    /\ owner' = [owner EXCEPT ![block[p]] = p]
    /\ least' = IF Len(freeList) < least THEN Len(freeList) ELSE least
    /\ Leave(p)
    /\ UNCHANGED <<shape, freeList, open, block, lost>>

(* free reads attrs->blockSize before it enters the gate.                  *)
FreeCall(p, b) ==
    /\ p \in open /\ pc[p] = "idle"
    /\ owner[b] = p
    /\ owner' = [owner EXCEPT ![b] = None]
    /\ cached' = [cached EXCEPT ![p] = IF @ = <<>> THEN <<attrs>> ELSE @]
    /\ block' = [block EXCEPT ![p] = b]
    /\ pc' = [pc EXCEPT ![p] = "freeEnter"]
    /\ UNCHANGED <<shape, attrs, freeList, open, gate, stats>>

FreePut(p) ==
    /\ pc[p] = "freeEnter"
    /\ Enter(p)
    /\ freeList' = Append(freeList, block[p])
    /\ pc' = [pc EXCEPT ![p] = "freeCount"]
    /\ UNCHANGED <<shape, attrs, cached, open, owner, block, stats>>

(* The invalidation of the attrs may end before the count is read, between  *)
(* that and its writing, after it, when the count goes with the line, or    *)
(* not before the line is written back with all that is in it.              *)
Counted(old, line) == [line EXCEPT !.numFreeBlocks = Plus(old.numFreeBlocks, 1)]
FreeCount(p) ==
    /\ pc[p] = "freeCount"
    /\ \/ \E old \in {Current(p)} \cup ToSet(cached[p]) :
             \E line \in {old, Current(p)} : attrs' = Counted(old, line)
       \/ cached[p] # <<>> /\ UNCHANGED attrs
    /\ cached' = [cached EXCEPT ![p] = <<>>]
    /\ lost' = (lost \/ attrs' # Counted(attrs, attrs))
    /\ Leave(p)
    /\ UNCHANGED <<shape, freeList, open, owner, block, least>>

(* getStats and getExtendedStats leave a copy in the cache.                *)
GetStats(p) ==
    /\ p \in open /\ pc[p] = "idle"
    /\ gate = None
    /\ cached' = [cached EXCEPT ![p] = <<Current(p)>>]
    /\ UNCHANGED <<shape, attrs, freeList, open, calls, stats>>

-----------------------------------------------------------------------------
Alloc(p) == AllocEnter(p) \/ AllocNone(p) \/ AllocNull(p) \/ AllocTake(p) \/ AllocCount(p)
Free(p)  == FreePut(p) \/ FreeCount(p) \/ \E b \in DOMAIN owner : FreeCall(p, b)

Next ==
    \/ Create \/ CreateFails \/ Delete
    \/ \E p \in Procs : OpenByAddr(p) \/ Close(p) \/ Alloc(p) \/ Free(p) \/ GetStats(p)

Spec == Init /\ [][Next]_vars

-----------------------------------------------------------------------------
(***************************************************************************)
(* With nobody in the gate the counters tell the truth: as many blocks are *)
(* in the free list as numFreeBlocks says, and minFreeBlocks is the fewest *)
(* there ever were, or (UInt)-1 before the first alloc.  Only a free whose *)
(* invalidation ends too late, which the code does not exclude, makes them *)
(* wrong, and they stay so.                                                *)
(***************************************************************************)
CountersAgree ==
    attrs.created /\ gate = None /\ ~lost =>
       /\ attrs.numFreeBlocks = Len(freeList)
       /\ \/ attrs.minFreeBlocks = least
          \/ attrs.minFreeBlocks = MaxUInt /\ least = params.numBlocks

(***************************************************************************)
(* The blocks do not depend on the counters: each is in the list once, or  *)
(* allocated, or in the hands of one call.  A heap whose list could not be *)
(* created is nobody's but its creator's.                                  *)
(***************************************************************************)
InHand(p) == pc[p] \in {"allocCount", "freeEnter"}
BlocksArePlaced ==
    /\ attrs.created => \A b \in DOMAIN owner :
          Cardinality(  ({"list"} \X {i \in DOMAIN freeList : freeList[i] = b})
                   \cup ({"owner"} \X ({owner[b]} \ {None}))
                   \cup ({"call"} \X {p \in Procs : InHand(p) /\ block[p] = b})) = 1
    /\ ~attrs.created => open \subseteq {Creator}

(***************************************************************************)
(* The last block ends inside what sharedMemReq says the heap takes, and   *)
(* the blocks are apart from each other.                                   *)
(***************************************************************************)
BlocksFit ==
    /\ \A b \in DOMAIN owner : b + params.blockSize <= place + SharedMemReq(params)
    /\ \A b, c \in DOMAIN owner : b < c => b + params.blockSize <= c
=============================================================================
