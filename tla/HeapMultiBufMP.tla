--------------------------- MODULE HeapMultiBufMP ---------------------------
(***************************************************************************)
(* A heap of several buffers in shared memory, each divided into blocks of *)
(* one size.  The free blocks of a buffer are a singly linked list whose   *)
(* ends are in the buffer's bucket; a block is taken at the head and put   *)
(* back at the tail, in the heap's gate, by processors whose caches are    *)
(* not coherent.                                                           *)
(*                                                                         *)
(* A cache line holds one bucket or the link of one block.                 *)
(*                                                                         *)
(* Source: packages/ti/sdo/ipc/heaps/HeapMultiBufMP.c                      *)
(***************************************************************************)
EXTENDS SharedCache, Integers, Sequences, FiniteSetsExt, SequencesExt

CONSTANTS Procs,
          Entries,      \* the bucketEntries create may be given
          Places,       \* where the heap may be created
          CacheLine,    \* SharedRegion_getCacheLineSize
          AttrsSize,    \* sizeof(Attrs), a number of cache lines
          Requests,     \* [size, align] that may be asked for
          Speculates    \* processors that load lines on their own

VARIABLES
  buckets,      \* [blockSize, align, numBlocks, baseAddr], as create left them
  place,        \* the address of attrs
  mem, cache,   \* the shared memory, and cache[p][l]
  gate,         \* who is in the heap's gate
  cpu,          \* each processor's call: [pc, index, addr]
  blocks        \* the allocated blocks: [addr, owner, request]

multiBufVars == <<buckets, place, mem, cache, gate, cpu, blocks>>

NULL   == -1
Nobody == 0
Idle   == [pc |-> "idle", index |-> 0, addr |-> NULL]
NoLink == [head |-> NULL, tail |-> NULL, free |-> 0]     \* of a block, only head is used
Roundup(n, align) == ((n + align - 1) \div align) * align

----------------------------------------------------------------------------
(* HeapMultiBufMP_create: the buckets are adjusted, sorted and merged, *)

Adjusted(b) ==
  LET align == IF b.align < CacheLine THEN CacheLine ELSE b.align
  IN [b EXCEPT !.align = align, !.blockSize = Roundup(b.blockSize, align)]
SizeAlignCompare(a, b) == a.blockSize < b.blockSize \/ (a.blockSize = b.blockSize /\ a.align < b.align)
ProcessBuckets(entries) ==
  LET Same(b) == {i \in DOMAIN entries : Adjusted(entries[i]) = [b EXCEPT !.numBlocks = entries[i].numBlocks]}
      Merged(b) == [b EXCEPT !.numBlocks = MapThenSumSet(LAMBDA i : entries[i].numBlocks, Same(b))]
      merged == {Merged(Adjusted(entries[i])) : i \in DOMAIN entries}
  IN SetToSortSeq({b \in merged : b.numBlocks # 0}, SizeAlignCompare)

(* and one buffer laid out behind the other, each at its own alignment.      *)
Bases(start, bs) ==
  LET base[i \in DOMAIN bs] ==
        Roundup(IF i = 1 THEN start ELSE base[i - 1] + bs[i - 1].blockSize * bs[i - 1].numBlocks, bs[i].align)
  IN base
PostInit(at, bs) == [i \in DOMAIN bs |-> [blockSize |-> bs[i].blockSize, align |-> bs[i].align, numBlocks |-> bs[i].numBlocks,
                                          baseAddr |-> Bases(at + AttrsSize, bs)[i]]]
EndOf(b) == b.baseAddr + b.blockSize * b.numBlocks
SharedMemReq(bs) == EndOf(Last(PostInit(0, bs)))

BlocksOf(b) == {b.baseAddr + j * b.blockSize : j \in 0 .. b.numBlocks - 1}
Bucket(i)   == -1 - i            \* the line of bucket i; a block's line is its address
BucketLines == {Bucket(i) : i \in DOMAIN buckets}
Lines == BucketLines \cup UNION {BlocksOf(buckets[i]) : i \in DOMAIN buckets}
Linked(b, a) == IF a + b.blockSize \in BlocksOf(b) THEN a + b.blockSize ELSE NULL

Init ==
  /\ place \in Places
  /\ \E entries \in Entries : buckets = PostInit(place, ProcessBuckets(entries))
  /\ mem = [l \in Lines |->
              IF l \in BucketLines
              THEN LET b == buckets[-1 - l]
                   IN [head |-> b.baseAddr, tail |-> b.baseAddr + (b.numBlocks - 1) * b.blockSize, free |-> b.numBlocks]
              ELSE [NoLink EXCEPT !.head = Linked(buckets[CHOOSE i \in DOMAIN buckets : l \in BlocksOf(buckets[i])], l)]]
  /\ cache = [p \in Procs |-> [l \in Lines |-> NotHeld(NoLink)]]
  /\ gate = Nobody /\ blocks = {}
  /\ cpu = [p \in Procs |-> Idle]

View(p) == [mem |-> mem, cache |-> cache[p]]
Becomes(p, s) == mem' = s.mem /\ cache' = [cache EXCEPT ![p] = s.cache]
Drop(s, lines) == Inv(s, lines, NoLink)
Flush(s, lines) == WbInv(s, lines, NoLink)
Link(n) == [NoLink EXCEPT !.head = n]
At(p, pc) == cpu[p].pc = pc

----------------------------------------------------------------------------
(* HeapMultiBufMP_alloc: the first bucket that suits is the only one tried.  *)

Suits(b, request) == request.size <= b.blockSize /\ request.align <= b.align
Suiting(request) == {i \in DOMAIN buckets : Suits(buckets[i], request)}

\* The head is taken from the bucket, which goes back to memory before the gate
\* is left.
Alloc(p, request) ==
  /\ At(p, "idle") /\ gate = Nobody /\ Suiting(request) # {}
  /\ LET i == Min(Suiting(request))
         s == Load(Drop(View(p), {Bucket(i)}), Bucket(i))
         b == Value(s, Bucket(i))
         t == Load(Drop(s, {b.head}), b.head)
         next == Value(t, b.head).head
     IN IF b.head = NULL
        THEN Becomes(p, s) /\ UNCHANGED <<gate, cpu, blocks>>
        ELSE /\ Becomes(p, Store(t, Bucket(i), [head |-> next, tail |-> IF next = NULL THEN NULL ELSE b.tail,
                                                free |-> b.free - 1]))
             /\ blocks' = blocks \cup {[addr |-> b.head, owner |-> p, request |-> request]}
             /\ cpu' = [cpu EXCEPT ![p] = [pc |-> "leave", index |-> i, addr |-> b.head]]
             /\ gate' = p
  /\ UNCHANGED <<buckets, place>>
Leave(p) ==
  /\ At(p, "leave")
  /\ Becomes(p, Flush(View(p), {Bucket(cpu[p].index)}))
  /\ cpu' = [cpu EXCEPT ![p] = Idle] /\ gate' = Nobody
  /\ UNCHANGED <<buckets, place, blocks>>

----------------------------------------------------------------------------
(* HeapMultiBufMP_free: what the user wrote is dropped from the cache, the *)
(* bucket found by address, and the block put at its tail.                 *)

Free(p, b) ==
  /\ At(p, "idle") /\ b \in blocks /\ b.owner = p
  /\ Becomes(p, Drop(View(p), {b.addr}))
  /\ blocks' = blocks \ {b}
  /\ cpu' = [cpu EXCEPT ![p] = [pc |-> "enter", addr |-> b.addr,
                                index |-> Max({i \in DOMAIN buckets : buckets[i].baseAddr <= b.addr})]]
  /\ UNCHANGED <<buckets, place, gate>>

PutTail(s, i, addr) ==
  LET b == Value(s, Bucket(i))
      t == IF b.tail = NULL THEN s ELSE Flush(Store(s, b.tail, Link(addr)), {b.tail})
  IN Store(Wb(Store(t, addr, Link(NULL)), {addr}), Bucket(i),
           [head |-> IF b.tail = NULL THEN addr ELSE b.head, tail |-> addr, free |-> b.free + 1])
FreeEnters(p) ==
  /\ At(p, "enter") /\ gate = Nobody
  /\ LET c == cpu[p]
     IN Becomes(p, PutTail(Load(Drop(View(p), {c.addr, Bucket(c.index)}), Bucket(c.index)), c.index, c.addr))
  /\ gate' = p
  /\ cpu' = [cpu EXCEPT ![p].pc = "leave"]
  /\ UNCHANGED <<buckets, place, blocks>>

(* HeapMultiBufMP_getStats drops all of attrs before it enters the gate: the *)
(* heap survives that only if no thread of this processor is in the gate, so *)
(* the gate is one that is not preempted, like the default one.              *)
GetStats(p) ==
  /\ gate # p
  /\ Becomes(p, Drop(View(p), BucketLines))
  /\ UNCHANGED <<buckets, place, gate, cpu, blocks>>

----------------------------------------------------------------------------
(* The users and the hardware. *)

Write(p, b) ==
  /\ At(p, "idle") /\ b.owner = p
  /\ Becomes(p, Store(View(p), b.addr, NoLink))
  /\ UNCHANGED <<buckets, place, gate, cpu, blocks>>
\* A block goes to another processor, written back.
HandOver(p, b, q) ==
  /\ At(p, "idle") /\ b.owner = p /\ q # p
  /\ Becomes(p, Flush(View(p), {b.addr}))
  /\ blocks' = (blocks \ {b}) \cup {[b EXCEPT !.owner = q]}
  /\ UNCHANGED <<buckets, place, gate, cpu>>
Evict(p, l) ==
  /\ cache[p][l].dirty
  /\ Becomes(p, Flush(View(p), {l}))
  /\ UNCHANGED <<buckets, place, gate, cpu, blocks>>
Speculate(p, l) ==
  /\ p \in Speculates /\ ~cache[p][l].held
  /\ Becomes(p, Load(View(p), l))
  /\ UNCHANGED <<buckets, place, gate, cpu, blocks>>

Next ==
  \E p \in Procs :
    \/ \E request \in Requests : Alloc(p, request)
    \/ Leave(p) \/ FreeEnters(p) \/ GetStats(p)
    \/ \E b \in blocks : Free(p, b) \/ Write(p, b) \/ \E q \in Procs : HandOver(p, b, q)
    \/ \E l \in Lines : Evict(p, l) \/ Speculate(p, l)
Spec == Init /\ [][Next]_multiBufVars

----------------------------------------------------------------------------
FreeBlocks(i) ==
  LET at[n \in 0 .. buckets[i].numBlocks] ==
        IF n = 0 THEN mem[Bucket(i)].head
        ELSE IF at[n - 1] \in BlocksOf(buckets[i]) THEN mem[at[n - 1]].head ELSE NULL
  IN {at[n] : n \in DOMAIN at} \ {NULL}
Taken(i) == {b.addr : b \in blocks} \cap BlocksOf(buckets[i])
InFreeing(i) == {cpu[p].addr : p \in {q \in Procs : At(q, "enter")}} \cap BlocksOf(buckets[i])

\* Whenever nobody is in the gate, the free list of a bucket, the blocks that its
\* users have and those on their way back are its blocks, each once, and its
\* count and tail are those of the list (HeapMultiBufMP_alloc, _free).
ListsAreWhole ==
  gate = Nobody =>
    \A i \in DOMAIN buckets :
      LET free == FreeBlocks(i) IN
      /\ free \cup Taken(i) \cup InFreeing(i) = BlocksOf(buckets[i])
      /\ mem[Bucket(i)].free = Cardinality(free)
      /\ Cardinality(free) + Cardinality(Taken(i)) + Cardinality(InFreeing(i)) = buckets[i].numBlocks
      /\ IF free = {} THEN mem[Bucket(i)].tail = NULL
         ELSE mem[Bucket(i)].tail \in free /\ mem[mem[Bucket(i)].tail].head = NULL

\* What alloc returned is as large and as aligned as was asked for, and reaches
\* into no other block; a heap that starts at the largest alignment stays within
\* sharedMemReq (HeapMultiBufMP_processBuckets, _postInit, _sharedMemReq).
Extent(b) == LET i == CHOOSE i \in DOMAIN buckets : b.addr \in BlocksOf(buckets[i])
             IN b.addr .. b.addr + buckets[i].blockSize - 1
BlocksAreApart ==
  /\ \A b \in blocks : b.addr % b.request.align = 0 /\ Cardinality(Extent(b)) >= b.request.size
  /\ \A b, c \in blocks : b # c => Extent(b) \cap Extent(c) = {}
  /\ LET aligned == \A i \in DOMAIN buckets : place % buckets[i].align = 0
     IN aligned => EndOf(Last(buckets)) - place <= SharedMemReq(buckets)
HeapIsPartition == ListsAreWhole /\ BlocksAreApart
=============================================================================
