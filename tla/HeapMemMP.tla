----------------------------- MODULE HeapMemMP -----------------------------
(***************************************************************************)
(* A heap of blocks of any size in shared memory.  The free blocks are     *)
(* linked in the order of their addresses, each with a header in its first *)
(* line; alloc takes the first that is big enough, free joins neighbours.  *)
(* All of it is done in the heap's gate, from processors whose caches are  *)
(* not coherent.                                                           *)
(*                                                                         *)
(* Addresses and sizes count units of minAlign, which is a cache line.     *)
(*                                                                         *)
(* Source: packages/ti/sdo/ipc/heaps/HeapMemMP.c                           *)
(***************************************************************************)
EXTENDS SharedCache, Integers, FiniteSets

CONSTANTS Procs,
          BufSize,      \* obj->bufSize
          Sizes,        \* the sizes asked for
          Speculates    \* processors that load lines on their own

HeadLine == 0                 \* attrs->head
Buffer   == 1 .. BufSize
Lines    == {HeadLine} \cup Buffer
NULL     == -1
Header(next, size) == [next |-> next, size |-> size]
Data     == Header(NULL, -1)  \* what a user writes
Nobody   == "nobody"

VARIABLES
  mem, cache,   \* the shared memory, and cache[p][l]
  gate,         \* who is in the heap's gate
  cpu,          \* each processor's call: [pc, size, align, addr, cur, prev, next]
  blocks        \* the allocated blocks: [addr, size, owner]

heapVars == <<mem, cache, gate, cpu, blocks>>

Idle == [pc |-> "idle", size |-> 0, align |-> 1, addr |-> NULL, cur |-> NULL, prev |-> NULL]
Init ==
  /\ mem = [l \in Lines |-> CASE l = HeadLine -> Header(1, 0) [] l = 1 -> Header(NULL, BufSize) [] OTHER -> Data]
  /\ cache = [p \in Procs |-> [l \in Lines |-> NotHeld(Data)]]
  /\ gate = Nobody /\ blocks = {}
  /\ cpu = [p \in Procs |-> Idle]

View(p) == [mem |-> mem, cache |-> cache[p]]
Becomes(p, s) == mem' = s.mem /\ cache' = [cache EXCEPT ![p] = s.cache]
Drop(s, lines) == Inv(s, lines, Data)
Flush(s, lines) == WbInv(s, lines, Data)
SetNext(s, l, n) == Store(s, l, [Value(s, l) EXCEPT !.next = n])
SetSize(s, l, n) == Store(s, l, [Value(s, l) EXCEPT !.size = n])
LinesOf(b) == b.addr .. b.addr + b.size - 1
At(p, pc) == cpu[p].pc = pc

----------------------------------------------------------------------------
(* HeapMemMP_alloc *)

Alloc(p, size, align) ==
  /\ At(p, "idle") /\ gate = Nobody
  /\ LET s == Load(Drop(View(p), {HeadLine}), HeadLine)
     IN /\ Becomes(p, s)
        /\ cpu' = [cpu EXCEPT ![p] = [pc |-> "look", size |-> size, align |-> align, addr |-> NULL,
                                      cur |-> Value(s, HeadLine).next, prev |-> HeadLine]]
  /\ gate' = p /\ UNCHANGED blocks

Offset(addr, align) == LET over == addr % align IN IF over = 0 THEN 0 ELSE align - over
Fits(h, addr, c) == h.size >= c.size + Offset(addr, c.align)

\* The next free block's header is dropped from the cache and read; at the end of
\* the list there is no memory.
AllocLooks(p) ==
  /\ At(p, "look")
  /\ LET c == cpu[p]
         s == Load(Drop(View(p), {c.cur}), c.cur)
         h == Value(s, c.cur)
     IN IF c.cur = NULL
        THEN cpu' = [cpu EXCEPT ![p] = Idle] /\ gate' = Nobody /\ UNCHANGED <<mem, cache>>
        ELSE /\ Becomes(p, s)
             /\ cpu' = [cpu EXCEPT ![p] = IF Fits(h, c.cur, c) THEN [c EXCEPT !.pc = "take"]
                                          ELSE [c EXCEPT !.cur = h.next, !.prev = c.cur]]
             /\ UNCHANGED gate
  /\ UNCHANGED blocks

\* What lies before the block, because of its alignment, and what is left after
\* it stay in the list.  A mutant: the rest's new header is not written back.
RestStays(s, rest, h, size) == Store(s, rest, Header(h.next, size))
RestGoes(s, rest, h, size) == Flush(Store(s, rest, Header(h.next, size)), {rest})

AllocTakes(p) ==
  /\ At(p, "take")
  /\ LET c == cpu[p]
         h == Value(View(p), c.cur)
         off  == Offset(c.cur, c.align)
         addr == c.cur + off
         rest == addr + c.size
         left == h.size - c.size - off
         s == IF left = 0 THEN View(p) ELSE RestGoes(View(p), rest, h, left)
         succ == IF left = 0 THEN h.next ELSE rest
     IN /\ Becomes(p, IF off # 0
                      THEN Flush(SetNext(SetSize(s, c.cur, off), c.cur, succ), {c.cur})
                      ELSE Flush(SetNext(s, c.prev, succ), {c.prev}))
        /\ blocks' = blocks \cup {[addr |-> addr, size |-> c.size, owner |-> p]}
  /\ cpu' = [cpu EXCEPT ![p] = Idle] /\ gate' = Nobody

----------------------------------------------------------------------------
(* HeapMemMP_free *)

Forgets(s, b) == Drop(s, LinesOf(b))

Free(p, b) ==
  /\ At(p, "idle") /\ b \in blocks /\ b.owner = p
  /\ Becomes(p, Forgets(View(p), b))
  /\ blocks' = blocks \ {b}
  /\ cpu' = [cpu EXCEPT ![p] = [Idle EXCEPT !.pc = "enter", !.addr = b.addr, !.size = b.size]]
  /\ UNCHANGED gate
FreeEnters(p) ==
  /\ At(p, "enter") /\ gate = Nobody
  /\ LET s == Load(Drop(View(p), {HeadLine}), HeadLine)
     IN /\ Becomes(p, s)
        /\ cpu' = [cpu EXCEPT ![p].pc = "walk", ![p].prev = HeadLine, ![p].cur = Value(s, HeadLine).next]
  /\ gate' = p /\ UNCHANGED blocks

\* Down the list to the first block behind this one,
FreeWalks(p) ==
  /\ At(p, "walk")
  /\ LET c == cpu[p]
         s == Load(Drop(View(p), {c.cur}), c.cur)
     IN IF c.cur # NULL /\ c.cur < c.addr
        THEN Becomes(p, s) /\ cpu' = [cpu EXCEPT ![p].prev = c.cur, ![p].cur = Value(s, c.cur).next]
        ELSE cpu' = [cpu EXCEPT ![p].pc = "link"] /\ UNCHANGED <<mem, cache>>
  /\ UNCHANGED <<gate, blocks>>

\* where it is linked in and joined with the blocks it touches.
JoinsUpper(s, c) == c.cur # NULL /\ c.addr + c.size = c.cur
JoinsLower(s, c) == c.prev # HeadLine /\ c.prev + Value(s, c.prev).size = c.addr

FreeLinks(p) ==
  /\ At(p, "link")
  /\ LET c == cpu[p]
         s == SetNext(Store(View(p), c.addr, Header(c.cur, c.size)), c.prev, c.addr)
         d == Load(Drop(s, {c.cur}), c.cur)
         u == Value(d, c.cur)
         t == IF JoinsUpper(s, c) THEN Store(d, c.addr, Header(u.next, c.size + u.size)) ELSE s
         n == Value(t, c.addr)
         v == IF JoinsLower(t, c)
              THEN Store(t, c.prev, Header(n.next, Value(t, c.prev).size + n.size))
              ELSE t
         freed == c.addr .. c.addr + c.size - 1 + (IF JoinsUpper(s, c) THEN 1 ELSE 0)
     IN Becomes(p, Drop(Flush(v, {c.prev, c.addr}), freed))
  /\ cpu' = [cpu EXCEPT ![p] = Idle] /\ gate' = Nobody
  /\ UNCHANGED blocks

----------------------------------------------------------------------------
(* The users and the hardware. *)

Write(p, b, l) ==
  /\ At(p, "idle") /\ b.owner = p /\ l \in LinesOf(b)
  /\ Becomes(p, Store(View(p), l, Data))
  /\ UNCHANGED <<gate, cpu, blocks>>
\* A block goes to another processor, written back.
HandOver(p, b, q) ==
  /\ At(p, "idle") /\ b.owner = p /\ q # p
  /\ Becomes(p, Flush(View(p), LinesOf(b)))
  /\ blocks' = (blocks \ {b}) \cup {[b EXCEPT !.owner = q]}
  /\ UNCHANGED <<gate, cpu>>
\* (A clean line leaves the cache only to be read afresh, so it may as well stay.)
Evict(p, l) ==
  /\ cache[p][l].dirty
  /\ Becomes(p, Flush(View(p), {l}))
  /\ UNCHANGED <<gate, cpu, blocks>>
Speculate(p, l) ==
  /\ p \in Speculates /\ ~cache[p][l].held
  /\ Becomes(p, Load(View(p), l))
  /\ UNCHANGED <<gate, cpu, blocks>>

Next ==
  \E p \in Procs :
    \/ \E size \in Sizes, align \in {1, 2} : Alloc(p, size, align)
    \/ AllocLooks(p) \/ AllocTakes(p) \/ FreeEnters(p) \/ FreeWalks(p) \/ FreeLinks(p)
    \/ \E b \in blocks : \/ Free(p, b)
                         \/ \E l \in Buffer : Write(p, b, l)
                         \/ \E q \in Procs : HandOver(p, b, q)
    \/ \E l \in Lines : Evict(p, l) \/ Speculate(p, l)
Spec == Init /\ [][Next]_heapVars

----------------------------------------------------------------------------
\* The free list in memory, as far as its links can be followed.
FreeAt[n \in 0 .. BufSize] ==
  LET l == IF n = 0 THEN HeadLine ELSE FreeAt[n - 1]
  IN IF l \in Lines THEN mem[l].next ELSE NULL
FreeBlocks == {FreeAt[n] : n \in 0 .. BufSize} \ {NULL}
FreeLines(h) == h .. h + mem[h].size - 1
InFreeing == {l \in Buffer : \E p \in Procs : At(p, "enter") /\ cpu[p].addr <= l /\ l < cpu[p].addr + cpu[p].size}

\* Whenever nobody is in the gate, the free list, the allocated blocks and those
\* on their way to the gate divide the buffer: no line is lost, none is in two,
\* and free neighbours are one block, whatever the caches evict and load
\* (HeapMemMP_alloc, HeapMemMP_free).
HeapIsPartition ==
  gate = Nobody =>
    /\ FreeBlocks \subseteq Buffer
    /\ \A h \in FreeBlocks : mem[h].size > 0 /\ h + mem[h].size - 1 <= BufSize /\ h + mem[h].size \notin FreeBlocks
    /\ \A l \in Buffer :
         Cardinality({h \in FreeBlocks : l \in FreeLines(h)}) + Cardinality({b \in blocks : l \in LinesOf(b)})
           + (IF l \in InFreeing THEN 1 ELSE 0) = 1
=============================================================================
