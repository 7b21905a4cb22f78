------------------------------- MODULE ListMP -------------------------------
(***************************************************************************)
(* A doubly linked list in shared memory.  Every operation runs in the     *)
(* list's gate and keeps the caches of the processors, which are not       *)
(* coherent, away from each other's links.  The blocks of HeapBufMP are    *)
(* the elements of such a list.                                            *)
(*                                                                         *)
(* Source: packages/ti/sdo/ipc/ListMP.c, heaps/HeapBufMP.c                 *)
(***************************************************************************)
EXTENDS SharedCache, Integers, Sequences, FiniteSets, SequencesExt

CONSTANTS Procs,
          Elems,        \* the elements, each in a cache line of its own
          TheHead,         \* attrs->head
          Speculates,   \* the v7A and v8A processors, which load lines on their own
          Removers      \* the processors that call ListMP_remove

Lines == Elems \cup {TheHead}
NoLinks == [next |-> TheHead, prev |-> TheHead]
Nobody  == 0

VARIABLES
  mem,      \* the shared memory: [next, prev] of each line
  cache,    \* cache[p][l]
  owner,    \* owner[e]: the processor that has e, Nobody while e is in the list
  list,     \* the list an observer expects
  result    \* of the last operation: [got, expected]

listVars == <<mem, cache, owner, list, result>>

Init ==
  /\ mem = [l \in Lines |-> NoLinks]
  /\ cache = [p \in Procs |-> [l \in Lines |-> NotHeld(NoLinks)]]
  /\ owner \in [Elems -> Procs]
  /\ list = <<>> /\ result = [got |-> TheHead, expected |-> TheHead]

View(p) == [mem |-> mem, cache |-> cache[p]]
Becomes(p, s) == mem' = s.mem /\ cache' = [cache EXCEPT ![p] = s.cache]
Drop(s, l) == Inv(s, {l}, NoLinks)
Flush(s, l) == WbInv(s, {l}, NoLinks)
SetNext(s, l, e) == Store(s, l, [Value(s, l) EXCEPT !.next = e])
SetPrev(s, l, e) == Store(s, l, [Value(s, l) EXCEPT !.prev = e])
Next_(s, l) == Value(s, l).next
Prev_(s, l) == Value(s, l).prev

\* Under #if v7A, v8A.  A mutant: the head is never invalidated first.
HeadMayBeStale(p, s) == s
FreshHead(p, s) == IF p \in Speculates THEN Drop(s, TheHead) ELSE s

----------------------------------------------------------------------------
(* Putting: the new neighbour's line is dropped, the links are set, and the   *)
(* three lines are written back.                                              *)

PutBetween(s, e, before, after) ==
  Flush(Flush(Flush(
    SetPrev(SetNext(Store(s, e, [next |-> after, prev |-> before]), before, e), after, e),
    before), after), e)

Put(p, e, s, expected) ==
  /\ owner[e] = p
  /\ Becomes(p, s)
  /\ owner' = [owner EXCEPT ![e] = Nobody]
  /\ list' = expected
  /\ UNCHANGED result

PutTail(p, e) ==
  LET s == Load(FreshHead(p, View(p)), TheHead)
      last == Prev_(s, TheHead)
  IN Put(p, e, PutBetween(IF last = TheHead THEN Drop(s, TheHead) ELSE Drop(s, last), e, last, TheHead), Append(list, e))
PutHead(p, e) ==
  LET s == Load(FreshHead(p, View(p)), TheHead)
      first == Next_(s, TheHead)
  IN Put(p, e, PutBetween(Drop(s, first), e, TheHead, first), <<e>> \o list)
\* Before an element of the list.
Insert(p, e, cur) ==
  LET s == Load(Drop(View(p), cur), cur)
      before == Prev_(s, cur)
  IN /\ Contains(list, cur)
     /\ Put(p, e, PutBetween(Drop(s, before), e, before, cur),
            InsertAt(list, CHOOSE i \in DOMAIN list : list[i] = cur, e))

----------------------------------------------------------------------------
(* Getting; the caller owns what it got. *)

Got(p, e, s, expected, rest) ==
  /\ Becomes(p, s)
  /\ owner' = IF e = TheHead THEN owner ELSE [owner EXCEPT ![e] = p]
  /\ list' = rest
  /\ result' = [got |-> e, expected |-> expected]

GetHead(p) ==
  LET s == Load(FreshHead(p, View(p)), TheHead)
      e == Next_(s, TheHead)
      t == Load(Drop(s, e), e)
      next == Next_(t, e)
      u == Drop(t, next)
      v == SetNext(u, TheHead, Next_(u, e))
      w == SetPrev(v, next, Prev_(v, e))
  IN IF e = TheHead
     THEN Got(p, e, Flush(s, TheHead), IF list = <<>> THEN TheHead ELSE list[1], list)
     ELSE Got(p, e, Flush(Flush(w, next), TheHead), IF list = <<>> THEN TheHead ELSE list[1],
              IF list = <<>> THEN list ELSE Tail(list))
GetTail(p) ==
  LET s == Load(FreshHead(p, View(p)), TheHead)
      e == Prev_(s, TheHead)
      t == Load(Drop(s, e), e)
      before == Prev_(t, e)
      u == Drop(t, before)
      v == SetPrev(u, TheHead, Prev_(u, e))
      w == SetNext(v, before, Next_(v, e))
  IN IF e = TheHead
     THEN Got(p, e, Flush(s, TheHead), IF list = <<>> THEN TheHead ELSE Last(list), list)
     ELSE Got(p, e, Flush(Flush(w, before), TheHead), IF list = <<>> THEN TheHead ELSE Last(list),
              IF list = <<>> THEN list ELSE Front(list))

Neighbours(s, before, after) == Inv(s, {before, after}, NoLinks)
RemoveElem(p, e) ==
  LET s == Load(View(p), e)
      before == Prev_(s, e)
      after  == Next_(s, e)
      t == Neighbours(s, before, after)
      u == SetPrev(SetNext(t, before, after), after, before)
  IN /\ Contains(list, e)
     /\ Got(p, e, WbInv(u, {before, after}, NoLinks), e, SelectSeq(list, LAMBDA x : x # e))

----------------------------------------------------------------------------
(* Reading: ListMP_next and ListMP_prev of an element or the head, whose line  *)
(* is dropped before and after, and ListMP_empty.                              *)

Cyclic(i) == IF i \in DOMAIN list THEN list[i] ELSE TheHead
Position(l) == IF l = TheHead THEN 0 ELSE CHOOSE i \in DOMAIN list : list[i] = l

ListNext(p, l) ==
  /\ l = TheHead \/ Contains(list, l)
  /\ LET s == Load(Drop(View(p), l), l)
     IN /\ Becomes(p, Drop(s, l))
        /\ result' = [got |-> Next_(s, l), expected |-> Cyclic(Position(l) + 1)]
  /\ UNCHANGED <<owner, list>>
ListPrev(p, l) ==
  /\ l = TheHead \/ Contains(list, l)
  /\ LET s == Load(Drop(View(p), l), l)
     IN /\ Becomes(p, Drop(s, l))
        /\ result' = [got |-> Prev_(s, l),
                      expected |-> Cyclic(IF l = TheHead THEN Len(list) ELSE Position(l) - 1)]
  /\ UNCHANGED <<owner, list>>
Empty(p) ==
  LET s == Load(FreshHead(p, View(p)), TheHead)
  IN /\ Becomes(p, Drop(s, TheHead))
     /\ result' = [got |-> Next_(s, TheHead), expected |-> Cyclic(1)]
     /\ UNCHANGED <<owner, list>>

----------------------------------------------------------------------------
(* HeapBufMP_free drops the lines of a block that its user may have written,   *)
(* then puts it.                                                               *)

HeapBufFree(p, e) ==
  LET s == Load(FreshHead(p, Drop(View(p), e)), TheHead)
      last == Prev_(s, TheHead)
  IN Put(p, e, PutBetween(Drop(s, last), e, last, TheHead), Append(list, e))

\* Its user writes a block, or hands it to another processor, written back.
Write(p, e) ==
  /\ owner[e] = p
  /\ Becomes(p, Store(View(p), e, NoLinks))
  /\ UNCHANGED <<owner, list, result>>
HandOver(p, e, q) ==
  /\ owner[e] = p /\ q # p
  /\ Becomes(p, Flush(View(p), e))
  /\ owner' = [owner EXCEPT ![e] = q]
  /\ UNCHANGED <<list, result>>

\* The hardware: a line is evicted; a processor that speculates loads one.
Evict(p, l) ==
  /\ cache[p][l].held
  /\ Becomes(p, Flush(View(p), l))
  /\ UNCHANGED <<owner, list, result>>
Speculate(p, l) ==
  /\ p \in Speculates /\ ~cache[p][l].held
  /\ Becomes(p, Load(View(p), l))
  /\ UNCHANGED <<owner, list, result>>

Next ==
  \E p \in Procs :
    \/ GetHead(p) \/ GetTail(p) \/ Empty(p)
    \/ \E e \in Elems : PutTail(p, e) \/ PutHead(p, e) \/ HeapBufFree(p, e) \/ Write(p, e)
    \/ \E e \in Elems : p \in Removers /\ RemoveElem(p, e)
    \/ \E e, cur \in Elems : Insert(p, e, cur)
    \/ \E e \in Elems, q \in Procs : HandOver(p, e, q)
    \/ \E l \in Lines : ListNext(p, l) \/ ListPrev(p, l) \/ Evict(p, l) \/ Speculate(p, l)
Spec == Init /\ [][Next]_listVars

----------------------------------------------------------------------------
\* "Atomically removes", "ListMP only provides cache coherency for the ListMP_Elem
\* fields" (ListMP.h:541, 58): the links in memory are those of the list, in both
\* directions, and no processor's cache holds one back or puts an old one there.
LinksAreTheList ==
  LET cycle == <<TheHead>> \o list \o <<TheHead>>
  IN \A i \in 1 .. Len(cycle) - 1 : mem[cycle[i]].next = cycle[i + 1] /\ mem[cycle[i + 1]].prev = cycle[i]

\* Every processor gets, and reads, what the list holds, in its order.
ResultsAgree == result.got = result.expected
ListIsCoherent == LinksAreTheList /\ ResultsAgree
=============================================================================
