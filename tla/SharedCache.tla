---------------------------- MODULE SharedCache ----------------------------
(***************************************************************************)
(* Shared memory as one processor sees it: a record [mem, cache] of the    *)
(* memory, a value for each cache line, and the processor's cache.  The    *)
(* caches are not coherent.                                                *)
(*                                                                         *)
(* External to the repository (ti.sysbios.hal.Cache and the hardware); its *)
(* use is in packages/ti/sdo/ipc.                                          *)
(***************************************************************************)

\* A line that is not in the cache; it has the value of the memory's line.
NotHeld(v) == [held |-> FALSE, dirty |-> FALSE, val |-> v]
Held(v)    == [held |-> TRUE,  dirty |-> FALSE, val |-> v]
Dirty(v)   == [held |-> TRUE,  dirty |-> TRUE,  val |-> v]

\* What the processor reads, and the line's arrival in the cache.
Value(s, l) == IF s.cache[l].held THEN s.cache[l].val ELSE s.mem[l]
Load(s, l)  == [s EXCEPT !.cache[l] = IF @.held THEN @ ELSE Held(s.mem[l])]
Store(s, l, v) == [s EXCEPT !.cache[l] = Dirty(v)]

\* Cache_inv drops the lines, Cache_wbInv writes them back first.
Inv(s, lines, none) ==
  [s EXCEPT !.cache = [l \in DOMAIN s.cache |-> IF l \in lines THEN NotHeld(none) ELSE s.cache[l]]]
Wb(s, lines) ==
  [mem   |-> [l \in DOMAIN s.mem |-> IF l \in lines /\ s.cache[l].dirty THEN s.cache[l].val ELSE s.mem[l]],
   cache |-> [l \in DOMAIN s.cache |-> IF l \in lines THEN [s.cache[l] EXCEPT !.dirty = FALSE] ELSE s.cache[l]]]
WbInv(s, lines, none) == Inv(Wb(s, lines), lines, none)
=============================================================================
