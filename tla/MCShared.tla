----------------------------- MODULE MCShared -----------------------------
(***************************************************************************)
(* Modules checked for safety alone, in one run.  They share no state; the *)
(* initial state picks the one that runs (part):                           *)
(*   "stages"   the gate of GatePetersonN, three processors, one of them   *)
(*              with two threads;                                          *)
(*   "list"     ListMP, two elements, two processors of which one          *)
(*              speculates;                                                *)
(*   "heap"     HeapMemMP, three lines, two processors, one speculates;    *)
(*   "buckets"  HeapMultiBufMP, three ways to fill its buckets, of which   *)
(*              one has two bucket sizes and one has buckets to merge;     *)
(*   "queues"   MessageQTable, which grows twice or not at all, two queues *)
(*              and two threads;                                           *)
(*   "notify"   Notify, two threads and two events;                        *)
(*   "symbols"  RcmServer's table of functions, two of each;               *)
(*   "gates"    GateMP, two gates, one resource, a task on one processor   *)
(*              and two on another;                                        *)
(*   "local"    the same with one gate that stays on its processor, and    *)
(*              with the resource in the name server's entry.              *)
(***************************************************************************)
EXTENDS GatePetersonN, MessageQTable, Notify, RcmSymbols

CONSTANTS p1, p2, p3, p4,        \* threads of the gate
          h1, h2,                  \* processors of the heap
          n1, n2, f1, f2, l1, l2,  \* threads, callbacks, listeners of Notify
          t1, t2, t3               \* tasks of GateMP

MCHome == [t \in {p1, p2, p3, p4} |-> CASE t \in {p1, p2} -> 0 [] t = p3 -> 1 [] t = p4 -> 2]
MCThreads == DOMAIN MCHome

VARIABLES
  part,
  listMem, listCache, listOwner, list, result,
  mem, cache, gate, cpu, blocks,
  buckets, place, bucketMem, bucketCache, bucketGate, bucketCpu, bucketBlocks,
  inUse, attrs, made, gateNames, gateTable, gateObjs, attached, defaultGate, task, handles, misused

L == INSTANCE ListMP
       WITH Procs <- {1, 2}, Elems <- {11, 12}, TheHead <- 10, Speculates <- {1},
            Removers <- {2}, mem <- listMem, cache <- listCache, owner <- listOwner
H == INSTANCE HeapMemMP
       WITH Procs <- {h1, h2}, BufSize <- 3, Sizes <- {2}, Speculates <- {h1}
Bucket(size, align, num) == [blockSize |-> size, align |-> align, numBlocks |-> num]
HB == INSTANCE HeapMultiBufMP
        WITH Procs <- {1, 2}, Speculates <- {1}, CacheLine <- 2, AttrsSize <- 2, Places <- {4},
             Entries <- {<<Bucket(3, 4, 1), Bucket(1, 0, 1)>>, <<Bucket(2, 2, 1), Bucket(1, 0, 1)>>,
                         <<Bucket(3, 4, 2), Bucket(1, 0, 0)>>},
             Requests <- {[size |-> 1, align |-> 1], [size |-> 3, align |-> 4]},
             mem <- bucketMem, cache <- bucketCache, gate <- bucketGate, cpu <- bucketCpu,
             blocks <- bucketBlocks

\* GatePeterson has one resource, GateHWSpinlock many, GateMPSupportNull none.
Delegates ==
  {[num |-> [k \in {"system", "custom1", "custom2"} |->
               IF map[k] = "system" THEN 3 ELSE IF map[k] = "custom1" THEN c ELSE d], map |-> map] :
     c \in 1 .. 5, d \in {0, 1, 6},
     map \in {[system |-> "system", custom1 |-> "custom1", custom2 |-> "custom2"],
            [system |-> "system", custom1 |-> "custom1", custom2 |-> "custom1"],
            [system |-> "system", custom1 |-> "custom1", custom2 |-> "system"],
            [system |-> "system", custom1 |-> "system", custom2 |-> "custom2"],
            [system |-> "system", custom1 |-> "system", custom2 |-> "system"]}}
MP(hostSupport) == INSTANCE GateMP
        WITH Tasks <- {t1, t2, t3}, Owner <- 1, Gates <- 1 .. 2, Resources <- {1},
             LocalGates <- IF hostSupport THEN {2} ELSE {}, HostSupport <- hostSupport,
             Room <- [g \in 1 .. 2 |-> {1}], Proxies <- Delegates, Objects <- 1 .. 3,
             Proc <- [t \in {t1, t2, t3} |-> IF t = t1 THEN 1 ELSE 2],
             Creates <- [t \in {t1, t2, t3} |-> CASE t = t1 -> {1} [] t = t2 -> {2} [] t = t3 -> {}],
             names <- gateNames, table <- gateTable, objs <- gateObjs, fault <- misused

stageVars  == <<enteredStage, lastProcEnteringStage, owner, nested, pc, curStage, proc>>
listVars   == <<listMem, listCache, listOwner, list, result>>
heapVars   == <<mem, cache, gate, cpu, blocks>>
bucketVars == <<buckets, place, bucketMem, bucketCache, bucketGate, bucketCpu, bucketBlocks>>
gateVars   == <<inUse, attrs, made, gateNames, gateTable, gateObjs, attached, defaultGate, task,
                handles, misused>>
mcVars     == <<part, stageVars, listVars, heapVars, bucketVars, queueTableVars, notifyVars,
                symVars, gateVars>>

\* The variables of the parts that do not run have one of their initial values.
ListInit    == IF part = "list" THEN L!Init ELSE L!Init /\ listOwner = [e \in {11, 12} |-> 1]
BucketsInit == IF part = "buckets" THEN HB!Init
               ELSE HB!Init /\ Len(buckets) = 1 /\ buckets[1].blockSize = 2
QueuesInit  == TableInit /\ (part # "queues" => growth)
ListenInit  == NotifyInit /\ (part # "notify" => local)
MCInit ==
  /\ part \in {"stages", "list", "heap", "buckets", "queues", "notify", "symbols",
               "gates", "local"}
  /\ Init /\ H!Init /\ SymInit /\ MP(FALSE)!Init /\ ListInit /\ BucketsInit /\ QueuesInit /\ ListenInit

\* The part that runs, and the variables of the others.
Only(p) ==
  /\ part = p
  /\ UNCHANGED part
  /\ p # "stages"  => UNCHANGED stageVars
  /\ p # "list"    => UNCHANGED listVars
  /\ p # "heap"    => UNCHANGED heapVars
  /\ p # "buckets" => UNCHANGED bucketVars
  /\ p # "queues"  => UNCHANGED queueTableVars
  /\ p # "notify"  => UNCHANGED notifyVars
  /\ p # "symbols" => UNCHANGED symVars
  /\ p \notin {"gates", "local"} => UNCHANGED gateVars
MCNext ==
  \/ Only("stages")  /\ Next
  \/ Only("list")    /\ L!Next
  \/ Only("heap")    /\ H!Next
  \/ Only("buckets") /\ HB!Next
  \/ Only("queues")  /\ TableNext
  \/ Only("notify")  /\ NotifyNext
  \/ Only("symbols") /\ SymNext
  \/ Only("gates")   /\ MP(FALSE)!Next
  \/ Only("local")   /\ MP(TRUE)!Next
MCSpec == MCInit /\ [][MCNext]_mcVars

----------------------------------------------------------------------------
(* The properties of the parts that are instances; each is stated in its part's *)
(* module.                                                                      *)

\* The shared list is what its users did to it, whatever the caches hold.
ListIsCoherent == L!ListIsCoherent
\* The free lists and the blocks of a heap divide its buffers.
HeapIsPartition == H!HeapIsPartition /\ HB!HeapIsPartition
\* Every resource in use has one gate and no resource is lost; the table of gates
\* points to no object that was freed (GateMP).
GatesAreAccounted ==
  part \in {"gates", "local"} =>
    /\ MP(FALSE)!ResourcesAccounted /\ MP(FALSE)!TableIsLive
    /\ part = "local" /\ made = {} => MP(FALSE)!ReservedFits
=============================================================================
