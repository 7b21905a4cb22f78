----------------------------- MODULE MCServices -----------------------------
(***************************************************************************)
(* The transports, tables, heaps and services beside the message queues,   *)
(* checked for safety in one run.  They share no state; the initial state  *)
(* picks the one that runs (part):                                         *)
(*   "mailbox"  NotifyDriverMbx of vayu, two senders, a FIFO of two words, *)
(*              payloads on both sides of the escape;                      *)
(*   "scan"     the same with the isr of c6a8149, which scans;             *)
(*   "ring"     TransportShmCirc, three messages in a ring of four slots;  *)
(*   "messageq" NameServerMessageQ, two tasks, names and messages;         *)
(*   "rpmsg"    NameServerRemoteRpmsg, two tasks and names, three requests;*)
(*   "names"    NameServer, two tasks, two names, two entries;             *)
(*   "lad"      LinuxNameServer, two clients of which one may die, six     *)
(*              commands, two objects and entries, hashes that differ;     *)
(*   "process"  LinuxIpc, two processes that attach to a remote processor, *)
(*              which comes up late; one may die;                          *)
(*   "cluster"  the same with two remotes, attached to in the start;       *)
(*   "daemon"   LAD, started three times at once;                          *)
(*   "heap"     HeapBufMP, two processors, two blocks, counters of two     *)
(*              bits;                                                      *)
(*   "regions"  SharedRegion, three processors, two regions before the     *)
(*              start and one that is added and cleared by a task;         *)
(*   "entries"  the same with two processors and two such tasks;           *)
(*   "power"    IpcPower, two tasks that take locks;                       *)
(*   "rpc"      OmapRpc, a channel and OmxSrvMgr, one tuple;               *)
(*   "gates"    LinuxGateMP, two gates and two resources, a process with   *)
(*              two threads and one with one.                              *)
(***************************************************************************)
EXTENDS Integers, Sequences, TLC, IpcPower, LinuxGateMP

CONSTANTS m1, m2, m3,     \* messages
          a, b,           \* names
          x1, x2, y,      \* threads of two processes
          none

VARIABLES
  part,
  fifo, newMsg, irqEnable, drvHandle, evtRegMask, connected, sendPc, sendArgs, isr, hand, executed,
  slots, writeIdx, memWrite, readIdx, memRead, cachedRead, put, msg, read, loop,
  events, registered, posted, swi, swiWrite, kept,
  freeMsgs, toRemote, toLocal, nameIn, response, sem, gate, pc, want, answer, late,
  init, nsPort, toHost, toBios, answered, fromHost, nsMsg, semRemoteWait, seqNum, rpGate, rpPc,
  rpWant, rpAnswer, free, inQueue,
  object, refCount, handles, blocks, freeEntries, nameList, name, elem, addPc, addArg, mine, fault,
  params, place, attrs, cached, freeList, open, owner, heapGate, heapPc, block, least, lost,
  table, heap, made, failed, started, attached, setPc, setArg, raced,
  options, st, nextPid, commandFIFO, nsRef, mqRef, comm, gmRef, attachedProcId, numRemoteSystem,
  inUseMapped, remote, cl, att, inst, lib, alive, counted, strayed,
  modRef, ladObject, entry, ladFifo, at, rsp, ladHandles, ladMine, commands, deaths,
  numDefs, app, obj, rpcTask, cur, requests, received, replies, tuples, servers

Region(base, len, proc, creates) ==
  [base |-> base, len |-> len, owner |-> proc, createHeap |-> creates]

MB(scans) == INSTANCE NotifyDriverMbx
       WITH Senders <- {1, 2}, NumEvents <- 2, Escape <- 3, Payloads <- {2, 3}, FifoLength <- 2,
            Scans <- scans, pc <- sendPc, args <- sendArgs
TC == INSTANCE TransportShmCirc
       WITH Messages <- {m1, m2, m3}, NumMsgs <- 4, ModIndex <- 2, EventRoom <- 1, buf <- slots
NQ == INSTANCE NameServerMessageQ
       WITH Tasks <- {1, 2}, Names <- {a, b}, Messages <- {m1, m2}, None <- none,
            heap <- freeMsgs, semRemoteWait <- sem
NR == INSTANCE NameServerRemoteRpmsg
       WITH Tasks <- {1, 2}, Names <- {a, b}, Queues <- {1}, Buffers <- {m1}, MaxSeq <- 3,
            MaxFromHost <- 1, None <- none, gate <- rpGate, pc <- rpPc, want <- rpWant,
            answer <- rpAnswer
NS == INSTANCE NameServer
       WITH Tasks <- {1, 2}, Params <- [growth : BOOLEAN, wide : BOOLEAN, check : {TRUE}],
            Names <- {<<1>>, <<1, 2>>}, Entries <- {1, 2}, Self <- 2, Base <- 2, Cluster <- 3,
            NumProcs <- 5, Global <- FALSE, None <- none,
            freeList <- freeEntries, pc <- addPc, arg <- addArg
LN == INSTANCE LinuxNameServer
       WITH Clients <- {1, 2}, Instances <- {a}, Names <- {a, b}, Hash <- (a :> 1 @@ b :> 2),
            NameLen <- (a :> 3 @@ b :> 9), ParamSet <- [checkExisting : {TRUE, FALSE},
                            maxValueLen : {4}, maxNameLen : {9}],
            Lens <- {4}, Objects <- {1, 2}, Entries <- {1, 2}, Self <- 0,
            Lists <- {<<>>, <<1, 0>>}, NoName <- none, MaxCommands <- 6, MaxDeaths <- 1,
            object <- ladObject, fifo <- ladFifo, handles <- ladHandles, mine <- ladMine
LadParts == {"process", "cluster", "daemon"}
LI(p) == INSTANCE LinuxIpc
       WITH Starters <- IF p = "daemon" THEN {1, 2, 3} ELSE {1},
            Clients <- IF p = "daemon" THEN {} ELSE {1, 2},
            Remotes <- CASE p = "process" -> {1} [] p = "cluster" -> {1, 2} [] p = "daemon" -> {},
            Initially <- IF p = "process" THEN {"down"} ELSE {"gates"},
            Options <- [all : {p # "process"}, gates : IF p = "process" THEN BOOLEAN ELSE {TRUE}],
            MaxCalls <- <<1, 1>>, MaxRefs <- IF p = "process" THEN 2 ELSE 1,
            MaxAttached <- IF p = "process" THEN 2 ELSE 0,
            MaxDeaths <- IF p = "process" THEN 1 ELSE 0
HB == INSTANCE HeapBufMP
       WITH Procs <- {1, 2}, Creator <- 1, CacheLine <- 2, AttrsSize <- 3, ListSize <- 2,
            Params <- [align : {0, 4}, blockSize : {3}, numBlocks : {2}], Places <- {2},
            MaxUInt <- 3, gate <- heapGate, pc <- heapPc
\* The processors of a part, of which 2 has the tasks, and the owner of region 1.
RegionParts == {"regions", "entries"}
Others(p) == IF p = "regions" THEN {0, 1} ELSE {0}
Region1(p) == Region(8, 4, IF p = "regions" THEN 1 ELSE 0, TRUE)
SR(p) == INSTANCE SharedRegion
       WITH Procs <- Others(p) \cup {2}, NumEntries <- 3, NoEntry <- none,
            Local <- 2, Setters <- IF p = "regions" THEN {1} ELSE {1, 2},
            Static <- [i \in 0 .. 2 |-> CASE i = 0 -> Region(0, 4, 0, TRUE)
                                          [] i = 1 -> Region1(p) [] OTHER -> none],
            NewEntries <- {Region(6, 4, 2, TRUE), Region1(p)}
                 \cup IF p = "regions" THEN {Region(12, 4, 2, FALSE)} ELSE {},
            OffsetBits <- 2, created <- made, pc <- setPc, arg <- setArg
RP == INSTANCE OmapRpc
       WITH Channels <- {1, 2}, Omx <- 2, Endpoints <- {11, 12}, MaxTuples <- 1, NumDefs <- 2,
            MayFail <- {"lists", "endpoint", "sem", "task", "msg", "server"}, MaxRequests <- 2,
            Free <- 0,
            task <- rpcTask, inbox <- requests, answered <- replies

\* Threads x1 and x2 have a process, and y another; x1 creates one gate, y the other.
MCProcessOf == [t \in {x1, x2, y} |-> IF t = y THEN "Y" ELSE "X"]
MCCreates == [t \in {x1, x2, y} |-> CASE t = x1 -> {1} [] t = x2 -> {} [] t = y -> {2}]

mbVars == <<fifo, newMsg, irqEnable, drvHandle, evtRegMask, connected, sendPc, sendArgs, isr,
            hand, executed>>
tcVars == <<slots, writeIdx, memWrite, readIdx, memRead, cachedRead, put, msg, read, loop,
            events, registered, posted, swi, swiWrite, kept>>
nqVars == <<freeMsgs, toRemote, toLocal, nameIn, response, sem, gate, pc, want, answer, late>>
nrVars == <<init, nsPort, toHost, toBios, answered, fromHost, nsMsg, semRemoteWait, seqNum,
            rpGate, rpPc, rpWant, rpAnswer, free, inQueue>>
nsVars == <<object, refCount, handles, blocks, freeEntries, nameList, name, elem, addPc, addArg,
            mine, fault>>
hbVars == <<params, place, attrs, cached, freeList, open, owner, heapGate, heapPc, block, least, lost>>
srVars == <<table, heap, made, failed, started, attached, setPc, setArg, raced>>
rpVars == <<numDefs, app, obj, rpcTask, cur, requests, received, replies, tuples, servers>>
lnVars == <<modRef, ladObject, entry, ladFifo, at, rsp, ladHandles, ladMine, commands, deaths>>
liVars == <<options, st, nextPid, commandFIFO, nsRef, mqRef, comm, gmRef, attachedProcId,
            numRemoteSystem, inUseMapped, remote, cl, att, inst, lib, alive, counted, strayed>>
vars   == <<part, mbVars, tcVars, nqVars, nrVars, nsVars, lnVars, liVars, hbVars,
            srVars, powerVars, rpVars, linuxGateVars>>

Init ==
  /\ part \in {"mailbox", "scan", "ring", "messageq", "rpmsg", "names", "lad", "heap",
               "power", "rpc", "gates"} \cup LadParts \cup RegionParts
  /\ MB(FALSE)!Init /\ TC!Init /\ NQ!Init /\ NR!Init /\ NS!Init /\ LN!Init /\ HB!Init
  /\ PowerInit /\ RP!Init /\ GatesInit
  /\ \E p \in LadParts : p = (IF part \in LadParts THEN part ELSE "daemon") /\ LI(p)!Init
  /\ \E p \in RegionParts : p = (IF part \in RegionParts THEN part ELSE "regions") /\ SR(p)!Init
  /\ part # "heap" => params.align = 0

\* The part that runs, and the variables of the others.
Only(p) ==
  /\ part = p
  /\ UNCHANGED part
  /\ p \notin {"mailbox", "scan"} => UNCHANGED mbVars
  /\ p # "ring"     => UNCHANGED tcVars
  /\ p # "messageq" => UNCHANGED nqVars
  /\ p # "rpmsg"    => UNCHANGED nrVars
  /\ p # "names"    => UNCHANGED nsVars
  /\ p # "lad"      => UNCHANGED lnVars
  /\ p \notin LadParts => UNCHANGED liVars
  /\ p # "heap"     => UNCHANGED hbVars
  /\ p \notin RegionParts => UNCHANGED srVars
  /\ p # "power"    => UNCHANGED powerVars
  /\ p # "rpc"      => UNCHANGED rpVars
  /\ p # "gates"    => UNCHANGED linuxGateVars

Next ==
  \/ Only("mailbox")  /\ MB(FALSE)!Next
  \/ Only("scan")     /\ MB(TRUE)!Next
  \/ Only("ring")     /\ TC!Next
  \/ Only("messageq") /\ NQ!Next
  \/ Only("rpmsg")    /\ NR!Next
  \/ Only("names")    /\ NS!Next
  \/ Only("lad")      /\ LN!Next
  \/ \E p \in LadParts : Only(p) /\ LI(p)!Next
  \/ Only("heap")     /\ HB!Next
  \/ \E p \in RegionParts : Only(p) /\ SR(p)!Next
  \/ Only("power")    /\ PowerNext
  \/ Only("rpc")      /\ RP!Next
  \/ Only("gates")    /\ GatesNext
Spec == Init /\ [][Next]_vars

----------------------------------------------------------------------------
(* The properties of the parts; each is stated in its part's module, and   *)
(* PowerIsSafe is IpcPower's own, ProcessesExclude LinuxGateMP's.          *)

\* A mailbox is an event channel, whatever its isr finds between two words,
\* and the isr finds the driver it serves (NotifyDriverMbx).
MailboxImplementsChannel ==
  [][/\ part = "mailbox" => MB(FALSE)!ChannelStep
     /\ part = "scan" => MB(TRUE)!ChannelStep
     /\ part \in {"mailbox", "scan"} => MB(FALSE)!IsrHasInstance']_vars
\* The ring of messages is a queue that its reader does not leave behind
\* (TransportShmCirc).
MessagesArrive == TC!MessagesArrive
\* A look-up is answered about the name it asked for (nsremote, namesrv).
LookupsAnswerOwn ==
  /\ part = "messageq" => NQ!AnswerIsOwn
  /\ part = "rpmsg" => NR!AnswerIsOwn
\* The table of names: its handles, its entries and its search (NameServer,
\* and LAD's with its clients: LinuxNameServer).
TableIsSound ==
  /\ part = "names" => NS!TableIsSound
  /\ part = "lad" => LN!TableIsSound
\* The heap's counters agree with its free list, and its blocks are in one place
\* and fit (HeapBufMP).
HeapIsSound == part = "heap" => HB!CountersAgree /\ HB!BlocksArePlaced /\ HB!BlocksFit
\* Regions are apart, pointers translate, attached processors' heaps are open
\* (SharedRegion).
RegionsAreSound == \A p \in RegionParts : part = p => SR(p)!RegionsAreSound
\* Every service has one owner, and channels end with their tasks (OmapRpc).
\* LAD counts the processes that use it, whatever order they come and go in,
\* and there is one LAD (LinuxIpc).
ServicesAreOwned ==
  /\ part = "rpc" => RP!ServicesAreOwned /\ RP!ChannelsEnd
  /\ \A p \in LadParts : part = p =>
       LI(p)!CountsAgree /\ LI(p)!GatesAreCounted /\ LI(p)!NothingIsLeft /\ LI(p)!OneDaemon
=============================================================================
