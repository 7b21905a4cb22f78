------------------------------ MODULE LinuxIpc ------------------------------
(***************************************************************************)
(* How LAD and the processes that use it start and stop.  LAD is started   *)
(* from a command line, perhaps twice at a time: it looks through /proc    *)
(* for another one, forks and makes the command FIFO.  A process starts    *)
(* the library with a row of commands to LAD, attaches to the remote       *)
(* processors and stops in the opposite order; a start that fails undoes   *)
(* what it has done.  The processes share what LAD counts: the name        *)
(* server, the table of queues, the sockets to each remote processor, and  *)
(* the gates mapped from one of them.  A process may die at any point;     *)
(* LAD is not told.                                                        *)
(*                                                                         *)
(* A command and what its caller does with the answer are one step: LAD    *)
(* serves one command at a time and the calls of a process are serialized  *)
(* by Ipc_module.gate.                                                     *)
(*                                                                         *)
(* Source: linux/src/api/{Ipc,MessageQ,NameServer}.c,                      *)
(*         linux/src/api/gates/{GateMP,GateHWSpinlock}.c,                  *)
(*         linux/src/daemon/{lad,GateMP_daemon,MessageQ_daemon,            *)
(*         NameServer_daemon}.c, linux/src/transport/TransportRpmsg.c      *)
(***************************************************************************)
EXTENDS Integers, FiniteSets

CONSTANTS Starters,    \* the commands that start LAD
          Options,     \* their options: [all: -s ALL, gates: -g]
          Clients,     \* the processes that use it
          Remotes,     \* the remote processors
          Initially,   \* what they may be when LAD starts
          MaxCalls,    \* bound: MaxCalls[p], the times p starts the library from nothing
          MaxRefs,     \* bound: the starts of a process without a stop
          MaxAttached, \* bound: its attaches to one remote
          MaxDeaths    \* bound: the processes that die

NoPid    == 0
NoRemote == 0

VARIABLES
  options,     \* LAD's
  st,          \* the starters: [pc, pid, child, parent, pos]
  nextPid,
  commandFIFO, \* the starter whose FIFO has the name, or NoPid
  \* LAD's counts
  nsRef, mqRef,
  comm,        \* comm[r].refCount of the name server
  gmRef, attachedProcId, numRemoteSystem, inUseMapped,
  \* the remotes and the processes
  remote,      \* remote[r]: "down", "up", or "gates" once its default gate is named
  cl,          \* the processes: [pc, call, r, todo, num, refs, starts]
  att,         \* Ipc_module.attached
  inst,        \* the transport instances of a process
  lib,         \* what else of the library a process has
  alive,
  counted,     \* history: [client, remote] that LAD's GateMP_attach has counted
  strayed      \* history: a process it had not counted has detached

ladVars    == <<options, st, nextPid, commandFIFO>>
gateVars   == <<gmRef, attachedProcId, numRemoteSystem, inUseMapped, counted, strayed>>
countVars  == <<nsRef, mqRef, comm>>
clientVars == <<cl, att, inst, lib, alive>>
linuxIpcVars == <<ladVars, gateVars, countVars, clientVars, remote>>

Ended(d)  == st[d].pc \in {"none", "exited"}
NotYet    == [pc |-> "none", pid |-> NoPid, child |-> NoPid, parent |-> FALSE, pos |-> 0]
Out       == [pc |-> "out", call |-> "none", r |-> NoRemote, todo |-> {}, num |-> 0,
              refs |-> 0, starts |-> 0]
Init ==
  /\ options \in Options
  /\ st = [d \in Starters |-> NotYet] /\ nextPid = 1 /\ commandFIFO = NoPid
  /\ nsRef = 0 /\ mqRef = 0 /\ comm = [r \in Remotes |-> 0]
  /\ gmRef = [r \in Remotes |-> 0] /\ attachedProcId = NoRemote
  /\ numRemoteSystem = 0 /\ inUseMapped = FALSE
  /\ remote \in [Remotes -> Initially]
  /\ cl = [p \in Clients |-> Out] /\ att = [p \in Clients |-> [r \in Remotes |-> 0]]
  /\ inst = [p \in Clients |-> {}] /\ lib = [p \in Clients |-> {}] /\ alive = Clients
  /\ counted = {} /\ strayed = FALSE

Lowest(S) == CHOOSE i \in S : \A j \in S : i <= j

----------------------------------------------------------------------------
(* LAD starts.  readdir gives the entries of /proc in the order of their
   numbers and skips what has ended when it gets there. *)

Running == {st[d].pid : d \in {e \in Starters : st[e].parent}}
             \cup {st[d].child : d \in {e \in Starters : st[e].child # NoPid /\ ~Ended(e)}}
Moves(d, to) == st' = [st EXCEPT ![d].pc = to]
Exits(d) == st' = [st EXCEPT ![d].pc = "exited", ![d].parent = FALSE]

Exec(d) ==
  /\ st[d].pc = "none"
  /\ st' = [st EXCEPT ![d] = [pc |-> "readdir", pid |-> nextPid, child |-> NoPid,
                              parent |-> TRUE, pos |-> 0]]
  /\ nextPid' = nextPid + 1
  /\ UNCHANGED <<options, commandFIFO, gateVars, countVars, clientVars, remote>>
\* isDaemonRunning
ReadDir(d) ==
  /\ st[d].pc = "readdir"
  /\ LET ahead == {pid \in Running : pid > st[d].pos /\ pid # st[d].pid}
     IN st' = IF ahead = {} THEN [st EXCEPT ![d].pc = "only"]
              ELSE [st EXCEPT ![d].pc = "look", ![d].pos = Lowest(ahead)]
  /\ UNCHANGED <<options, nextPid, commandFIFO, gateVars, countVars, clientVars, remote>>
Look(d) ==
  /\ st[d].pc = "look"
  /\ IF st[d].pos \in Running THEN Exits(d) ELSE Moves(d, "readdir")
  /\ UNCHANGED <<options, nextPid, commandFIFO, gateVars, countVars, clientVars, remote>>
\* The FIFOs of an earlier LAD go; then the options are read, which may be bad.
cleanupFifos == commandFIFO' = NoPid
Prepare(d) ==
  /\ st[d].pc = "only"
  /\ cleanupFifos
  /\ Moves(d, "fork") \/ Exits(d)
  /\ UNCHANGED <<options, nextPid, gateVars, countVars, clientVars, remote>>
Fork(d) ==
  /\ st[d].pc = "fork"
  /\ \/ /\ st' = [st EXCEPT ![d].pc = "child", ![d].child = nextPid]
        /\ nextPid' = nextPid + 1
     \/ /\ Exits(d)
        /\ UNCHANGED nextPid
  /\ UNCHANGED <<options, commandFIFO, gateVars, countVars, clientVars, remote>>
ParentExits(d) ==
  /\ st[d].child # NoPid /\ st[d].parent
  /\ st' = [st EXCEPT ![d].parent = FALSE]
  /\ UNCHANGED <<options, nextPid, commandFIFO, gateVars, countVars, clientVars, remote>>
ChildEnds(d) == st' = [st EXCEPT ![d].pc = "exited"]
\* A name that is there is removed, and the FIFO made.
MakeFIFO(d) ==
  /\ st[d].pc = "child"
  /\ commandFIFO' = d
  /\ Moves(d, "gates")
  /\ UNCHANGED <<options, nextPid, gateVars, countVars, clientVars, remote>>
\* With -g LAD is the first user of its name server.  When the spinlocks or
\* the table of gates fail, LAD ends and leaves the FIFO's name behind.
SetupGates(d) ==
  /\ st[d].pc = "gates"
  /\ \/ /\ options.gates
        /\ ChildEnds(d)
        /\ UNCHANGED nsRef
     \/ /\ Moves(d, "serving")
        /\ nsRef' = IF options.gates THEN 1 ELSE 0
  /\ UNCHANGED <<options, nextPid, commandFIFO, gateVars, mqRef, comm, clientVars, remote>>

StarterStep(d) ==
  \/ Exec(d) \/ ReadDir(d) \/ Look(d) \/ Prepare(d) \/ Fork(d) \/ ParentExits(d)
  \/ MakeFIFO(d) \/ SetupGates(d)

----------------------------------------------------------------------------
(* LAD's side of the commands. *)

Serving == \E d \in Starters : st[d].pc = "serving" /\ commandFIFO = d
NameServer_setup   == nsRef' = nsRef + 1
NameServer_destroy == nsRef' = nsRef - 1
MessageQ_setup     == mqRef' = mqRef + 1
MessageQ_destroy   == mqRef' = mqRef - 1

\* The first client opens the sockets, or fails to; the last one closes them.
NameServer_attach(r) ==
  /\ comm[r] > 0 \/ remote[r] # "down"
  /\ comm' = [comm EXCEPT ![r] = @ + 1]
AttachMayFail(r) == comm[r] = 0
NameServer_detach(r) == comm' = [comm EXCEPT ![r] = @ - 1]

\* The default gate of a remote is looked up there; its name server may be late.
openDefaultGate(r) == remote[r] = "gates"
\* The arrays of gates are mapped, or are not; the attach is counted.
MapInUse(r) ==
  \/ UNCHANGED <<numRemoteSystem, inUseMapped>>
  \/ numRemoteSystem' = r /\ inUseMapped' \in BOOLEAN
Counts(p, r) ==
  /\ gmRef' = [gmRef EXCEPT ![r] = @ + 1]
  /\ counted' = counted \cup {<<p, r>>}
\* The gates of one remote at a time.
GateMP_attach(p, r) ==
  \/ /\ gmRef[r] > 0
     /\ Counts(p, r)
     /\ UNCHANGED <<attachedProcId, numRemoteSystem, inUseMapped>>
  \/ /\ gmRef[r] = 0 /\ openDefaultGate(r) /\ attachedProcId = NoRemote
     /\ Counts(p, r)
     /\ attachedProcId' = r
     /\ MapInUse(r)
AttachRefused(r) == gmRef[r] = 0
Unmap == attachedProcId' = NoRemote /\ inUseMapped' = FALSE
\* It is not asked whether the client's attach was counted.
GateMP_detach(p, r) ==
  /\ gmRef' = [gmRef EXCEPT ![r] = @ - 1]
  /\ strayed' = (strayed \/ <<p, r>> \notin counted)
  /\ IF gmRef[r] > 1 THEN UNCHANGED <<attachedProcId, inUseMapped>> ELSE Unmap
\* The default gate is asked for at every remote that LAD has sockets to.
DefaultGateFound == \E r \in Remotes : comm[r] > 0 /\ remote[r] = "gates"

----------------------------------------------------------------------------
(* A process starts. *)

At(p, pc) == p \in alive /\ cl[p].pc = pc
Goto(p, pc) == cl' = [cl EXCEPT ![p].pc = pc]
\* A call ends; a loop over the cluster goes on.
Return(p) ==
  cl' = [cl EXCEPT ![p].pc = IF @ # "ready" /\ cl[p].call \in {"start", "undo", "stop"}
                             THEN "loop" ELSE "ready",
                   ![p].r = NoRemote,
                   ![p].call = IF @ \in {"attach", "detach"} THEN "none" ELSE @]
Cluster == IF options.all THEN Remotes ELSE {}
Has(p, things) == lib' = [lib EXCEPT ![p] = @ \cup things]
Drops(p, things) == lib' = [lib EXCEPT ![p] = @ \ things]

StartCall(p) ==
  /\ At(p, "out") /\ cl[p].starts < MaxCalls[p]
  /\ cl' = [cl EXCEPT ![p].pc = "connect", ![p].call = "start", ![p].starts = @ + 1]
  /\ att' = [att EXCEPT ![p] = [r \in Remotes |-> 0]]
  /\ UNCHANGED <<ladVars, gateVars, countVars, inst, lib, alive, remote>>
StartAgain(p) ==
  /\ At(p, "ready") /\ cl[p].refs < MaxRefs
  /\ cl' = [cl EXCEPT ![p].refs = @ + 1]
  /\ UNCHANGED <<ladVars, gateVars, countVars, att, inst, lib, alive, remote>>
Connect(p) ==
  /\ At(p, "connect")
  /\ (Serving /\ Goto(p, "nsSetup")) \/ cl' = [cl EXCEPT ![p].pc = "out", ![p].call = "none"]
  /\ UNCHANGED <<ladVars, gateVars, countVars, att, inst, lib, alive, remote>>
NsSetup(p) ==
  /\ At(p, "nsSetup")
  /\ NameServer_setup
  /\ Goto(p, "mqSetup")
  /\ UNCHANGED <<ladVars, gateVars, mqRef, comm, att, inst, lib, alive, remote>>
\* MessageQ_setup, then the standard heap
MqSetup(p) ==
  /\ At(p, "mqSetup")
  /\ MessageQ_setup
  /\ Has(p, {"queues", "heap"})
  /\ Goto(p, "factory")
  /\ UNCHANGED <<ladVars, gateVars, nsRef, comm, att, inst, alive, remote>>
FactoryCreate(p) ==
  /\ At(p, "factory")
  /\ \/ /\ Has(p, {"factory"})
        /\ cl' = [cl EXCEPT ![p].pc = "loop", ![p].todo = Cluster]
     \/ /\ Drops(p, {"heap"})
        /\ cl' = [cl EXCEPT ![p].pc = "mqDestroy", ![p].call = "undo"]
  /\ inst' = [inst EXCEPT ![p] = {}]
  /\ UNCHANGED <<ladVars, gateVars, countVars, att, alive, remote>>
Started(p) == [cl EXCEPT ![p].pc = "ready", ![p].call = "none", ![p].refs = 1, ![p].num = 0]

----------------------------------------------------------------------------
(* Ipc_attach and Ipc_detach, called by the user or for the whole cluster.  *)

AttachCall(p, r) ==
  /\ At(p, "ready") /\ att[p][r] < MaxAttached
  /\ \/ /\ att[p][r] > 0
        /\ att' = [att EXCEPT ![p][r] = @ + 1]
        /\ UNCHANGED cl
     \/ /\ att[p][r] = 0
        /\ cl' = [cl EXCEPT ![p].pc = "nsAttach", ![p].call = "attach", ![p].r = r]
        /\ UNCHANGED att
  /\ UNCHANGED <<ladVars, gateVars, countVars, inst, lib, alive, remote>>
DetachCall(p, r) ==
  /\ At(p, "ready") /\ att[p][r] > 0
  /\ att' = [att EXCEPT ![p][r] = @ - 1]
  /\ cl' = IF att[p][r] > 1 THEN cl
           ELSE [cl EXCEPT ![p].pc = "gmDetach", ![p].call = "detach", ![p].r = r]
  /\ UNCHANGED <<ladVars, gateVars, countVars, inst, lib, alive, remote>>
\* The loop of start; failures are ignored.
AttachNext(p) ==
  /\ At(p, "loop") /\ cl[p].call = "start" /\ cl[p].todo # {}
  /\ LET r == Lowest(cl[p].todo)
     IN cl' = [cl EXCEPT ![p].pc = "nsAttach", ![p].r = r, ![p].todo = @ \ {r}]
  /\ UNCHANGED <<ladVars, gateVars, countVars, att, inst, lib, alive, remote>>
\* The loops of stop and of a start that fails skip who is not attached.
DetachNext(p) ==
  /\ At(p, "loop") /\ cl[p].call \in {"undo", "stop"} /\ cl[p].todo # {}
  /\ LET r == Lowest(cl[p].todo)
     IN /\ att' = IF att[p][r] > 0 THEN [att EXCEPT ![p][r] = @ - 1] ELSE att
        /\ cl' = [cl EXCEPT ![p].todo = @ \ {r},
                            ![p].pc = IF att[p][r] = 1 THEN "gmDetach" ELSE "loop",
                            ![p].r = IF att[p][r] = 1 THEN r ELSE NoRemote]
  /\ UNCHANGED <<ladVars, gateVars, countVars, inst, lib, alive, remote>>

R(p) == cl[p].r
NsAttach(p) ==
  /\ At(p, "nsAttach")
  /\ \/ /\ NameServer_attach(R(p))
        /\ Goto(p, "tAttach")
     \/ /\ AttachMayFail(R(p))
        /\ Return(p)
        /\ UNCHANGED comm
  /\ UNCHANGED <<ladVars, gateVars, nsRef, mqRef, att, inst, lib, alive, remote>>
\* The process's own socket and transport; its queues are bound to it.
Register(p) == inst' = [inst EXCEPT ![p] = @ \cup {R(p)}]
Delete(p)   == inst' = [inst EXCEPT ![p] = @ \ {R(p)}]
TransportAttach(p) ==
  /\ At(p, "tAttach")
  /\ \/ /\ remote[R(p)] # "down"
        /\ Register(p)
        /\ Goto(p, "gmAttach")
     \/ /\ Goto(p, "nsUndo")
        /\ UNCHANGED inst
  /\ UNCHANGED <<ladVars, gateVars, countVars, att, lib, alive, remote>>
\* That LAD refuses is no error.
GmAttach(p) ==
  /\ At(p, "gmAttach")
  /\ \/ options.gates /\ GateMP_attach(p, R(p))
     \/ /\ ~options.gates \/ AttachRefused(R(p))
        /\ UNCHANGED <<gmRef, counted, attachedProcId, numRemoteSystem, inUseMapped>>
  /\ att' = [att EXCEPT ![p][R(p)] = @ + 1]
  /\ Return(p)
  /\ UNCHANGED <<ladVars, countVars, inst, lib, alive, remote, strayed>>
GmDetach(p) ==
  /\ At(p, "gmDetach")
  /\ IF options.gates /\ attachedProcId = R(p)
     THEN GateMP_detach(p, R(p))
     ELSE UNCHANGED <<gmRef, strayed, attachedProcId, inUseMapped>>
  /\ counted' = counted \ {<<p, R(p)>>}
  /\ Goto(p, "tDetach")
  /\ UNCHANGED <<ladVars, countVars, att, inst, lib, alive, remote, numRemoteSystem>>
TransportDetach(p) ==
  /\ At(p, "tDetach")
  /\ Delete(p)
  /\ Goto(p, "nsDetach")
  /\ UNCHANGED <<ladVars, gateVars, countVars, att, lib, alive, remote>>
NsDetach(p) ==
  /\ At(p, "nsDetach") \/ At(p, "nsUndo")
  /\ NameServer_detach(R(p))
  /\ Return(p)
  /\ UNCHANGED <<ladVars, gateVars, nsRef, mqRef, att, inst, lib, alive, remote>>

----------------------------------------------------------------------------
(* The gates of a process that starts. *)

IsSetup(p) ==
  /\ At(p, "loop") /\ cl[p].call = "start" /\ cl[p].todo = {}
  /\ IF options.gates THEN Goto(p, "spinlock") ELSE cl' = Started(p)
  /\ UNCHANGED <<ladVars, gateVars, countVars, att, inst, lib, alive, remote>>
Undo(p) == cl' = [cl EXCEPT ![p].pc = "loop", ![p].call = "undo", ![p].todo = Cluster, ![p].num = 0]
SpinlockStart(p) ==
  /\ At(p, "spinlock")
  /\ \/ Has(p, {"spinlock"}) /\ Goto(p, "gmNum")
     \/ Drops(p, {"spinlock"}) /\ Undo(p)
  /\ UNCHANGED <<ladVars, gateVars, countVars, att, inst, alive, remote>>
GetNumResources(p) ==
  /\ At(p, "gmNum")
  /\ cl' = [cl EXCEPT ![p].pc = "gmOpen", ![p].num = numRemoteSystem]
  /\ UNCHANGED <<ladVars, gateVars, countVars, att, inst, lib, alive, remote>>
\* A default gate that is not found is no error; one found by a process that
\* got no array is.
OpenDefaultGate(p) ==
  /\ At(p, "gmOpen")
  /\ \/ DefaultGateFound /\ cl[p].num # 0 /\ Has(p, {"gates"}) /\ cl' = Started(p)
     \/ cl' = Started(p) /\ Drops(p, {"gates"})
     \/ DefaultGateFound /\ Undo(p) /\ Drops(p, {"gates", "spinlock"})
  /\ UNCHANGED <<ladVars, gateVars, countVars, att, inst, alive, remote>>

----------------------------------------------------------------------------
(* A process stops, or undoes its start.  The user has detached from all
   processors, as Ipc.h asks; those of the cluster are detached here. *)

StopCall(p) ==
  /\ At(p, "ready")
  /\ \/ /\ cl[p].refs > 1
        /\ cl' = [cl EXCEPT ![p].refs = @ - 1]
     \/ /\ cl[p].refs = 1
        /\ \A r \in Remotes : att[p][r] <= IF options.all THEN 1 ELSE 0
        /\ cl' = [cl EXCEPT ![p].pc = "loop", ![p].call = "stop", ![p].todo = Cluster,
                            ![p].refs = 0]
  /\ UNCHANGED <<ladVars, gateVars, countVars, att, inst, lib, alive, remote>>
FactoryDelete(p) ==
  /\ At(p, "loop") /\ cl[p].call \in {"undo", "stop"} /\ cl[p].todo = {}
  /\ Drops(p, {"factory", "heap"})
  /\ Goto(p, "mqDestroy")
  /\ UNCHANGED <<ladVars, gateVars, countVars, att, inst, alive, remote>>
MqDestroy(p) ==
  /\ At(p, "mqDestroy")
  /\ MessageQ_destroy
  /\ Drops(p, {"queues"})
  /\ Goto(p, "nsDestroy")
  /\ UNCHANGED <<ladVars, gateVars, nsRef, comm, att, inst, alive, remote>>
NsDestroy(p) ==
  /\ At(p, "nsDestroy")
  /\ NameServer_destroy
  /\ Goto(p, "disconnect")
  /\ UNCHANGED <<ladVars, gateVars, mqRef, comm, att, inst, lib, alive, remote>>
Disconnect(p) ==
  /\ At(p, "disconnect")
  /\ Goto(p, "out")
  /\ UNCHANGED <<ladVars, gateVars, countVars, att, inst, lib, alive, remote>>

Dies(p) ==
  /\ p \in alive /\ cl[p].pc # "out" /\ Cardinality(Clients \ alive) < MaxDeaths
  /\ alive' = alive \ {p}
  /\ UNCHANGED <<ladVars, gateVars, countVars, cl, att, inst, lib, remote>>
\* A remote processor is loaded, and creates its gates later.
RemoteGoesOn(r) ==
  /\ remote[r] # "gates"
  /\ remote' = [remote EXCEPT ![r] = IF @ = "down" THEN "up" ELSE "gates"]
  /\ UNCHANGED <<ladVars, gateVars, countVars, clientVars>>

ClientStep(p) ==
  \/ StartCall(p) \/ StartAgain(p) \/ Connect(p) \/ NsSetup(p) \/ MqSetup(p) \/ FactoryCreate(p)
  \/ \E r \in Remotes : AttachCall(p, r) \/ DetachCall(p, r)
  \/ AttachNext(p) \/ DetachNext(p) \/ NsAttach(p) \/ TransportAttach(p) \/ GmAttach(p)
  \/ GmDetach(p) \/ TransportDetach(p) \/ NsDetach(p)
  \/ IsSetup(p) \/ SpinlockStart(p) \/ GetNumResources(p) \/ OpenDefaultGate(p)
  \/ StopCall(p) \/ FactoryDelete(p) \/ MqDestroy(p) \/ NsDestroy(p) \/ Disconnect(p) \/ Dies(p)
Next ==
  \/ \E d \in Starters : StarterStep(d)
  \/ \E p \in Clients : ClientStep(p)
  \/ \E r \in Remotes : RemoteGoesOn(r)
Spec == Init /\ [][Next]_linuxIpcVars

----------------------------------------------------------------------------
\* What a process has asked LAD for and not given back, by where it is; one
\* that has died keeps it.
UsesNames(p)  == cl[p].pc \notin {"out", "connect", "nsSetup", "disconnect"}
UsesQueues(p) == UsesNames(p) /\ cl[p].pc \notin {"mqSetup", "nsDestroy"}
UsesSockets(p, r) ==
  \/ att[p][r] > 0
  \/ cl[p].r = r /\ cl[p].pc \in {"tAttach", "nsUndo", "gmAttach", "gmDetach", "tDetach", "nsDetach"}

TypeOK ==
  /\ options \in Options
  /\ nsRef \in Nat /\ mqRef \in Nat /\ comm \in [Remotes -> Nat] /\ gmRef \in [Remotes -> Nat]
  /\ attachedProcId \in Remotes \cup {NoRemote}
  /\ inst \in [Clients -> SUBSET Remotes]
  /\ lib \in [Clients -> SUBSET {"queues", "heap", "factory", "spinlock", "gates"}]

\* Every row of commands that a start, a failing start, an attach, a stop
\* interleaves with another process's gives back to LAD what it took, so that
\* the last one turns a service off and no earlier one does.
CountsAgree ==
  Serving =>
    /\ nsRef = Cardinality({p \in Clients : UsesNames(p)}) + IF options.gates THEN 1 ELSE 0
    /\ mqRef = Cardinality({p \in Clients : UsesQueues(p)})
    /\ \A r \in Remotes : comm[r] = Cardinality({p \in Clients : UsesSockets(p, r)})

\* The gates of a remote stay mapped while a process counts on them, as long
\* as no process whose attach was refused has detached from it.
GatesAreCounted ==
  /\ \A r \in Remotes : (attachedProcId = r) = (gmRef[r] > 0)
  /\ inUseMapped => attachedProcId # NoRemote
  /\ ~strayed => \A r \in Remotes :
       gmRef[r] = Cardinality({p \in Clients : <<p, r>> \in counted})

\* A process whose start has failed has nothing left of the library, one that
\* has stopped nothing but its gates; one that is attached has the transport.
NothingIsLeft ==
  \A p \in alive :
    /\ cl[p].pc = "out" =>
         /\ lib[p] \cap {"queues", "heap", "factory"} = {} /\ inst[p] = {}
         /\ cl[p].starts = 1 /\ cl[p].call = "undo" => lib[p] = {}
    /\ cl[p].pc = "ready" => \A r \in Remotes : (att[p][r] > 0) = (r \in inst[p])

\* One LAD is past its check at a time, and the one that serves can be reached.
OneDaemon ==
  /\ Cardinality({d \in Starters : st[d].pc \in {"only", "fork", "child", "gates", "serving"}}) <= 1
  /\ \A d \in Starters : st[d].pc = "serving" => commandFIFO = d
=============================================================================
