----------------------------- MODULE MCLinux ------------------------------
(***************************************************************************)
(* The Linux side in one run: LAD's command FIFO with its clients and the  *)
(* queue table, with one slot or two for two clients ("lad"), the name     *)
(* server's listener beside the command thread ("ns"), and the client      *)
(* library's queues with their dispatch thread ("queues"); and the gate    *)
(* between two processors, GatePeterson, with two threads on each          *)
(* ("gate").  They share no state; the initial state picks the one that    *)
(* runs.                                                                   *)
(***************************************************************************)
EXTENDS GatePeterson, Lad, LinuxMessageQ, NameServerDaemon

CONSTANTS a, b   \* clients of LAD

VARIABLES part

gateVars == <<flag, turn, line, owner, nested, pc, passed>>
mcVars == <<part, gateVars, ladVars, nsdVars, lqVars>>

MCInit ==
  /\ part \in {"lad", "gate", "ns", "queues"}
  /\ Init /\ NsInit /\ ClientInit /\ LadInit
  /\ part # "lad" => maxClients = 1

LadOnly  == part = "lad"    /\ UNCHANGED <<part, gateVars, nsdVars, lqVars>>
NsOnly   == part = "ns"     /\ UNCHANGED <<part, gateVars, ladVars, lqVars>>
LqOnly   == part = "queues" /\ UNCHANGED <<part, gateVars, ladVars, nsdVars>>
GateOnly == part = "gate"   /\ UNCHANGED <<part, ladVars, nsdVars, lqVars>>
MCNext ==
  \/ GateOnly /\ Next
  \/ LadOnly /\ LadNext
  \/ NsOnly /\ NsNext
  \/ LqOnly /\ ClientNext

\* The fairness of each part, which its module explains.
MCFairness ==
  /\ WF_ladVars(part = "lad" /\ LadStep)
  /\ \A p \in Clients : WF_ladVars(part = "lad" /\ ClientStep(p))
  /\ WF_nsdVars(part = "ns" /\ ListenerStep)
  /\ WF_nsdVars(part = "ns" /\ MainStep)
  /\ \A t \in QueueThreads : WF_lqVars(part = "queues" /\ ~fault /\ ThreadStep(t))
  /\ WF_lqVars(part = "queues" /\ ~fault /\ IpcStep)
  /\ WF_lqVars(part = "queues" /\ ~fault /\ DispStep)
  /\ \A p \in Procs :
       /\ WF_gateVars(part = "gate" /\ Runs(p)) /\ WF_gateVars(part = "gate" /\ Leaves(p))
       /\ SF_gateVars(part = "gate" /\ OutermostLeaves(p))
MCSpec == MCInit /\ [][MCNext]_mcVars /\ MCFairness

----------------------------------------------------------------------------
(* The properties: a liveness property of the parts in one; the modules state
   the others. *)

\* Commands to LAD, attaches and detaches, binds and unbinds, and GatePeterson's
\* enter, all come back: RequestsAreAnswered, RefreshReturns, BindsReturn and
\* EnterReturns of the parts in one, for a client c, a thread t of the library and
\* a thread g of the gate.  Threads of a kind are alike: one of each is watched.
\* What keeps them for good is named: a stray command or reply, a freed descriptor
\* table, a client that dies while LAD opens its FIFO, and the listener lost to a
\* failed attach.
Waits(c, t, g) ==
  CASE part = "lad"    -> clientAt[c] \in Requests
    [] part = "ns"     -> main.pc \in {"attach", "detach"}
    [] part = "queues" -> at[t] = "acking"
    [] part = "gate"   -> pc[g] \notin {"out", "in", "clearFlag", "leaveLocal"}
Kept == strayed \/ stale \/ fault \/ LadStuck \/ ListenerLost
CallReturns(c, t, g) == Waits(c, t, g) ~> ~Waits(c, t, g) \/ Kept
CallsReturn ==
  /\ CallReturns(a, CHOOSE t \in QueueThreads : TRUE, CHOOSE g \in Threads0 : TRUE)
  /\ CallReturns(b, IpcThread, CHOOSE g \in Threads1 : TRUE)
=============================================================================
