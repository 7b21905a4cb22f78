-------------------------------- MODULE Lad --------------------------------
(***************************************************************************)
(* The Linux daemon LAD and its clients.  A client is a process: it writes *)
(* commands to one FIFO that all clients share and reads the answers from  *)
(* a FIFO of its own, which LAD creates when the client connects and       *)
(* removes when it disconnects.  LAD is one thread: it reads a command,    *)
(* cleans up after the clients that have died, executes the command and    *)
(* writes the answer.  Clients die at any moment.                          *)
(*                                                                         *)
(* Of the commands, the ones that create, announce and delete message      *)
(* queues are here, with LAD's own table of them.                          *)
(*                                                                         *)
(* Source: linux/src/daemon/lad.c, linux/src/daemon/MessageQ_daemon.c,     *)
(*         linux/src/utils/LAD_client.c                                    *)
(***************************************************************************)
EXTENDS Integers, FiniteSets, Sequences

CONSTANTS Clients,      \* the processes; a process id is not used twice
          Slots,        \* the client ids
          SlotCounts,   \* how many of them LAD may have: LAD_MAXNUMCLIENTS
          NoClient,
          InitQueues,   \* the length of LAD's queue table to begin with
          MaxLadQueues, \* bound: the length it can grow to
          MaxCommands,  \* bound: the commands written by all clients
          MaxDeaths     \* bound: the clients that die

NoSlot == -1
Queues == 0 .. MaxLadQueues - 1

\* Slots have numbers, and nobody is called like no client.
ASSUME LadAssumption ==
  Slots \subseteq Nat /\ NoClient \notin Clients /\ MaxLadQueues \in Nat /\ InitQueues \in 0 .. MaxLadQueues

VARIABLES
  maxClients,   \* how many slots LAD has, from start to end
  alive, clientAt,    \* the clients: whether they run and where they are
  clientId,     \* the client id LAD_connect has returned
  mine,         \* the queue a client has created and not deleted
  pipe,         \* the command FIFO
  fifos,        \* the clients whose answer FIFO has a name in the file system
  reader,       \* the clients that have that FIFO open, or are blocked opening it
  cut,          \* those whose FIFO has lost its name since
  answers,      \* what is in each
  connected, clientPID, file,   \* LAD's arrays: by slot, with the FILE "none", "open" or "closed"
  ladQueues, ladNumQueues,      \* LAD's table: [owner, announced] or NoQueue
  lad,          \* LAD: [pc, cmd]
  strayed,      \* history: LAD has executed a command on the slot or queue of another client
  commands, deaths

NoQueue == [owner |-> NoClient, announced |-> FALSE]
ladClientVars == <<alive, clientAt, clientId, mine>>
endVars    == <<reader, cut>>
slotVars   == <<connected, clientPID, file>>
queueVars  == <<ladQueues, ladNumQueues>>
bounds     == <<strayed, commands, deaths, maxClients>>
ladVars == <<ladClientVars, endVars, pipe, fifos, answers, slotVars, queueVars, lad, bounds>>

LadInit ==
  /\ alive = [p \in Clients |-> TRUE] /\ clientAt = [p \in Clients |-> "out"]
  /\ clientId = [p \in Clients |-> NoSlot] /\ mine = [p \in Clients |-> NoSlot]
  /\ pipe = <<>> /\ fifos = {} /\ reader = {} /\ cut = {} /\ answers = [p \in Clients |-> <<>>]
  /\ connected = [s \in Slots |-> FALSE] /\ clientPID = [s \in Slots |-> NoClient]
  /\ file = [s \in Slots |-> "none"]
  /\ ladQueues = [q \in Queues |-> NoQueue] /\ ladNumQueues = InitQueues
  /\ lad = [pc |-> "read", cmd |-> "none"]
  /\ strayed = FALSE /\ commands = 0 /\ deaths = 0 /\ maxClients \in SlotCounts

ClientGoto(p, place) == clientAt' = [clientAt EXCEPT ![p] = place]
Write(cmd) ==
  /\ commands < MaxCommands /\ commands' = commands + 1
  /\ pipe' = Append(pipe, cmd)
Down == lad.pc = "down"

----------------------------------------------------------------------------
(* LAD_connect *)

\* A response FIFO that exists already means a second connection: refused.
ConnectWrites(p) ==
  /\ alive[p] /\ clientAt[p] = "out" /\ p \notin fifos
  /\ Write([op |-> "connect", pid |-> p])
  /\ ClientGoto(p, "opening")
  /\ UNCHANGED <<alive, clientId, mine, endVars, fifos, answers, slotVars, queueVars, lad, strayed, deaths, maxClients>>
ConnectOpens(p) ==
  /\ alive[p] /\ clientAt[p] = "opening" /\ p \in fifos
  /\ reader' = reader \cup {p}
  /\ ClientGoto(p, "reading")
  /\ UNCHANGED <<alive, clientId, mine, cut, pipe, fifos, answers, slotVars, queueVars, lad, bounds>>
ConnectTimesOut(p) ==
  /\ alive[p] /\ clientAt[p] = "opening"
  /\ ClientGoto(p, "out")
  /\ UNCHANGED <<alive, clientId, mine, endVars, pipe, fifos, answers, slotVars, queueVars, lad, bounds>>
ConnectReads(p) ==
  /\ alive[p] /\ clientAt[p] = "reading" /\ answers[p] # <<>>
  /\ answers' = [answers EXCEPT ![p] = Tail(@)]
  /\ LET id == Head(answers[p]).id
     IN IF id # NoSlot
        THEN /\ clientId' = [clientId EXCEPT ![p] = id] /\ ClientGoto(p, "ready")
             /\ UNCHANGED endVars
        ELSE /\ ClientGoto(p, "out") /\ clientId' = clientId
             /\ reader' = reader \ {p} /\ cut' = cut \ {p}
  /\ UNCHANGED <<alive, mine, pipe, fifos, slotVars, queueVars, lad, bounds>>

(* LAD_putCommand, then LAD_getResponse: the answer is waited for without a
   timeout, under modGate.  Applications delete their queue before they stop. *)

Command(p, op) == [op |-> op, slot |-> clientId[p], pid |-> p, q |-> mine[p]]
Ask(p, op) ==
  /\ alive[p] /\ clientAt[p] = "ready"
  /\ (op = "create") = (mine[p] = NoSlot)
  /\ Write(Command(p, op))
  /\ ClientGoto(p, op)
  /\ UNCHANGED <<alive, clientId, mine, endVars, fifos, answers, slotVars, queueVars, lad, strayed, deaths, maxClients>>
Requests == {"create", "announce", "delete"}
GetResponse(p) ==
  /\ alive[p] /\ clientAt[p] \in Requests /\ answers[p] # <<>>
  /\ answers' = [answers EXCEPT ![p] = Tail(@)]
  /\ mine' = [mine EXCEPT ![p] = CASE clientAt[p] = "create" -> Head(answers[p]).id
                                   [] clientAt[p] = "delete" -> NoSlot
                                   [] OTHER -> @]
  /\ ClientGoto(p, "ready")
  /\ UNCHANGED <<alive, clientId, endVars, pipe, fifos, slotVars, queueVars, lad, bounds>>
\* LAD is gone and with it the writing end: fread returns nothing.
GetsNothing(p) ==
  /\ alive[p] /\ clientAt[p] \in Requests /\ answers[p] = <<>> /\ Down
  /\ ClientGoto(p, "failed")
  /\ UNCHANGED <<alive, clientId, mine, endVars, pipe, fifos, answers, slotVars, queueVars, lad, bounds>>

(* LAD_disconnect closes its end and polls until LAD has removed the FIFO. *)

DisconnectWrites(p) ==
  /\ alive[p] /\ clientAt[p] = "ready" /\ mine[p] = NoSlot
  /\ Write([op |-> "disconnect", slot |-> clientId[p], pid |-> p])
  /\ reader' = reader \ {p}
  /\ ClientGoto(p, "closing")
  /\ UNCHANGED <<alive, clientId, mine, cut, fifos, answers, slotVars, queueVars, lad, strayed, deaths, maxClients>>
DisconnectReturns(p) ==
  /\ alive[p] /\ clientAt[p] = "closing" /\ p \notin fifos
  /\ clientId' = [clientId EXCEPT ![p] = NoSlot]
  /\ ClientGoto(p, "out")
  /\ UNCHANGED <<alive, mine, endVars, pipe, fifos, answers, slotVars, queueVars, lad, bounds>>
\* After the timeout the client believes itself connected with a FILE it has
\* closed; it makes no further call here.
DisconnectTimesOut(p) ==
  /\ alive[p] /\ clientAt[p] = "closing" /\ p \in fifos
  /\ ClientGoto(p, "failed")
  /\ UNCHANGED <<alive, clientId, mine, endVars, pipe, fifos, answers, slotVars, queueVars, lad, bounds>>

ClientDies(p) ==
  /\ alive[p] /\ deaths < MaxDeaths /\ deaths' = deaths + 1
  /\ alive' = [alive EXCEPT ![p] = FALSE]
  /\ reader' = reader \ {p} /\ cut' = cut \ {p}
  /\ ClientGoto(p, "dead")
  /\ UNCHANGED <<clientId, mine, pipe, fifos, answers, slotVars, queueVars, lad, strayed, commands, maxClients>>

----------------------------------------------------------------------------
(* LAD reads a command and first cleans up after the departed clients. *)

Departed == {s \in Slots : connected[s] /\ ~alive[clientPID[s]]}
OwnedBy(pids) == {q \in Queues : ladQueues[q].owner \in pids}

\* doDisconnect for each of them, then MessageQ_cleanupOwner.
LadReads ==
  /\ lad.pc = "read" /\ pipe # <<>>
  /\ LET gone == {clientPID[s] : s \in Departed}
     IN /\ connected' = [s \in Slots |-> connected[s] /\ s \notin Departed]
        /\ file' = [s \in Slots |-> IF s \in Departed THEN "closed" ELSE file[s]]
        /\ fifos' = fifos \ gone
        /\ answers' = [p \in Clients |-> IF p \in gone THEN <<>> ELSE answers[p]]
        /\ ladQueues' = [q \in Queues |-> IF q \in OwnedBy(gone) THEN NoQueue ELSE ladQueues[q]]
  /\ lad' = [pc |-> Head(pipe).op, cmd |-> Head(pipe)]
  /\ pipe' = Tail(pipe)
  /\ UNCHANGED <<ladClientVars, endVars, clientPID, ladNumQueues, bounds>>

----------------------------------------------------------------------------
(* connectToLAD *)

Reading == [pc |-> "read", cmd |-> "none"]
FreeSlots == {s \in Slots : s < maxClients /\ ~connected[s]}
assignClientId ==
  IF FreeSlots = {} THEN NoSlot ELSE CHOOSE s \in FreeSlots : \A r \in FreeSlots : s <= r

\* A mutant: the failure of mkfifo is not looked at.
LadMakesFifoAnyway ==
  /\ lad.pc = "connect"
  /\ fifos' = fifos \cup {lad.cmd.pid}
  /\ lad' = [lad EXCEPT !.pc = "open"]
  /\ UNCHANGED <<ladClientVars, endVars, pipe, answers, slotVars, queueVars, bounds>>
\* mkfifo fails when the name is there already: no answer is sent.
LadMakesFifo ==
  /\ lad.pc = "connect"
  /\ LET p == lad.cmd.pid
     IN /\ fifos' = fifos \cup {p}
        /\ lad' = IF p \in fifos THEN Reading ELSE [lad EXCEPT !.pc = "open"]
  /\ UNCHANGED <<ladClientVars, endVars, pipe, answers, slotVars, queueVars, bounds>>
\* The name of a FIFO is removed; a client that has it open keeps it.
Unlink(p) ==
  /\ fifos' = fifos \ {p}
  /\ reader' = reader \ {p}
  /\ cut' = cut \cup (reader \cap {p})

\* The writing end can be opened, without blocking, once the client has opened
\* the reading end.
LadOpens ==
  /\ lad.pc = "open" /\ lad.cmd.pid \in reader
  /\ lad' = [lad EXCEPT !.pc = "fopen"]
  /\ UNCHANGED <<ladClientVars, endVars, pipe, fifos, answers, slotVars, queueVars, bounds>>
\* It is opened a second time, now waiting for a reader: nothing ends that wait
\* when the client has died since.
LadReopens ==
  /\ lad.pc = "fopen" /\ lad.cmd.pid \in reader
  /\ lad' = [lad EXCEPT !.pc = "welcome"]
  /\ UNCHANGED <<ladClientVars, endVars, pipe, fifos, answers, slotVars, queueVars, bounds>>
\* The slot is the client's, and it is answered; a client that is refused loses
\* its FIFO.
LadWelcomes ==
  /\ lad.pc = "welcome" /\ lad.cmd.pid \in reader
  /\ LET p == lad.cmd.pid
         s == assignClientId
     IN /\ answers' = [answers EXCEPT ![p] = Append(@, [op |-> "connect", id |-> s])]
        /\ IF s # NoSlot
           THEN /\ connected' = [connected EXCEPT ![s] = TRUE]
                /\ clientPID' = [clientPID EXCEPT ![s] = p]
                /\ file' = [file EXCEPT ![s] = "open"]
                /\ UNCHANGED <<endVars, fifos>>
           ELSE Unlink(p) /\ UNCHANGED slotVars
  /\ lad' = Reading
  /\ UNCHANGED <<ladClientVars, pipe, queueVars, bounds>>
\* Without a reader the answer is the end of LAD: SIGPIPE.
LadBreaksPipe ==
  /\ lad.pc = "welcome" /\ lad.cmd.pid \notin reader
  /\ lad' = [lad EXCEPT !.pc = "down"]
  /\ UNCHANGED <<ladClientVars, endVars, pipe, fifos, answers, slotVars, queueVars, bounds>>
\* A client that has not opened it when LAD tried for the last time is given
\* up.  If it opens it before LAD removes the name, its fopen never returns.
LadGivesUp ==
  /\ lad.pc = "open"
  /\ Unlink(lad.cmd.pid)
  /\ lad' = Reading
  /\ UNCHANGED <<ladClientVars, pipe, answers, slotVars, queueVars, bounds>>

\* A command names a slot, and maybe a queue, that may be another client's by now.
Slot     == lad.cmd.slot
Receiver == clientPID[Slot]
Strays   == \/ file[Slot] = "open" /\ Receiver # lad.cmd.pid
            \/ lad.pc \in {"announce", "delete"} /\ ladQueues[lad.cmd.q].owner # lad.cmd.pid
Stray    == strayed' = (strayed \/ Strays)

\* doDisconnect: the FILE is closed and the FIFO's name removed.
LadDisconnects ==
  /\ lad.pc = "disconnect"
  /\ Stray
  /\ IF file[Slot] = "open"
     THEN /\ connected' = [connected EXCEPT ![Slot] = FALSE]
          /\ file' = [file EXCEPT ![Slot] = "closed"]
          /\ Unlink(Receiver)
          /\ answers' = [answers EXCEPT ![Receiver] = <<>>]
          /\ lad' = Reading
     ELSE /\ lad' = [lad EXCEPT !.pc = "down"]   \* a second fclose
          /\ UNCHANGED <<connected, file, fifos, endVars, answers>>
  /\ UNCHANGED <<ladClientVars, pipe, clientPID, queueVars, commands, deaths, maxClients>>

----------------------------------------------------------------------------
(* The commands of MessageQ.  The answer goes to the FILE of the slot named
   in the command, whoever has it by now.  A FILE that was closed, a queue that
   was freed and a FIFO without a reader (SIGPIPE) are the end of LAD. *)

\* A mutant: a command that the answering switch does not list.
RespondUnlisted(id) ==
  /\ Stray
  /\ answers' = IF lad.pc = "announce" THEN answers
                ELSE [answers EXCEPT ![Receiver] = Append(@, [op |-> lad.pc, id |-> id])]
  /\ lad' = Reading
Respond(id) ==
  /\ Stray
  /\ IF file[Slot] = "open" /\ Receiver \in reader
     THEN /\ answers' = [answers EXCEPT ![Receiver] = Append(@, [op |-> lad.pc, id |-> id])]
          /\ lad' = Reading
     ELSE /\ answers' = answers
          /\ lad' = [lad EXCEPT !.pc = "down"]

\* The first hole, or the first place of the table once it has grown.  The
\* owner is the client the slot belonged to last.
Holes == {q \in 0 .. ladNumQueues - 1 : ladQueues[q] = NoQueue}
LadCreatesQueue ==
  /\ lad.pc = "create"
  /\ Holes # {} \/ ladNumQueues < MaxLadQueues
  /\ LET q == IF Holes # {} THEN CHOOSE h \in Holes : \A g \in Holes : h <= g ELSE ladNumQueues
     IN /\ ladQueues' = [ladQueues EXCEPT ![q] = [owner |-> Receiver, announced |-> FALSE]]
        /\ ladNumQueues' = IF q = ladNumQueues THEN ladNumQueues + 1 ELSE ladNumQueues
        /\ Respond(q)
  /\ UNCHANGED <<ladClientVars, endVars, pipe, fifos, slotVars, commands, deaths, maxClients>>
LadAnnouncesQueue ==
  /\ lad.pc = "announce" /\ ladQueues[lad.cmd.q] # NoQueue
  /\ ladQueues' = [ladQueues EXCEPT ![lad.cmd.q].announced = TRUE]
  /\ Respond(NoSlot)
  /\ UNCHANGED <<ladClientVars, endVars, pipe, fifos, slotVars, ladNumQueues, commands, deaths, maxClients>>
LadDeletesQueue ==
  /\ lad.pc = "delete" /\ ladQueues[lad.cmd.q] # NoQueue
  /\ ladQueues' = [ladQueues EXCEPT ![lad.cmd.q] = NoQueue]
  /\ Respond(NoSlot)
  /\ UNCHANGED <<ladClientVars, endVars, pipe, fifos, slotVars, ladNumQueues, commands, deaths, maxClients>>
LadUsesFreedQueue ==
  /\ lad.pc \in {"announce", "delete"} /\ ladQueues[lad.cmd.q] = NoQueue
  /\ lad' = [lad EXCEPT !.pc = "down"]
  /\ UNCHANGED <<ladClientVars, endVars, pipe, fifos, answers, slotVars, queueVars, bounds>>

----------------------------------------------------------------------------
LadStep ==
  \/ LadReads \/ LadMakesFifo
  \/ LadOpens \/ LadReopens \/ LadWelcomes \/ LadBreaksPipe \/ LadGivesUp
  \/ LadDisconnects \/ LadCreatesQueue \/ LadAnnouncesQueue \/ LadDeletesQueue \/ LadUsesFreedQueue
ClientStep(p) ==
  \/ ConnectOpens(p) \/ ConnectReads(p) \/ GetResponse(p) \/ GetsNothing(p)
  \/ DisconnectReturns(p)
ClientCall(p) ==
  \/ ConnectWrites(p) \/ ConnectTimesOut(p) \/ DisconnectWrites(p) \/ DisconnectTimesOut(p)
  \/ \E op \in Requests : Ask(p, op)
  \/ ClientDies(p)
LadNext == LadStep \/ \E p \in Clients : ClientStep(p) \/ ClientCall(p)

\* The kernel runs LAD and the clients.
LadFairness == WF_ladVars(LadStep) /\ \A p \in Clients : WF_ladVars(ClientStep(p))
LadSpec == LadInit /\ [][LadNext]_ladVars /\ LadFairness

----------------------------------------------------------------------------
LadTypeOK ==
  /\ clientAt \in [Clients -> {"out", "opening", "reading", "ready", "closing", "failed", "dead"}
                               \cup Requests]
  /\ clientId \in [Clients -> Slots \cup {NoSlot}] /\ mine \in [Clients -> Queues \cup {NoSlot}]
  /\ fifos \subseteq Clients /\ reader \subseteq Clients /\ cut \subseteq Clients
  /\ connected \in [Slots -> BOOLEAN] /\ file \in [Slots -> {"none", "open", "closed"}]
  /\ clientPID \in [Slots -> Clients \cup {NoClient}]
  /\ ladNumQueues \in 0 .. MaxLadQueues
  /\ \A q \in Queues : ladQueues[q].owner \in Clients \cup {NoClient}
  /\ lad.pc \in {"read", "connect", "open", "fopen", "welcome", "disconnect", "down"} \cup Requests

\* What a client reads next is the answer to what it has asked: across
\* connects that timed out, slots that were given to another client, and deaths
\* of clients whose commands LAD had not read.
AnswersMatch ==
  ~strayed => \A p \in Clients : answers[p] # <<>> =>
    /\ Len(answers[p]) = 1
    /\ clientAt[p] \in Requests => answers[p][1].op = clientAt[p]

\* A client that lives keeps the queue LAD gave it until it deletes it.
CreatedQueueStays ==
  ~strayed => \A p \in Clients :
    alive[p] /\ clientAt[p] \in {"ready", "create", "announce"} /\ mine[p] # NoSlot
      => ladQueues[mine[p]].owner = p

\* A queue belongs to a client LAD still watches, so that it goes with it -
\* unless LAD read the client's request to create it after it had cleaned up.
QueuesAreWatched ==
  \A q \in Queues : ladQueues[q] # NoQueue =>
    \/ \E s \in Slots : connected[s] /\ clientPID[s] = ladQueues[q].owner
    \/ strayed \/ Down

\* A client reads the answer to its own request and keeps its queue, and every
\* queue of LAD belongs to a client LAD watches.
LadIsSound == AnswersMatch /\ CreatedQueueStays /\ QueuesAreWatched

\* LAD waits to open the answer FIFO of a client that has died: no command of
\* anybody is read again.
LadStuck == lad.pc = "fopen" /\ lad.cmd.pid \notin reader

\* A request is answered, or LAD is gone and the client is told so - unless a
\* client has died between LAD's two ways to open its FIFO.
RequestsAreAnswered ==
  \A p \in Clients : clientAt[p] \in Requests ~> clientAt[p] \notin Requests \/ strayed \/ LadStuck

=============================================================================
