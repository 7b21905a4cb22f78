------------------------ MODULE TransportRpmsgLinux ------------------------
(***************************************************************************)
(* The Linux message transport over rpmsg sockets: one instance for a      *)
(* remote processor, a socket per (message queue, processor) and one       *)
(* dispatch thread that selects over all of them.  Client threads change   *)
(* the thread's descriptor set only after they have paused it: they write  *)
(* PAUSE to the eventfd unblockEvent, wait for an ACK on waitEvent, edit   *)
(* the arrays and write CONTINUE.  unblockEvent is a counting eventfd:     *)
(* what is written adds up until it is read.                               *)
(*                                                                         *)
(* The module has the transport's state and the steps of the dispatch      *)
(* thread; LinuxMessageQ extends it with the API that calls bind and       *)
(* unbind, and says what becomes of a message the thread has read.         *)
(*                                                                         *)
(* Source: linux/src/transport/TransportRpmsg.c                            *)
(***************************************************************************)
EXTENDS Integers, FiniteSets, FiniteSetsExt, Sequences, SequencesExt

CONSTANTS Indices,    \* the queue indices LAD hands out
          MaxFd       \* bound: descriptors this process can have open

UnblockFd == 0        \* module->unblockEvent, open from create to delete
NoFd      == -1
Fds       == 1 .. MaxFd

Pause    == 2
Continue == 4
Shutdown == 8
Has(event, bit) == (event \div bit) % 2 = 1

VARIABLES
  inst,       \* the instance object of the remote processor exists
  fdOf,       \* qIndexToFd, NoFd when the queue is not bound
  inFds,      \* the sequence of [fd, q] the thread walks
  rfds,       \* the descriptors it selects on
  maxFd,
  unblock,    \* the counter of unblockEvent
  ack,        \* the count of waitEvent
  open,       \* the sockets that are open
  pending,    \* messages waiting in each socket
  broken,     \* sockets whose remote has gone: reading them gives ENOLINK
  disp        \* the dispatch thread: [pc, ready, next]

tableVars == <<inst, fdOf, inFds, rfds, maxFd>>
eventVars == <<unblock, ack>>
sockVars  == <<open, pending, broken>>
rpmsgVars == <<tableVars, eventVars, sockVars, disp>>

----------------------------------------------------------------------------
(* What the client threads do, under the module's gate. *)

NoBinding == [q \in Indices |-> NoFd]
Parked    == [pc |-> "select", ready |-> {}, next |-> 1]

RpmsgInit ==
  /\ inst = FALSE /\ fdOf = NoBinding
  /\ inFds = <<>> /\ rfds = {UnblockFd} /\ maxFd = UnblockFd
  /\ unblock = 0 /\ ack = 0
  /\ open = {} /\ pending = [f \in Fds |-> 0] /\ broken = {}
  /\ disp = Parked

\* socket() returns the lowest descriptor that is free.
FreeFds  == Fds \ open
LowestFd == Min(FreeFds)

\* bind: the new socket is open before the thread is asked to pause.
BindOpen ==
  /\ open' = open \cup {LowestFd}
  /\ pending' = [pending EXCEPT ![LowestFd] = 0]
  /\ unblock' = unblock + Pause
  /\ UNCHANGED <<tableVars, ack, broken, disp>>

\* bind, once the thread has acknowledged: add the descriptor, let it go on.
BindAdd(q, fd) ==
  /\ ack' = ack - 1
  /\ inFds' = Append(inFds, [fd |-> fd, q |-> q])
  /\ maxFd' = Max({maxFd, fd})
  /\ rfds' = rfds \cup {fd}
  /\ fdOf' = [fdOf EXCEPT ![q] = fd]
  /\ unblock' = unblock + Continue
  /\ UNCHANGED <<inst, sockVars, disp>>

UnbindPause ==
  /\ unblock' = unblock + Pause
  /\ UNCHANGED <<tableVars, ack, sockVars, disp>>

UnbindAcked(q) == ack > 0

HighestFd(seq) == Max({UnblockFd} \cup {seq[i].fd : i \in DOMAIN seq})

\* A mutant: the descriptor stays in the array the thread walks.
UnbindForgetsArray(q) ==
  LET fd == fdOf[q]
  IN /\ fd # NoFd
     /\ ack' = ack - 1
     /\ fdOf' = [fdOf EXCEPT ![q] = NoFd]
     /\ open' = open \ {fd}
     /\ broken' = broken \ {fd}
     /\ pending' = [pending EXCEPT ![fd] = 0]
     /\ unblock' = unblock + Continue
     /\ UNCHANGED <<inst, inFds, rfds, maxFd, disp>>

\* The array without the first entry of a descriptor; what follows moves down.
Without(seq, fd) ==
  LET entries == {i \in DOMAIN seq : seq[i].fd = fd}
  IN IF entries = {} THEN seq ELSE RemoveAt(seq, Min(entries))

\* unbind, once the thread has acknowledged.  A queue that a racing caller has
\* already unbound leaves by "goto done": no CONTINUE is written, and the
\* thread stays where it is until somebody writes the next event.
UnbindRemove(q) ==
  LET fd   == fdOf[q]
      rest == Without(inFds, fd)
  IN IF fd = NoFd
     THEN /\ ack' = ack - 1
          /\ UNCHANGED <<tableVars, unblock, sockVars, disp>>
     ELSE /\ ack' = ack - 1
          /\ fdOf' = [fdOf EXCEPT ![q] = NoFd]
          /\ inFds' = rest
          /\ rfds' = rfds \ {fd}
          /\ maxFd' = IF fd = maxFd THEN HighestFd(rest) ELSE maxFd
          /\ open' = open \ {fd}
          /\ broken' = broken \ {fd}
          /\ pending' = [pending EXCEPT ![fd] = 0]
          /\ unblock' = unblock + Continue
          /\ UNCHANGED <<inst, disp>>

\* Factory_attach creates the instance; Factory_detach frees it, and whatever
\* is still in the descriptor arrays stays there.
CreateInstance ==
  /\ inst' = TRUE
  /\ fdOf' = NoBinding
  /\ UNCHANGED <<inFds, rfds, maxFd, eventVars, sockVars, disp>>
DeleteInstance ==
  /\ inst' = FALSE
  /\ fdOf' = NoBinding
  /\ UNCHANGED <<inFds, rfds, maxFd, eventVars, sockVars, disp>>

\* Factory_delete: tell the thread to exit (the caller then joins it).
SendShutdown ==
  /\ unblock' = unblock + Shutdown
  /\ UNCHANGED <<tableVars, ack, sockVars, disp>>

----------------------------------------------------------------------------
(* The dispatch thread. *)

Readable(fd) ==
  IF fd = UnblockFd THEN unblock > 0
                    ELSE fd \in open /\ (pending[fd] > 0 \/ fd \in broken)

\* It takes copies of maxFd, rfds and nInFds and sleeps until one is readable.
Watched == {fd \in rfds : fd <= maxFd /\ Readable(fd)}
Select ==
  /\ disp.pc = "select"
  /\ Watched # {}
  /\ disp' = [disp EXCEPT !.pc = "scan", !.ready = Watched, !.next = 1]
  /\ UNCHANGED <<tableVars, eventVars, sockVars>>

\* The loop over inFds: the first entry from next on whose bit is set.
Due == {i \in disp.next .. Len(inFds) : inFds[i].fd \in disp.ready}
Here == Min(Due)
FdHere == inFds[Here].fd

QHere  == inFds[Here].q

\* transportGet copies a waiting message, and the thread goes on to `place' with it.
Receive(place) ==
  /\ disp.pc = "scan" /\ Due # {}
  /\ FdHere \notin broken /\ pending[FdHere] > 0
  /\ pending' = [pending EXCEPT ![FdHere] = @ - 1]
  /\ disp' = [disp EXCEPT !.pc = place, !.next = Here + 1]
  /\ UNCHANGED <<tableVars, eventVars, open, broken>>

\* The remote has gone (ENOLINK): with the gate in hand the thread stops
\* selecting on the socket and goes on to shut its queue down; without it the
\* loop continues and the socket is tried again after the next select.
ReceiveFails(gateIsFree, place) ==
  /\ disp.pc = "scan" /\ Due # {}
  /\ FdHere \in broken
  /\ IF gateIsFree
     THEN /\ rfds' = rfds \ {FdHere}
          /\ maxFd' = IF FdHere = maxFd THEN HighestFd(inFds) ELSE maxFd
          /\ disp' = [disp EXCEPT !.pc = place, !.next = Here + 1]
     ELSE /\ disp' = [disp EXCEPT !.next = Here + 1]
          /\ UNCHANGED <<rfds, maxFd>>
  /\ UNCHANGED <<inst, fdOf, inFds, eventVars, sockVars>>

\* After the walk, the events; PAUSE is acknowledged and then waited out, and
\* SHUTDOWN wins over both.
ReadEvent ==
  /\ \/ disp.pc = "scan" /\ Due = {} /\ UnblockFd \in disp.ready
     \/ disp.pc = "paused"
  /\ unblock > 0
  /\ unblock' = 0
  /\ \/ /\ Has(unblock, Shutdown)
        /\ disp' = [disp EXCEPT !.pc = "exit"]
        /\ ack' = ack
     \/ /\ ~Has(unblock, Shutdown) /\ Has(unblock, Pause)
        /\ disp' = [disp EXCEPT !.pc = "paused"]
        /\ ack' = ack + 1
     \/ /\ ~Has(unblock, Shutdown) /\ ~Has(unblock, Pause)
        /\ disp' = Parked
        /\ ack' = ack
  /\ UNCHANGED <<tableVars, sockVars>>

NoEvent ==
  /\ disp.pc = "scan" /\ Due = {} /\ UnblockFd \notin disp.ready
  /\ disp' = Parked
  /\ UNCHANGED <<tableVars, eventVars, sockVars>>
=============================================================================
