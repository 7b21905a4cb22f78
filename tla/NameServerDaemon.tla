-------------------------- MODULE NameServerDaemon --------------------------
(***************************************************************************)
(* The name server of the Linux daemon LAD and its remote processors.      *)
(* LAD's command thread attaches, detaches and asks a remote for a name;   *)
(* a listener thread selects over one receiving socket per processor,      *)
(* answers the requests of remotes and hands replies over.  The two        *)
(* signal each other through two eventfds: unblockFd, whose counter adds   *)
(* up event bits, and waitFd, a semaphore that stands both for "your set   *)
(* of sockets is in use" and for "a reply is in nsMsg".                    *)
(*                                                                         *)
(* Source: linux/src/daemon/NameServer_daemon.c                            *)
(***************************************************************************)
EXTENDS Integers, FiniteSetsExt, Sequences

CONSTANTS Remotes,        \* the remote processors, as the numbers 1 .. n
          MaxSockets,     \* bound: receiving sockets open at a time
          MaxGets,        \* bounds: questions LAD asks, attaches,
          MaxNsAttaches,
          MaxRequests     \*   and questions and restarts of the remotes
\* comm[] is indexed by the processors' numbers.
ASSUME NsAssumption ==
  IsFiniteSet(Remotes) /\ Remotes = 1 .. Cardinality(Remotes) /\ MaxSockets \in Nat

NoSocket == 0
NsUnblockFd == -1
NsFds == 1 .. MaxSockets
REFRESH  == 2
SHUTDOWN == 4
HasEvent(event, bit) == (event \div bit) % 2 = 1

VARIABLES
  ref, sock,        \* comm[]: the reference count and the receiving socket
  nsOpen, inbox,    \* the sockets that are open and what waits in each
  nsBroken,         \* those whose remote has restarted: reading them gives ENOLINK
  nsUnblock, wait,  \* the two eventfds
  nsMsg,            \* the reply last received: [seq, proc]
  seqNum,           \* the number of the question last asked
  due,              \* the questions the remotes have not answered yet
  main,             \* the command thread: [pc, proc, fd]
  lis,              \* the listener: [pc, rfds, ready, next, lost, run]
  modGate,          \* held by the command thread while it destroys the module
  dropped,          \* history: the sockets a failed attach has closed since the
                    \* listener built its set
  stale,            \* history: a reply was posted that nobody waits for any more
  gets, nsAttaches, requests

nsSockVars  == <<ref, sock, nsOpen, inbox, nsBroken>>
nsEventVars == <<nsUnblock, wait, nsMsg, seqNum, due>>
nsBounds    == <<gets, nsAttaches, requests>>
nsdVars     == <<nsSockVars, nsEventVars, main, lis, modGate, dropped, stale, nsBounds>>

Idle == [pc |-> "idle", proc |-> 0, fd |-> NoSocket]
NsInit ==
  /\ ref = [r \in Remotes |-> 0] /\ sock = [r \in Remotes |-> NoSocket]
  /\ nsOpen = {} /\ nsBroken = {} /\ inbox = [f \in NsFds |-> <<>>]
  /\ nsUnblock = 0 /\ wait = 0 /\ nsMsg = [seq |-> 0, proc |-> 0] /\ seqNum = 0 /\ due = {}
  /\ main = Idle
  /\ lis = [pc |-> "build", rfds |-> {}, ready |-> {}, next |-> 1, lost |-> 0, run |-> TRUE]
  /\ modGate = FALSE /\ dropped = {} /\ stale = FALSE
  /\ gets = 0 /\ nsAttaches = 0 /\ requests = 0

----------------------------------------------------------------------------
(* The command thread. *)

\* A second client only counts.
AttachAgain(r) ==
  /\ main.pc = "idle" /\ ref[r] > 0 /\ nsAttaches < MaxNsAttaches
  /\ ref' = [ref EXCEPT ![r] = @ + 1] /\ nsAttaches' = nsAttaches + 1
  /\ UNCHANGED <<sock, nsOpen, inbox, nsBroken, nsEventVars, main, lis, modGate, dropped, stale, gets, requests>>
\* The first opens the sockets, under attachGate.  The receiving one is in comm[],
\* where the listener finds it, before it is bound.
NsOpens(r) ==
  /\ main.pc = "idle" /\ ref[r] = 0 /\ nsAttaches < MaxNsAttaches /\ NsFds \ nsOpen # {}
  /\ nsAttaches' = nsAttaches + 1
  /\ LET fd == Min(NsFds \ nsOpen)
     IN /\ sock' = [sock EXCEPT ![r] = fd]
        /\ nsOpen' = nsOpen \cup {fd}
        /\ inbox' = [inbox EXCEPT ![fd] = <<>>]
  /\ main' = [pc |-> "bind", proc |-> r, fd |-> NoSocket]
  /\ UNCHANGED <<ref, nsBroken, nsEventVars, lis, modGate, dropped, stale, gets, requests>>
\* Bound, it is the listener's to take up.
NsBinds ==
  /\ main.pc = "bind"
  /\ ref' = [ref EXCEPT ![main.proc] = 1]
  /\ nsUnblock' = nsUnblock + REFRESH
  /\ main' = [main EXCEPT !.pc = "attach"]
  /\ UNCHANGED <<sock, nsOpen, inbox, nsBroken, wait, nsMsg, seqNum, due, lis, modGate, dropped, stale, nsBounds>>
\* When it cannot be bound it is closed again, and the listener is not told.
NsBindFails ==
  /\ main.pc = "bind"
  /\ nsOpen' = nsOpen \ {sock[main.proc]}
  /\ dropped' = dropped \cup {sock[main.proc]}
  /\ sock' = [sock EXCEPT ![main.proc] = NoSocket]
  /\ main' = Idle
  /\ UNCHANGED <<ref, inbox, nsBroken, nsEventVars, lis, modGate, stale, nsBounds>>

\* The last client's detach takes the socket out of comm[] and closes it once
\* the listener has acknowledged.
DetachOne(r) ==
  /\ main.pc = "idle" /\ ref[r] > 1
  /\ ref' = [ref EXCEPT ![r] = @ - 1]
  /\ UNCHANGED <<sock, nsOpen, inbox, nsBroken, nsEventVars, main, lis, modGate, dropped, stale, nsBounds>>
NsDetach(r) ==
  /\ main.pc = "idle" /\ ref[r] = 1
  /\ ref' = [ref EXCEPT ![r] = 0]
  /\ sock' = [sock EXCEPT ![r] = NoSocket]
  /\ nsUnblock' = nsUnblock + REFRESH
  /\ main' = [pc |-> "detach", proc |-> r, fd |-> sock[r]]
  /\ UNCHANGED <<nsOpen, inbox, nsBroken, wait, nsMsg, seqNum, due, lis, modGate, dropped, stale, nsBounds>>
\* A mutant: the socket is closed before the listener has acknowledged.
AckedEarly == wait' = wait
Acked == wait > 0 /\ wait' = wait - 1
GetsAck ==
  /\ main.pc \in {"attach", "detach"} /\ Acked
  /\ nsOpen' = nsOpen \ {main.fd} /\ nsBroken' = nsBroken \ {main.fd}
  /\ main' = Idle
  /\ UNCHANGED <<ref, sock, inbox, nsUnblock, nsMsg, seqNum, due, lis, modGate, dropped, stale, nsBounds>>

\* NameServer_getRemote sends a question and selects on waitFd with a timeout.
NsGet(r) ==
  /\ main.pc = "idle" /\ ref[r] > 0 /\ gets < MaxGets
  /\ gets' = gets + 1
  /\ seqNum' = seqNum + 1
  /\ due' = due \cup {[seq |-> seqNum + 1, proc |-> r]}
  /\ main' = [pc |-> "get", proc |-> r, fd |-> NoSocket]
  /\ UNCHANGED <<nsSockVars, nsUnblock, wait, nsMsg, lis, modGate, dropped, stale, nsAttaches, requests>>
\* A reply to an earlier question is passed over.
Expected == nsMsg.seq = seqNum
GetReads ==
  /\ main.pc = "get" /\ wait > 0
  /\ wait' = wait - 1
  /\ main' = IF Expected THEN [main EXCEPT !.pc = "got"] ELSE main
  /\ UNCHANGED <<nsSockVars, nsUnblock, nsMsg, seqNum, due, lis, modGate, dropped, stale, nsBounds>>
GetReturns ==
  /\ main.pc = "got"
  /\ main' = Idle
  /\ UNCHANGED <<nsSockVars, nsEventVars, lis, modGate, dropped, stale, nsBounds>>
GetTimesOut ==
  /\ main.pc = "get" /\ wait = 0
  /\ main' = Idle
  /\ UNCHANGED <<nsSockVars, nsEventVars, lis, modGate, dropped, stale, nsBounds>>

\* NameServer_destroy tells the listener to end and joins it, holding modGate.
Destroy ==
  /\ main.pc = "idle" /\ \A r \in Remotes : ref[r] = 0
  /\ modGate' = TRUE
  /\ nsUnblock' = nsUnblock + SHUTDOWN
  /\ main' = [Idle EXCEPT !.pc = "join"]
  /\ UNCHANGED <<nsSockVars, wait, nsMsg, seqNum, due, lis, dropped, stale, nsBounds>>
NsJoined ==
  /\ main.pc = "join" /\ lis.pc = "exit"
  /\ modGate' = FALSE
  /\ main' = [Idle EXCEPT !.pc = "done"]
  /\ UNCHANGED <<nsSockVars, nsEventVars, lis, dropped, stale, nsBounds>>

----------------------------------------------------------------------------
(* The listener. *)

Sockets == {sock[r] : r \in Remotes} \ {NoSocket}
BuildSet ==
  /\ lis.pc = "build"
  /\ lis' = [lis EXCEPT !.pc = "select", !.rfds = Sockets]
  /\ dropped' = {}
  /\ UNCHANGED <<nsSockVars, nsEventVars, main, modGate, stale, nsBounds>>
ToRead == {f \in lis.rfds \cap nsOpen : inbox[f] # <<>> \/ f \in nsBroken}
Marked == ToRead \cup {f \in {NsUnblockFd} : nsUnblock > 0}
ListenerSelects ==
  /\ lis.pc = "select" /\ Marked # {}
  /\ lis' = [lis EXCEPT !.pc = "scan", !.ready = Marked, !.next = 1]
  /\ UNCHANGED <<nsSockVars, nsEventVars, main, modGate, dropped, stale, nsBounds>>

\* select fails when it is called with a socket that has been closed, and the
\* listener's loop ends.
ListenerSelectFails ==
  /\ lis.pc = "select" /\ ~(lis.rfds \subseteq nsOpen)
  /\ lis' = [lis EXCEPT !.pc = "exit"]
  /\ UNCHANGED <<nsSockVars, nsEventVars, main, modGate, dropped, stale, nsBounds>>

\* The sockets of comm[], as they are now, that select has marked.  recvfrom
\* blocks when nothing is there.
SocketsDue == {r \in Remotes : r >= lis.next /\ sock[r] # NoSocket /\ sock[r] \in lis.ready}
NextRemote == Min(SocketsDue)
Message == Head(inbox[sock[NextRemote]])
ListenerTakes ==
  /\ lis.pc = "scan" /\ SocketsDue # {} /\ sock[NextRemote] \notin nsBroken /\ inbox[sock[NextRemote]] # <<>>
  /\ inbox' = [inbox EXCEPT ![sock[NextRemote]] = Tail(@)]
  /\ lis' = [lis EXCEPT !.next = NextRemote + 1]
ListenerGetsReply ==
  /\ ListenerTakes /\ Message.seq > 0
  /\ nsMsg' = Message
  /\ wait' = wait + 1
  /\ stale' = (stale \/ main.pc # "get" \/ Message.seq # seqNum)
  /\ UNCHANGED <<ref, sock, nsOpen, nsBroken, nsUnblock, seqNum, due, main, modGate, dropped, nsBounds>>
\* NameServer_getHandle, to answer a remote's request, takes modGate.
ListenerAnswers ==
  /\ ListenerTakes /\ Message.seq = 0 /\ ~modGate
  /\ UNCHANGED <<ref, sock, nsOpen, nsBroken, nsEventVars, main, modGate, dropped, stale, nsBounds>>
\* An error ends the walk; the processor is attached anew after the events.
ListenerFails ==
  /\ lis.pc = "scan" /\ SocketsDue # {} /\ sock[NextRemote] \in nsBroken
  /\ lis' = [lis EXCEPT !.lost = NextRemote, !.next = Cardinality(Remotes) + 1]
  /\ UNCHANGED <<nsSockVars, nsEventVars, main, modGate, dropped, stale, nsBounds>>

Acknowledges(event) == HasEvent(event, REFRESH)
\* After the walk: attach a lost processor anew, or start over, or end.
GoOn(run) ==
  lis' = [pc |-> IF lis.lost # 0 THEN "reattach" ELSE IF run THEN "build" ELSE "exit",
          rfds |-> {}, ready |-> {}, next |-> 1, lost |-> lis.lost, run |-> run]
ListenerReadsEvent ==
  /\ lis.pc = "scan" /\ SocketsDue = {} /\ NsUnblockFd \in lis.ready
  /\ nsUnblock' = 0
  /\ wait' = IF Acknowledges(nsUnblock) THEN wait + 1 ELSE wait
  /\ GoOn(~HasEvent(nsUnblock, SHUTDOWN))
  /\ UNCHANGED <<nsSockVars, nsMsg, seqNum, due, main, modGate, dropped, stale, nsBounds>>
ListenerLoopsOn ==
  /\ lis.pc = "scan" /\ SocketsDue = {} /\ NsUnblockFd \notin lis.ready
  /\ GoOn(TRUE)
  /\ UNCHANGED <<nsSockVars, nsEventVars, main, modGate, dropped, stale, nsBounds>>

\* NameServer_reattach, under attachGate, which an attach holds until its socket
\* is bound: nothing for a processor that has been detached since; the old socket
\* is closed once the new one is there.
Reattached == lis' = [lis EXCEPT !.pc = IF lis.run THEN "build" ELSE "exit", !.lost = 0]
Reattach ==
  /\ lis.pc = "reattach" /\ main.pc # "bind" /\ ref[lis.lost] > 0 /\ NsFds \ nsOpen # {}
  /\ LET old == sock[lis.lost]
         new == Min(NsFds \ nsOpen)
     IN /\ nsOpen' = (nsOpen \ {old}) \cup {new}
        /\ nsBroken' = nsBroken \ {old}
        /\ sock' = [sock EXCEPT ![lis.lost] = new]
        /\ inbox' = [inbox EXCEPT ![new] = <<>>]
  /\ Reattached
  /\ UNCHANGED <<ref, nsEventVars, main, modGate, dropped, stale, nsBounds>>
ReattachFails ==
  /\ lis.pc = "reattach" /\ main.pc # "bind"
  /\ Reattached
  /\ UNCHANGED <<nsSockVars, nsEventVars, main, modGate, dropped, stale, nsBounds>>

(* The remotes answer in any order and as late as they like, and ask. *)
Answer ==
  /\ \E d \in due :
       /\ due' = due \ {d}
       /\ inbox' = IF ref[d.proc] = 0 THEN inbox ELSE [inbox EXCEPT ![sock[d.proc]] = Append(@, d)]
  /\ UNCHANGED <<ref, sock, nsOpen, nsBroken, nsUnblock, wait, nsMsg, seqNum, main, lis, modGate, dropped, stale, nsBounds>>
Request(r) ==
  /\ ref[r] > 0 /\ requests < MaxRequests
  /\ requests' = requests + 1
  /\ inbox' = [inbox EXCEPT ![sock[r]] = Append(@, [seq |-> 0, proc |-> r])]
  /\ UNCHANGED <<ref, sock, nsOpen, nsBroken, nsEventVars, main, lis, modGate, dropped, stale, gets, nsAttaches>>
Restart(r) ==
  /\ ref[r] > 0 /\ requests < MaxRequests
  /\ requests' = requests + 1
  /\ nsBroken' = nsBroken \cup {sock[r]}
  /\ due' = {d \in due : d.proc # r}
  /\ UNCHANGED <<ref, sock, nsOpen, inbox, nsUnblock, wait, nsMsg, seqNum, main, lis, modGate, dropped, stale, gets, nsAttaches>>

----------------------------------------------------------------------------
ListenerStep ==
  BuildSet \/ ListenerSelects \/ ListenerSelectFails \/ ListenerGetsReply \/ ListenerAnswers \/ ListenerReadsEvent
  \/ ListenerFails \/ ListenerLoopsOn \/ Reattach \/ ReattachFails
MainStep == NsBinds \/ NsBindFails \/ GetsAck \/ GetReads \/ GetReturns \/ NsJoined
NsNext ==
  \/ ListenerStep \/ MainStep
  \/ \E r \in Remotes : NsOpens(r) \/ AttachAgain(r) \/ NsDetach(r) \/ DetachOne(r) \/ NsGet(r) \/ Request(r) \/ Restart(r)
  \/ GetTimesOut \/ Destroy \/ Answer
\* The kernel runs both threads.
NsFairness == WF_nsdVars(ListenerStep) /\ WF_nsdVars(MainStep)
NsSpec == NsInit /\ [][NsNext]_nsdVars /\ NsFairness

----------------------------------------------------------------------------
NsTypeOK ==
  /\ ref \in [Remotes -> Nat] /\ sock \in [Remotes -> NsFds \cup {NoSocket}]
  /\ nsOpen \subseteq NsFds /\ nsUnblock \in Nat /\ wait \in Nat
  /\ main.pc \in {"idle", "bind", "attach", "detach", "get", "got", "join", "done"}
  /\ lis.pc \in {"build", "select", "scan", "reattach", "exit"}

\* While the listener selects or walks over a set of sockets, a detach closes none
\* of them: the socket goes only after the listener has let it go.  An attach that
\* fails keeps no such promise: it closes the socket the listener may have taken
\* from comm[] before it was bound.
ListenersSocketsAreOpen == ~stale => lis.rfds \ nsOpen \subseteq dropped

\* NameServer_getRemote takes a reply for its answer only when it comes from the
\* processor that was asked, whatever replies to older questions come in.
AcceptsOwn ==
  [][main.pc = "get" /\ main'.pc = "got" => nsMsg.proc = main.proc]_nsdVars

\* NameServer_get returns the reply to its own question: nsMsg needs no gate,
\* "since this goes in a daemon, it will not be necessary".
ReplyIsOwn == main.pc = "got" => nsMsg.proc = main.proc /\ nsMsg.seq = seqNum

\* The listener has gone for good over a socket that a failed attach had closed.
ListenerLost == lis.pc = "exit" /\ lis.rfds \cap dropped # {}

\* attach and detach come back, and so does LAD's command thread, as long as
\* there is a listener.
RefreshReturns ==
  main.pc \in {"attach", "detach"} ~> main.pc \notin {"attach", "detach"} \/ stale \/ ListenerLost

\* The listener ends when it is told to, and not because two events add up to
\* a third; the one other end it comes to is a failed attach's closed socket.
ListenerStays == lis.pc = "exit" /\ ~stale => main.pc \in {"join", "done"} \/ ListenerLost

\* Until a stale reply has been posted, the two eventfds keep the listener and
\* the command thread in step, for every attach that binds its socket.
ListenerIsSound == ListenersSocketsAreOpen /\ ListenerStays
=============================================================================
