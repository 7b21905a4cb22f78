---------------------------- MODULE EventChannel ----------------------------
(***************************************************************************)
(* What a notify driver promises in one direction: a bounded first-in      *)
(* first-out channel of events.  An event accepted from the sending        *)
(* processor is handed to its callback on the receiving one exactly once   *)
(* and in order, unless nobody is registered for it when its turn comes:   *)
(* then it is lost, alone.                                                 *)
(***************************************************************************)
EXTENDS Naturals, Sequences

CONSTANTS
    Events,     \* the event ids of an interrupt line
    Payloads,
    Capacity    \* how many events the channel holds

Entries == [event : Events, payload : Payloads]

VARIABLES
    pending,    \* the events accepted and not yet processed, oldest first
    registered, \* the events somebody is registered for
    executed    \* the last event handed to a callback

chanVars == <<pending, registered, executed>>

ChanInit ==
    /\ pending = <<>>
    /\ registered = {}
    /\ executed = <<>>

Send(e) ==
    /\ Len(pending) < Capacity
    /\ pending' = Append(pending, e)
    /\ UNCHANGED <<registered, executed>>

Deliver ==
    /\ pending # <<>>
    /\ pending' = Tail(pending)
    /\ executed' = IF Head(pending).event \in registered
                   THEN <<Head(pending)>>
                   ELSE executed
    /\ UNCHANGED registered

Register ==
    /\ registered' \in SUBSET Events
    /\ UNCHANGED <<pending, executed>>

ChanNext == Deliver \/ Register \/ \E e \in Entries : Send(e)

ChanSpec == ChanInit /\ [][ChanNext]_chanVars
=============================================================================
