---------------------------- MODULE EventMailbox ----------------------------
(***************************************************************************)
(* What the one-slot notify driver (NotifyDriverShm) promises: every event *)
(* of a remote processor is a mailbox that holds at most one payload.      *)
(* Notify.h, Notify_sendEvent: a sender that waits "should spin until the  *)
(* previous event has been acknowledged"; one that does not overwrites it. *)
(***************************************************************************)
CONSTANTS Events, Payloads,
          Overwrites     \* may a sender give waitClear = FALSE?

Empty == "empty"

VARIABLES
    slot,          \* slot[e]: the payload waiting in e, or Empty
    delivered      \* delivered[e]: the last payload given to e's callbacks

mailVars == <<slot, delivered>>

MailInit ==
    /\ slot = [e \in Events |-> Empty]
    /\ delivered = [e \in Events |-> Empty]

Send(e, p) ==
    /\ slot[e] = Empty \/ Overwrites
    /\ slot' = [slot EXCEPT ![e] = p]
    /\ UNCHANGED delivered

(* The callbacks get the payload that was waiting, and only once.          *)
Deliver(e) ==
    /\ slot[e] # Empty
    /\ delivered' = [delivered EXCEPT ![e] = slot[e]]
    /\ slot' = [slot EXCEPT ![e] = Empty]

(* Registering and unregistering discard what was waiting.                 *)
Discard(e) ==
    /\ slot' = [slot EXCEPT ![e] = Empty]
    /\ UNCHANGED delivered

MailNext ==
    \E e \in Events :
        \/ \E p \in Payloads : Send(e, p)
        \/ Deliver(e)
        \/ Discard(e)

MailSpec == MailInit /\ [][MailNext]_mailVars
=============================================================================
