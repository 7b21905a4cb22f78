---------------------------- MODULE RcmSymbols ----------------------------
(***************************************************************************)
(* The dynamic symbols of an RcmServer: functions are added and removed    *)
(* under the server's gate while the server answers look-ups of a name and *)
(* executes calls of an index without the gate.  An index holds the key    *)
(* its slot had.                                                           *)
(*                                                                         *)
(* Source: packages/ti/grcm/RcmServer.c                                    *)
(***************************************************************************)
EXTENDS Integers, FiniteSets

CONSTANTS Functions,   \* what may be added, each under a name of its own
          Slots,       \* the slots of a dynamic table, the first of them 0
          ResetKey,    \* _RCM_KeyResetValue
          MaxAdds      \* bound: symbols added, fewer than there are keys

ASSUME KeyAssumption ==
  Functions \subseteq Nat \ {0} /\ Slots \subseteq Nat /\ ResetKey \in Nat /\ MaxAdds \in 0 .. ResetKey

NoFunction == 0   \* a free slot
Unset      == -1  \* a variable nobody has set

VARIABLES
  slots,     \* [fxn, name, key]
  key,       \* obj->key
  symOwner,  \* the thread in the gate: [pc, fxn, slot]
  added,     \* how many symbols have been added
  indices,   \* the indices given to clients: [key, slot, fxn it was given for, held]
  call       \* the server executing a message: [pc, index, addr]

symVars == <<slots, key, symOwner, added, indices, call>>

FreeSlot == [fxn |-> NoFunction, name |-> NoFunction, key |-> 0]
NoIdx    == [key |-> 0, slot |-> 0, fxn |-> NoFunction, held |-> FALSE]
NoOwner  == [pc |-> "idle", fxn |-> NoFunction, slot |-> 0]
NoCall   == [pc |-> "idle", index |-> NoIdx, addr |-> NoFunction]

SymInit ==
  /\ slots = [s \in Slots |-> FreeSlot] /\ key = 0 /\ added = 0 /\ indices = {}
  /\ symOwner = NoOwner /\ call = NoCall

----------------------------------------------------------------------------
(* addSymbol and removeSymbol, in the gate. *)

EmptySlots == {s \in Slots : slots[s].fxn = NoFunction}
Add(f) ==
  /\ symOwner.pc = "idle" /\ added < MaxAdds /\ EmptySlots # {}
  /\ \A s \in Slots : slots[s].name # f
  /\ LET s == CHOOSE s \in EmptySlots : \A t \in EmptySlots : s <= t
     IN /\ slots' = [slots EXCEPT ![s].fxn = f]
        /\ symOwner' = [pc |-> "name", fxn |-> f, slot |-> s]
  /\ added' = added + 1
  /\ UNCHANGED <<key, indices, call>>
AddNames ==
  /\ symOwner.pc = "name"
  /\ slots' = [slots EXCEPT ![symOwner.slot].name = symOwner.fxn]
  /\ symOwner' = [symOwner EXCEPT !.pc = "key"]
  /\ UNCHANGED <<key, added, indices, call>>
\* Without memory for the name the function stays in the slot, which has no name.
AddFails ==
  /\ symOwner.pc = "name"
  /\ symOwner' = NoOwner /\ added' = added - 1
  /\ UNCHANGED <<slots, key, indices, call>>
\* getNextKey_P counts down and never gives out 0.  A mutant: it is always the same.
SameKey == ResetKey
NextKey == IF key <= 1 THEN ResetKey ELSE key - 1
AddKeys ==
  /\ symOwner.pc = "key"
  /\ key' = NextKey
  /\ slots' = [slots EXCEPT ![symOwner.slot].key = key']
  /\ indices' = indices \cup {[key |-> key', slot |-> symOwner.slot, fxn |-> symOwner.fxn, held |-> TRUE]}
  /\ symOwner' = NoOwner
  /\ UNCHANGED <<added, call>>

RemoveSym(s) ==
  /\ symOwner.pc = "idle" /\ slots[s].name # NoFunction
  /\ slots' = [slots EXCEPT ![s].fxn = NoFunction]
  /\ symOwner' = [pc |-> "unname", fxn |-> slots[s].name, slot |-> s]
  /\ UNCHANGED <<key, added, indices, call>>
RemoveUnnames ==
  /\ symOwner.pc = "unname"
  /\ slots' = [slots EXCEPT ![symOwner.slot].name = NoFunction]
  /\ symOwner' = [symOwner EXCEPT !.pc = "unkey"]
  /\ UNCHANGED <<key, added, indices, call>>
RemoveUnkeys ==
  /\ symOwner.pc = "unkey"
  /\ slots' = [slots EXCEPT ![symOwner.slot].key = 0]
  /\ symOwner' = NoOwner
  /\ UNCHANGED <<key, added, indices, call>>

----------------------------------------------------------------------------
(* The server: getSymIdx_P answers a client, getFxnAddr_P finds a call's      *)
(* function; neither is in the gate.                                          *)

\* The name is compared first,
FindName(s) ==
  /\ call.pc = "idle" /\ slots[s].name # NoFunction
  /\ call' = [pc |-> "index", index |-> [key |-> 0, slot |-> s, fxn |-> slots[s].name, held |-> FALSE],
              addr |-> NoFunction]
  /\ UNCHANGED <<slots, key, symOwner, added, indices>>
\* then the slot's key is read, whosever the slot is by then: the index is held
\* when the slot still has the name and has its key.
FindKey ==
  /\ call.pc = "index"
  /\ LET slot == slots[call.index.slot]
     IN indices' = indices \cup {[call.index EXCEPT !.key = slot.key,
                                                   !.held = slot.name = call.index.fxn /\ slot.key # 0]}
  /\ call' = NoCall
  /\ UNCHANGED <<slots, key, symOwner, added>>

\* The address is read first,
ReadAddress(i) ==
  /\ call.pc = "idle"
  /\ call' = [pc |-> "key", index |-> i, addr |-> slots[i.slot].fxn]
  /\ UNCHANGED <<slots, key, symOwner, added, indices>>
\* then the key is compared.  Slot 0 of a table is taken for a create function,
\* which no dynamic symbol is: what is called is a variable nobody has set.
CompareKey ==
  /\ call.pc = "key"
  /\ call' = IF call.index.key # slots[call.index.slot].key THEN NoCall
             ELSE [call EXCEPT !.pc = "call", !.addr = IF call.index.slot = 0 THEN Unset ELSE @]
  /\ UNCHANGED <<slots, key, symOwner, added, indices>>
Called ==
  /\ call.pc = "call" /\ call' = NoCall
  /\ UNCHANGED <<slots, key, symOwner, added, indices>>

SymNext ==
  \/ \E f \in Functions : Add(f)
  \/ AddNames \/ AddFails \/ AddKeys \/ RemoveUnnames \/ RemoveUnkeys
  \/ \E s \in Slots : RemoveSym(s) \/ FindName(s)
  \/ \E i \in indices : ReadAddress(i)
  \/ FindKey \/ CompareKey \/ Called
SymSpec == SymInit /\ [][SymNext]_symVars

----------------------------------------------------------------------------
\* A client that kept an index calls the function it was given it for or none,
\* even when the symbol has been removed and its slot given to another, as long as
\* the keys have not gone round (getFxnAddr_P, removeSymbol, getNextKey_P).  That is
\* so of the indices that addSymbol returned, and of a look-up whose slot still had the
\* name, and had a key, when the key was read (held).  Of other look-ups it is not: what
\* they return is the index of whoever has the slot by then, or has key 0, which is that
\* of every slot being filled ("Must have table gate before calling this function.",
\* line 1652, which the call at line 1946 does not heed).  Slot 0 is never called: a
\* variable nobody has set is.
IndexNamesItsFunction ==
  call.pc = "call" /\ call.index.held =>
    call.addr \in IF call.index.slot = 0 THEN {Unset} ELSE {call.index.fxn, NoFunction}
=============================================================================
