-------------------------- MODULE LinuxNameServer --------------------------
(***************************************************************************)
(* The name tables of the Linux daemon LAD and the processes that use      *)
(* them.  A client writes a command into LAD's fifo and waits for the      *)
(* answer; LAD takes the commands one after the other and calls the name   *)
(* server, whose instances are shared: create of a known name counts a     *)
(* user more, delete takes one away.  The entries of an instance are found *)
(* by a hash of their names, and those whose hash is equal are chained.    *)
(* A client may die at any time; its handles stay counted.                 *)
(*                                                                         *)
(* Source: linux/src/api/NameServer.c, linux/src/daemon/lad.c and          *)
(* linux/src/daemon/NameServer_daemon.c.  The listener and the remote      *)
(* processors are in module NameServerDaemon; here a remote's answer is    *)
(* any of the four a question can have.                                    *)
(***************************************************************************)
EXTENDS Integers, Sequences, SequencesExt, FiniteSets, FiniteSetsExt

CONSTANTS Clients, Instances, Names, \* names of instances and of entries
          Hash, NameLen,             \* of an entry's name
          ParamSet,                  \* [checkExisting, maxValueLen, maxNameLen]
          Lens,                      \* lengths of values
          Objects, Entries,          \* memory, as numbers
          Self, Lists,               \* procId lists a get may have; <<>> is NULL
          NoName, MaxCommands, MaxDeaths

VARIABLES
  modRef,            \* NameServer_module->refCount
  object,            \* instances: [name, params, refCount, nameList, count]; free: NoObj
  entry,             \* table entries: [hash, name, len, collide, next]; free: NoEntry
  fifo,              \* the commands LAD has not taken yet: <<client, command>>
  at, rsp,           \* each client's place and the answer it has got
  handles, mine,     \* what a client holds: instances (counted) and entries
  commands, deaths

nsVars   == <<modRef, object, entry>>
userVars == <<handles, mine>>
vars     == <<modRef, object, entry, fifo, at, rsp, handles, mine, commands, deaths>>

NoObj   == [name |-> NoName]
NoEntry == [name |-> NoName]
NoRsp   == [op |-> "none"]
Null    == 0
UInt32Size == 4
Live == {o \in Objects : object[o] # NoObj}

Init ==
  /\ modRef = 0
  /\ object = [o \in Objects |-> NoObj] /\ entry = [e \in Entries |-> NoEntry]
  /\ fifo = <<>>
  /\ at = [c \in Clients |-> "off"] /\ rsp = [c \in Clients |-> NoRsp]
  /\ handles = [c \in Clients |-> [o \in Objects |-> 0]] /\ mine = [c \in Clients |-> {}]
  /\ commands = 0 /\ deaths = 0

----------------------------------------------------------------------------
(* The clients. *)

Ask(c, from, cmd) ==
  /\ at[c] = from /\ commands < MaxCommands
  /\ fifo' = Append(fifo, [cmd EXCEPT !.client = c])
  /\ at' = [at EXCEPT ![c] = "asked"]
  /\ commands' = commands + 1
  /\ UNCHANGED <<nsVars, rsp, deaths>>
Command(op) == [client |-> Null, op |-> op]
OnTable(op, o, n) == [client |-> Null, op |-> op, obj |-> o, name |-> n]

AskSetup(c)   == Ask(c, "off", Command("setup")) /\ UNCHANGED userVars
AskDestroy(c) ==
  /\ \A o \in Objects : handles[c][o] = 0
  /\ Ask(c, "idle", Command("destroy")) /\ UNCHANGED userVars
AskCreate(c) ==
  \E i \in Instances, p \in ParamSet :
    /\ Ask(c, "idle", [client |-> Null, op |-> "create", inst |-> i, params |-> p])
    /\ UNCHANGED userVars
\* The client does not use a handle again that it has given back.
AskDelete(c) ==
  \E o \in Objects :
    /\ handles[c][o] > 0
    /\ Ask(c, "idle", OnTable("delete", o, NoName))
    /\ handles' = [handles EXCEPT ![c][o] = @ - 1]
    /\ mine' = IF handles[c][o] = 1 THEN [mine EXCEPT ![c] = {m \in @ : m[1] # o}] ELSE mine
AskAdd(c) ==
  \E o \in Objects, n \in Names, l \in Lens :
    /\ handles[c][o] > 0
    /\ Ask(c, "idle", [client |-> Null, op |-> "add", obj |-> o, name |-> n, len |-> l])
    /\ UNCHANGED userVars
AskGet(c) ==
  \E o \in Objects, n \in Names, ps \in Lists :
    /\ handles[c][o] > 0
    /\ Ask(c, "idle", [client |-> Null, op |-> "get", obj |-> o, name |-> n, procs |-> ps])
    /\ UNCHANGED userVars
AskGetLocal(c) ==
  \E o \in Objects, n \in Names :
    /\ handles[c][o] > 0
    /\ Ask(c, "idle", OnTable("getLocal", o, n)) /\ UNCHANGED userVars
\* A name that two clients may have added is removed through its entry.
AskRemove(c) ==
  \E m \in mine[c] :
    /\ object[m[1]].params.checkExisting
    /\ Ask(c, "idle", OnTable("remove", m[1], entry[m[2]].name))
    /\ mine' = [mine EXCEPT ![c] = @ \ {m}] /\ UNCHANGED handles
AskRemoveEntry(c) ==
  \E m \in mine[c] :
    /\ Ask(c, "idle", [client |-> Null, op |-> "removeEntry", obj |-> m[1], entry |-> m[2]])
    /\ mine' = [mine EXCEPT ![c] = @ \ {m}] /\ UNCHANGED handles

\* LAD_getResponse: what create and add gave is the client's from now on.
TakeResponse(c) ==
  /\ at[c] = "answered"
  /\ LET r == rsp[c]
     IN /\ at' = [at EXCEPT ![c] = IF r.op = "destroy" THEN "off" ELSE "idle"]
        /\ handles' = IF r.op = "create" /\ r.obj # Null
                      THEN [handles EXCEPT ![c][r.obj] = @ + 1] ELSE handles
        /\ mine' = IF r.op = "add" /\ r.entry # Null
                   THEN [mine EXCEPT ![c] = @ \cup {<<r.obj, r.entry>>}] ELSE mine
  /\ rsp' = [rsp EXCEPT ![c] = NoRsp]
  /\ UNCHANGED <<nsVars, fifo, commands, deaths>>

Dies(c) ==
  /\ at[c] # "dead" /\ deaths < MaxDeaths
  /\ at' = [at EXCEPT ![c] = "dead"] /\ deaths' = deaths + 1
  /\ UNCHANGED <<nsVars, fifo, rsp, userVars, commands>>

----------------------------------------------------------------------------
(* The tables. *)

\* The object with a name, NameServer_getHandle.
GetHandle(i) == {o \in Live : object[o].name = i}

\* params is kept with maxValueLen rounded up.
Stored(p) == [p EXCEPT !.maxValueLen = IF @ < UInt32Size THEN UInt32Size ELSE @]
CreateAgain(o) == [object[o] EXCEPT !.refCount = @ + 1]
\* The instance of that name, if there is one and its parameters are the same.
Create(i, p, o) ==
  IF GetHandle(i) # {}
  THEN /\ o \in GetHandle(i) \cup {Null}
       /\ (o = Null) = (\E h \in GetHandle(i) : object[h].params # p)
       /\ object' = IF o = Null THEN object ELSE [object EXCEPT ![o] = CreateAgain(o)]
  ELSE /\ o \in Objects \ Live
       /\ object' = [object EXCEPT ![o] = [name |-> i, params |-> Stored(p), refCount |-> 1,
                                           nameList |-> <<>>, count |-> 0]]

\* The last user's delete frees the entries on the list and the object.
Listed(o) == Range(object[o].nameList)
Delete(o) ==
  IF object[o].refCount > 1
  THEN object' = [object EXCEPT ![o].refCount = @ - 1] /\ UNCHANGED entry
  ELSE /\ object' = [object EXCEPT ![o] = NoObj]
       /\ entry' = [e \in Entries |-> IF e \in Listed(o) THEN NoEntry ELSE entry[e]]

\* Where on the list add stops: at another name of the same hash, to which it
\* chains the new entry, or at the same name.
AddStops(o, n) ==
  {k \in DOMAIN object[o].nameList :
     LET e == entry[object[o].nameList[k]]
     IN e.hash = Hash[n] /\ (e.name = n => object[o].params.checkExisting)}
AddNode(o, n) == object[o].nameList[Min(AddStops(o, n))]
TooLong(o, n, l) == NameLen[n] > object[o].params.maxNameLen - 1 \/ l > object[o].params.maxValueLen
FreeEntries == {e \in Entries : entry[e] = NoEntry}
AddRefused(o, n, l) ==
  \/ TooLong(o, n, l) \/ FreeEntries = {}
  \/ AddStops(o, n) # {} /\ entry[AddNode(o, n)].name = n
Add(o, n, l, e) ==
  IF AddRefused(o, n, l) THEN e = Null /\ UNCHANGED <<object, entry>>
  ELSE /\ e = Min(FreeEntries)
       /\ IF AddStops(o, n) # {}
          THEN /\ entry' = [entry EXCEPT ![e] = [hash |-> Hash[n], name |-> n, len |-> l, collide |-> TRUE,
                                                 next |-> entry[AddNode(o, n)].next],
                                         ![AddNode(o, n)].next = e]
               /\ object' = [object EXCEPT ![o].count = @ + 1]
          ELSE /\ entry' = [entry EXCEPT ![e] = [hash |-> Hash[n], name |-> n, len |-> l,
                                                 collide |-> FALSE, next |-> Null]]
               /\ object' = [object EXCEPT ![o].count = @ + 1, ![o].nameList = <<e>> \o @]

\* The first entry of the list with the hash; the chain behind it is looked
\* through only if it is marked as a collision.
HashMatch(o, n) == {k \in DOMAIN object[o].nameList : entry[object[o].nameList[k]].hash = Hash[n]}
FirstMatch(o, n) == object[o].nameList[Min(HashMatch(o, n))]
Chain[e \in Entries \cup {Null}] == IF e = Null THEN <<>> ELSE <<e>> \o Chain[entry[e].next]
GetLocal(o, n) ==
  IF HashMatch(o, n) = {} THEN Null
  ELSE IF ~entry[FirstMatch(o, n)].collide THEN FirstMatch(o, n)
  ELSE LET same == SelectSeq(Chain[FirstMatch(o, n)], LAMBDA e : entry[e].name = n)
       IN IF same = <<>> THEN Null ELSE Head(same)

RemoveEntry(o, e) ==
  /\ object' = [object EXCEPT ![o].nameList = SelectSeq(@, LAMBDA x : x # e), ![o].count = @ - 1]
  /\ entry' = [entry EXCEPT ![e] = NoEntry]
RemoveName(o, n) ==
  IF HashMatch(o, n) = {} THEN UNCHANGED <<object, entry>> ELSE RemoveEntry(o, FirstMatch(o, n))

\* What a get over a list of processors gives: it ends at the first that has
\* the name, and without a list asks the others when the own table has not.
Status(o, n, p, remote) ==
  IF p = Self THEN IF GetLocal(o, n) = Null THEN "notfound" ELSE "own" ELSE remote[p]
Finds == {"own", "remote"}
Get(o, n, ps, remote) ==
  LET order == IF ps = <<>> THEN <<Self>> \o SetToSeq(DOMAIN remote) ELSE ps
      hits  == {k \in DOMAIN order : Status(o, n, order[k], remote) \in Finds}
      last  == Status(o, n, order[IF hits = {} THEN Len(order) ELSE Min(hits)], remote)
  IN IF last = "resource" THEN "notfound" ELSE last

----------------------------------------------------------------------------
(* LAD's command loop. *)

Due(op) == fifo # <<>> /\ Head(fifo).op = op
Cmd == Head(fifo)
Respond(r) ==
  /\ fifo' = Tail(fifo)
  /\ rsp' = [rsp EXCEPT ![Cmd.client] = r]
  /\ at' = [at EXCEPT ![Cmd.client] = IF @ = "dead" THEN @ ELSE "answered"]
  /\ UNCHANGED <<userVars, commands, deaths>>

LadSetup ==
  /\ Due("setup") /\ modRef' = modRef + 1
  /\ UNCHANGED <<object, entry>> /\ Respond([op |-> "setup"])
LadDestroy ==
  /\ Due("destroy") /\ modRef' = modRef - 1
  /\ UNCHANGED <<object, entry>> /\ Respond([op |-> "destroy"])
LadCreate ==
  /\ Due("create")
  /\ \E o \in Objects \cup {Null} : 
       /\ Create(Cmd.inst, Cmd.params, o) 
       /\ Respond([op |-> "create", obj |-> o, inst |-> Cmd.inst, params |-> Cmd.params])
  /\ UNCHANGED <<modRef, entry>>
LadDelete ==
  /\ Due("delete") /\ Delete(Cmd.obj)
  /\ UNCHANGED modRef /\ Respond([op |-> "delete"])
LadAdd ==
  /\ Due("add")
  /\ \E e \in Entries \cup {Null} :
       /\ Add(Cmd.obj, Cmd.name, Cmd.len, e)
       /\ Respond([op |-> "add", obj |-> Cmd.obj, entry |-> e])
  /\ UNCHANGED modRef
LadGet ==
  /\ Due("get")
  /\ \E remote \in [UNION {Range(ps) : ps \in Lists} \ {Self} ->
                      {"remote", "notfound", "resource", "timeout"}] :
       Respond([op |-> "get", status |-> Get(Cmd.obj, Cmd.name, Cmd.procs, remote)])
  /\ UNCHANGED nsVars
LadGetLocal ==
  /\ Due("getLocal") /\ UNCHANGED nsVars
  /\ Respond([op |-> "getLocal", entry |-> GetLocal(Cmd.obj, Cmd.name)])
LadRemove ==
  /\ Due("remove") /\ RemoveName(Cmd.obj, Cmd.name)
  /\ UNCHANGED modRef /\ Respond([op |-> "remove"])
LadRemoveEntry ==
  /\ Due("removeEntry") /\ RemoveEntry(Cmd.obj, Cmd.entry)
  /\ UNCHANGED modRef /\ Respond([op |-> "removeEntry"])

ClientStep(c) ==
  \/ AskSetup(c) \/ AskDestroy(c) \/ AskCreate(c) \/ AskDelete(c) \/ AskAdd(c) \/ AskGet(c)
  \/ AskGetLocal(c) \/ AskRemove(c) \/ AskRemoveEntry(c) \/ TakeResponse(c) \/ Dies(c)
LadStep ==
  \/ LadSetup \/ LadDestroy \/ LadCreate \/ LadDelete \/ LadAdd \/ LadGet \/ LadGetLocal
  \/ LadRemove \/ LadRemoveEntry
Next == LadStep \/ \E c \in Clients : ClientStep(c)
Spec == Init /\ [][Next]_vars

----------------------------------------------------------------------------
(* Properties. *)

Asked(op, o) == {k \in DOMAIN fifo : fifo[k].op = op /\ fifo[k].obj = o}
Given(o)     == {c \in Clients : rsp[c].op = "create" /\ rsp[c].obj = o}
Users(o) == FoldSet(LAMBDA c, n : n + handles[c][o], 0, Clients)
            + Cardinality(Given(o)) + Cardinality(Asked("delete", o))
\* An instance lives as long as somebody uses it, died or not, and not longer:
\* its count is the number of handles that were given and have not come back
\* (NameServer_create, NameServer_delete).  No two instances share a name.
InstancesAreCounted ==
  /\ \A o \in Objects : IF o \in Live THEN Users(o) = object[o].refCount ELSE Users(o) = 0
  /\ \A o, p \in Live : object[o].name = object[p].name => o = p

\* Every command that waits in LAD's fifo finds the object and the entry it
\* names (the pointers LAD gave the clients are used unchecked).
PointersAreLive ==
  \A k \in DOMAIN fifo :
    /\ fifo[k].op \in {"delete", "add", "get", "getLocal", "remove", "removeEntry"} => fifo[k].obj \in Live
    /\ fifo[k].op = "removeEntry" => fifo[k].entry \in Listed(fifo[k].obj)

\* What has been added to an instance and not removed.
There(o, n) ==
  {e \in Entries : /\ entry[e].name = n
                   /\ \/ \E c \in Clients : <<o, e>> \in mine[c]
                      \/ \E c \in Clients : /\ rsp[c].op = "add"
                                            /\ rsp[c].obj = o /\ rsp[c].entry = e}
\* A name that is in the table is found, and found to be its own
\* (NameServer.h: "gets the value portion of a name/value pair").
LookupFindsOwn ==
  \A o \in Live, n \in Names :
    LET e == GetLocal(o, n)
    IN IF e = Null THEN There(o, n) = {} ELSE entry[e].name = n
\* Each entry is on one list, and the count is the list's length.
ListsAreCounted ==
  \A o \in Live :
    /\ object[o].count = Len(object[o].nameList) /\ IsInjective(object[o].nameList)
    /\ \A e \in Listed(o) : entry[e] # NoEntry
    /\ \A p \in Live \ {o} : Listed(o) \cap Listed(p) = {}

\* The daemon's tables and what its clients hold agree.
TableIsSound == InstancesAreCounted /\ PointersAreLive /\ LookupFindsOwn /\ ListsAreCounted
=============================================================================
